# Formal models of moonlight-web (browser client, web server, streamer)

This directory holds TLA+ models of the stateful parts of the repository, the
TLC runs that check them on small instances, and proofs, checked by TLAPS, of
the properties that matter most for every value of the constants. Paths below
are relative to `src/`, the repository.

To check a run: `tlc -config <run>.cfg <module>.tla`; to check the proofs:
`tlapm <name>Proofs.tla`.

## 1. The system

Three programs cooperate in one streaming session.

* The **browser** (`web/`) opens a web socket to the server, negotiates a WebRTC
  connection over it (or falls back to the web socket itself), sends input and
  shows video and audio.
* The **web server** (`src/`) authenticates, keeps users and hosts, spawns one
  streamer process per session and relays the browser's messages to it over its
  standard input and output (`common/src/ipc.rs`).
* The **streamer** (`streamer/`) owns the transport to the browser and the
  Moonlight connection to the game host.

### Components

| Component | Code | State | Operations | What is hard | Modules |
|---|---|---|---|---|---|
| Video frame queue | `streamer/src/transport/webrtc/{sender,video}.rs` | `queue`, `needs_idr`, `Notify` | `send_decode_unit`, `send_samples`, `clear_queue`, `sample_sender` | bounded queue between a blocking thread and a task; lost wake-ups; silent loss | `FrameQueue` |
| Offer/answer signaling | `web/stream/transport/webrtc.ts`, `streamer/src/transport/webrtc/mod.rs` | `isNegotiating`, `syncStarted`, `connectedOnce`, `signalingState` of both peers, restart counters | `onNegotiationNeeded`, `handleRemoteDescription`, `scheduleIceRestart`, `send_offer`, `on_ws_message` | handlers nobody awaits, both sides offering, several attempts on one streamer peer | `Signaling` |
| ICE candidates | `web/stream/transport/webrtc.ts` | buffers of both directions, the relay window, the path's score | `onIceCandidate`, `addIceCandidate`, `flushDelayedRelayCandidates`, the bias | candidates before descriptions, deadlines extended without timers, caps | `Candidates` |
| Streamer session | `streamer/src/main.rs` | `stream`, `transport_sender`, `timeout_terminate_request`, `is_terminating`, `terminate` | `set_transport`, `on_ipc_message`, `start_stream`, `request_terminate`, `stop`, `main` | a dozen tasks, locks held over bounded sends, time-outs racing restarts | `StreamConnection`, `StreamerProcess` |
| Server stream bridge | `src/api/stream.rs`, `common/src/ipc.rs` | the child process, its two queues, `warned_closed` | `start_host`, the relay, Stop, ten seconds, kill | the browser, the process and either queue may end at any time | `StreamBridge`, `StreamLifecycle`, `StreamerProcess` |
| Connection plan, stream page | `web/stream/index.ts`, `web/stream.ts` | the transport, the attempts, pipelines, loading screen, recovery overlay | `startConnection`, `tryWebRTCTransport`, `tryWebSocketTransport`, `onMessage`, `restartStreamWithNewSettings` | an await whose handlers are not installed yet; a replaced stream that is still heard | `ConnectPlan`, `Viewer` |
| Keyboard | `web/stream/input.ts`, `web/stream.ts`, `web/virtual_controller_overlay.ts`, `streamer/src/main.rs` | `pressedKeys` in the browser, `pressed_keys` in the streamer | key events, reset, watchdog, buttons and key stick, release | swallowed key-ups, asynchronous clipboard, packets queued before the channel opens, releases that fail half-way | `Keyboard` |
| Pointer, touch, gamepads | `web/stream/input.ts`, `web/stream/gamepad.ts`, `web/stream.ts` | the adaptive lock, the primary touch, slots, rumbles | lock requests and exits, gestures, pads, overlay | several requests unanswered, timers of earlier gestures, lossy state channels | `PointerLock`, `Touch`, `Gamepads`, `Input` |
| Widgets of the pages | `web/stream.ts`, `web/screen_keyboard.ts`, `web/component/{sidebar,modal}` | buttons, side bar, on-screen keyboard, the Escape hold, the modal overlay | press, drag, click, remount; show and hide; hold; `showModal` | a click after each press, timers and listeners of what was shown before, two modals at once | `Controls`, `Sidebar`, `ScreenKeyboard`, `EscapeHold`, `Modals`, `Page` |
| Bitrate control | `web/component/realtime_bitrate_hud.ts`, `web/stream.ts` | committed and pending rate, editor, apply button | choose, edit, apply, refresh | an await between storing and committing; settings that change meanwhile | `BitrateHud` |
| Renderers | `web/stream/video/{canvas_frame,canvas,video_element}.ts`, `web/stream/transport/webrtc.ts` | the current frame, buffers, textures, the element's track | submit, animation frame, draw, `setTrack`, cleanup | frames that must be closed once, sizes that change before a draw, a track before its listener | `Renderers` |
| Video over the web socket | `streamer/src/transport/web_socket/mod.rs`, `web/stream/video/*` | set-up, buffered units, decoder, source buffers | packets, depacketizer, translator, submit, poll | units before the set-up, decoders that fall behind, key frames requested and answered late | `VideoWire`, `Player` |
| File transfer | `web/stream/index.ts`, `web/stream.ts`, `src/api/stream.rs` | requests, one progress circle, the target paths | drop, paste, pick; `unique_target_path`, write | overlapping transfers; two uploads of one name | `Transfer` |
| Users, hosts, storage, HTTP API | `src/app`, `src/api` | maps of users and hosts, sessions, the file | login, administration, hosts, pairing; the writer task | handlers cut at awaits, a snapshot taken while entries change, crash between writes | `JsonStorage`, `Server` |
| RTP payloaders, human JSON, UI layout, lists, messages, vendored code | | | | | none (section 6) |

How they interact: messages through two FIFO relays (browser, server, streamer),
shared `transport_sender`, `stream` and `timeout_terminate_request` inside the
streamer, callbacks of the peer connections on both ends, and timers everywhere.
`PROJECT.json` lists each hazard at its line together with the property that
covers it, or the reason none does.

What makes each component correct:

* frame queue: nothing stale is sent before an IDR frame, latency is bounded, a
  lost frame is always followed by an IDR frame, a frame is never stranded;
* signaling: the negotiation flag never outlives its negotiation, neither peer is
  left half open;
* candidates: none is lost or doubled by a buffer, a window or a flush, what the loops
  over the streamer's lose or repeat is known, and the window that keeps relayed ones
  back ends;
* streamer session: the server hears of every stop before the process exits, a
  lost transport ends the session unless replaced, nothing of a replaced
  transport stays behind;
* bridge: no process outlives its session, and none its browser;
* page: every end of a transport reaches the plan, and the loading screen ends;
* keyboard: no key stays down at the host after a release or a reset;
* pointer, touch, gamepads: capture, timer, overlay and cursor agree; a drag keeps
  its button; the host holds nothing of a controller that is gone, and no
  controller that leaves silences another;
* widgets: a press toggles once, what is shown has the listener that closes it, a
  repeat or a hold ends with what began it, a modal on the screen is the one whose
  answer is awaited;
* bitrate control: it shows what is stored, and offers what is pending;
* renderers: every `VideoFrame` but the current one is closed, planes fit the
  textures they are written into, the element plays the last track;
* player: a decoder gets no unit without the one it refers to, and a picture
  always returns;
* transfer: no file that was there is replaced, and the circle tells the truth;
* server: an acknowledged change reaches the file, and a deleted user is out.

## 2. The modules

| Module | Models | Extends, instantiates |
|---|---|---|
| `FrameQueue` | the outgoing video path of one WebRTC track | |
| `Signaling` | browser and streamer negotiating over the web socket | |
| `Candidates` | the candidates of both ends in the browser | |
| `StreamConnection` | the session in the streamer process | implements `StreamerProcess` |
| `StreamerProcess` | what the server may rely on of a process (abstract) | |
| `StreamBridge` | one stream in the server | implements `StreamLifecycle`, relies on `StreamerProcess` |
| `StreamLifecycle` | what the server promises of a stream (abstract) | |
| `ConnectPlan` | a `Stream` object of the page | |
| `Viewer` | the page over its streams | `ConnectPlan` |
| `Keyboard` | the keys: user, page, channel, streamer, host | |
| `PointerLock`, `Touch`, `Gamepads` | one input device each | |
| `Input` | the three on one page and one `StreamInput` | all three |
| `Sidebar`, `ScreenKeyboard` | a widget each | |
| `Controls` | the floating buttons, which drive both | `Sidebar`, `ScreenKeyboard` |
| `EscapeHold`, `Modals`, `BitrateHud`, `Renderers` | a part of the page each | |
| `Page` | all of them on one page | `Input`, `Controls`, `EscapeHold`, `Modals`, `BitrateHud`, `Renderers` |
| `VideoWire` | packets, NAL units and chunks as pure operators | |
| `Player` | streamer, wire, pipeline and decoders | `VideoWire` |
| `Transfer` | requests, circle, handlers and files of a directory | |
| `JsonStorage` | entries, sessions and the writer task | |
| `Server` | the HTTP handlers | `JsonStorage` |
| `FrameQueueProofs`, `SignalingProofs`, `KeyboardProofs`, `StreamConnectionProofs`, `PageProofs`, `TransferProofs` | theorems | the module they are named after, `TLAPS` |
| `BrowserProofs` | theorems about the browser's connection and its picture | `Viewer`, `Candidates`, `Player`, `TLAPS` |
| `WebServerProofs` | theorems about the server | `StreamBridge`, `Server`, `TLAPS` |
| `MC*` | the instances for TLC | the module they are named after |

Names follow the code (`needsIdr` for `needs_idr`, `OnNegotiationNeeded` for
`onNegotiationNeeded`); the "map" of `PROJECT.json` gives the lines of every
definition. Definitions whose comment begins with "Mutant:" are plausible bugs:
substituted for the definition that follows them, they break the property named
in `PROJECT.json`, which shows that the property depends on that code.

### FrameQueue

`send_decode_unit` is cut where other tasks can get between its steps: the
`clear_queue(false)` before an IDR frame (`SubmitIdr`), the push with its
`notify_waiters` (`PushIdr`, `PushDelta`), a rejected push (`RejectDelta`), the
`clear_queue(true)` after it (`ClearAll`), `needs_idr.store` (`StoreNeedsIdr`),
and the weak exchange that turns the flag into `DecodeResult::NeedIdr`
(`ReturnNeedIdr`, or `ReturnOk`, also when the exchange fails spuriously). The
loop of `sample_sender` is cut at its upgrade, its locked pop, the gap between
releasing the mutex and `notified()`, and the write. A frame is a pair
(important, follows): whether it is an IDR frame, and whether the frame before it
went into the queue. RTP sequence numbers are given by the writer, so the browser
cannot see a frame lost in the queue; what it can see (a damaged frame, an
undecodable start) it reports with a PLI, which is `PictureLoss`. `retain` is
modelled by what it returns. Audio uses the same queue without IDR logic.
Abstracted: packetization, which either succeeds or damages the frame. A
`TrackLocalSender` is dropped between two frames because the code holds the
transport while it sends one.

### Signaling

The browser's handlers are async functions nobody awaits, so up to any number of
them are parked on the operations chain of the `RTCPeerConnection`, which W3C
specifies to run one operation at a time. `chain` is that queue, each entry named
by the handler waiting for it; an action is the completion of its head and the
rest of its handler up to the next await. `SetLocalDescription` includes the
signaling state event (which resets `isNegotiating`) and the send that follows.
The two directions of the web socket are FIFO queues. On the streamer the
`transport_sender` mutex makes a handler atomic. `NextAttempt` is the connection
plan giving up one transport and creating the next while the streamer keeps its
peer; messages of the old attempt remain in flight. A call of a peer may fail
where the code catches the error: a buffered candidate inside
`handleRemoteDescription` (`DequeueFails`) and the offers of the streamer
(`SendOffer`); `failed` remembers it for the properties that cannot hold then.
The browser's reply to the sync message is not modelled: it never sends
`SyncReady`, and its negotiation is started by the 260 ms timer.

### Candidates

The browser's handling of candidates, to which the negotiation of `Signaling` is
two events: it starts (`SyncStart`), and it brings the streamer's description
(`Describe`, for the first description and those of later negotiations). A candidate is
a model value of one of three types for each end. Its
way: filters and caps (`Unwanted`), the wait for the synchronized start
(`bufferedLocal`) or for the description (`iceCandidates`), and for relayed ones
the window in which a direct path is tried (`blocked`, `delayedLocal`,
`delayedRemote`). `Flush` is `flushDelayedRelayCandidates` with its three cases:
connected (everything is dropped), no description yet (the remote ones go back to
the other buffer, the local ones stay), and the normal one. The timer of the
window knows only the deadline it was set for (`unblockTimer`), while
`logSelectedCandidatePairDetails` may extend or end the window (`Sample`, with the
bias by the score of the path as an operator of its own). `dropped` remembers
what the code leaves out on purpose, for `Conserved`.

`addIceCandidate` and `handleRemoteDescription` run `tryDequeueIceCandidates`, a loop
that awaits the browser for every buffered candidate and empties the buffer only at
its end. The model cuts it at each await: `BeginDequeue` is a call up to its first,
`at` the place each call (`Callers`) has reached, `awaited` what it waits for, and
`BrowserTakes` and `BrowserRefuses` are the two answers, each with the call's next
step up to its next await. Like the code's iterator, a loop reads the buffer as it is
by then, so that the loops of several calls share it. `FlushGoesOn` is the loop of a
flush, which goes on after a refusal. `applied`, `refused`, `repeated`, `failed` and
`overlapped` are histories. That a description which throws on a bad candidate is not
answered is `DequeueFails` in `Signaling`.

### StreamConnection and StreamerProcess

The tasks are the IPC loop, an event loop per transport, a task per `StartStream`,
a timer per `request_terminate`, the Moonlight threads, `stop()` in whichever task
called it, and `main`. `lock` is the holder of `transport_sender`, a tokio mutex
that is held over sends to the bounded event channel (20 slots) of the transport.
`stop()` takes the stream, then the lock, tells the server, then notifies. A
timer holds the mutex of `timeout_terminate_request` while it runs `stop()`, so
whoever calls `request_terminate` or `clear_terminate_request` waits for it.
Events are abstracted to what the loop does with them. A loop ends with at most one
`request_terminate`, so the loop's number names its request and its timer; the age
test of the timer (10 s tested 10.2 s later) is "the last request is this
timer's". `gone` are the transports whose senders are dropped, after which their
loop drains its channel and ends. Not modelled: the bitrate POST and the ping loop
of the web socket transport, which also pushes events but holds no lock.

`StreamerProcess` is what a server sees of it: serving, told, exited.
`KeepsProcess` is the refinement (main exits only after the server was told,
once), and its map is the last definition of the module.

### StreamBridge and StreamLifecycle

`start_host` becomes two tasks: the handler (`Handler`: Init, the lookups and their
refusals, the spawn, the reader of the web socket) and the relay (`Relay`: reader
of the process, Stop when the browser is gone, the ten seconds, the kill). Each
direction of the IPC (a bounded channel, the task that drains it, the pipe) is one
queue with room for `Room` messages. A send towards the process waits for room; a
send to a process that is gone fails, which the code ignores or ends on. The
process is what the start of `streamer/src/main.rs` makes of it, until it serves;
then it talks, replies, tells or dies as `StreamerProcess` allows. A message may make
it stream over the web socket transport, or end that (`streaming`): its video and audio
then come through the relay. `deaf` is a process that met a Stop before its Init, where
`main` ignores it.

`StreamLifecycle` says in six actions what the server promises: a session is
opened, refused or served by one process; a process that ends, ends the session;
an ended session leaves neither process nor socket. `KeepsLifecycle` is the
refinement with its liveness. The two refinements meet in `StreamerProcess`: it is
what `StreamConnection` is proved to keep and what `StreamBridge` is proved to
rely on.

### ConnectPlan and Viewer

`ConnectPlan` is one `Stream`: the web socket, what the server and streamer behind
it send (`far`, as `StreamLifecycle` promises it), and the plan of
`startConnection`, whose awaits are the values of `plan`: an attempt, its
`close()`, the pipelines, and the wait for the transport's end. `NextRoute` is the
order of attempts (direct twice, relay only, web socket) for each setting.
`Viewer` is the page over a sequence of such streams: the loading screen, the
recovery overlay, a restart that awaits `stop()` and leaves the listeners of the
old stream in place, and what each message does to them (`Fatal`, `OnComplete`).
`deaf` is a transport that closed while the pipelines were built and the handler
of the attempt was already done; `Silent` is a stream that waits for a socket that
is gone, about which the page is never told because `shouldEmitLog` drops the line.

### Keyboard

Sets of keys: what the user holds on the keyboard (`held`), on the virtual
controller's buttons (`touched`) and with its stick (`stick`), what the page
believes (`pressedKeys`, which knows nothing of the overlay and of the sidebar's
taps), what the streamer would release (`pressed_keys`), what the host has down
(`host`). A handler of the page is one action; the packets it sends go through the
keyboard channel, reliable and ordered, whose `sendQueue` holds what was sent
before it opened and only goes out with the next send. `raiseAllKeys` sends one
packet per key; here it is one packet with a set of keys, which the streamer
handles key by key. `on_packet` is cut at the packet (`OnPacket`) and at each key
(`OnKey`, `ReleaseKey`), where a send may fail. An insert and its send are one step
because both happen under the stream's read lock and the other drains meet no
stream or end the session; the exception is `set_transport` under a running stream,
which the page never causes.

`focus` has the four cases the page distinguishes: the input element, the input
element while a modal, the sidebar or a lost pointer lock covers it (keys are
forwarded, but the watchdog resets them), the overlay's text field (its events are
ignored without a reset), and anything else (an event resets the keys). `quiet`
stands for the five seconds without a key event. `lost` remembers the keys whose
release could not be sent: `release_all_pressed_keys` drains first, and its `?`
abandons the rest, which no later reset can repeat. The host's keys end with its
session, which is outside this repository.

The stick of the overlay steers keys in up to two directions at a time (`Steered`:
a finger that moves releases the keys of the directions it left and presses the new
ones), or an axis of the virtual pad ("analog"). All sticks share one `stickDrag`,
so a finger on a second stick takes it from the first. `stale` remembers the keys
of buttons that were rendered anew under a finger and of sticks that lost
`stickDrag`: the properties about keys given up name them as their exception, since
those keys do stay down at the host. Left out: the copy shortcut (it differs from
paste only in not reading the clipboard), text packets, key codes without a virtual
key.

### PointerLock, Touch, Gamepads, Input

`PointerLock` is the adaptive lock: messages about the host's cursor
(`HostCursor`), the click and the overlay that capture, the timer of 250 ms that
releases, and the lock requests of four callers with their answers, refusals and
fallbacks in any order; the browser's events are its environment. `Touch` is the
gesture state of `StreamInput`: the tracker, the primary touch, the action it
became, the taps that wait for a second one, and the host's left button; positions
and times are chosen freely, so every outcome of a distance test is possible.
`Gamepads` is the page's slots with the pads that come and go, the overlay's
virtual pad, an ordered channel for controllers and a lossy, reordering one per
slot for states, and the streamer's `active_gamepads`; the host's rumbles come back
and are played by one interval, which a controller that leaves may end (`rumble`
is the entry of the pad with index 0, the only one the code ever makes, so
`FirstPad` is a constant). `Input` composes the three: setting the mouse mode
reaches `StreamInput.setConfig`, which forgets the touches, and a restart replaces
the input.

### Controls, Sidebar, ScreenKeyboard, EscapeHold

A pointer goes down on a button, may move it, and ends, is cancelled or is lost;
then comes its click, or none. `toggled` and `moved` remember what a press did, for
the property; the 500 ms in which a click is withheld are `quiet`, which ends at
any time but not while a click on the button is due. `Remount` is the side
bar being built anew when the full screen or the lock changes. `Sidebar` has the
listener of outside presses and the timers that install it, `ScreenKeyboard` the
two timers of the backspace key and the rows that may be replaced under a finger
(`orphan`). `EscapeHold` is the loop of animation frames and the flicker intervals
of a hold; its key-up may be lost.

### Modals

Calls of `showModal` are numbered; `promise` is how far each has got, `jobs` is
the microtask queue in which the callers go on. `Show` aborts what is on, which
resolves a settings panel and leaves a form, a message or a pairing waiting for
ever. `took` are the calls that replaced an open settings panel: `Continue` of the
panel then hides the overlay and drops the controller of the new one, so these are
the exceptions of `ModalsAgree`.

### BitrateHud

`Rates` are the steps of the control, `Tiers` the greatest of each profile; `Snap` is
`snapBitrateMbpsForTier`. An apply is cut at its await (`Apply`, `Applied`,
`ApplyFails`); `astray` remembers that the settings changed in the course of the
last apply, or that its restart failed.

### Renderers

Three renderers: a canvas for `VideoFrame`s (`SubmitFrame`,
`DrawsFrame`), a canvas for planes (`SubmitPlanes`, `Uploads`, `GlFails`), both drawn at
once or in the next animation frame, and the video element (`OnTrack`,
`AddTrackListener`, `SetTrack`, `PlayOrPause`). A size is a number, that of the area.

### Page

`in_use` chooses the parts a behaviour exercises; the steps that join two parts are
in `Page` itself: a modal that opens or closes closes the side bar
(`ModalChanges`), buttons and side bar show the keyboard, the end of the full screen
cancels a hold and remounts the side bar (`ScreenChanges`). The theorems hold for
every set of parts, all of them at once included.

### VideoWire and Player

`VideoWire` computes on short sequences of bytes what the streamer writes
(`put_u8_array`, which writes nothing when it does not fit, a header of five bytes),
what the browser's channel and depacketizer read, and what the translator makes of
it: NAL units, a chunk of slices, and whether it configures the decoder. `Player`
uses these operators, not identities: units go over `wire` as NAL units, and what
the decoder gets is the translated packet. The decoder's own state is what its
specification promises (a queue, an error); the pipeline is the first of the code's
list that the browser's features support, and the five sets of features in the
configuration lead to each of the decoders. `decodable` becomes FALSE when a
decoder is given a unit without the one it refers to, a chunk that is not what was
sent, or when a source buffer is given frames out of order. OpenH264 drops the units
that come before its module is loaded; `missed` remembers that a key frame was among
them, after which it is given what refers to it, the one exception of `Decodable`.
`UnitsArrive` is an
assumption without constants: what `VideoWire` makes of the two kinds of units keeps
the frame and whether it is a key. TLC computes it when it starts; the proofs about
`Player` use this fact in place of the bytes.

### Transfer

Three ways to send a file (dropped: all at once; pasted: one after the other;
picked: one, with its button disabled), their requests, and the one circle they
share. On the server each request looks for a free name (`Search`), creates the
file (`Create`, which empties one that came to be since) and writes chunk by chunk
at its own place. Files of other names or directories never meet, so all files here
have one name. `before` remembers what was there when the request arrived.

### JsonStorage and Server

`JsonStorage` is the maps in memory, the sessions, the channel of one slot that
asks for a write, the writer cut where other tasks run (woken, locked, one entry
copied at a time, file emptied, file written), failed writes and crashes. A read
lock on the maps keeps inserts and removals out while the writer copies, but not
modifications of an entry. `Server` is the handlers of `src/api` over it, cut at
each await: login with the first-login administrator and created users, the
forwarded header, the administrator's three operations, the password, and the five
operations on hosts, with a network that may refuse. A request carries what it read
before. Ids are chosen among the absent ones, as random ones are.

## 3. The runs

| Run | Instance | Shows |
|---|---|---|
| `FrameQueue_loss` | queue of 3, 4 IDR frames waiting, teardown at any frame boundary | `QueueShape`: IDR frames first, and no delta frame behind more than QueueSize frames although the length is tested with `>`; `GapsRepaired`: a loss is never forgotten; `NoFrameStranded`: `notify_waiters` stores no permit, yet a waiting frame is looked at; `SilentLossRepaired` unless the queue overflows again |
| `Signaling_order` | 2 attempts, 2 tracks, 1 restart, failing calls | `FlagReleased`, `NoHalfOpen`, `ComesToRest` |
| `Signaling_restart` | 1 attempt, 1 restart | violation: an ICE restart after the connection was up never makes an offer |
| `Candidates_order` | a host and a relayed candidate of the browser, a reflexive and a relayed one of the streamer, two descriptions; a buffer of two; every answer of the browser; one suppression, one loss of the connection | `Conserved`: every candidate of the browser is sent once, or waits in one place, or was left out on purpose; loops over the streamer's that overlap or end with a refusal lose only the candidates of calls that failed, and give one twice only after a refusal or an overlap; `WaitingEnds`: direct ones are sent, and the window ends whatever the scores |
| `StreamConnection_stop` | channel of 1, 3 messages of the browser | `StopReported`, `TimeoutEnds`, `ReplacedLoopsEnd`; `KeepsProcess`: it implements `StreamerProcess` |
| `StreamBridge_end` | queues of 2, 4 messages of the browser | `KeepsLifecycle`: it implements `StreamLifecycle`, liveness included; `NoOrphanedStreamer`: a process whose browser left ends, unless it stays quiet, in a jam, or when Stop overtook Init |
| `Viewer_plan` | two streams (one restart), every transport setting | `EveryEndIsHeard`, `LoadingEnds`, each with its one exception (`deaf`, `Silent`) |
| `Keyboard_ghost` | 4 events of the user, a modifier with its two codes and the paste key, which also has a button and a tap, a stick of two keys, a send while one packet is in flight | `HostKeysAreTracked`; `EveryReleaseIsUnderWay`: no order of events, resets, pastes, taps and drags leaves the streamer with a key only it believes in; `NoGhostKeys`: the host's keys come up |
| `Page_uses` | eleven uses of one page: a mouse; three fingers and two waiting taps; a pad beside the virtual one on two slots; the buttons with a mouse and a finger; the keyboard and side bar; Escape; three modals of a stream, or of the list of hosts; three rates and two tiers; canvas with three frames and two sizes; element with two tracks | `LockAgrees`, `DragHolds`, `ControllersAgree`; `PressesToggleOnce`; `WidgetsAgree`; `ModalsAgree`; `BitrateAgrees`; `RenderersAgree` |
| `Player_decode` | five browsers; behind at 3 units, 3 drops, 5 units on their way, stamps modulo 3 | `Decodable`, except for OpenH264 once it missed a key frame; `PictureReturns` |
| `Transfer_names` | two files of one name in two chunks, names 0 and 1 free or taken | `KeepsFiles`, `CircleIsTrue` |
| `Server_accounts` | two requests, two users, a host, one name, one session, three events of requests, failures and crashes | `ChangesAreDue`, `DiskCatchesUp`, `DeletedUsersKeepOut` |

`FrameQueue_loss`, `Signaling_order`, `StreamConnection_stop`, `Keyboard_ghost` and
`Page_uses` also check their `TypeOK`. The types of `Viewer`, `Candidates`, `Player`,
`StreamBridge` and `Server` are proved instead (section 4), which says more than a
run: neither queue of the bridge passes its room, no buffer of candidates its cap.

Why the bounds suffice. A queue of 3 has every boundary of the length test (room,
exactly full, one above), and four waiting IDR frames are more than the queue's
size, so the bypass of important frames happens; the queue needs no other bound,
since a delta frame is only accepted below its size. Two attempts are what it
takes for a message of an abandoned attempt to meet a new one, two tracks for two
offers back to back, one restart for a restart during a negotiation; the FIFOs of
`Signaling` are bounded by these counts alone. In `Candidates` a loop over a
buffer of two has a candidate before and one after each await, and a second
description, or a candidate that comes late, begins another loop meanwhile. The
buffers do not overflow in this instance: that one which is full leaves out its oldest
candidate, and no other, is proved for every size (`CandidatesConserved`). Three messages of the browser are the
sequences transport, stream, stop packet, as well as transport, stream, replacing
transport; a channel of one slot fills at once, and what needs a full channel does
not depend on how many sends filled it. In `StreamBridge` a queue of two and four
messages fill both directions with a message to spare, which the jam needs. Two
streams are one restart, with which every effect of a replaced stream on its
successor happens; a third would only repeat it. Two keys of a modifier and one
shortcut key are what the swallowed key-up needs, two of them on a stick what a
diagonal needs. Three fingers are what the code distinguishes (one, two, three or
more); two slots make a gap that is refilled. Two pointers are what takes a button
away from another, two timers of the side bar and two flickers are one that is left
over beside the current one. Three modals are a panel, the one that replaces it, and
one after that; three rates are one below, at and above the lower tier; three frames are one
drawn, one current and one submitted. The page's parts meet in few steps, so a run
of each use reaches what they do to each other; that nothing else happens when all
are used at once is what the theorems add. Two of everything on the server are a
handler and the one that changes what it read, three events a session that is used
after its user was deleted, or two requests and a crash or a failed write.

What the exceptions name. `StopReported` and `ReplacedLoopsEnd` except `Jammed`, the
one deadlock of the streamer: a sender holds `transport_sender` while it waits for
room in a channel whose event loop runs `stop()` itself, or is about to call
`request_terminate` while the timer runs `stop()` under the mutex that call needs.
`NoOrphanedStreamer` excepts the same shape on the server (the relay waits for room
towards a process that waits for room towards the relay), `deaf`, and `Quiet`: a
process that reads on and says nothing, so that the relay never meets the closed
socket. Quiet is a process whose browser left before its `SetTransport` or
`StartStream`, which nothing ends, and one whose media goes over WebRTC, which the
time-out of its own transport ends (`TimeoutEnds` of `StreamConnection`). `Conserved`
names how candidates of the streamer go astray (`failed`, `repeated`), and from what.
That the properties hold with these exceptions shows that, of the behaviours modelled,
no other breaks them.

`ComesToRest` is claimed for one attempt and as long as the stream has added no
track. With more, every answer parked behind a rollback becomes, in the stable
state, a fresh offer that the streamer meets with an offer of its own, and the
crossing can repeat under every scheduling the code guarantees. It is listed as a
hazard. `NoHalfOpen` says what holds all the same: when the crossing does stop,
nobody is left waiting.

### Fairness

* `FrameQueue`: the decode thread and the task are scheduled; the host honours a
  request for an IDR frame (Moonlight's contract); a weak exchange does not fail
  for ever (strong fairness on `ReturnNeedIdr`); a browser that cannot decode
  keeps sending PLIs.
* `Signaling`: timers fire, the socket delivers, the peer connections finish their
  operations. Nothing is assumed of the network: connecting, ICE trouble and
  giving up an attempt may or may not happen.
* `Candidates`: the timers of the start and of the window fire, time passes, the
  promise after the start continues. Nothing is assumed of gathering, of the
  network, of the scores or of the browser's answers to `addIceCandidate`.
* `StreamConnection`: tasks and timers are run (weak fairness); the tokio mutex and
  the channels are first-come first-served, so a waiter that can be served again
  and again is served (strong fairness on the steps that take the lock or wait for
  room). Nothing is assumed of the browser, the host or the peer connection.
* `StreamBridge`: both tasks run; the network calls of the lookups end; the
  process goes on and stops when told to. A process that streams over the web socket
  sends video or audio again and again, or announces its end (strong fairness, since
  room for it comes and goes): the host's frames do not wait for the browser. Of any
  other process nothing is assumed, since it may have nothing to say: before
  `SetTransport` it waits, a web socket transport sends two packets for the round trip
  and waits for their answer or a `StartStream`
  (`streamer/src/transport/web_socket/mod.rs`), and a WebRTC peer sends its media past
  the server.
* `Viewer`: time-outs of attempts fire and awaits end; messages and a closed socket
  arrive in order; the host answers a start; a streamer without a transport, or
  told to stop, leaves. Nothing is assumed of connecting.
* `Keyboard`: the interval timer ticks, the streamer's task handles its packets, a
  session whose transport closed is stopped. The user's events are bounded, so
  five silent seconds do come; nothing is assumed of the clipboard, the connection
  or the sends to the host.
* `Player`: the host sends units, and a key frame when one is due (strong, since
  room for it comes and goes); sockets deliver, promises resolve, decoders decode
  or fail.
* `Transfer`: timers fire, and a request ends, with an answer or an error.
* `Server`: handlers run on, a network call ends, the writer's task and the session
  checker are scheduled. Nothing is assumed of crashes or of the disk.
* `Page` has no liveness and no fairness.

Deadlock checking is off where the system really stops: a parked writer after
teardown, two peers at rest, candidates all handled, an exited process, an ended
session, a page whose user has gone, transfers that are done, a server that cannot
start again, a page that has shown all its modals. It is on for `Player_decode`.

## 4. The proofs

TLC checks the instances above; the theorems hold for every value of the
constants under the assumptions of the modules: `QueueSize` any natural number
(also zero), any positive `IdrBound`, any `MaxTracks` and `MaxRestarts`, any keys
and modifiers with any number of events and packets, the attempts the browser's
plan can make (`Attempts` between 1 and 3), any positive `Capacity` and `Room`,
any number of messages, any finite sets of fingers and pads, any positive number of
slots, any pointers, modals, timers, rates, tiers, frames, sizes and tracks, any
number of streams and any settings of the transport, buffers of candidates of any
size, any browsers with any backlog and limits of a decoder, stamps counted modulo
any number above 1, any files, chunks and numbers of a name, and any users, hosts,
sessions, names and requests of the server.

| Theorem | Says | Argument |
|---|---|---|
| `FrameQueueProofs!TypeCorrect` | `[]TypeOK` | `IInv` |
| `FrameQueueProofs!QueueShapeHolds` | `[]QueueShape` | `IInv` |
| `FrameQueueProofs!GapsAreRepaired` | `[]GapsRepaired` | `IInv` and `GInv` |
| `SignalingProofs!TypeCorrect` | `[]TypeOK` | directly inductive |
| `SignalingProofs!FlagIsReleased` | `[]FlagReleased` | `HInv` |
| `SignalingProofs!NothingHalfOpen` | `[]NoHalfOpen` | `HInv` |
| `KeyboardProofs!TypeCorrect` | `[]TypeOK` | directly inductive |
| `KeyboardProofs!HostKeysTracked` | `[]HostKeysAreTracked` | `KInv` |
| `KeyboardProofs!GivenUpIsReleased` | `[]EveryReleaseIsUnderWay` | `KInv` |
| `StreamConnectionProofs!TypeCorrect` | `[]TypeOK`, no channel above its capacity | `TInv` |
| `StreamConnectionProofs!ProcessKept` | `KeepsProcess`: the session implements `StreamerProcess` | `ReportInv` |
| `WebServerProofs!TypeCorrect` | `[]TypeOK` of the bridge, neither queue above its room | directly inductive |
| `WebServerProofs!LifecycleKept` | every step is one of `StreamLifecycle` or none | `BInv` |
| `WebServerProofs!ProcessAssumed` | the process is any `StreamerProcess` | `BInv` |
| `WebServerProofs!ServerTyped` | `[]ServerTypeOK` | `ServerInv` |
| `WebServerProofs!ChangesAlwaysDue` | `[]ChangesAreDue` | `ServerInv` |
| `WebServerProofs!DeletedUsersAlwaysKeptOut` | `DeletedUsersKeepOut`, an action property | `ServerInv` |
| `BrowserProofs!TypeCorrect` | `[]TypeOK` of the page and its plans | `RestartHasRoom` |
| `BrowserProofs!EndsAreHeard` | `[]EveryEndIsHeard` | `VInv` |
| `BrowserProofs!CandidatesConserved` | `[]Conserved` | `CandidatesInv` |
| `BrowserProofs!CandidatesTyped` | `[]CandidatesTypeOK`, no buffer above its cap | `TypesInv` |
| `BrowserProofs!PlayerTyped` | `[]PlayerTypeOK` | `PlayerInv` |
| `BrowserProofs!DecodableAlways` | `[]Decodable` | `PlayerInv` |
| `PageProofs!TypesAlwaysOK` | `[]TypeOK` of all parts of the page | `PageInv` |
| `PageProofs!LockAlwaysAgrees` | `[]LockAgrees` | `LockInv` |
| `PageProofs!DragAlwaysHolds` | `[]DragHolds` | `TouchInv` |
| `PageProofs!ControllersAlwaysAgree` | `[]ControllersAgree` | `PadInv`, `RumbleInv` |
| `PageProofs!PressesAlwaysToggleOnce` | `[]PressesToggleOnce` | `ControlsInv` |
| `PageProofs!WidgetsAlwaysAgree` | `[]WidgetsAgree` | `ControlsInv`, `HoldInv` |
| `PageProofs!ModalsAlwaysAgree` | `[]ModalsAgree` | `ModalsInv` |
| `PageProofs!BitrateAlwaysAgrees` | `[]BitrateAgrees` | `BitrateInv` |
| `PageProofs!RenderersAlwaysAgree` | `[]RenderersAgree` | `RenderersInv` |
| `TransferProofs!FilesAreKept` | `[]KeepsFiles` | `TransferInv` |

* `IInv` adds `ClearedOfDeltas` to types and shape: between `clear_queue(false)`
  and the push of the IDR frame the queue holds no delta frame, because only
  `sample_sender`, which removes frames, runs in between. Without it the pushed
  frame could end up behind a delta frame.
* `GInv` adds `UnboundDecoder` to `GapsRepaired`: the decoder shows nothing before
  the track is bound. Without it an IDR frame swallowed by an unbound track could
  be the repair the decoder waits for. The step that pops a frame needs
  `IdrsFirst`: when an IDR frame is queued, the frame popped is one.
* `HInv` names what a waiting peer waits for. A browser with an unanswered offer
  waits for its offer, for an offer of the streamer or for a parked handler; a
  streamer with an unanswered offer waits for something in either FIFO or for a
  handler other than a rollback in the stable state, for such a rollback drops
  its offer. Only `NextAttempt` takes handlers away without a message, and then
  the new transport's synchronized start is still to come (`Abandoned`), which
  needs that no answer of the new attempt exists yet (`AnswersOfAttempt`). It was
  checked by TLC with three attempts before it was proved.
* `KInv` adds to the two properties that without a stream the streamer has no key
  in any set, and that before the channel opens nothing is in flight. The proof
  rests on three lemmas about `LastReleases`, the last packet that matters to a
  key: it survives appending what a handler sends (`Joined`), it moves to the
  streamer when the head is taken (`Headless`), and every handler of the page sends
  a release for each key it gives up (`PageSteps`). Two resets, a paste, a tap and
  a drag of the stick then need no case of their own: `SteerReleases` says that the
  keys a drag leaves are released by what it sends. No bound on keys or packets is
  used.
* `TInv` adds to the types of `StreamConnection` that the transports created and
  the messages left never exceed `MaxMessages`, and which message the IPC loop holds
  at each of its places (`MessagesCounted`), without which the number of a new
  transport could leave its range.
* `ReportInv` ties the place of `stop()` to what was reported: the server is told in
  one step of the one `stop()` there is, `main` is woken only after it, and exits
  only when woken.
* `BInv` relates the two tasks of the bridge: there is a relay exactly when there
  was a process, the handler's place says which, and the relay kills only with the
  socket closed. `LifecycleKept` is the safety part of `KeepsLifecycle`.
* `PageInv` is the conjunction of one invariant per part. Each part has a lemma for
  every action that changes it, and one that says which steps of the page those
  are; all other steps leave it alone.
  - `LockInv` and `DragHolds` are inductive with their types: every handler leaves
    timer, overlay and button as its own outcome demands, whatever came before.
  - `PadInv` says that a slot has one owner, that the overlay's slot is the one the
    input knows of, and that a page without a connection has no slots. The host's
    part is a lemma about the streamer's packets. A free slot is the least one,
    which exists (`Least`, by the well-foundedness of the naturals). `RumbleInv` adds
    the interval: whoever ends it has looked at every slot first.
  - `ControlsInv` follows a pointer from its press to its click: a press that moved
    still holds its button, which is being dragged, and the click of one that moved
    or toggled finds its button quiet.
  - `HoldInv` says that a loop that runs is that of the hold, and there is one.
  - `ModalsInv` adds the shape of `jobs`: at most one call is about to go on, and it
    finds its own controller, that of the call that replaced it, or none because
    the replaced one went on before it (`Goes`).
  - `BitrateInv` adds `AppliesStored`: while an apply is under way and nothing came
    in between, the rate it will commit is the one that is stored.
  - `RenderersInv` adds that the current frame is open and that the element has no
    track before it listens (`NoneBefore`), without which a track that came first
    could be forgotten by the listener that comes later.
* `CandidatesInv` says for each end where a candidate is. Gathered ones wait in
  exactly one of two buffers without being sent, or were dropped, or were sent once
  (`LocalInv`). Received ones wait in one of three queues or in their own call, were
  taken or refused, or are lost; only a buffered one may also have been taken or refused
  (`RemoteInv`). Each queue is injective, which appending with a cap, flushing and
  filtering preserve by lemmas of their own. `LoopInv` says where each call is: nothing
  enters the buffer any more once there is a description, so that a loop awaits what
  the buffer holds at its place and the browser took all before it, or another call
  emptied the buffer, after the browser took all of it. `NothingGiven`: before the
  description the browser is given nothing. `OnceInv`: until a refusal, what was taken
  is buffered only while a loop runs, and until loops overlap there is one loop at most
  and what it has still to give is new; from this follows the last part of `Conserved`,
  that without either no candidate is lost with its call or given twice. It was checked
  by TLC, with three candidates of the streamer, before it was proved. `TypesInv` adds
  the counts that bound the buffers.
* `PlayerInv` has a part for each of the two ways a unit is decoded. `Chained`: a
  decoder that takes a unit which is not a key frame was given the one before, else
  it waits for a key frame, or for its first configuration when there is a
  translator. `KeyFirst`: as long as OpenH264, which waits for nothing, has neither taken
  nor missed a key frame, the next unit is one. `SubmitAll` is recursive, over any number of units that waited for the
  set-up; no induction rule is used, but the least step at which a unit would find
  the decoder unchained (`LeastOf`), and that the recursion has a value at every step
  at all (`RunExists`). `InOrder`: what a source buffer has before it continues what
  it played and ends with the last time given, once it has taken an init segment; a
  new source buffer, which drops the segment being appended, is fed an init segment
  first or fails. It was checked by TLC on the run's instance before it was proved.
* `ServerInv` has five parts beside the types. `RequestsOK`: what a request carries
  at each place of its handler. `GoneInv`: a request whose user was gone when his
  role was read is one for a host, its user is still gone (a new user's random id of
  32 bits is taken for one that nothing refers to: `Fresh`), and only the removal of
  a host gets past the checks. `DownInv`: a server that is down has no
  requests. `WriteInv` is stronger than `ChangesAreDue`: while the writer is at work
  every entry is due, even one the file already holds, because the file is about to
  be emptied; without that the step that empties it could not be proved.
* `RestartHasRoom` says that a restart that stopped its stream has a number left for
  the next one, without which `stream` could leave its range.
* `VInv` adds `SocketIsTaken` to types and property: the web socket becomes a
  plan's transport without an attempt that could fail, so a plan that waits for an
  attempt is never one whose socket closed. `NextAttempt` and the loss of a transport
  share one lemma each (`RouteIsHeard`, `LossIsHeard`).
* `TransferInv` follows one request at a time: what was there before it is there
  still and is not its path (`Spared`), a path or a file is there from the place in
  the handler that creates it (`Orderly`), and the file of a request without a rival
  is exactly what that request wrote (`Stored`). The property speaks only of
  requests that were answered; `Stored` is what makes it inductive.

Only model-checked: everything with liveness or fairness (`NoFrameStranded`,
`SilentLossRepaired`, `ComesToRest`, `StopReported`, `TimeoutEnds`,
`ReplacedLoopsEnd`, `NoGhostKeys`, `NoOrphanedStreamer`, the liveness of
`KeepsLifecycle`, `LoadingEnds`, `WaitingEnds`, `PictureReturns`, `CircleIsTrue`,
`DiskCatchesUp`), since the prover has no rules for fairness and ENABLED. Every
safety invariant and every action property a run checks is stated by a theorem. What
`VideoWire` computes from a sequence of bytes is not proved but computed: there are
two kinds of units, and `UnitsArrive` is the fact about them that TLC evaluates. The
modules avoid RECURSIVE operators, which the prover cannot use, for recursive
functions and the folds of the community modules.

## 5. What the models say about the code

The properties hold, with the exceptions they name. On the way the following
behaviours came up. Those with a run or an exception of a property are marked; the
others are steps of the models, or were read while modelling.

Browser and streamer:

* An ICE restart after the first connection never makes an offer (run
  `Signaling_restart`). `handleRemoteDescription` does not look at `connectedOnce`
  and applies late offers, which
  `DetailDesign/stable_signaling_negotiation_ae4b68f1.plan.md:96` says are ignored.
  An offer that arrives while one is handled is dropped with its track
  (`web/stream/transport/webrtc.ts:631`).
* The browser never sends `SyncReady`, so the first negotiation always crosses in
  spite of the sync messages (`docs/webrtc-connection-establishment.md:24`).
* A candidate that the browser refuses ends the loop over the buffer and stays in it, in
  front of the others: every later `addIceCandidate` throws on it before its own
  candidate is given to the browser and loses it, and every later description goes
  unanswered (`failed` of `Candidates`, `web/stream/transport/webrtc.ts:874`). A
  candidate that arrives while the loop runs has the browser given the buffered ones
  again (`overlapped`).
* Local relayed candidates that a flush found before the description have no timer
  any more and may stay in their buffer, although TURN "must remain a recovery
  hatch" (`web/stream/transport/webrtc.ts:1217`); the hatch itself opens the window
  and does not flush.
* `stop()` may wait for a lock whose holder waits for the loop that runs `stop()`
  (`Jammed`). The wake-up of `main` is lost when it comes before `main` waits
  (`streamer/src/main.rs:1284`); the server's kill bounds it. `start_stream` spawns
  the stop of the old stream instead of waiting for it, as its comment at
  `streamer/src/main.rs:1021` says. `sample_sender` says that it stops and goes
  round its loop when its queue is gone (`sender.rs:184`).
* After the paste shortcut the key-up of the modifier's other key is swallowed
  although its key-down was sent (the watchdog repairs it). A button rendered anew
  under a finger, or a stick that loses `stickDrag` to another, leaves its key down
  (`stale`).
* A lock granted after the cursor had come back is never released (`late`); a
  failed request leaves the mode "relative".
* A long drag that returns to where it began leaves the left button down; setting
  the configuration during a drag forgets the button (`web/stream/input.ts:682`).
* The only rumble entry ever made is that of the pad with index 0
  (`input.ts:943`): a rumble for another throws, and every pad that connects
  silences pad 0. The interval of an input that a restart replaced keeps playing its
  last rumble. The table of pads grows past the 16 slots of the host.
* A pad that fills a gap is announced with the number of the last slot
  (`input.ts:969`); a state that was dropped counts as sent; a hidden overlay frees
  its slot and tells the host, a lost input context frees it and does not.
* The header of a video packet has room for five bytes: the time stamp is never
  written, and the browser reads the first data byte as its end. A stamp that does
  not grow is why the media source replaces them. A worker pipeline is never asked
  for key frames, OpenH264 never asks for one. It drops what comes before its module is
  loaded, the first key frame too, and then decodes the units that refer to it
  (`missed`, `web/stream/video/openh264_decoder_pipe.ts:86`).
* A transport that closes while the pipelines are built is never noticed (`deaf`,
  `web/stream/index.ts:1059`). The lines about a lost socket are dropped by
  `shouldEmitLog` and the loading screen stays (`Silent`). A stream without an audio
  player throws although "we should allow streaming without audio"
  (`index.ts:408`). A restart removes no listener and closes no socket.

The page:

* The keyboard's button cannot hide the keyboard by a pointer, since the press on it
  already hid it and the toggle shows it again (`web/stream.ts:1036`); for the same
  reason the settings button opens the side bar again that a mouse's press on it
  closed. The side bar's own button is never displayed.
* A remount takes the keyboard out of the page without `hide()`; `hide()` resets
  `symbolMode` and leaves the rows of symbols.
* Escape whose key-up is lost, to a text field or to a window without focus, leaves
  the full screen after its 750 ms.
* A modal shown over an open settings panel is hidden at once by the end of the
  panel's call, and its own call throws (`took`): so is the second settings panel,
  opened from the recovery overlay. A form that is replaced leaves its caller
  waiting for ever.
* The bitrate control is enabled by the end of a restart, before the channel is
  ready, which `docs/realtime-bitrate-hud.md` has it wait for. Escape in its editor
  restores the number as it was when the editor opened, even if the tier has shrunk
  since. `ConnectionInfoModal` (`web/stream.ts:3261`) is never constructed.
* The loop of animation frames of a renderer is never cancelled, so each restart adds
  one; a draw after the cleanup of the planes makes their textures anew.

Server:

* A Stop that overtakes Init is lost (`deaf` of `StreamBridge`), the relay and the
  process may each wait for room in the other's queue (`Jammed`), a closed socket is
  noticed only when the process talks, and a line that cannot be decoded ends its
  reader. A browser that leaves after Init and before its `SetTransport` leaves a
  process that says nothing and lives on (`Quiet`, `src/api/stream.rs:346`).
* `fs::write` is not atomic: a crash leaves a file the next start refuses. A failed
  write is only logged.
* Two requests can create two users of one name
  (`src/app/storage/json/mod.rs:274`, against "No duplicate names are allowed!",
  `src/app/storage/mod.rs:111`). Sessions outlive their user and a changed password;
  a deleted user's session can still delete the user's own hosts, and one that another
  request gave to somebody else between `Host::delete`'s check and the removal
  (`src/app/host.rs:512`): the proof of `DeletedUsersKeepOut` did not go through
  without saying so. Ownership is checked before the long pairing and not after it.
* Two uploads that find one name free write into one file; a failed one leaves what
  it wrote.

## 6. Not modelled, and the plan

Not modelled and not planned: the user interface's layout, type declarations,
configuration, build files and vendored decoders (nothing in them changes state
that another part relies on), cryptography and the Moonlight protocol itself,
which are libraries. What is drawn, audio, mouse coordinates and scroll wheels carry
data whose value no property here distinguishes.

Not modelled yet, in the order of the plan:

1. The lists of hosts, games and users (`web/component/{host,game,user}`) and the
   pages around them. Read so far: removing a listener that is not there removes the
   last host, since `splice(-1, 1)` does (`removeHostListener`); a late answer may
   insert again what was removed meanwhile; a `popstate` without state throws.
2. The round-trip loop of the web socket transport: a u16 sequence, a ping for every
   pong.
3. The bitrate request to a running stream: the optimistic value, the single slot for
   an acknowledgement, tasks that may swap order. Today nothing in the page calls it.
4. Pure functions against reference definitions over bounded inputs: the RTP
   payloaders and readers, the getters and setters of `ByteBuffer`, `human_json`.
5. The copy shortcut and a transport switch under a running stream in `Keyboard`;
   the clipboard's fixed file and downloads in `Transfer`; the caches of app lists
   and images in `Server`.
6. Theorems for the refinement of `StreamConnection` beyond its safety, and lemmas
   about the folds of `VideoWire`, so that units of any NAL units could be proved to
   arrive as they were sent.
