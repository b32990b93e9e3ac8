------------------------------ MODULE Keyboard ------------------------------
(***************************************************************************)
(* Which keys are down: the user's, the browser's pressedKeys              *)
(* (web/stream/input.ts), the buttons of the virtual controller overlay    *)
(* (web/virtual_controller_overlay.ts), the streamer's pressed_keys        *)
(* (streamer/src/main.rs) and the host's.  Between the browser and the     *)
(* streamer lies the reliable, ordered keyboard channel of a WebRTC        *)
(* transport, which queues what is sent before it opens.                   *)
(*                                                                         *)
(* web/stream.ts decides from the focus whether a key event is forwarded,  *)
(* swallows the key-ups of shortcuts it consumed, and resets the keys      *)
(* whenever it thinks the input context is lost; a timer (the watchdog)    *)
(* resets them while the focus is wrong or a key has been down and silent  *)
(* for five seconds.                                                       *)
(*                                                                         *)
(* The keys that raiseAllKeys raises one after the other travel here as    *)
(* one packet, which the streamer handles key by key in any order.  The    *)
(* session at the host ends with the stream, and its keys with it.         *)
(***************************************************************************)
EXTENDS Integers, Sequences

CONSTANTS
    Keys,         \* key codes, one virtual key each
    Modifiers,    \* the codes of each modifier (left and right), as a set
    Chord,        \* the modifiers of the paste shortcut
    Paste,        \* its last key, KeyV
    Buttons,      \* the keys of the overlay's buttons and of "Send Keycode"
    StickKeys,    \* the keys of the overlay's stick of keys (stickWasd)
    MaxEvents,    \* events of the user
    MaxPackets    \* packets in flight for another send to be modelled

ASSUME KeysAssumption ==
    /\ Paste \in Keys
    /\ Buttons \subseteq Keys /\ StickKeys \subseteq Keys
    /\ Modifiers \subseteq SUBSET Keys
    /\ Chord \subseteq Modifiers
ASSUME BoundsAssumption == MaxEvents \in Nat /\ MaxPackets \in Nat

VARIABLES
    \* user
    held,         \* keys physically down
    touched,      \* buttons of the overlay under a finger
    stale,        \* buttons whose element went while a finger was on it
    stick,        \* stickDrag, and the key of stickKeyDir, none or one
    last,         \* the key pressed last, the one that repeats while held
    inWindow,     \* the browser window has the keyboard
    focus,        \* what has the focus inside the page
    events,       \* events so far, for MaxEvents
    \* browser
    pressedKeys,
    skipNextHostKeyUpCodes,
    quiet,        \* five seconds have gone by since lastKeyboardEventAtMs
    reading,      \* a clipboard read of the shortcut is pending
    \* keyboard channel
    channel, sendQueue, toStreamer,
    \* streamer and host
    streaming, pressed_keys,
    task,         \* what the event loop has left to do of a packet
    host,         \* keys down at the host
    lost          \* keys whose release the streamer could not send

userVars == <<held, touched, stale, stick, last, inWindow, focus, events>>
pageVars == <<skipNextHostKeyUpCodes, quiet, reading>>
wireVars == <<channel, sendQueue, toStreamer>>
streamerVars == <<streaming, pressed_keys, task, host, lost>>
vars == <<userVars, pressedKeys, pageVars, wireVars, streamerVars>>

\* "covered": #input has the focus, but a modal or the sidebar is open, or the
\* pointer lock is gone.  "overlay": the text field of the bitrate overlay.
Focus == {"input", "covered", "overlay", "page"}
Channel == {"none", "connecting", "open", "closed"}

Packet(op, keys) == [op |-> op, keys |-> keys]
Reset == Packet("reset", {})
Idle == Packet("release", {})

Init ==
    /\ held = {} /\ touched = {} /\ stale = {} /\ last = Paste /\ events = 0
    /\ stick = [drag |-> "none", dir |-> {}]
    /\ inWindow = TRUE /\ focus = "input"
    /\ pressedKeys = {} /\ skipNextHostKeyUpCodes = {}
    /\ quiet = FALSE /\ reading = FALSE
    /\ channel = "none" /\ sendQueue = <<>> /\ toStreamer = <<>>
    /\ streaming = FALSE /\ pressed_keys = {} /\ task = Idle
    /\ host = {} /\ lost = {}

-----------------------------------------------------------------------------
(* Sending.                                                                *)

\* MaxPackets bounds both queues; the code's are not bounded.
Room == IF channel = "open" THEN Len(toStreamer) <= MaxPackets
                            ELSE Len(sendQueue) <= MaxPackets

\* Mutant: what was queued goes out after the packet that opens the way.
SendBeforeQueue(packets) ==
    /\ toStreamer' = IF channel = "open" /\ packets # <<>>
                        THEN toStreamer \o packets \o sendQueue
                        ELSE toStreamer
    /\ sendQueue' = CASE channel = "connecting" -> sendQueue \o packets
                      [] channel = "open" /\ packets # <<>> -> <<>>
                      [] OTHER -> sendQueue

\* trySendChannel: no channel drops; a channel that is not open yet queues,
\* and its queue goes out with the next send after it opened; what a closed
\* one queues goes nowhere.
Send(packets) ==
    /\ toStreamer' = IF channel = "open" /\ packets # <<>>
                        THEN toStreamer \o sendQueue \o packets
                        ELSE toStreamer
    /\ sendQueue' = CASE channel = "connecting" -> sendQueue \o packets
                      [] channel = "open" /\ packets # <<>> -> <<>>
                      [] OTHER -> sendQueue

Raised == IF pressedKeys = {} THEN <<>> ELSE <<Packet("up", pressedKeys)>>

RaiseAllKeys == pressedKeys' = {} /\ Send(Raised)
ResetAllKeys == pressedKeys' = {} /\ Send(Append(Raised, Reset))

\* An event that repeats what pressedKeys says is not sent.
SendKeyEvent(op, key) ==
    /\ quiet' = FALSE
    /\ IF (op = "down") = (key \in pressedKeys)
          THEN UNCHANGED <<pressedKeys, sendQueue, toStreamer>>
          ELSE /\ pressedKeys' = IF op = "down" THEN pressedKeys \cup {key}
                                                ELSE pressedKeys \ {key}
               /\ Send(<<Packet(op, {key})>>)

-----------------------------------------------------------------------------
(* The page's handlers (web/stream.ts).                                    *)

\* The handlers see the event and do not leave it to the overlay.
Heard == inWindow /\ focus # "overlay"
ShouldForward == focus \in {"input", "covered"}

Consumed(key) == key = Paste /\ \A m \in Chord : m \cap held # {}
HeldModifiers == {m \in Modifiers : m \cap held # {}}

UserStep == events < MaxEvents /\ events' = events + 1 /\ Room

\* The user presses a key, or it repeats while held.  The shortcut reads the
\* clipboard once the stream is connected.
OnKeyDown(key) ==
    /\ key \in held => key = last
    /\ UserStep
    /\ held' = held \cup {key}
    /\ last' = key
    /\ \/ /\ ~Heard
          /\ UNCHANGED <<pressedKeys, pageVars, sendQueue, toStreamer>>
       \/ /\ Heard /\ ~ShouldForward
          /\ ResetAllKeys
          /\ UNCHANGED pageVars
       \/ /\ Heard /\ ShouldForward /\ Consumed(key)
          /\ skipNextHostKeyUpCodes' =
                skipNextHostKeyUpCodes \cup {key} \cup UNION HeldModifiers
          /\ ResetAllKeys
          /\ reading' \in {reading, TRUE}
          /\ UNCHANGED quiet
       \/ /\ Heard /\ ShouldForward /\ ~Consumed(key)
          /\ SendKeyEvent("down", key)
          /\ UNCHANGED <<skipNextHostKeyUpCodes, reading>>
    /\ UNCHANGED <<touched, stale, stick, inWindow, focus, channel, streamerVars>>

OnKeyUp(key) ==
    /\ key \in held
    /\ UserStep
    /\ held' = held \ {key}
    /\ UNCHANGED last
    /\ \/ /\ ~Heard
          /\ UNCHANGED <<pressedKeys, pageVars, sendQueue, toStreamer>>
       \/ /\ Heard /\ key \in skipNextHostKeyUpCodes
          /\ skipNextHostKeyUpCodes' = skipNextHostKeyUpCodes \ {key}
          /\ UNCHANGED <<pressedKeys, quiet, reading, sendQueue, toStreamer>>
       \/ /\ Heard /\ key \notin skipNextHostKeyUpCodes /\ ~ShouldForward
          /\ ResetAllKeys
          /\ UNCHANGED pageVars
       \/ /\ Heard /\ key \notin skipNextHostKeyUpCodes /\ ShouldForward
          /\ SendKeyEvent("up", key)
          /\ UNCHANGED <<skipNextHostKeyUpCodes, reading>>
    /\ UNCHANGED <<touched, stale, stick, inWindow, focus, channel, streamerVars>>

\* The window loses the keyboard (blur, visibilitychange) or has it back.
ChangeWindow ==
    /\ UserStep
    /\ inWindow' = ~inWindow
    /\ IF inWindow THEN ResetAllKeys
                   ELSE UNCHANGED <<pressedKeys, sendQueue, toStreamer>>
    /\ UNCHANGED <<held, touched, stale, stick, last, focus, pageVars, channel,
                   streamerVars>>

\* Modals, the sidebar and the pointer lock announce their changes; an
\* element that takes the focus does not.
ChangeFocus(f) ==
    /\ inWindow /\ f # focus
    /\ UserStep
    /\ focus' = f
    /\ IF "covered" \in {f, focus}
          THEN ResetAllKeys
          ELSE UNCHANGED <<pressedKeys, sendQueue, toStreamer>>
    /\ UNCHANGED <<held, touched, stale, stick, last, inWindow, pageVars, channel,
                   streamerVars>>

\* "Send Keycode" in the sidebar: a tap that pressedKeys does not see.
SendKeycode(key) ==
    /\ UserStep
    /\ Send(<<Packet("down", {key}), Packet("up", {key})>>)
    /\ UNCHANGED <<held, touched, stale, stick, last, inWindow, focus, pressedKeys,
                   pageVars, channel, streamerVars>>

\* A button of the overlay under a finger, and released.  pressedKeys does not
\* see them either.
SendDigitalDown(key) ==
    /\ key \notin touched
    /\ UserStep
    /\ touched' = touched \cup {key}
    /\ Send(<<Packet("down", {key})>>)
    /\ UNCHANGED <<held, stale, stick, last, inWindow, focus, pressedKeys, pageVars,
                   channel, streamerVars>>

SendDigitalUp(key) ==
    /\ key \in touched
    /\ UserStep
    /\ touched' = touched \ {key}
    /\ stale' = stale \ {key}
    /\ Send(<<Packet("up", {key})>>)
    /\ UNCHANGED <<held, stick, last, inWindow, focus, pressedKeys, pageVars,
                   channel, streamerVars>>

\* updateStickKeyDirections: the key of the old direction, then that of the new.
Some(op, keys) == IF keys = {} THEN <<>> ELSE <<Packet(op, keys)>>
Steered(dir) == Some("up", stick.dir \ dir) \o Some("down", dir \ stick.dir)

\* A finger goes down on the stick of keys or on one of the gamepad's, and
\* takes the one stickDrag, whose finger may be down somewhere else.
StickDown(kind) ==
    /\ stick.drag # kind
    /\ UserStep
    /\ stick' = [stick EXCEPT !.drag = kind]
    /\ UNCHANGED <<held, touched, stale, last, inWindow, focus, pressedKeys,
                   pageVars, wireVars, streamerVars>>

\* The finger of stickDrag moves, once the stream is connected.
StickMoves(dir) ==
    /\ stick.drag = "keys" /\ dir # stick.dir /\ channel \in {"open", "closed"}
    /\ UserStep
    /\ stick' = [stick EXCEPT !.dir = dir]
    /\ Send(Steered(dir))
    /\ UNCHANGED <<held, touched, stale, last, inWindow, focus, pressedKeys,
                   pageVars, channel, streamerVars>>

\* endStick: the finger of stickDrag lifts.  The key of a stick that lost
\* stickDrag to another stays down when its own finger lifts.
EndStick ==
    /\ stick.drag # "none"
    /\ UserStep
    /\ LET dir == IF stick.drag = "keys" THEN {} ELSE stick.dir
       IN  stick' = [drag |-> "none", dir |-> dir] /\ Send(Steered(dir))
    /\ UNCHANGED <<held, touched, stale, last, inWindow, focus, pressedKeys,
                   pageVars, channel, streamerVars>>

\* show and toggleSettings put new elements in place of the buttons.  A finger
\* that will not lift over the new one is heard no more, and the releases they
\* call know only the sticks and the buttons of the gamepad.  hide and the
\* screen keyboard call them too, and leave the elements.
RenderControls ==
    /\ UserStep
    /\ \E kept \in SUBSET touched :
          /\ kept # touched \/ stick.drag # "none" \/ stick.dir # {}
          /\ touched' = kept
          /\ stale' = stale \cup (touched \ kept)
    /\ stick' = [drag |-> "none", dir |-> {}]
    /\ Send(Steered({}))
    /\ UNCHANGED <<held, last, inWindow, focus, pressedKeys, pageVars, channel,
                   streamerVars>>

\* The pending read ends: with no text, or pastePlainText raises the keys and
\* sends the text, which is no key packet.
ClipboardRead ==
    /\ reading /\ Room
    /\ reading' = FALSE
    /\ \/ RaiseAllKeys
       \/ UNCHANGED <<pressedKeys, sendQueue, toStreamer>>
    /\ UNCHANGED <<userVars, skipNextHostKeyUpCodes, quiet, channel,
                   streamerVars>>

\* Mutant: only an unsuitable focus makes it reset the keys.
WatchdogOnFocus ==
    /\ Room
    /\ IF focus # "input"
          THEN ResetAllKeys
          ELSE UNCHANGED <<pressedKeys, sendQueue, toStreamer>>
    /\ UNCHANGED <<userVars, pageVars, channel, streamerVars>>

\* watchdogTick, each KEY_WATCHDOG_INTERVAL_MS.
WatchdogTick ==
    /\ Room
    /\ IF focus # "input" \/ (pressedKeys # {} /\ quiet)
          THEN ResetAllKeys
          ELSE UNCHANGED <<pressedKeys, sendQueue, toStreamer>>
    /\ UNCHANGED <<userVars, pageVars, channel, streamerVars>>

\* WATCHDOG_STUCK_KEY_MS without a key event.
Silence ==
    /\ ~quiet
    /\ quiet' = TRUE
    /\ UNCHANGED <<userVars, pressedKeys, skipNextHostKeyUpCodes, reading,
                   wireVars, streamerVars>>

-----------------------------------------------------------------------------
(* The transport (web/stream/index.ts).                                    *)

\* setTransport for the next connection attempt: both resets go to the old
\* channel, which never opened, and are gone with its queue.
SetTransport ==
    /\ channel \in {"none", "connecting"}
    /\ channel' = "connecting"
    /\ pressedKeys' = {}
    /\ sendQueue' = <<>>
    /\ UNCHANGED <<userVars, pageVars, toStreamer, streamerVars>>

ChannelOpens ==
    /\ channel = "connecting"
    /\ channel' = "open"
    /\ UNCHANGED <<userVars, pressedKeys, pageVars, sendQueue, toStreamer,
                   streamerVars>>

\* The connection fails; of what was in flight the streamer has a prefix.
\* The handler of onclose resets the keys on the closed channel.
ChannelCloses ==
    /\ channel = "open"
    /\ channel' = "closed"
    /\ pressedKeys' = {}
    /\ sendQueue' = <<>>
    /\ \E n \in 0..Len(toStreamer) : toStreamer' = SubSeq(toStreamer, 1, n)
    /\ UNCHANGED <<userVars, pageVars, streamerVars>>

-----------------------------------------------------------------------------
(* The streamer (streamer/src/main.rs).                                    *)

\* start_stream ends.  Its own release, at the start, finds no stream.
StreamStarts ==
    /\ channel = "open" /\ ~streaming
    /\ streaming' = TRUE
    /\ pressed_keys' = {}
    /\ UNCHANGED <<userVars, pressedKeys, pageVars, wireVars, task, host, lost>>

\* Mutant: KeyResetAll without its early return.
OnPacketNoReturn ==
    /\ task.keys = {} /\ toStreamer # <<>>
    /\ toStreamer' = Tail(toStreamer)
    /\ pressed_keys' = IF Head(toStreamer).op = "reset" THEN {}
                                                      ELSE pressed_keys
    /\ task' = IF streaming THEN Head(toStreamer) ELSE Idle
    /\ UNCHANGED <<userVars, pressedKeys, pageVars, channel, sendQueue,
                   streaming, host, lost>>

\* on_packet up to the stream: KeyResetAll drains the set, stream or not;
\* without a stream a key packet is dropped, and so are the drained keys.
OnPacket ==
    /\ task.keys = {} /\ toStreamer # <<>>
    /\ toStreamer' = Tail(toStreamer)
    /\ LET packet == Head(toStreamer)
           reset == packet.op = "reset"
       IN /\ pressed_keys' = IF reset THEN {} ELSE pressed_keys
          /\ task' = CASE ~streaming -> Idle
                       [] reset -> Packet("release", pressed_keys)
                       [] OTHER -> packet
    /\ UNCHANGED <<userVars, pressedKeys, pageVars, channel, sendQueue,
                   streaming, host, lost>>

\* Mutant: keys are sent to the host but not remembered.
OnKeyUntracked(key) ==
    /\ key \in task.keys /\ task.op \in {"down", "up"}
    /\ task' = [task EXCEPT !.keys = @ \ {key}]
    /\ IF task.op = "down"
          THEN host' = host \cup {key} /\ UNCHANGED <<pressed_keys, lost>>
          ELSE /\ pressed_keys' = pressed_keys \ {key}
               /\ host' = host \ {key} /\ UNCHANGED lost
    /\ UNCHANGED <<userVars, pressedKeys, pageVars, wireVars, streaming>>

\* One key of a packet: the set and then the host, under the stream's read
\* lock.  The host may not get it.
OnKey(key) ==
    /\ key \in task.keys /\ task.op \in {"down", "up"}
    /\ task' = [task EXCEPT !.keys = @ \ {key}]
    /\ IF task.op = "down"
          THEN /\ pressed_keys' = pressed_keys \cup {key}
               /\ host' \in {host, host \cup {key}}
               /\ UNCHANGED lost
          ELSE /\ pressed_keys' = pressed_keys \ {key}
               /\ \/ host' = host \ {key} /\ lost' = lost \ {key}
                  \/ lost' = lost \cup {key} /\ UNCHANGED host
    /\ UNCHANGED <<userVars, pressedKeys, pageVars, wireVars, streaming>>

\* The loop of release_all_pressed_keys; an error abandons the other keys.
ReleaseKey(key) ==
    /\ key \in task.keys /\ task.op = "release"
    /\ \/ /\ host' = host \ {key}
          /\ lost' = lost \ {key}
          /\ task' = [task EXCEPT !.keys = @ \ {key}]
       \/ /\ lost' = lost \cup task.keys
          /\ task' = Idle
          /\ UNCHANGED host
    /\ UNCHANGED <<userVars, pressedKeys, pageVars, wireVars, streaming,
                   pressed_keys>>

\* stop, some time after the transport closed.  It releases the keys and takes
\* the stream, for which it waits for the readers of its lock.
Stop ==
    /\ channel = "closed" /\ streaming /\ task.keys = {}
    /\ streaming' = FALSE
    /\ pressed_keys' = {} /\ host' = {} /\ lost' = {}
    /\ UNCHANGED <<userVars, pressedKeys, pageVars, wireVars, task>>

-----------------------------------------------------------------------------
User ==
    \/ \E key \in Keys : OnKeyDown(key) \/ OnKeyUp(key)
    \/ \E key \in Buttons :
          SendKeycode(key) \/ SendDigitalDown(key) \/ SendDigitalUp(key)
    \/ \E kind \in {"keys", "analog"} : StickDown(kind)
    \/ \E dir \in {{}} \cup {{key} : key \in StickKeys} : StickMoves(dir)
    \/ EndStick
    \/ RenderControls
    \/ ChangeWindow
    \/ \E f \in Focus : ChangeFocus(f)

Streamer ==
    \/ StreamStarts
    \/ OnPacket
    \/ \E key \in Keys : OnKey(key) \/ ReleaseKey(key)
    \/ Stop

Next ==
    \/ User
    \/ ClipboardRead \/ WatchdogTick \/ Silence
    \/ SetTransport \/ ChannelOpens \/ ChannelCloses
    \/ Streamer

Spec == Init /\ [][Next]_vars

\* The interval timer ticks, the user falls silent (UserStep bounds the
\* events) and the streamer's tasks run.
Fairness ==
    /\ WF_vars(WatchdogTick)
    /\ WF_vars(Silence)
    /\ WF_vars(OnPacket)
    /\ WF_vars(\E key \in Keys : OnKey(key) \/ ReleaseKey(key))
    /\ WF_vars(Stop)
FairSpec == Spec /\ Fairness

-----------------------------------------------------------------------------
Packets == [op : {"down", "up", "reset"}, keys : SUBSET Keys]

TypeOK ==
    /\ held \subseteq Keys /\ touched \subseteq Buttons /\ stale \subseteq Buttons
    /\ stick \in [drag : {"none", "keys", "analog"}, dir : SUBSET StickKeys]
    /\ last \in Keys
    /\ inWindow \in BOOLEAN /\ focus \in Focus
    /\ events \in 0..MaxEvents
    /\ pressedKeys \subseteq Keys /\ skipNextHostKeyUpCodes \subseteq Keys
    /\ quiet \in BOOLEAN /\ reading \in BOOLEAN
    /\ channel \in Channel
    /\ sendQueue \in Seq(Packets)
    /\ toStreamer \in Seq(Packets)
    /\ streaming \in BOOLEAN /\ pressed_keys \subseteq Keys
    /\ task \in [op : {"down", "up", "release"}, keys : SUBSET Keys]
    /\ host \subseteq Keys /\ lost \subseteq Keys

\* A key that is down at the host is one the streamer would release: it is in
\* pressed_keys or in the hands of a release, unless its release already
\* failed.  (on_packet's insert before the send, and the drain of
\* release_all_pressed_keys.)
HostKeysAreTracked ==
    host \subseteq pressed_keys \cup lost
                   \cup (IF task.op = "release" THEN task.keys ELSE {})

\* What is under way to the streamer, and how it treats one key.
Unsent == toStreamer \o sendQueue
Releases(packet, key) ==
    packet.op = "reset" \/ (packet.op = "up" /\ key \in packet.keys)
Presses(packet, key) == packet.op = "down" /\ key \in packet.keys

\* After some packet that releases the key - or from the start, if it was
\* released then - no packet presses it.
LastReleases(packets, key, released) ==
    \E i \in 0..Len(packets) :
        /\ i = 0 => released
        /\ i > 0 => Releases(packets[i], key)
        /\ \A j \in (i + 1)..Len(packets) : ~Presses(packets[j], key)

\* The streamer has not got the key down, or is about to remove it.
Released(key) ==
    /\ key \notin pressed_keys \/ (task.op = "up" /\ key \in task.keys)
    /\ ~Presses(task, key)

\* The keys the browser holds down, or has forgotten with a button.
Down == pressedKeys \cup touched \cup stale \cup stick.dir

\* A key the browser has given up - it is in Down no more - is released
\* by some packet under way after which none presses it again; if none is under
\* way, the streamer has not got the key down either.  So no order of key
\* events, resets, pastes, taps and channel changes leaves the streamer with a
\* key that only it believes in.
EveryReleaseIsUnderWay ==
    channel # "closed" =>
        \A key \in Keys \ Down :
            LastReleases(Unsent, key, Released(key))

\* Once the user is done, the host ends up with no key that is not held on the
\* keyboard or the overlay, except those whose release failed, whose button went
\* or whose stick lost stickDrag to another: whatever was swallowed, sent before
\* the channel opened or overtaken by a loss of focus.
NoGhostKeys ==
    <>[](host \subseteq held \cup touched \cup stale \cup stick.dir \cup lost)
=============================================================================
