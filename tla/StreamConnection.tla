-------------------------- MODULE StreamConnection --------------------------
(***************************************************************************)
(* The life of a session in the streamer process: StreamConnection and     *)
(* main (streamer/src/main.rs), with the transports it drives              *)
(* (transport/webrtc/mod.rs, transport/web_socket/mod.rs).                 *)
(*                                                                         *)
(* Tasks: the IPC loop (messages the server relays from the browser), one  *)
(* event loop per transport, the tasks that run start_stream, one timer    *)
(* per request_terminate, the Moonlight threads, and main.  Whoever wins   *)
(* the exchange of is_terminating runs stop() in its own task, so a loop   *)
(* that runs it handles nothing else meanwhile.                            *)
(*                                                                         *)
(* A transport's event channel is bounded, and several tasks send to it    *)
(* while they hold the transport_sender mutex.  Events are abstracted to   *)
(* what the loop does with them: "data" (a packet for the host or a        *)
(* message for the browser), "start", "stop" and "closed".  A loop ends    *)
(* with at most one request_terminate, so the loop's number names the      *)
(* request and its timer; the age check of the timer (10 s, tested 10.2 s  *)
(* later) is abstracted to: the last request is this timer's.              *)
(***************************************************************************)
EXTENDS Integers, Sequences, FiniteSets

CONSTANTS
    Capacity,       \* slots of a transport's event channel (20 in the code)
    MaxMessages     \* bound on the messages of the browser

ASSUME BoundsAssumption == Capacity \in Nat \ {0} /\ MaxMessages \in Nat \ {0}

Transports == 1..MaxMessages
Starts == 1..MaxMessages
None == 0

VARIABLES
    budget,       \* messages the browser may still send
    inbox,        \* the IPC message being handled, or "none"
    ipc,          \* where the IPC loop is
    created,      \* transports created so far
    transport,    \* the transport in transport_sender, or None
    kind,         \* what each transport is
    gone,         \* transports whose senders are all dropped
    events,       \* the event channel of each transport
    loop,         \* where each event loop is
    lock,         \* holder of the transport_sender mutex
    start,        \* where each start_stream task is
    stream,       \* the installed MoonlightStream, or None
    closing,      \* a taken MoonlightStream is still in its stop()
    request,      \* timeout_terminate_request: the loop that set it, or None
    timers,       \* sleeping request_terminate tasks
    stopper,      \* who runs stop(), or "none"
    stopAt,       \* where stop() is
    reported,     \* the server was told to expect the end of the process
    main          \* where main is

browserVars == <<budget, inbox, ipc>>
transportVars == <<created, transport, kind, gone>>
channelVars == <<events, loop>>
streamVars == <<start, stream, closing>>
timeoutVars == <<request, timers>>
stopVars == <<stopper, stopAt, reported, main>>
vars == <<browserVars, transportVars, channelVars, lock, streamVars,
          timeoutVars, stopVars>>

Kinds == {"WebRTC", "WebSocket"}
\* Who may run stop(): an event loop, or a task of another kind.
LoopTask(t) == <<"loop", t>>
Task(name) == <<name, 0>>

Init ==
    /\ budget = MaxMessages
    /\ inbox = "none"
    /\ ipc = "recv"
    /\ created = 0
    /\ transport = None
    /\ kind = [t \in Transports |-> "WebRTC"]
    /\ gone = {}
    /\ events = [t \in Transports |-> <<>>]
    /\ loop = [t \in Transports |-> "none"]
    /\ lock = "free"
    /\ start = [s \in Starts |-> "none"]
    /\ stream = None
    /\ closing = FALSE
    /\ request = None
    /\ timers = {}
    /\ stopper = Task("none")
    /\ stopAt = "none"
    /\ reported = FALSE
    /\ main = "serving"

Running == main # "exited"
\* The timer task keeps the mutex of timeout_terminate_request during stop().
RequestFree == stopper # Task("timer")
Room(t) == Len(events[t]) < Capacity
Push(t, event) == events' = [events EXCEPT ![t] = Append(@, event)]

\* is_terminating is never reset.
Terminating == stopAt # "none"

\* A call of stop(): only the first caller goes on.
CallStop(task) ==
    IF Terminating
        THEN UNCHANGED <<stopper, stopAt>>
        ELSE stopper' = task /\ stopAt' = "stream"

-----------------------------------------------------------------------------
(* The IPC loop.                                                           *)

\* A message of the browser arrives.
Receive(message) ==
    /\ Running /\ ipc = "recv" /\ budget > 0
    /\ inbox' = message
    /\ budget' = budget - 1
    /\ UNCHANGED <<transportVars, channelVars, lock, streamVars, timeoutVars,
                   stopVars>>

ReceiveTransport ==
    /\ \E k \in Kinds : Receive(k)
    /\ ipc' = "clear"

ReceiveStart ==
    /\ Receive("start")
    /\ ipc' = "forward"

\* A packet on the web socket transport, or a signaling message.
ReceivePacket ==
    /\ \E packet \in {"data", "stop"} : Receive(packet)
    /\ ipc' = "forward"

\* ServerIpcMessage::Stop ends the loop.
ReceiveStop ==
    /\ Running /\ ipc = "recv"
    /\ ipc' = "ended"
    /\ CallStop(Task("ipc"))
    /\ UNCHANGED <<budget, inbox, transportVars, channelVars, lock, streamVars,
                   timeoutVars, reported, main>>

\* SetTransport starts with clear_terminate_request.
ClearForTransport ==
    /\ Running /\ ipc = "clear" /\ RequestFree
    /\ request' = None
    /\ ipc' = "create"
    /\ UNCHANGED <<budget, inbox, transportVars, channelVars, lock, streamVars,
                   timers, stopVars>>

\* webrtc::new returns an error: the message is dropped.
CreateFails ==
    /\ Running /\ ipc = "create" /\ inbox = "WebRTC"
    /\ ipc' = "recv" /\ inbox' = "none"
    /\ UNCHANGED <<budget, transportVars, channelVars, lock, streamVars,
                   timeoutVars, stopVars>>

\* set_transport: install the new transport, spawn its loop; the old one is
\* closed by a task of its own (Drop).
SetTransport ==
    /\ Running /\ ipc = "create" /\ lock = "free"
    /\ created' = created + 1
    /\ transport' = created + 1
    /\ kind' = [kind EXCEPT ![created + 1] = inbox]
    /\ loop' = [loop EXCEPT ![created + 1] = "poll"]
    /\ ipc' = "recv" /\ inbox' = "none"
    /\ UNCHANGED <<budget, gone, events, lock, streamVars, timeoutVars,
                   stopVars>>

\* on_ipc_message takes transport_sender to hand the message over.
ForwardLock ==
    /\ Running /\ ipc = "forward" /\ lock = "free"
    /\ IF transport = None
         THEN ipc' = "recv" /\ inbox' = "none" /\ UNCHANGED lock
         ELSE ipc' = "send" /\ lock' = "ipc" /\ UNCHANGED inbox
    /\ UNCHANGED <<budget, transportVars, channelVars, streamVars, timeoutVars,
                   stopVars>>

\* The transport turns it into an event; the send waits for room and fails
\* when the loop is gone.
ForwardSend ==
    /\ Running /\ ipc = "send"
    /\ \/ loop[transport] = "ended" /\ UNCHANGED events
       \/ loop[transport] # "ended" /\ Room(transport) /\ Push(transport, inbox)
            /\ (inbox = "stop" => kind[transport] = "WebSocket")
       \/ inbox # "start" /\ kind[transport] = "WebRTC" /\ UNCHANGED events
    /\ ipc' = "recv" /\ inbox' = "none" /\ lock' = "free"
    /\ UNCHANGED <<budget, transportVars, loop, streamVars, timeoutVars,
                   stopVars>>

-----------------------------------------------------------------------------
(* Transports.                                                             *)

\* A data channel of a WebRTC transport delivers a packet.
PeerPacket(t) ==
    /\ Running /\ kind[t] = "WebRTC" /\ loop[t] \in {"poll", "stopping"}
    /\ t \notin gone /\ budget > 0 /\ Room(t)
    /\ \E packet \in {"data", "stop"} : Push(t, packet)
    /\ budget' = budget - 1
    /\ UNCHANGED <<inbox, ipc, transportVars, loop, lock, streamVars,
                   timeoutVars, stopVars>>

\* The peer failed 10 seconds ago and nothing cleared the request since.
PeerTimesOut(t) ==
    /\ Room(t) /\ \A i \in 1..Len(events[t]) : events[t][i] # "closed"
    /\ Push(t, "closed")

\* The peer is closed, or failed and stayed so.
PeerClosed(t) ==
    /\ Running /\ kind[t] = "WebRTC" /\ loop[t] \in {"poll", "stopping"}
    /\ t \notin gone /\ PeerTimesOut(t)
    /\ UNCHANGED <<browserVars, transportVars, loop, lock, streamVars,
                   timeoutVars, stopVars>>

\* Mutant: a web socket transport, which has nothing to close, is kept.
DropPeer(t) ==
    /\ Running
    /\ t \in (1..created) \ gone /\ t # transport
    /\ kind[t] = "WebRTC"
    /\ gone' = gone \cup {t}
    /\ UNCHANGED <<browserVars, created, transport, kind, channelVars, lock,
                   streamVars, timeoutVars, stopVars>>

\* A replaced transport is closed and dropped.
Drop(t) ==
    /\ Running
    /\ t \in (1..created) \ gone /\ t # transport
    /\ gone' = gone \cup {t}
    /\ UNCHANGED <<browserVars, created, transport, kind, channelVars, lock,
                   streamVars, timeoutVars, stopVars>>

-----------------------------------------------------------------------------
(* The event loop of transport t.                                          *)

Polls(t, event) ==
    /\ Running /\ loop[t] = "poll"
    /\ events[t] # <<>> /\ Head(events[t]) = event
    /\ events' = [events EXCEPT ![t] = Tail(@)]

PollData(t) ==
    /\ Polls(t, "data")
    /\ UNCHANGED <<browserVars, transportVars, loop, lock, streamVars,
                   timeoutVars, stopVars>>

\* StartStream: a task of its own runs start_stream.
PollStart(t) ==
    /\ Polls(t, "start")
    /\ LET free == {s \in Starts : start[s] = "none"}
       IN start' = [start EXCEPT ![CHOOSE s \in free : TRUE] = "clear"]
    /\ UNCHANGED <<browserVars, transportVars, loop, lock, stream, closing,
                   timeoutVars, stopVars>>

\* on_packet: GeneralClientMessage::Stop, dropped without a stream.
PollStop(t) ==
    /\ Polls(t, "stop")
    /\ IF stream = None \/ Terminating
         THEN UNCHANGED <<loop, stopper, stopAt>>
         ELSE /\ loop' = [loop EXCEPT ![t] = "stopping"]
              /\ CallStop(LoopTask(t))
    /\ UNCHANGED <<browserVars, transportVars, lock, streamVars, timeoutVars,
                   reported, main>>

\* Mutant: no second timer while one sleeps.
PollClosedOneTimer(t) ==
    /\ RequestFree
    /\ \/ Polls(t, "closed")
       \/ /\ Running /\ loop[t] = "poll" /\ t \in gone /\ events[t] = <<>>
          /\ UNCHANGED events
    /\ loop' = [loop EXCEPT ![t] = "ended"]
    /\ request' = t
    /\ timers' = IF timers = {} THEN {t} ELSE timers
    /\ UNCHANGED <<browserVars, transportVars, lock, streamVars, stopVars>>

\* Closed, or every sender is dropped: request_terminate, and the loop ends.
PollClosed(t) ==
    /\ RequestFree
    /\ \/ Polls(t, "closed")
       \/ /\ Running /\ loop[t] = "poll" /\ t \in gone /\ events[t] = <<>>
          /\ UNCHANGED events
    /\ loop' = [loop EXCEPT ![t] = "ended"]
    /\ request' = t
    /\ timers' = timers \cup {t}
    /\ UNCHANGED <<browserVars, transportVars, lock, streamVars, stopVars>>

-----------------------------------------------------------------------------
(* Starting a stream, and the Moonlight threads.                           *)

StartAt(s, from, to) ==
    /\ Running /\ start[s] = from
    /\ start' = [start EXCEPT ![s] = to]

\* clear_terminate_request, before start_stream.
ClearForStart(s) ==
    /\ StartAt(s, "clear", "take") /\ RequestFree
    /\ request' = None
    /\ UNCHANGED <<browserVars, transportVars, channelVars, lock, stream,
                   closing, timers, stopVars>>

\* The old stream is taken and stopped in the background.
TakeStream(s) ==
    /\ StartAt(s, "take", "launch")
    /\ stream' = None
    /\ closing' = (closing \/ stream # None)
    /\ UNCHANGED <<browserVars, transportVars, channelVars, lock, timeoutVars,
                   stopVars>>

\* The host launches the app and start_connection opens the connection.
Launch(s) ==
    /\ StartAt(s, "launch", "install")
    /\ UNCHANGED <<browserVars, transportVars, channelVars, lock, stream,
                   closing, timeoutVars, stopVars>>

LaunchFails(s) ==
    /\ StartAt(s, "launch", "done")
    /\ CallStop(Task("start"))
    /\ UNCHANGED <<browserVars, transportVars, channelVars, lock, stream,
                   closing, timeoutVars, reported, main>>

InstallStream(s) ==
    /\ StartAt(s, "install", "done")
    /\ stream' = s
    /\ UNCHANGED <<browserVars, transportVars, channelVars, lock, closing,
                   timeoutVars, stopVars>>

\* The blocking stream.stop() returns: no Moonlight thread is inside a call.
StreamClosed ==
    /\ Running /\ closing /\ lock # "decoder"
    /\ closing' = FALSE
    /\ UNCHANGED <<browserVars, transportVars, channelVars, lock, start, stream,
                   timeoutVars, stopVars>>

\* A Moonlight thread (setup, frame, sample, rumble) takes transport_sender.
\* On WebRTC only the renegotiation of a new track sends an event.
Decoding ==
    \/ \E s \in Starts : start[s] = "launch"
    \/ kind[transport] = "WebSocket" /\
            (stream # None \/ closing \/ \E s \in Starts : start[s] = "install")

DecoderLock ==
    /\ Running /\ lock = "free" /\ transport # None
    /\ Decoding
    /\ lock' = "decoder"
    /\ UNCHANGED <<browserVars, transportVars, channelVars, streamVars,
                   timeoutVars, stopVars>>

\* Mutant: the event channel is unbounded.
DecoderSendUnbounded ==
    /\ Running /\ lock = "decoder"
    /\ IF loop[transport] = "ended" THEN UNCHANGED events
                                    ELSE Push(transport, "data")
    /\ lock' = "free"
    /\ UNCHANGED <<browserVars, transportVars, loop, streamVars, timeoutVars,
                   stopVars>>

DecoderSend ==
    /\ Running /\ lock = "decoder"
    /\ \/ loop[transport] = "ended" /\ UNCHANGED events
       \/ /\ loop[transport] # "ended" /\ Room(transport)
          /\ Push(transport, "data")
    /\ lock' = "free"
    /\ UNCHANGED <<browserVars, transportVars, loop, streamVars, timeoutVars,
                   stopVars>>

\* connection_terminated: the host ended the stream.
HostTerminates ==
    /\ Running /\ stream # None
    /\ CallStop(Task("host"))
    /\ UNCHANGED <<browserVars, transportVars, channelVars, lock, streamVars,
                   timeoutVars, reported, main>>

-----------------------------------------------------------------------------
(* Termination.                                                            *)

\* The task of request_terminate wakes up.
TimerFires(t) ==
    /\ Running /\ RequestFree
    /\ t \in timers
    /\ timers' = timers \ {t}
    /\ IF request = t THEN CallStop(Task("timer"))
                      ELSE UNCHANGED <<stopper, stopAt>>
    /\ UNCHANGED <<browserVars, transportVars, channelVars, lock, streamVars,
                   request, reported, main>>

StopTakesStream ==
    /\ Running /\ stopAt = "stream"
    /\ stopAt' = "lock"
    /\ stream' = None
    /\ closing' = (closing \/ stream # None)
    /\ UNCHANGED <<browserVars, transportVars, channelVars, lock, start,
                   timeoutVars, stopper, reported, main>>

\* Mutant: stop() returns early when no transport was ever selected.
StopNeedsTransport ==
    /\ Running /\ stopAt = "lock" /\ lock = "free"
    /\ stopAt' = IF transport = None THEN "done" ELSE "send"
    /\ lock' = IF transport = None THEN "free" ELSE "stop"
    /\ transport' = None
    /\ gone' = IF transport = None THEN gone ELSE gone \cup {transport}
    /\ UNCHANGED <<browserVars, created, kind, channelVars, streamVars,
                   timeoutVars, stopper, reported, main>>

\* The mutex is kept to the end of stop().
StopTakesTransport ==
    /\ Running /\ stopAt = "lock" /\ lock = "free"
    /\ stopAt' = "send"
    /\ lock' = "stop"
    /\ transport' = None
    /\ gone' = IF transport = None THEN gone ELSE gone \cup {transport}
    /\ UNCHANGED <<browserVars, created, kind, channelVars, streamVars,
                   timeoutVars, stopper, reported, main>>

\* Mutant: main is woken before the server is told.
StopWakesFirst ==
    /\ Running /\ stopAt = "send"
    /\ \/ main = "waiting" /\ main' = "sleeping" /\ UNCHANGED <<stopAt, reported>>
       \/ main # "waiting" /\ stopAt' = "notify" /\ reported' = TRUE /\ UNCHANGED main
    /\ UNCHANGED <<browserVars, transportVars, channelVars, lock, streamVars,
                   timeoutVars, stopper>>

\* StreamerIpcMessage::Stop goes to the server, which will kill the process.
StopSends ==
    /\ Running /\ stopAt = "send"
    /\ stopAt' = "notify"
    /\ reported' = TRUE
    /\ UNCHANGED <<browserVars, transportVars, channelVars, lock, streamVars,
                   timeoutVars, stopper, main>>

\* notify_waiters wakes main only if it already waits; stop() returns.
StopNotifies ==
    /\ Running /\ stopAt = "notify"
    /\ stopAt' = "done" /\ stopper' = Task("none")
    /\ lock' = "free"
    /\ main' = IF main = "waiting" THEN "sleeping" ELSE main
    /\ loop' = [t \in Transports |->
                    IF stopper = LoopTask(t) THEN "poll" ELSE loop[t]]
    /\ UNCHANGED <<browserVars, transportVars, events, streamVars, timeoutVars,
                   reported>>

MainStep ==
    /\ \/ main = "serving" /\ main' = "waiting"
       \/ main = "sleeping" /\ main' = "exited"
    /\ UNCHANGED <<browserVars, transportVars, channelVars, lock, streamVars,
                   timeoutVars, stopper, stopAt, reported>>

-----------------------------------------------------------------------------
IpcLoop ==
    \/ ClearForTransport \/ CreateFails \/ SetTransport
    \/ ForwardLock \/ ForwardSend
Environment ==
    \/ ReceiveTransport \/ ReceiveStart \/ ReceivePacket \/ ReceiveStop
    \/ \E t \in Transports : PeerPacket(t) \/ PeerClosed(t)
    \/ HostTerminates
EventLoop(t) == PollData(t) \/ PollStart(t) \/ PollStop(t) \/ PollClosed(t)
StartTask(s) ==
    \/ ClearForStart(s) \/ TakeStream(s)
    \/ Launch(s) \/ LaunchFails(s) \/ InstallStream(s)
Decoder == DecoderLock \/ DecoderSend
StopTask == StopTakesStream \/ StopTakesTransport \/ StopSends \/ StopNotifies

Next ==
    \/ Environment \/ IpcLoop \/ Decoder \/ StreamClosed \/ StopTask \/ MainStep
    \/ \E t \in Transports : EventLoop(t) \/ Drop(t) \/ TimerFires(t)
    \/ \E s \in Starts : StartTask(s)

Spec == Init /\ [][Next]_vars

(* Tasks are polled, timers fire, spawned closes finish, tokio's mutex is  *)
(* granted in turn.  Nothing is said of the browser, the host and the peer.*)
Fairness ==
    /\ WF_vars(IpcLoop) /\ WF_vars(StreamClosed) /\ WF_vars(MainStep)
    /\ SF_vars(ForwardLock) /\ SF_vars(SetTransport)
    /\ SF_vars(DecoderSend)
    /\ WF_vars(StopTask) /\ SF_vars(StopTakesTransport)
    /\ \A t \in Transports :
        WF_vars(EventLoop(t)) /\ WF_vars(Drop(t)) /\ WF_vars(TimerFires(t))
    /\ \A s \in Starts : WF_vars(StartTask(s))

FairSpec == Spec /\ Fairness

-----------------------------------------------------------------------------
EventTypes == {"data", "start", "stop", "closed"}
Tasks == {"none", "ipc", "timer", "start", "host"} \X {0}

TypeOK ==
    /\ budget \in 0..MaxMessages
    /\ inbox \in Kinds \cup {"none", "start", "data", "stop"}
    /\ ipc \in {"recv", "clear", "create", "forward", "send", "ended"}
    /\ created \in 0..MaxMessages
    /\ transport \in 0..created
    /\ kind \in [Transports -> Kinds]
    /\ gone \subseteq 1..created
    /\ events \in [Transports -> Seq(EventTypes)]
    /\ \A t \in Transports : Len(events[t]) <= Capacity
    /\ loop \in [Transports -> {"none", "poll", "stopping", "ended"}]
    /\ lock \in {"free", "ipc", "decoder", "stop"}
    /\ start \in [Starts ->
                    {"none", "clear", "take", "launch", "install", "done"}]
    /\ stream \in {None} \cup Starts
    /\ closing \in BOOLEAN
    /\ request \in {None} \cup Transports
    /\ timers \subseteq Transports
    /\ stopper \in Tasks \cup {LoopTask(t) : t \in Transports}
    /\ stopAt \in {"none", "stream", "lock", "send", "notify", "done"}
    /\ reported \in BOOLEAN
    /\ main \in {"serving", "waiting", "sleeping", "exited"}

Full(t) == Len(events[t]) = Capacity

\* A sender keeps transport_sender while it waits for room in a channel
\* whose loop waits, directly or through the timer, for transport_sender.
Jammed ==
    /\ lock \in {"ipc", "decoder"} /\ Full(transport)
    /\ \/ loop[transport] = "stopping"
       \/ loop[transport] = "poll" /\ Head(events[transport]) = "closed"
            /\ stopper = Task("timer")

(* Once stop() runs the server is told to expect the end of the process,   *)
(* without which it would never kill it, unless the tasks are jammed.      *)
StopReported == Terminating ~> (reported \/ Jammed)

(* A pending time-out ends the session unless SetTransport or StartStream  *)
(* clears it or a later loop restarts it, although each timer looks only   *)
(* once and may find a younger request than its own.                       *)
TimeoutEnds == (request # None) ~> (request = None \/ Terminating)

(* The event loop of a transport that was replaced or taken by stop() ends *)
(* and does not keep the channel, whichever kind of transport it was.      *)
ReplacedLoopsEnd ==
    \A t \in Transports :
        (t <= created /\ t # transport)
            ~> (loop[t] = "ended" \/ Jammed \/ main = "exited")

(* The process behaves as the server's side assumes: main does not exit    *)
(* before the server was told, and the server is told once.                *)
Process == INSTANCE StreamerProcess WITH
    state <- IF main = "exited" THEN "exited" ELSE IF reported THEN "told" ELSE "serving"
KeepsProcess == Process!OrderlySpec
=============================================================================
