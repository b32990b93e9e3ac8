---------------------------- MODULE StreamBridge ----------------------------
(***************************************************************************)
(* One stream in the web server: start_host (src/api/stream.rs) between    *)
(* the browser's web socket and the streamer process, and the IPC of both  *)
(* ends (common/src/ipc.rs).  Two tasks: the handler, which reads the      *)
(* socket and writes to the process, and the relay, which reads the        *)
(* process and writes to the socket.  Each direction is a bounded channel, *)
(* a task that drains it and a pipe, modelled as one queue of Room         *)
(* messages.  The process is what start-up in streamer/src/main.rs makes   *)
(* of it and, when serving, what StreamConnection promises                 *)
(* (StreamerProcess): it may say anything, announce its end, or die.       *)
(***************************************************************************)
EXTENDS Naturals, Sequences

CONSTANTS
  Room,          \* messages a direction holds (channel(10) in the code)
  MaxMessages    \* bound on the browser's messages after Init

ASSUME BridgeAssumption == Room \in Nat \ {0} /\ MaxMessages \in Nat

VARIABLES
  ws,        \* the web socket is open
  handler,   \* where the task of start_host is
  relay,     \* where the relay task is
  warned,    \* warned_closed: Stop was sent
  toChild, fromChild,
  child,     \* where the process is
  busy,      \* the process owes the browser a reply before it reads on
  told,      \* the process announced its end
  streaming, \* it streams over the web socket transport
  deaf,      \* a Stop came before Init, where main ignores it
  sent       \* messages the browser sent after Init

handlerVars == <<handler, sent>>
relayVars == <<relay, warned>>
childVars == <<child, busy, told, streaming, deaf>>
vars == <<ws, handlerVars, relayVars, toChild, fromChild, childVars>>

Init ==
  /\ ws = TRUE /\ handler = "init" /\ relay = "none" /\ warned = FALSE
  /\ toChild = <<>> /\ fromChild = <<>>
  /\ child = "none" /\ busy = FALSE /\ told = FALSE
  /\ streaming = FALSE /\ deaf = FALSE /\ sent = 0

Alive == child \notin {"none", "gone"}

\* Mutant: try_send.
TrySendToChild(m) ==
  IF Alive /\ Len(toChild) < Room THEN toChild' = Append(toChild, m) ELSE UNCHANGED toChild

\* IpcSender::send waits for room; when the writer task is gone it only warns.
SendToChild(m) ==
  \/ Alive /\ Len(toChild) < Room /\ toChild' = Append(toChild, m)
  \/ ~Alive /\ UNCHANGED toChild

SendToServer(m) == Len(fromChild) < Room /\ fromChild' = Append(fromChild, m)

-----------------------------------------------------------------------------
(* The browser and the handler.                                            *)

BrowserLeaves ==
  /\ ws /\ ws' = FALSE
  /\ UNCHANGED <<handlerVars, relayVars, toChild, fromChild, childVars>>

\* Anything but a decodable Init returns or closes; the session goes with the task.
FirstMessage ==
  /\ handler = "init"
  /\ \/ ws /\ handler' = "lookup" /\ UNCHANGED ws
     \/ handler' = "done" /\ ws' = FALSE
  /\ UNCHANGED <<sent, relayVars, toChild, fromChild, childVars>>

\* Host, app list, app, address, pair info, process: each may fail.
LookupFails ==
  /\ handler = "lookup" /\ handler' = "done" /\ ws' = FALSE
  /\ UNCHANGED <<sent, relayVars, toChild, fromChild, childVars>>

\* A browser that has left meanwhile is not noticed.
SpawnStreamer ==
  /\ handler = "lookup" /\ handler' = "sendInit"
  /\ child' = "starting" /\ relay' = "recv"
  /\ UNCHANGED <<ws, sent, warned, toChild, fromChild, busy, told, streaming, deaf>>

SendInit ==
  /\ handler = "sendInit" /\ handler' = "relay"
  /\ SendToChild("Init")
  /\ UNCHANGED <<ws, sent, relayVars, fromChild, childVars>>

\* A text that cannot be decoded ends the task: the browser is not heard any more.
BrowserMessage ==
  /\ handler = "relay" /\ ws /\ sent < MaxMessages /\ sent' = sent + 1
  /\ handler' \in {"send", "done"}
  /\ UNCHANGED <<ws, relayVars, toChild, fromChild, childVars>>

SendMessage ==
  /\ handler = "send" /\ handler' = "relay"
  /\ SendToChild("Message")
  /\ UNCHANGED <<ws, sent, relayVars, fromChild, childVars>>

SocketEnds ==
  /\ handler = "relay" /\ ~ws /\ handler' = "done"
  /\ UNCHANGED <<ws, sent, relayVars, toChild, fromChild, childVars>>

-----------------------------------------------------------------------------
(* The relay.                                                              *)

\* A closed socket is noticed only here.
RelayMessage ==
  /\ relay = "recv" /\ fromChild # <<>> /\ fromChild' = Tail(fromChild)
  /\ relay' = CASE Head(fromChild) = "Stop" -> "sleep"
                [] Head(fromChild) = "ws" -> IF ~ws /\ ~warned THEN "stop" ELSE "recv"
  /\ UNCHANGED <<ws, handlerVars, warned, toChild, childVars>>

RelayStop ==
  /\ relay = "stop" /\ relay' = "recv" /\ warned' = TRUE
  /\ SendToChild("Stop")
  /\ UNCHANGED <<ws, handlerVars, fromChild, childVars>>

\* Mutant: a process that ends without a word is not noticed.
RelayEofUnseen ==
  /\ relay = "recv" /\ fromChild = <<>> /\ child = "gone" /\ told /\ relay' = "sleep"
  /\ UNCHANGED <<ws, handlerVars, warned, toChild, fromChild, childVars>>

RelayEof ==
  /\ relay = "recv" /\ fromChild = <<>> /\ child = "gone" /\ relay' = "sleep"
  /\ UNCHANGED <<ws, handlerVars, warned, toChild, fromChild, childVars>>

\* After ten seconds the web socket is closed, and the process killed.
RelayCloses ==
  /\ relay = "sleep" /\ relay' = "kill" /\ ws' = FALSE
  /\ UNCHANGED <<handlerVars, warned, toChild, fromChild, childVars>>

RelayKills ==
  /\ relay = "kill" /\ relay' = "done" /\ child' = "gone"
  /\ UNCHANGED <<ws, handlerVars, warned, toChild, fromChild, busy, told, streaming, deaf>>

-----------------------------------------------------------------------------
(* The process.                                                            *)

ChildStarts ==
  /\ child = "starting" /\ child' = "waiting" /\ SendToServer("ws")
  /\ UNCHANGED <<ws, handlerVars, relayVars, toChild, busy, told, streaming, deaf>>

\* Until Init comes, everything else is dropped.
ChildAwaitsInit ==
  /\ child = "waiting" /\ toChild # <<>> /\ toChild' = Tail(toChild)
  /\ child' = IF Head(toChild) = "Init" THEN "setup" ELSE child
  /\ deaf' = (deaf \/ Head(toChild) = "Stop")
  /\ UNCHANGED <<ws, handlerVars, relayVars, fromChild, busy, told, streaming>>

ChildSetup ==
  /\ child = "setup" /\ child' = "serving" /\ SendToServer("ws")
  /\ UNCHANGED <<ws, handlerVars, relayVars, toChild, busy, told, streaming, deaf>>

\* The message may set a transport, or start a stream over the one that is set.
ChildReads ==
  /\ child \in {"serving", "told"} /\ ~busy /\ toChild # <<>> /\ toChild' = Tail(toChild)
  /\ \/ Head(toChild) # "Stop" /\ busy' \in BOOLEAN /\ streaming' \in BOOLEAN /\ UNCHANGED child
     \/ Head(toChild) = "Stop" /\ UNCHANGED <<busy, streaming>>
        /\ child' = IF child = "told" THEN "silent" ELSE "stopping"
  /\ UNCHANGED <<ws, handlerVars, relayVars, fromChild, told, deaf>>

ChildReplies ==
  /\ child \in {"serving", "told"} /\ busy /\ busy' = FALSE /\ SendToServer("ws")
  /\ UNCHANGED <<ws, handlerVars, relayVars, toChild, child, told, streaming, deaf>>

\* Its other tasks: video and audio over the web socket transport, what a WebRTC peer
\* signals, log messages, connection status.
ChildTalks ==
  /\ child = "serving" /\ SendToServer("ws")
  /\ UNCHANGED <<ws, handlerVars, relayVars, toChild, childVars>>

\* stop(), asked to or not; the reader goes on until it has read a Stop.
ChildTells ==
  /\ child \in {"serving", "stopping"} /\ told' = TRUE
  /\ child' = IF child = "stopping" THEN "silent" ELSE "told"
  /\ SendToServer("Stop")
  /\ UNCHANGED <<ws, handlerVars, relayVars, toChild, busy, streaming, deaf>>

ChildDies ==
  /\ Alive /\ child' = "gone"
  /\ UNCHANGED <<ws, handlerVars, relayVars, toChild, fromChild, busy, told, streaming, deaf>>

-----------------------------------------------------------------------------
Handler == FirstMessage \/ LookupFails \/ SpawnStreamer \/ SendInit \/ SendMessage \/ SocketEnds
Relay == RelayMessage \/ RelayStop \/ RelayEof \/ RelayCloses \/ RelayKills
Child == ChildStarts \/ ChildAwaitsInit \/ ChildSetup \/ ChildReads \/ ChildReplies

Next == BrowserLeaves \/ BrowserMessage \/ Handler \/ Relay
        \/ Child \/ ChildTalks \/ ChildTells \/ ChildDies

Spec == Init /\ [][Next]_vars

\* Tasks run, the network calls of the lookups end, the process goes on and stops when
\* told to.  While it streams over the web socket, the host's video and audio go through
\* the server again and again, or their end ends the process.  Any other process owes the
\* server nothing: before SetTransport it has nothing to say, a web socket transport
\* says two things when it is made and then waits for an answer or a StartStream, and a
\* WebRTC peer, once it has signalled, sends its media past the server.
Fairness ==
  /\ WF_vars(Handler) /\ WF_vars(Relay) /\ WF_vars(Child)
  /\ SF_vars(streaming /\ (ChildTalks \/ ChildTells)) /\ WF_vars(child = "stopping" /\ ChildTells)
  /\ SF_vars(ChildReads) /\ SF_vars(ChildReplies)
FairSpec == Spec /\ Fairness

-----------------------------------------------------------------------------
TypeOK ==
  /\ {ws, warned, busy, told, streaming, deaf} \subseteq BOOLEAN /\ sent \in 0..MaxMessages
  /\ handler \in {"init", "lookup", "sendInit", "relay", "send", "done"}
  /\ relay \in {"none", "recv", "stop", "sleep", "kill", "done"}
  /\ child \in {"none", "starting", "waiting", "setup", "serving", "stopping", "told", "silent", "gone"}
  /\ toChild \in Seq({"Init", "Message", "Stop"}) /\ Len(toChild) <= Room
  /\ fromChild \in Seq({"ws", "Stop"}) /\ Len(fromChild) <= Room

\* The two tasks and the process keep the promise of StreamLifecycle, whoever ends
\* first and whatever is still queued.
phase == IF relay \in {"recv", "stop"} THEN "serving"
         ELSE IF relay \in {"sleep", "kill"} THEN "ending"
         ELSE IF relay = "done" \/ handler = "done" THEN "over"
         ELSE "opening"
Lifecycle == INSTANCE StreamLifecycle WITH process <- Alive, socket <- ws
KeepsLifecycle == Lifecycle!Spec

\* What the server assumes of the process is what StreamConnection implements.
childState == CASE child = "none" -> "none" [] child = "gone" -> "exited"
                [] told -> "told" [] OTHER -> "serving"
Process == INSTANCE StreamerProcess WITH state <- childState

\* The relay waits for room towards a process that waits for room towards the relay.
Jammed == relay = "stop" /\ Len(toChild) = Room /\ busy /\ Len(fromChild) = Room

\* A process that reads on, does not stream over the web socket and says nothing.
Quiet == /\ child = "serving" /\ ~streaming /\ ~busy /\ relay = "recv"
         /\ toChild = <<>> /\ fromChild = <<>>

\* When the web socket is closed the process ends: it streams over it, or it says
\* something else, and is told to stop.  Three cases let it live on: it stays quiet for
\* ever (its browser left before SetTransport or StartStream, or has its media over
\* WebRTC, whose own time-out is in StreamConnection), the queues jam, or the one Stop
\* overtakes Init and is not repeated.
NoOrphanedStreamer ==
  (relay # "none" /\ ~ws) ~> (child = "gone" \/ Jammed \/ deaf \/ []Quiet)
=============================================================================
