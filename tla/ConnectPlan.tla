---------------------------- MODULE ConnectPlan ----------------------------
(***************************************************************************)
(* The browser's Stream (src/web/stream/index.ts), one per start of the    *)
(* page: its web socket to the server, the plan startConnection follows    *)
(* (direct WebRTC twice, then relay only, then the web socket), and the    *)
(* pipelines it builds before it asks for the stream.  The plan is one     *)
(* asynchronous function; its awaits are the values of plan, and what      *)
(* happens at an await meets the handlers installed by then.  The far side *)
(* is the server and the streamer, as StreamLifecycle promises them; what  *)
(* it sends on the web socket arrives in order.                            *)
(***************************************************************************)
EXTENDS Naturals, Sequences

CONSTANTS
  MaxStreams,    \* bound on the streams a page starts
  Settings       \* the values of settings.dataTransport that are tried
ASSUME PlanAssumption ==
  MaxStreams \in Nat \ {0} /\ Settings \subseteq {"auto", "webrtc", "websocket"}
Streams == 1..MaxStreams

VARIABLES
  setting,   \* settings.dataTransport
  socket,    \* ws.readyState
  inbox,     \* messages on their way to the browser
  far,       \* the streamer behind the socket
  plan,      \* where startConnection is
  route,     \* the transport it tries or uses
  peer,      \* that transport
  deaf,      \* the transport closed while no handler of the plan was installed
  video,     \* videoRenderer and audioPlayer
  stopping   \* the Stop message of stop()

planVars == <<plan, route, peer, deaf, video>>
streamVars == <<setting, socket, inbox, far, planVars, stopping>>

PlanInit ==
  /\ setting \in Settings
  /\ socket = [s \in Streams |-> "none"] /\ inbox = [s \in Streams |-> <<>>]
  /\ far = [s \in Streams |-> "none"] /\ plan = [s \in Streams |-> "idle"]
  /\ route = [s \in Streams |-> "none"] /\ peer = [s \in Streams |-> "none"]
  /\ deaf = [s \in Streams |-> FALSE] /\ video = [s \in Streams |-> "none"]
  /\ stopping = [s \in Streams |-> "no"]

Post(s, messages) == inbox' = [inbox EXCEPT ![s] = @ \o messages]

\* The constructor opens the socket and buffers Init; onWsOpen sends it.
NewStream(s) == socket' = [socket EXCEPT ![s] = "opening"]

\* The lookups of start_host fail, or the process is there and sends Setup.
SocketOpens(s) ==
  /\ socket[s] = "opening"
  /\ socket' = [socket EXCEPT ![s] = "open"]
  /\ \/ far' = [far EXCEPT ![s] = "gone"] /\ Post(s, <<"Fatal">>)
     \/ far' = [far EXCEPT ![s] = "up"] /\ Post(s, <<"Setup">>)
  /\ UNCHANGED <<setting, planVars, stopping>>

\* The host answers StartStream, or refuses it and the streamer stops.
FarAnswers(s) ==
  /\ far[s] = "starting"
  /\ \/ far' = [far EXCEPT ![s] = "live"] /\ Post(s, <<"Complete">>)
     \/ far' = [far EXCEPT ![s] = "gone"] /\ UNCHANGED inbox
  /\ UNCHANGED <<setting, socket, planVars, stopping>>

FarTerminates(s) ==
  /\ far[s] = "live" /\ far' = [far EXCEPT ![s] = "gone"] /\ Post(s, <<"Terminated">>)
  /\ UNCHANGED <<setting, socket, planVars, stopping>>

\* A Stop, a time-out without a transport, or a crash.
FarLeaves(s) ==
  /\ far[s] \notin {"none", "gone"} /\ far' = [far EXCEPT ![s] = "gone"]
  /\ UNCHANGED <<setting, socket, inbox, planVars, stopping>>

FarCloses(s) ==
  /\ far[s] = "gone" /\ socket[s] = "open" /\ "closed" \notin {inbox[s][i] : i \in DOMAIN inbox[s]}
  /\ Post(s, <<"closed">>)
  /\ UNCHANGED <<setting, socket, far, planVars, stopping>>

\* Where a failed route leads, and the first one.
NextRoute(r) ==
  CASE r = "none" -> IF setting = "websocket" THEN "socket" ELSE "direct"
    [] r = "direct" -> "again" [] r = "again" -> "relay"
    [] r = "relay" -> IF setting = "auto" THEN "socket" ELSE "none"
    [] r = "socket" -> "none"

\* setTransport with a new transport, or the end of startConnection.
TryRoute(s, r) ==
  /\ route' = [route EXCEPT ![s] = r]
  /\ peer' = [peer EXCEPT ![s] = IF r = "socket" THEN "up" ELSE IF r = "none" THEN "down" ELSE "trying"]
  /\ plan' = [plan EXCEPT ![s] = IF r = "none" THEN "over" ELSE IF r = "socket" THEN "pipes" ELSE "connect"]

AttemptConnects(s) ==
  /\ plan[s] = "connect" /\ socket[s] = "open" /\ far[s] = "up"
  /\ peer' = [peer EXCEPT ![s] = "up"] /\ plan' = [plan EXCEPT ![s] = "pipes"]
  /\ UNCHANGED <<setting, socket, inbox, far, route, deaf, video, stopping>>

\* The timer of the attempt, or onclose before onconnect; close() is awaited.
AttemptFails(s) ==
  /\ plan[s] = "connect"
  /\ peer' = [peer EXCEPT ![s] = "down"] /\ plan' = [plan EXCEPT ![s] = "closing"]
  /\ UNCHANGED <<setting, socket, inbox, far, route, deaf, video, stopping>>

\* startStream sends StartStream, into the buffer of a closed socket.
StartStream(s) == far' = [far EXCEPT ![s] = IF socket[s] = "open" /\ @ = "up" THEN "starting" ELSE @]

\* createPipelines and startStream are done; then the plan listens for the end of the
\* transport.
PipelinesReady(s) ==
  /\ plan[s] = "pipes" /\ plan' = [plan EXCEPT ![s] = "wait"]
  /\ video' = [video EXCEPT ![s] = "ready"]
  /\ StartStream(s)
  /\ UNCHANGED <<setting, socket, inbox, route, peer, deaf, stopping>>

\* Mutant: the handler of the attempt stays.
LosePeerUnheard(s) ==
  /\ peer' = [peer EXCEPT ![s] = "down"] /\ UNCHANGED plan
  /\ deaf' = [deaf EXCEPT ![s] = @ \/ plan[s] = "pipes"]

\* The transport ends: the plan hears it when it has its handler in place.
LosePeer(s) ==
  /\ peer' = [peer EXCEPT ![s] = "down"]
  /\ plan' = [plan EXCEPT ![s] = IF @ = "wait" THEN "over" ELSE @]
  /\ deaf' = [deaf EXCEPT ![s] = @ \/ plan[s] = "pipes"]

\* stop() hands Stop to the general channel of the transport, when there is one.
StopStream(s) ==
  stopping' = [stopping EXCEPT ![s] =
    IF route[s] = "none" THEN "no" ELSE IF peer[s] = "up" THEN "sent" ELSE "queued"]

StreamTypeOK ==
  /\ setting \in Settings
  /\ socket \in [Streams -> {"none", "opening", "open", "closed"}]
  /\ inbox \in [Streams -> Seq({"Setup", "Complete", "Fatal", "Terminated", "closed"})]
  /\ far \in [Streams -> {"none", "up", "starting", "live", "gone"}]
  /\ plan \in [Streams -> {"idle", "connect", "closing", "pipes", "wait", "over"}]
  /\ route \in [Streams -> {"none", "direct", "again", "relay", "socket"}]
  /\ peer \in [Streams -> {"none", "trying", "up", "down"}]
  /\ deaf \in [Streams -> BOOLEAN] /\ video \in [Streams -> {"none", "ready", "playing"}]
  /\ stopping \in [Streams -> {"no", "queued", "sent"}]
=============================================================================
