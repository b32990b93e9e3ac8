----------------------- MODULE StreamConnectionProofs -----------------------
(* Theorems about StreamConnection for every capacity of the channels and  *)
(* any number of messages: types, and that the process keeps what          *)
(* StreamerProcess promises to the server.                                 *)
EXTENDS StreamConnection, TLAPS, SequenceTheorems

-----------------------------------------------------------------------------
(* Types.                                                                  *)

\* A message of the browser is spent on one transport at most, and the IPC
\* loop handles it where its kind belongs.
MessagesCounted ==
    /\ created + (IF ipc \in {"clear", "create"} THEN 1 ELSE 0) + budget
            <= MaxMessages
    /\ ipc \in {"clear", "create"} => inbox \in Kinds
    /\ ipc \in {"forward", "send"} => inbox \in {"start", "data", "stop"}
TInv == TypeOK /\ MessagesCounted

EventsOK ==
    /\ events \in [Transports -> Seq(EventTypes)]
    /\ \A t \in Transports : Len(events[t]) <= Capacity

LEMMA PushType ==
    ASSUME TypeOK, NEW t, NEW event \in EventTypes, Push(t, event),
           t \in Transports => Room(t)
    PROVE  EventsOK'
<1>1. events \in [Transports -> Seq(EventTypes)]
  BY DEF TypeOK
<1>2. CASE t \in Transports
  <2>1. /\ Append(events[t], event) \in Seq(EventTypes)
        /\ Len(Append(events[t], event)) = Len(events[t]) + 1
        /\ Len(events[t]) \in Nat
    BY <1>1, <1>2, AppendProperties
  <2>2. events' = [events EXCEPT ![t] = Append(events[t], event)]
    BY DEF Push
  <2>3. Len(Append(events[t], event)) <= Capacity
    BY <1>2, <2>1, BoundsAssumption DEF Room
  <2>4. \A u \in Transports : Len(events'[u]) <= Capacity
    BY <1>1, <2>2, <2>3 DEF TypeOK
  <2> QED
    BY <1>1, <2>1, <2>2, <2>4 DEF EventsOK
<1>3. CASE t \notin Transports
  <2>1. events' = events
    BY <1>1, <1>3 DEF Push
  <2> QED
    BY <2>1 DEF TypeOK, EventsOK
<1> QED
  BY <1>2, <1>3

LEMMA PollsType ==
    ASSUME TypeOK, NEW t \in Transports, NEW event, Polls(t, event)
    PROVE  EventsOK'
<1>1. events \in [Transports -> Seq(EventTypes)] /\ events[t] # <<>>
  BY DEF TypeOK, Polls
<1>2. /\ Tail(events[t]) \in Seq(EventTypes)
      /\ Len(Tail(events[t])) = Len(events[t]) - 1
      /\ Len(events[t]) \in Nat
  BY <1>1, HeadTailProperties
<1>3. events' = [events EXCEPT ![t] = Tail(events[t])]
  BY DEF Polls
<1>4. Len(Tail(events[t])) <= Capacity
  BY <1>2, BoundsAssumption DEF TypeOK
<1>5. \A u \in Transports : Len(events'[u]) <= Capacity
  BY <1>1, <1>3, <1>4 DEF TypeOK
<1> QED
  BY <1>1, <1>2, <1>3, <1>5 DEF EventsOK

LEMMA CallStopType ==
    ASSUME TypeOK, NEW task, CallStop(task),
           task \in Tasks \cup {LoopTask(t) : t \in Transports}
    PROVE  /\ stopper' \in Tasks \cup {LoopTask(t) : t \in Transports}
           /\ stopAt' \in {"none", "stream", "lock", "send", "notify", "done"}
  BY DEF CallStop, TypeOK

LEMMA TasksType ==
    \A name \in {"none", "ipc", "timer", "start", "host"} : Task(name) \in Tasks
  BY DEF Task, Tasks

LEMMA InitTInv == Init => TInv
<1> SUFFICES ASSUME Init PROVE TInv
  OBVIOUS
<1>1. MaxMessages \in Nat /\ Capacity \in Nat
  BY BoundsAssumption
<1>2. /\ 0 \in 0..0 /\ MaxMessages \in 0..MaxMessages /\ 0 \in 0..MaxMessages
      /\ Kinds = {"WebRTC", "WebSocket"}
  BY <1>1 DEF Kinds
<1>3. <<>> \in Seq(EventTypes) /\ Len(<<>>) = 0
  OBVIOUS
<1>4. events \in [Transports -> Seq(EventTypes)]
  BY <1>3 DEF Init
<1>5. \A t \in Transports : Len(events[t]) <= Capacity
  BY <1>1, <1>3 DEF Init
<1>6. closing \in BOOLEAN /\ reported \in BOOLEAN
  BY DEF Init
<1>7. stopper \in Tasks
  BY TasksType DEF Init
<1>8. TypeOK
  BY <1>2, <1>4, <1>5, <1>6, <1>7 DEF Init, TypeOK, None
<1>9. MessagesCounted
  BY <1>1 DEF Init, MessagesCounted
<1> QED
  BY <1>8, <1>9 DEF TInv

LEMMA EnvironmentTInv == TInv /\ Environment => TInv'
<1> SUFFICES ASSUME TInv, Environment PROVE TInv'
  OBVIOUS
<1> USE DEF browserVars, transportVars, channelVars, streamVars, timeoutVars,
            stopVars
<1>1. MaxMessages \in Nat /\ budget \in Int /\ created \in Int
  BY BoundsAssumption DEF TInv, TypeOK
<1>2. CASE ReceiveTransport \/ ReceiveStart \/ ReceivePacket
  <2>1. /\ budget > 0 /\ budget' = budget - 1 /\ ipc = "recv"
        /\ UNCHANGED <<transportVars, channelVars, lock, streamVars,
                       timeoutVars, stopVars>>
    BY <1>2 DEF ReceiveTransport, ReceiveStart, ReceivePacket, Receive
  <2>2. \/ ipc' = "clear" /\ inbox' \in Kinds
        \/ ipc' = "forward" /\ inbox' \in {"start", "data", "stop"}
    BY <1>2 DEF ReceiveTransport, ReceiveStart, ReceivePacket, Receive
  <2>3. budget' \in 0..MaxMessages
    BY <1>1, <2>1 DEF TInv, TypeOK
  <2>4. MessagesCounted'
    BY <1>1, <2>1, <2>2 DEF TInv, MessagesCounted
  <2>5. TypeOK'
    BY <2>1, <2>2, <2>3 DEF TInv, TypeOK
  <2> QED
    BY <2>4, <2>5 DEF TInv
<1>3. CASE ReceiveStop
  <2>1. CallStop(Task("ipc")) /\ Task("ipc") \in Tasks
    BY <1>3, TasksType DEF ReceiveStop
  <2>2. /\ stopper' \in Tasks \cup {LoopTask(t) : t \in Transports}
        /\ stopAt' \in {"none", "stream", "lock", "send", "notify", "done"}
    BY <2>1, CallStopType DEF TInv
  <2>3. MessagesCounted'
    BY <1>3 DEF ReceiveStop, TInv, MessagesCounted
  <2> QED
    BY <1>3, <2>2, <2>3 DEF ReceiveStop, TInv, TypeOK
<1>4. CASE HostTerminates
  <2>1. CallStop(Task("host")) /\ Task("host") \in Tasks
    BY <1>4, TasksType DEF HostTerminates
  <2>2. /\ stopper' \in Tasks \cup {LoopTask(t) : t \in Transports}
        /\ stopAt' \in {"none", "stream", "lock", "send", "notify", "done"}
    BY <2>1, CallStopType DEF TInv
  <2>3. MessagesCounted'
    BY <1>4 DEF HostTerminates, TInv, MessagesCounted
  <2> QED
    BY <1>4, <2>2, <2>3 DEF HostTerminates, TInv, TypeOK
<1>5. ASSUME NEW t \in Transports, PeerPacket(t) PROVE TInv'
  <2>1. PICK packet \in {"data", "stop"} : Push(t, packet)
    BY <1>5 DEF PeerPacket
  <2>2. packet \in EventTypes /\ Room(t)
    BY <1>5 DEF EventTypes, PeerPacket
  <2>3. EventsOK'
    BY <2>1, <2>2, PushType DEF TInv
  <2>4. budget' \in 0..MaxMessages /\ budget' = budget - 1
    BY <1>1, <1>5 DEF PeerPacket, TInv, TypeOK
  <2>5. MessagesCounted'
    BY <1>1, <1>5, <2>4 DEF PeerPacket, TInv, MessagesCounted
  <2> QED
    BY <1>5, <2>3, <2>4, <2>5 DEF PeerPacket, TInv, TypeOK, EventsOK
<1>6. ASSUME NEW t \in Transports, PeerClosed(t) PROVE TInv'
  <2>1. Push(t, "closed") /\ Room(t) /\ "closed" \in EventTypes
    BY <1>6 DEF PeerClosed, PeerTimesOut, EventTypes
  <2>2. EventsOK'
    BY <2>1, PushType DEF TInv
  <2>3. MessagesCounted'
    BY <1>6 DEF PeerClosed, TInv, MessagesCounted
  <2> QED
    BY <1>6, <2>2, <2>3 DEF PeerClosed, TInv, TypeOK, EventsOK
<1> QED
  BY <1>2, <1>3, <1>4, <1>5, <1>6 DEF Environment

LEMMA IpcLoopTInv == TInv /\ IpcLoop => TInv'
<1> SUFFICES ASSUME TInv, IpcLoop PROVE TInv'
  OBVIOUS
<1> USE DEF browserVars, transportVars, channelVars, streamVars, timeoutVars,
            stopVars
<1>1. MaxMessages \in Nat /\ budget \in 0..MaxMessages /\ created \in 0..MaxMessages
  BY BoundsAssumption DEF TInv, TypeOK
<1>2. CASE ClearForTransport
  <2>1. MessagesCounted'
    BY <1>2 DEF ClearForTransport, TInv, MessagesCounted
  <2> QED
    BY <1>2, <2>1 DEF ClearForTransport, TInv, TypeOK
<1>3. CASE CreateFails
  <2>1. MessagesCounted'
    BY <1>1, <1>3 DEF CreateFails, TInv, MessagesCounted
  <2> QED
    BY <1>3, <2>1 DEF CreateFails, TInv, TypeOK
<1>4. CASE SetTransport
  <2>1. /\ created + 1 + budget <= MaxMessages /\ inbox \in Kinds
        /\ created' = created + 1
    BY <1>4 DEF SetTransport, TInv, MessagesCounted
  <2>2. created + 1 \in Transports /\ created' \in 0..MaxMessages
    BY <1>1, <2>1 DEF Transports
  <2>3. transport' \in 0..created' /\ gone' \subseteq 1..created'
    BY <1>1, <1>4, <2>1 DEF SetTransport, TInv, TypeOK
  <2>4. /\ kind' \in [Transports -> Kinds]
        /\ loop' \in [Transports -> {"none", "poll", "stopping", "ended"}]
    BY <1>4, <2>1, <2>2 DEF SetTransport, TInv, TypeOK
  <2>5. MessagesCounted'
    BY <1>1, <1>4, <2>1 DEF SetTransport, TInv, MessagesCounted
  <2> QED
    BY <1>4, <2>2, <2>3, <2>4, <2>5 DEF SetTransport, TInv, TypeOK
<1>5. CASE ForwardLock
  <2>1. MessagesCounted'
    BY <1>5 DEF ForwardLock, TInv, MessagesCounted
  <2> QED
    BY <1>5, <2>1 DEF ForwardLock, TInv, TypeOK
<1>6. CASE ForwardSend
  <2>1. inbox \in EventTypes
    BY <1>6 DEF ForwardSend, TInv, MessagesCounted, EventTypes
  <2>2. EventsOK'
    <3>1. CASE UNCHANGED events
      BY <3>1 DEF TInv, TypeOK, EventsOK
    <3>2. CASE ~UNCHANGED events
      <4>1. Room(transport) /\ Push(transport, inbox)
        BY <1>6, <3>2 DEF ForwardSend
      <4> QED
        BY <2>1, <4>1, PushType DEF TInv
    <3> QED
      BY <3>1, <3>2
  <2>3. MessagesCounted'
    BY <1>6 DEF ForwardSend, TInv, MessagesCounted
  <2> QED
    BY <1>6, <2>2, <2>3 DEF ForwardSend, TInv, TypeOK, EventsOK
<1> QED
  BY <1>2, <1>3, <1>4, <1>5, <1>6 DEF IpcLoop

LEMMA LoopTInv ==
    ASSUME TInv, NEW t \in Transports, EventLoop(t) \/ Drop(t) \/ TimerFires(t)
    PROVE  TInv'
<1> USE DEF browserVars, transportVars, channelVars, streamVars, timeoutVars,
            stopVars
<1>1. CASE PollData(t)
  <2>1. EventsOK'
    BY <1>1, PollsType DEF PollData, TInv
  <2>2. MessagesCounted'
    BY <1>1 DEF PollData, TInv, MessagesCounted
  <2> QED
    BY <1>1, <2>1, <2>2 DEF PollData, TInv, TypeOK, EventsOK
<1>2. CASE PollStart(t)
  <2>1. EventsOK'
    BY <1>2, PollsType DEF PollStart, TInv
  <2>2. MessagesCounted'
    BY <1>2 DEF PollStart, TInv, MessagesCounted
  <2>3. start' \in [Starts -> {"none", "clear", "take", "launch", "install", "done"}]
    BY <1>2 DEF PollStart, TInv, TypeOK
  <2> QED
    BY <1>2, <2>1, <2>2, <2>3 DEF PollStart, TInv, TypeOK, EventsOK
<1>3. CASE PollStop(t)
  <2>1. EventsOK'
    BY <1>3, PollsType DEF PollStop, TInv
  <2>2. MessagesCounted'
    BY <1>3 DEF PollStop, TInv, MessagesCounted
  <2>3. /\ loop' \in [Transports -> {"none", "poll", "stopping", "ended"}]
        /\ stopper' \in Tasks \cup {LoopTask(u) : u \in Transports}
        /\ stopAt' \in {"none", "stream", "lock", "send", "notify", "done"}
    BY <1>3, CallStopType DEF PollStop, TInv, TypeOK
  <2> QED
    BY <1>3, <2>1, <2>2, <2>3 DEF PollStop, TInv, TypeOK, EventsOK
<1>4. CASE PollClosed(t)
  <2>1. EventsOK'
    BY <1>4, PollsType DEF PollClosed, TInv, TypeOK, EventsOK
  <2>2. MessagesCounted'
    BY <1>4 DEF PollClosed, TInv, MessagesCounted
  <2>3. /\ loop' \in [Transports -> {"none", "poll", "stopping", "ended"}]
        /\ request' \in {None} \cup Transports /\ timers' \subseteq Transports
    BY <1>4 DEF PollClosed, TInv, TypeOK
  <2> QED
    BY <1>4, <2>1, <2>2, <2>3 DEF PollClosed, TInv, TypeOK, EventsOK
<1>5. CASE Drop(t)
  <2>1. MessagesCounted'
    BY <1>5 DEF Drop, TInv, MessagesCounted
  <2> QED
    BY <1>5, <2>1 DEF Drop, TInv, TypeOK
<1>6. CASE TimerFires(t)
  <2>1. /\ stopper' \in Tasks \cup {LoopTask(u) : u \in Transports}
        /\ stopAt' \in {"none", "stream", "lock", "send", "notify", "done"}
    BY <1>6, CallStopType, TasksType DEF TimerFires, TInv, TypeOK
  <2>2. MessagesCounted'
    BY <1>6 DEF TimerFires, TInv, MessagesCounted
  <2> QED
    BY <1>6, <2>1, <2>2 DEF TimerFires, TInv, TypeOK
<1> QED
  BY <1>1, <1>2, <1>3, <1>4, <1>5, <1>6 DEF EventLoop

LEMMA StreamTInv ==
    ASSUME TInv, (\E s \in Starts : StartTask(s)) \/ Decoder \/ StreamClosed
    PROVE  TInv'
<1> USE DEF browserVars, transportVars, channelVars, streamVars, timeoutVars,
            stopVars
<1>1. ASSUME NEW s \in Starts, StartTask(s) PROVE TInv'
  <2>1. UNCHANGED <<browserVars, transportVars, channelVars, lock, timers,
                    reported, main>>
    BY <1>1 DEF StartTask, ClearForStart, TakeStream, Launch, LaunchFails,
       InstallStream
  <2>2. start' \in [Starts -> {"none", "clear", "take", "launch", "install", "done"}]
    BY <1>1 DEF StartTask, ClearForStart, TakeStream, Launch, LaunchFails,
       InstallStream, StartAt, TInv, TypeOK
  <2>3. /\ stream' \in {None} \cup Starts
        /\ request' \in {None} \cup Transports
    BY <1>1 DEF StartTask, ClearForStart, TakeStream, Launch, LaunchFails,
       InstallStream, TInv, TypeOK
  <2>4. closing' \in BOOLEAN
    BY <1>1 DEF StartTask, ClearForStart, TakeStream, Launch, LaunchFails,
       InstallStream, TInv, TypeOK
  <2>5. /\ stopper' \in Tasks \cup {LoopTask(t) : t \in Transports}
        /\ stopAt' \in {"none", "stream", "lock", "send", "notify", "done"}
    <3>1. CallStop(Task("start")) \/ UNCHANGED <<stopper, stopAt>>
      BY <1>1 DEF StartTask, ClearForStart, TakeStream, Launch, LaunchFails,
         InstallStream
    <3> QED
      BY <3>1, CallStopType, TasksType DEF TInv, TypeOK
  <2>6. MessagesCounted'
    BY <2>1 DEF TInv, MessagesCounted
  <2> QED
    BY <2>1, <2>2, <2>3, <2>4, <2>5, <2>6 DEF TInv, TypeOK
<1>2. CASE DecoderLock \/ StreamClosed
  <2>1. MessagesCounted'
    BY <1>2 DEF DecoderLock, StreamClosed, TInv, MessagesCounted
  <2>2. closing' \in BOOLEAN /\ lock' \in {"free", "ipc", "decoder", "stop"}
    BY <1>2 DEF DecoderLock, StreamClosed, TInv, TypeOK
  <2> QED
    BY <1>2, <2>1, <2>2 DEF DecoderLock, StreamClosed, TInv, TypeOK
<1>3. CASE DecoderSend
  <2>1. EventsOK'
    <3>1. "data" \in EventTypes
      BY DEF EventTypes
    <3>2. (Room(transport) /\ Push(transport, "data")) \/ UNCHANGED events
      BY <1>3 DEF DecoderSend
    <3> QED
      BY <3>1, <3>2, PushType DEF TInv, TypeOK, EventsOK
  <2>2. MessagesCounted'
    BY <1>3 DEF DecoderSend, TInv, MessagesCounted
  <2> QED
    BY <1>3, <2>1, <2>2 DEF DecoderSend, TInv, TypeOK, EventsOK
<1> QED
  BY <1>1, <1>2, <1>3 DEF Decoder

LEMMA StopTInv ==
    ASSUME TInv, StopTask \/ MainStep
    PROVE  TInv'
<1> USE DEF browserVars, transportVars, channelVars, streamVars, timeoutVars,
            stopVars
<1>1. MessagesCounted'
  BY DEF StopTask, StopTakesStream, StopTakesTransport, StopSends, StopNotifies,
     MainStep, TInv, MessagesCounted
<1>2. CASE StopTakesStream
  <2>1. closing' \in BOOLEAN
    BY <1>2 DEF StopTakesStream, TInv, TypeOK
  <2> QED
    BY <1>1, <1>2, <2>1 DEF StopTakesStream, TInv, TypeOK
<1>3. CASE StopTakesTransport
  <2>1. transport' \in 0..created' /\ gone' \subseteq 1..created'
    BY <1>3 DEF StopTakesTransport, TInv, TypeOK, None
  <2> QED
    BY <1>1, <1>3, <2>1 DEF StopTakesTransport, TInv, TypeOK
<1>4. CASE StopSends \/ MainStep
  <2>1. reported' \in BOOLEAN
    BY <1>4 DEF StopSends, MainStep, TInv, TypeOK
  <2> QED
    BY <1>1, <1>4, <2>1 DEF StopSends, MainStep, TInv, TypeOK
<1>5. CASE StopNotifies
  <2>1. /\ loop' \in [Transports -> {"none", "poll", "stopping", "ended"}]
        /\ main' \in {"serving", "waiting", "sleeping", "exited"}
    BY <1>5 DEF StopNotifies, TInv, TypeOK
  <2>2. stopper' \in Tasks
    BY <1>5, TasksType DEF StopNotifies
  <2> QED
    BY <1>1, <1>5, <2>1, <2>2 DEF StopNotifies, TInv, TypeOK
<1> QED
  BY <1>2, <1>3, <1>4, <1>5 DEF StopTask

LEMMA NextTInv == TInv /\ [Next]_vars => TInv'
<1>1. ASSUME TInv, UNCHANGED vars PROVE TInv'
  BY <1>1 DEF vars, browserVars, transportVars, channelVars, streamVars,
     timeoutVars, stopVars, TInv, TypeOK, MessagesCounted
<1> QED
  BY <1>1, EnvironmentTInv, IpcLoopTInv, LoopTInv, StreamTInv, StopTInv DEF Next

(* TypeOK holds in every reachable state: the channels of the transports   *)
(* never hold more than Capacity events, whoever sends, and there are no   *)
(* more transports than messages that asked for one.                       *)
THEOREM TypeCorrect == Spec => []TypeOK
<1>1. TInv => TypeOK
  BY DEF TInv
<1> QED
  BY <1>1, InitTInv, NextTInv, PTL DEF Spec

-----------------------------------------------------------------------------
(* The process tells the server before it ends.                            *)

\* Only stop() tells the server, before it wakes main, and it runs once.
ReportInv ==
    /\ reported \in BOOLEAN
    /\ reported <=> stopAt \in {"notify", "done"}
    /\ main \in {"sleeping", "exited"} => reported

\* What every step but the last two of stop() and those of main does to them.
QuietStep ==
    /\ UNCHANGED <<reported, main>>
    /\ stopAt' \in {"notify", "done"} <=> stopAt \in {"notify", "done"}

LEMMA CallStopIsQuiet ==
    ASSUME NEW task, CallStop(task), UNCHANGED <<reported, main>>
    PROVE  QuietStep
  BY DEF CallStop, Terminating, QuietStep

LEMMA StepsAreQuiet ==
    ASSUME [Next]_vars, ~(StopSends \/ StopNotifies \/ MainStep)
    PROVE  QuietStep
<1> USE DEF stopVars
<1>1. CASE Environment
  <2>1. CASE ReceiveTransport \/ ReceiveStart \/ ReceivePacket
    BY <2>1 DEF ReceiveTransport, ReceiveStart, ReceivePacket, Receive, QuietStep
  <2>2. CASE ReceiveStop \/ HostTerminates
    BY <2>2, CallStopIsQuiet DEF ReceiveStop, HostTerminates
  <2>3. ASSUME NEW t \in Transports, PeerPacket(t) \/ PeerClosed(t)
        PROVE  QuietStep
    BY <2>3 DEF PeerPacket, PeerClosed, QuietStep
  <2> QED
    BY <1>1, <2>1, <2>2, <2>3 DEF Environment
<1>2. CASE IpcLoop
  BY <1>2 DEF IpcLoop, ClearForTransport, CreateFails, SetTransport,
     ForwardLock, ForwardSend, QuietStep
<1>3. CASE Decoder \/ StreamClosed
  BY <1>3 DEF Decoder, DecoderLock, DecoderSend, StreamClosed, QuietStep
<1>4. CASE StopTakesStream \/ StopTakesTransport
  BY <1>4 DEF StopTakesStream, StopTakesTransport, QuietStep
<1>5. ASSUME NEW t \in Transports, EventLoop(t) \/ Drop(t) \/ TimerFires(t)
      PROVE  QuietStep
  <2>1. CASE PollData(t) \/ PollStart(t) \/ PollClosed(t) \/ Drop(t)
    BY <2>1 DEF PollData, PollStart, PollClosed, Drop, QuietStep
  <2>2. CASE PollStop(t)
    <3>1. UNCHANGED <<reported, main>>
      BY <2>2 DEF PollStop
    <3>2. CallStop(LoopTask(t)) \/ UNCHANGED stopAt
      BY <2>2 DEF PollStop
    <3> QED
      BY <3>1, <3>2, CallStopIsQuiet DEF QuietStep
  <2>3. CASE TimerFires(t)
    <3>1. UNCHANGED <<reported, main>>
      BY <2>3 DEF TimerFires
    <3>2. CallStop(Task("timer")) \/ UNCHANGED stopAt
      BY <2>3 DEF TimerFires
    <3> QED
      BY <3>1, <3>2, CallStopIsQuiet DEF QuietStep
  <2> QED
    BY <1>5, <2>1, <2>2, <2>3 DEF EventLoop
<1>6. ASSUME NEW s \in Starts, StartTask(s) PROVE QuietStep
  <2>1. CASE LaunchFails(s)
    BY <2>1, CallStopIsQuiet DEF LaunchFails
  <2>2. CASE ~LaunchFails(s)
    BY <1>6, <2>2 DEF StartTask, ClearForStart, TakeStream, Launch,
       InstallStream, QuietStep
  <2> QED
    BY <2>1, <2>2
<1>7. CASE UNCHANGED vars
  BY <1>7 DEF vars, QuietStep
<1> QED
  BY <1>1, <1>2, <1>3, <1>4, <1>5, <1>6, <1>7 DEF Next, StopTask

LEMMA NextReportInv == ReportInv /\ [Next]_vars => ReportInv'
<1> SUFFICES ASSUME ReportInv, [Next]_vars PROVE ReportInv'
  OBVIOUS
<1>1. CASE StopSends
  BY <1>1 DEF StopSends, ReportInv
<1>2. CASE StopNotifies
  BY <1>2 DEF StopNotifies, ReportInv
<1>3. CASE MainStep
  BY <1>3 DEF MainStep, ReportInv
<1>4. CASE ~(StopSends \/ StopNotifies \/ MainStep)
  BY <1>4, StepsAreQuiet DEF QuietStep, ReportInv
<1> QED
  BY <1>1, <1>2, <1>3, <1>4

LEMMA InitKeepsProcess == Init => ReportInv /\ Process!Init
  BY DEF Init, ReportInv, Process!Init

\* Each step is one of the process, or none.
LEMMA NextKeepsProcess ==
    ASSUME ReportInv, [Next]_vars
    PROVE  [Process!Spawn \/ Process!Tell \/ Process!Exit]_(IF main = "exited"
                THEN "exited" ELSE IF reported THEN "told" ELSE "serving")
<1>1. CASE StopSends
  BY <1>1 DEF StopSends, ReportInv, Running, Process!Tell
<1>2. CASE StopNotifies
  BY <1>2 DEF StopNotifies, ReportInv, Running
<1>3. CASE MainStep
  BY <1>3 DEF MainStep, ReportInv, Process!Exit
<1>4. CASE ~(StopSends \/ StopNotifies \/ MainStep)
  BY <1>4, StepsAreQuiet DEF QuietStep
<1> QED
  BY <1>1, <1>2, <1>3, <1>4

(* StreamConnection implements StreamerProcess without a crash: whatever   *)
(* ends the session, main exits only after the server was told, once.      *)
THEOREM ProcessKept == Spec => KeepsProcess
<1>1. Init => ReportInv /\ Process!Init
  BY InitKeepsProcess
<1>2. ReportInv /\ [Next]_vars => ReportInv'
  BY NextReportInv
<1>3. ReportInv /\ [Next]_vars
          => [Process!Spawn \/ Process!Tell \/ Process!Exit]_(IF main = "exited"
                  THEN "exited" ELSE IF reported THEN "told" ELSE "serving")
  BY NextKeepsProcess
<1> QED
  BY <1>1, <1>2, <1>3, PTL DEF Spec, KeepsProcess, Process!OrderlySpec
=============================================================================
