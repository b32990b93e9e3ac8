---------------------------- MODULE BrowserProofs ----------------------------
(* Theorems about the browser's connection and its picture. Of Viewer, for  *)
(* any number of streams and any settings: types, and that the end of a     *)
(* transport is heard by its plan. Of Candidates, for any candidates,       *)
(* limits and sizes of its buffers: types, and where every candidate is or  *)
(* by what it was lost. Of Player, for any browser, backlog and limits:     *)
(* types, and when a decoder is given only what it can decode.              *)
EXTENDS Viewer, Candidates, Player, TLAPS, SequenceTheorems, FiniteSetTheorems,
        NaturalsInduction, WellFoundedInduction

Messages == {"Setup", "Complete", "Fatal", "Terminated", "closed"}

\* A restart awaits stop() only when another stream may follow.
RestartHasRoom == restart => stream \in 1..MaxStreams - 1
\* A web socket becomes the transport without an attempt.
SocketIsTaken ==
    \A s \in Streams : route[s] = "socket" => plan[s] \in {"pipes", "wait", "over"}
TInv == TypeOK /\ RestartHasRoom
VInv == TypeOK /\ SocketIsTaken /\ EveryEndIsHeard

-----------------------------------------------------------------------------
(* Types.                                                                  *)

LEMMA PostType ==
    ASSUME TypeOK, NEW s \in Streams, NEW messages \in Seq(Messages), Post(s, messages)
    PROVE  inbox' \in [Streams -> Seq(Messages)]
<1>1. inbox \in [Streams -> Seq(Messages)]
  BY DEF TypeOK, StreamTypeOK, Messages
<1>2. inbox[s] \o messages \in Seq(Messages)
  BY <1>1, ConcatProperties
<1> QED
  BY <1>1, <1>2 DEF Post

LEMMA ReceiveType ==
    ASSUME TypeOK, NEW s \in Streams, NEW m, Receive(s, m)
    PROVE  inbox' \in [Streams -> Seq(Messages)]
<1>1. inbox \in [Streams -> Seq(Messages)]
  BY DEF TypeOK, StreamTypeOK, Messages
<1>2. Tail(inbox[s]) \in Seq(Messages)
  BY <1>1, HeadTailProperties DEF Receive
<1> QED
  BY <1>1, <1>2 DEF Receive

\* What a step of the plan or the page does to the page's flags.
LEMMA FatalTypes ==
    ASSUME TypeOK, NEW terminal, Fatal(terminal)
    PROVE  {loading', recovery'} \subseteq BOOLEAN
  BY DEF TypeOK, Fatal

LEMMA RouteTypes ==
    ASSUME TypeOK, NEW s \in Streams, NEW r \in {"none", "direct", "again", "relay", "socket"},
           TryRoute(s, r)
    PROVE  /\ route' \in [Streams -> {"none", "direct", "again", "relay", "socket"}]
           /\ peer' \in [Streams -> {"none", "trying", "up", "down"}]
           /\ plan' \in [Streams -> {"idle", "connect", "closing", "pipes", "wait", "over"}]
  BY DEF TypeOK, StreamTypeOK, TryRoute

LEMMA NextRouteType ==
    ASSUME NEW r \in {"none", "direct", "again", "relay", "socket"}
    PROVE  NextRoute(r) \in {"none", "direct", "again", "relay", "socket"}
  BY DEF NextRoute

LEMMA LosePeerTypes ==
    ASSUME TypeOK, NEW s \in Streams, LosePeer(s)
    PROVE  /\ peer' \in [Streams -> {"none", "trying", "up", "down"}]
           /\ plan' \in [Streams -> {"idle", "connect", "closing", "pipes", "wait", "over"}]
           /\ deaf' \in [Streams -> BOOLEAN]
  BY DEF TypeOK, StreamTypeOK, LosePeer

LEMMA InitTypeOK == Init => TypeOK
<1> SUFFICES ASSUME Init PROVE TypeOK
  OBVIOUS
<1>1. inbox \in [Streams -> Seq(Messages)]
  <2>1. <<>> \in Seq(Messages)
    OBVIOUS
  <2> QED
    BY <2>1 DEF Init, PlanInit
<1>2. StreamTypeOK
  BY <1>1, PlanAssumption DEF Init, PlanInit, StreamTypeOK, Messages
<1>3. stream \in 0..MaxStreams
  BY PlanAssumption DEF Init
<1> QED
  BY <1>2, <1>3 DEF Init, TypeOK

LEMMA StartTypes ==
    ASSUME TInv, FirstStart \/ RestartStops \/ RestartStarts \/ OpenSettings
    PROVE  TInv'
<1> USE DEF planVars, TInv, TypeOK, StreamTypeOK, RestartHasRoom
<1>1. CASE FirstStart
  <2>1. 1 \in Streams /\ 1 \in 0..MaxStreams
    BY PlanAssumption DEF Streams
  <2>2. ~restart
    BY <1>1, PlanAssumption DEF FirstStart
  <2> QED
    BY <1>1, <2>1, <2>2 DEF FirstStart, Begin, NewStream
<1>2. CASE RestartStops
  <2>1. stream \in Streams /\ stream \in 1..MaxStreams - 1
    BY <1>2, PlanAssumption DEF RestartStops, Streams
  <2> QED
    BY <1>2, <2>1 DEF RestartStops, StopStream
<1>3. CASE RestartStarts
  <2>1. stream + 1 \in Streams /\ stream + 1 \in 0..MaxStreams
    BY <1>3, PlanAssumption DEF RestartStarts, Streams
  <2> QED
    BY <1>3, <2>1 DEF RestartStarts, Begin, NewStream
<1>4. CASE OpenSettings
  BY <1>4 DEF OpenSettings, streamVars
<1> QED
  BY <1>1, <1>2, <1>3, <1>4

LEMMA MessageTypes ==
    ASSUME TInv, NEW s \in Streams, OnSetup(s) \/ OnComplete(s) \/ OnFatal(s)
    PROVE  TInv'
<1> USE DEF planVars, pageVars, TInv, TypeOK, StreamTypeOK, RestartHasRoom
<1>1. inbox' \in [Streams -> Seq(Messages)]
  BY ReceiveType DEF OnSetup, OnComplete, OnFatal
<1>2. CASE OnSetup(s)
  BY <1>1, <1>2, RouteTypes, NextRouteType DEF OnSetup, Messages
<1>3. CASE OnComplete(s)
  <2>1. video' \in [Streams -> {"none", "ready", "playing"}]
    <3>1. video \in [Streams -> {"none", "ready", "playing"}]
      OBVIOUS
    <3>2. \/ video' = [video EXCEPT ![s] = IF video[s] = "ready" THEN "playing" ELSE video[s]]
          \/ video' = video
      BY <1>3 DEF OnComplete
    <3>3. video[s] \in {"none", "ready", "playing"}
      BY <3>1
    <3> QED
      BY <3>1, <3>2, <3>3
  <2> QED
    BY <1>1, <1>3, <2>1 DEF OnComplete, Messages
<1>4. CASE OnFatal(s)
  <2>1. {loading', recovery'} \subseteq BOOLEAN
    BY <1>4, FatalTypes DEF OnFatal
  <2> QED
    BY <1>1, <1>4, <2>1 DEF OnFatal, Messages
<1> QED
  BY <1>2, <1>3, <1>4

LEMMA SocketTypes ==
    ASSUME TInv, NEW s \in Streams, OnSocketClosed(s)
    PROVE  TInv'
<1> USE DEF planVars, pageVars, TInv, TypeOK, StreamTypeOK, RestartHasRoom
<1>1. /\ socket' \in [Streams -> {"none", "opening", "open", "closed"}]
      /\ far' \in [Streams -> {"none", "up", "starting", "live", "gone"}]
  BY DEF OnSocketClosed
<1>2. inbox' \in [Streams -> Seq(Messages)]
  <2>1. <<>> \in Seq(Messages) /\ inbox \in [Streams -> Seq(Messages)]
    BY DEF Messages
  <2> QED
    BY <2>1 DEF OnSocketClosed
<1>3. /\ peer' \in [Streams -> {"none", "trying", "up", "down"}]
      /\ plan' \in [Streams -> {"idle", "connect", "closing", "pipes", "wait", "over"}]
      /\ deaf' \in [Streams -> BOOLEAN]
  BY LosePeerTypes DEF OnSocketClosed
<1>4. {loading', recovery'} \subseteq BOOLEAN
  BY FatalTypes DEF OnSocketClosed
<1> QED
  BY <1>1, <1>2, <1>3, <1>4 DEF OnSocketClosed, Messages

LEMMA PlanTypes ==
    ASSUME TInv, NEW s \in Streams, NextAttempt(s) \/ PipelinesFail(s) \/ PeerFails(s)
    PROVE  TInv'
<1> USE DEF planVars, pageVars, TInv, TypeOK, StreamTypeOK, RestartHasRoom
<1>1. {loading', recovery'} \subseteq BOOLEAN
  BY FatalTypes DEF NextAttempt, PipelinesFail, PeerFails
<1>2. CASE NextAttempt(s)
  BY <1>1, <1>2, RouteTypes, NextRouteType DEF NextAttempt
<1>3. CASE PipelinesFail(s)
  <2>1. NextRoute("relay") \in {"none", "direct", "again", "relay", "socket"}
    BY NextRouteType
  <2> QED
    BY <1>1, <1>3, <2>1, RouteTypes DEF PipelinesFail
<1>4. CASE PeerFails(s)
  BY <1>1, <1>4, LosePeerTypes DEF PeerFails
<1> QED
  BY <1>2, <1>3, <1>4

LEMMA FarTypes ==
    ASSUME TInv, NEW s \in Streams, SocketOpens(s) \/ Far(s), UNCHANGED pageVars
    PROVE  TInv'
<1> USE DEF planVars, pageVars, TInv, TypeOK, StreamTypeOK, RestartHasRoom
<1>1. inbox' \in [Streams -> Seq(Messages)]
  <2>1. /\ <<"Setup">> \in Seq(Messages) /\ <<"Complete">> \in Seq(Messages)
        /\ <<"Fatal">> \in Seq(Messages) /\ <<"Terminated">> \in Seq(Messages)
        /\ <<"closed">> \in Seq(Messages)
    BY DEF Messages
  <2>2. CASE UNCHANGED inbox
    BY <2>2 DEF Messages
  <2>3. CASE \E m \in Messages : Post(s, <<m>>)
    BY <2>1, <2>3, PostType DEF Messages
  <2> QED
    BY <2>2, <2>3 DEF SocketOpens, Far, FarAnswers, FarTerminates, FarLeaves, FarCloses, Messages
<1> QED
  BY <1>1 DEF SocketOpens, Far, FarAnswers, FarTerminates, FarLeaves, FarCloses, Messages

LEMMA AwaitTypes ==
    ASSUME TInv, NEW s \in Streams, Await(s), UNCHANGED pageVars
    PROVE  TInv'
  BY DEF Await, AttemptConnects, AttemptFails, PipelinesReady, StartStream, planVars, pageVars,
     TInv, TypeOK, StreamTypeOK, RestartHasRoom

LEMMA NextTInv == TInv /\ [Next]_vars => TInv'
<1> SUFFICES ASSUME TInv, [Next]_vars PROVE TInv'
  OBVIOUS
<1>1. CASE UNCHANGED vars
  BY <1>1 DEF vars, streamVars, planVars, pageVars, TInv, TypeOK, StreamTypeOK, RestartHasRoom
<1> QED
  BY <1>1, StartTypes, MessageTypes, SocketTypes, PlanTypes, FarTypes, AwaitTypes DEF Next

(* The type invariant holds for any number of streams and any settings.    *)
THEOREM TypeCorrect == Spec => []TypeOK
<1>1. Init => TInv
  BY InitTypeOK DEF Init, TInv, RestartHasRoom
<1>2. TInv => TypeOK
  BY DEF TInv
<1> QED
  BY <1>1, <1>2, NextTInv, PTL DEF Spec

-----------------------------------------------------------------------------
(* The ends of the transports.                                             *)

LEMMA RouteIsHeard ==
    ASSUME VInv, NEW s \in Streams, NEW r, TryRoute(s, r), UNCHANGED deaf
    PROVE  (SocketIsTaken /\ EveryEndIsHeard)'
  BY DEF TryRoute, VInv, TypeOK, StreamTypeOK, SocketIsTaken, EveryEndIsHeard

LEMMA LossIsHeard ==
    ASSUME VInv, NEW s \in Streams, plan[s] \in {"pipes", "wait", "over"}, LosePeer(s),
           UNCHANGED route
    PROVE  (SocketIsTaken /\ EveryEndIsHeard)'
  BY DEF LosePeer, VInv, TypeOK, StreamTypeOK, SocketIsTaken, EveryEndIsHeard

LEMMA AwaitIsHeard ==
    ASSUME VInv, NEW s \in Streams, Await(s)
    PROVE  (SocketIsTaken /\ EveryEndIsHeard)'
<1> USE DEF VInv, TypeOK, StreamTypeOK, SocketIsTaken, EveryEndIsHeard
<1>1. CASE AttemptConnects(s)
  BY <1>1 DEF AttemptConnects
<1>2. CASE AttemptFails(s)
  BY <1>2 DEF AttemptFails
<1>3. CASE PipelinesReady(s)
  BY <1>3 DEF PipelinesReady
<1> QED
  BY <1>1, <1>2, <1>3 DEF Await

LEMMA NextVInv == VInv /\ TypeOK' /\ [Next]_vars => VInv'
<1> SUFFICES ASSUME VInv, TypeOK', [Next]_vars PROVE (SocketIsTaken /\ EveryEndIsHeard)'
  BY DEF VInv
<1>1. CASE UNCHANGED <<plan, route, peer, deaf>>
  BY <1>1 DEF VInv, SocketIsTaken, EveryEndIsHeard
<1>2. ASSUME NEW s \in Streams, OnSetup(s) \/ NextAttempt(s) \/ PipelinesFail(s)
      PROVE (SocketIsTaken /\ EveryEndIsHeard)'
  BY <1>2, RouteIsHeard DEF OnSetup, NextAttempt, PipelinesFail
<1>3. ASSUME NEW s \in Streams, OnSocketClosed(s) \/ PeerFails(s)
      PROVE (SocketIsTaken /\ EveryEndIsHeard)'
  <2>1. CASE UNCHANGED <<plan, peer, deaf>>
    BY <1>1, <1>3, <2>1 DEF OnSocketClosed, PeerFails
  <2>2. CASE OnSocketClosed(s) /\ route[s] = "socket" /\ plan[s] # "over"
    <3>1. plan[s] \in {"pipes", "wait", "over"}
      BY <2>2 DEF VInv, SocketIsTaken
    <3> QED
      BY <2>2, <3>1, LossIsHeard DEF OnSocketClosed
  <2>3. CASE PeerFails(s)
    BY <2>3, LossIsHeard DEF PeerFails
  <2> QED
    BY <1>3, <2>1, <2>2, <2>3 DEF OnSocketClosed
<1>4. ASSUME NEW s \in Streams, Await(s)
      PROVE (SocketIsTaken /\ EveryEndIsHeard)'
  BY <1>4, AwaitIsHeard
<1>5. ASSUME NEW s \in Streams, OnComplete(s) \/ OnFatal(s) \/ SocketOpens(s) \/ Far(s)
      PROVE UNCHANGED <<plan, route, peer, deaf>>
  BY <1>5 DEF OnComplete, OnFatal, SocketOpens, Far, FarAnswers, FarTerminates, FarLeaves,
     FarCloses, planVars
<1>6. CASE FirstStart \/ RestartStops \/ RestartStarts \/ OpenSettings
  BY <1>1, <1>6 DEF FirstStart, RestartStops, RestartStarts, OpenSettings, streamVars, planVars
<1> QED
  BY <1>1, <1>2, <1>3, <1>4, <1>5, <1>6 DEF Next, vars, streamVars, planVars

(* A transport that is gone is one whose plan goes on or has ended, unless *)
(* it closed while the pipelines were built (onclose, tryWebRTCTransport,   *)
(* tryWebSocketTransport).                                                 *)
THEOREM EndsAreHeard == Spec => []EveryEndIsHeard
<1>1. Init => VInv
  BY InitTypeOK DEF Init, PlanInit, VInv, SocketIsTaken, EveryEndIsHeard
<1>2. VInv => EveryEndIsHeard
  BY DEF VInv
<1> QED
  BY <1>1, <1>2, NextVInv, TypeCorrect, PTL DEF Spec

-----------------------------------------------------------------------------
(* Candidates.                                                              *)

\* A candidate waits at most once in a buffer.
Distinct(queue, S) == queue \in Seq(S) /\ IsInjective(queue)

\* The browser's candidates: gathered ones wait in one of two buffers, are left out, or
\* were sent once.
LocalInv ==
  /\ gathered \subseteq NearCandidates
  /\ Distinct(bufferedLocal, gathered)
  /\ Distinct(delayedLocal, gathered)
  /\ sent \in [NearCandidates -> Nat]
  /\ ToSet(bufferedLocal) \cap ToSet(delayedLocal) = {}
  /\ dropped \cap (ToSet(bufferedLocal) \cup ToSet(delayedLocal)) = {}
  /\ \A c \in gathered :
       sent[c] = IF c \in dropped \cup ToSet(bufferedLocal) \cup ToSet(delayedLocal) THEN 0 ELSE 1
  /\ \A c \in NearCandidates \ gathered : sent[c] = 0 /\ c \notin dropped

\* The streamer's whose calls have not ended.
Calling == {c \in FarCandidates : awaited[c] # NoCandidate}
Pending == ToSet(iceCandidates) \cup ToSet(delayedRemote) \cup ToSet(flushing) \cup Calling
Lost == (dropped \cup failed) \cap FarCandidates

\* The streamer's: received ones wait in one place, were taken or refused, or are lost; those
\* that were taken or refused may still be buffered.
RemoteInv ==
  /\ received \subseteq FarCandidates
  /\ Distinct(iceCandidates, received)
  /\ Distinct(delayedRemote, received)
  /\ Distinct(flushing, received)
  /\ ToSet(iceCandidates) \cap (ToSet(delayedRemote) \cup ToSet(flushing) \cup Calling) = {}
  /\ ToSet(delayedRemote) \cap (ToSet(flushing) \cup Calling) = {}
  /\ ToSet(flushing) \cap Calling = {}
  /\ Calling \subseteq received
  /\ applied \subseteq received /\ refused \subseteq received /\ failed \subseteq received
  /\ repeated \subseteq applied /\ Lost \subseteq received
  /\ Lost \cap (Pending \cup applied \cup refused) = {}
  /\ (applied \cup refused)
       \cap (ToSet(delayedRemote) \cup ToSet(flushing) \cup Calling) = {}
  /\ received \subseteq Lost \cup applied \cup refused \cup Pending

\* Where each call is.  Once there is a description nothing is added to the buffer: a call
\* in a loop awaits what the buffer holds at its place, and the browser took all before it,
\* or the loop of another call ended and emptied the buffer.
LoopInv ==
  /\ at \in [Callers -> Nat] /\ awaited \in [Callers -> received \cup {NoCandidate}]
  /\ \A x \in Callers :
       at[x] = 0 /\ awaited[x] # NoCandidate => x \in FarCandidates /\ awaited[x] = x
  /\ \A x \in Callers : at[x] > 0 =>
       /\ described /\ awaited[x] \in ToSet(iceCandidates) \cup applied
       /\ iceCandidates # <<>> => /\ at[x] <= Len(iceCandidates) /\ awaited[x] = iceCandidates[at[x]]
                                  /\ \A j \in 1..at[x] - 1 : iceCandidates[j] \in applied

\* Before there is a description the browser is given nothing.
NothingGiven == ~described =>
  applied = {} /\ refused = {} /\ flushing = <<>> /\ \A x \in Callers : awaited[x] = NoCandidate

\* Until a candidate is refused, what the browser took is buffered only while a loop runs;
\* and until loops overlap, one loop runs at most, and what it has still to give is new.
OnceInv == refused = {} =>
  /\ failed = {}
  /\ ToSet(iceCandidates) \cap applied # {} => \E x \in Callers : at[x] > 0
  /\ ~overlapped =>
       /\ repeated = {}
       /\ \A x, y \in Callers : at[x] > 0 /\ at[y] > 0 => x = y
       /\ \A x \in Callers : at[x] > 0 =>
            /\ iceCandidates # <<>>
            /\ \A j \in at[x]..Len(iceCandidates) : iceCandidates[j] \notin applied

-----------------------------------------------------------------------------
(* Buffers.                                                                *)

LEMMA EmptyQueue ==
    ASSUME NEW S
    PROVE  Distinct(<<>>, S) /\ ToSet(<<>>) = {}
  BY DEF Distinct, IsInjective, ToSet

LEMMA SingleQueue ==
    ASSUME NEW S, NEW c \in S
    PROVE  Distinct(<<c>>, S) /\ ToSet(<<c>>) = {c}
  BY DEF Distinct, IsInjective, ToSet

LEMMA QueueSet ==
    ASSUME NEW S, NEW queue, Distinct(queue, S)
    PROVE  ToSet(queue) \subseteq S
  BY DEF Distinct, ToSet

LEMMA WiderQueue ==
    ASSUME NEW S, NEW T, S \subseteq T, NEW queue, Distinct(queue, S)
    PROVE  Distinct(queue, T)
<1>1. \A s \in Seq(S) : s \in Seq(T)
  OBVIOUS
<1> QED
  BY <1>1 DEF Distinct

LEMMA AppendQueue ==
    ASSUME NEW S, NEW queue, Distinct(queue, S), NEW c \in S, c \notin ToSet(queue)
    PROVE  Distinct(Append(queue, c), S) /\ ToSet(Append(queue, c)) = ToSet(queue) \cup {c}
<1> DEFINE more == Append(queue, c)
<1>1. queue \in Seq(S) /\ more \in Seq(S)
  BY DEF Distinct
<1>2. Len(more) = Len(queue) + 1 /\ more[Len(queue) + 1] = c
      /\ \A i \in 1..Len(queue) : more[i] = queue[i]
  BY <1>1
<1> HIDE DEF more
<1>3. DOMAIN more = 1..Len(queue) + 1 /\ DOMAIN queue = 1..Len(queue) /\ Len(queue) \in Nat
  BY <1>1, <1>2
<1>4. IsInjective(more)
  BY <1>2, <1>3 DEF IsInjective, Distinct, ToSet
<1>5. ToSet(more) = ToSet(queue) \cup {c}
  BY <1>2, <1>3 DEF ToSet
<1> QED
  BY <1>1, <1>4, <1>5 DEF Distinct, more

LEMMA ConcatQueue ==
    ASSUME NEW S, NEW q1, Distinct(q1, S), NEW q2, Distinct(q2, S), ToSet(q1) \cap ToSet(q2) = {}
    PROVE  Distinct(q1 \o q2, S) /\ ToSet(q1 \o q2) = ToSet(q1) \cup ToSet(q2)
<1> DEFINE all == q1 \o q2
<1>1. q1 \in Seq(S) /\ q2 \in Seq(S)
  BY DEF Distinct
<1>2. /\ all \in Seq(S) /\ Len(all) = Len(q1) + Len(q2)
      /\ \A i \in 1..Len(q1) + Len(q2) : all[i] = IF i <= Len(q1) THEN q1[i] ELSE q2[i - Len(q1)]
  BY <1>1, ConcatProperties
<1> HIDE DEF all
<1>3. /\ DOMAIN all = 1..Len(q1) + Len(q2) /\ DOMAIN q1 = 1..Len(q1) /\ DOMAIN q2 = 1..Len(q2)
      /\ Len(q1) \in Nat /\ Len(q2) \in Nat
  BY <1>1, <1>2
<1>4. ASSUME NEW i \in 1..Len(q1) PROVE q1[i] \in ToSet(q1) /\ all[i] = q1[i]
  BY <1>2, <1>3 DEF ToSet
<1>5. ASSUME NEW i \in 1..Len(q2) PROVE q2[i] \in ToSet(q2) /\ all[i + Len(q1)] = q2[i]
  <2>1. i + Len(q1) \in 1..Len(q1) + Len(q2) /\ ~(i + Len(q1) <= Len(q1)) /\ i + Len(q1) - Len(q1) = i
    BY <1>3
  <2> QED
    BY <2>1, <1>2, <1>3 DEF ToSet
<1>6. ASSUME NEW i \in 1..Len(q1) + Len(q2), ~(i <= Len(q1))
      PROVE  i - Len(q1) \in 1..Len(q2) /\ all[i] = q2[i - Len(q1)]
  <2>1. i - Len(q1) \in 1..Len(q2)
    BY <1>3, <1>6
  <2>2. all[i] = IF i <= Len(q1) THEN q1[i] ELSE q2[i - Len(q1)]
    BY <1>2
  <2> QED
    BY <2>1, <2>2, <1>6
<1>7. ToSet(all) \subseteq ToSet(q1) \cup ToSet(q2)
  <2>1. ASSUME NEW i \in DOMAIN all PROVE all[i] \in ToSet(q1) \cup ToSet(q2)
    <3>1. CASE i <= Len(q1)
      BY <3>1, <1>3, <1>4
    <3>2. CASE ~(i <= Len(q1))
      BY <3>2, <1>3, <1>5, <1>6
    <3> QED
      BY <3>1, <3>2
  <2> QED
    BY <2>1 DEF ToSet
<1>8. ToSet(q1) \subseteq ToSet(all)
  BY <1>3, <1>4 DEF ToSet
<1>9. ToSet(q2) \subseteq ToSet(all)
  <2>1. ASSUME NEW i \in 1..Len(q2) PROVE i + Len(q1) \in DOMAIN all
    BY <1>3
  <2> QED
    BY <2>1, <1>3, <1>5 DEF ToSet
<1>10. ASSUME NEW i \in DOMAIN all, NEW j \in DOMAIN all, all[i] = all[j] PROVE i = j
  <2>1. CASE i <= Len(q1) /\ j <= Len(q1)
    BY <2>1, <1>3, <1>4, <1>10 DEF Distinct, IsInjective
  <2>2. CASE ~(i <= Len(q1)) /\ ~(j <= Len(q1))
    <3>1. q2[i - Len(q1)] = q2[j - Len(q1)] /\ i - Len(q1) \in DOMAIN q2 /\ j - Len(q1) \in DOMAIN q2
      BY <2>2, <1>3, <1>6, <1>10
    <3>2. i - Len(q1) = j - Len(q1)
      BY <3>1 DEF Distinct, IsInjective
    <3> QED
      BY <3>2, <1>3
  <2>3. CASE i <= Len(q1) /\ ~(j <= Len(q1))
    <3>1. i \in 1..Len(q1) /\ all[i] \in ToSet(q1)
      BY <2>3, <1>3, <1>4
    <3>2. all[j] \in ToSet(q2)
      BY <2>3, <1>3, <1>5, <1>6
    <3> QED
      BY <3>1, <3>2, <1>10
  <2>4. CASE ~(i <= Len(q1)) /\ j <= Len(q1)
    <3>1. j \in 1..Len(q1) /\ all[j] \in ToSet(q1)
      BY <2>4, <1>3, <1>4
    <3>2. all[i] \in ToSet(q2)
      BY <2>4, <1>3, <1>5, <1>6
    <3> QED
      BY <3>1, <3>2, <1>10
  <2> QED
    BY <2>1, <2>2, <2>3, <2>4
<1>11. IsInjective(all)
  BY <1>10 DEF IsInjective
<1> QED
  BY <1>2, <1>7, <1>8, <1>9, <1>11 DEF Distinct, all

LEMMA CutQueue ==
    ASSUME NEW S, NEW queue, Distinct(queue, S), NEW n \in Nat, n <= Len(queue)
    PROVE  LET front == SubSeq(queue, 1, n)
               back == SubSeq(queue, n + 1, Len(queue)) IN
           /\ Distinct(back, S) /\ Len(back) = Len(queue) - n
           /\ ToSet(front) \cup ToSet(back) = ToSet(queue)
           /\ ToSet(front) \cap ToSet(back) = {}
<1> DEFINE front == SubSeq(queue, 1, n)
           back == SubSeq(queue, n + 1, Len(queue))
<1>1. queue \in Seq(S) /\ Len(queue) \in Nat /\ DOMAIN queue = 1..Len(queue)
      /\ \A i \in 1..Len(queue) : queue[i] \in S
  BY DEF Distinct
<1>2. /\ front \in Seq(S) /\ Len(front) = n
      /\ \A i \in 1..n : front[i] = queue[i]
  <2>1. \A i \in 1..n : queue[i] \in S
    BY <1>1
  <2>2. /\ front \in Seq(S) /\ Len(front) = IF 1 <= n THEN n - 1 + 1 ELSE 0
        /\ \A i \in 1..n - 1 + 1 : front[i] = queue[1 + i - 1]
    BY <2>1, SubSeqProperties
  <2> HIDE DEF front
  <2>3. \A i \in 1..n : i \in 1..n - 1 + 1 /\ 1 + i - 1 = i
    OBVIOUS
  <2> QED
    BY <2>2, <2>3
<1>3. /\ back \in Seq(S) /\ Len(back) = Len(queue) - n
      /\ \A i \in 1..Len(queue) - n : back[i] = queue[n + i]
  <2>1. \A i \in n + 1..Len(queue) : queue[i] \in S
    BY <1>1
  <2>2. /\ back \in Seq(S)
        /\ Len(back) = IF n + 1 <= Len(queue) THEN Len(queue) - (n + 1) + 1 ELSE 0
        /\ \A i \in 1..Len(queue) - (n + 1) + 1 : back[i] = queue[n + 1 + i - 1]
    BY <2>1, <1>1, SubSeqProperties
  <2> HIDE DEF back
  <2>3. \A i \in 1..Len(queue) - n : i \in 1..Len(queue) - (n + 1) + 1 /\ n + 1 + i - 1 = n + i
    BY <1>1
  <2>4. Len(back) = Len(queue) - n
    <3>1. CASE n + 1 <= Len(queue)
      BY <3>1, <2>2, <1>1
    <3>2. CASE ~(n + 1 <= Len(queue))
      <4>1. Len(queue) \in Nat /\ n \in Nat /\ n <= Len(queue)
        BY <1>1
      <4>1a. n = Len(queue)
        BY <3>2, <4>1
      <4> QED
        BY <3>2, <4>1a, <2>2, <1>1
    <3> QED
      BY <3>1, <3>2
  <2>5. \A i \in 1..Len(queue) - n : back[i] = queue[n + i]
    BY <2>2, <2>3
  <2> QED
    BY <2>2, <2>4, <2>5
<1> HIDE DEF front, back
<1>4. DOMAIN front = 1..n /\ DOMAIN back = 1..Len(queue) - n
  BY <1>1, <1>2, <1>3
<1>5. ASSUME NEW i \in 1..Len(queue) - n PROVE n + i \in DOMAIN queue /\ back[i] = queue[n + i]
  BY <1>1, <1>3
<1>6. IsInjective(back)
  <2>1. ASSUME NEW i \in DOMAIN back, NEW j \in DOMAIN back, back[i] = back[j] PROVE i = j
    <3>1. n + i = n + j
      BY <2>1, <1>4, <1>5 DEF Distinct, IsInjective
    <3> QED
      BY <3>1, <1>1, <1>4
  <2> QED
    BY <2>1 DEF IsInjective
<1>7. ToSet(front) \subseteq ToSet(queue) /\ ToSet(back) \subseteq ToSet(queue)
  <2>1. ASSUME NEW i \in DOMAIN front PROVE front[i] \in ToSet(queue)
    <3>1. i \in DOMAIN queue /\ front[i] = queue[i]
      BY <1>1, <1>2, <1>4
    <3> QED
      BY <3>1 DEF ToSet
  <2>2. ASSUME NEW i \in DOMAIN back PROVE back[i] \in ToSet(queue)
    BY <1>4, <1>5 DEF ToSet
  <2> QED
    BY <2>1, <2>2 DEF ToSet
<1>8. ToSet(queue) \subseteq ToSet(front) \cup ToSet(back)
  <2>1. ASSUME NEW i \in DOMAIN queue PROVE queue[i] \in ToSet(front) \cup ToSet(back)
    <3>1. CASE i <= n
      BY <3>1, <1>1, <1>2, <1>4 DEF ToSet
    <3>2. CASE ~(i <= n)
      <4>1. i - n \in 1..Len(queue) - n /\ n + (i - n) = i
        BY <3>2, <1>1
      <4> QED
        BY <4>1, <1>4, <1>5 DEF ToSet
    <3> QED
      BY <3>1, <3>2
  <2> QED
    BY <2>1 DEF ToSet
<1>9. ToSet(front) \cap ToSet(back) = {}
  <2>1. ASSUME NEW i \in 1..n, NEW j \in 1..Len(queue) - n, front[i] = back[j] PROVE FALSE
    <3>1. i \in DOMAIN queue /\ n + j \in DOMAIN queue /\ queue[i] = queue[n + j]
      BY <2>1, <1>1, <1>2, <1>5
    <3>2. i = n + j
      BY <3>1 DEF Distinct, IsInjective
    <3> QED
      BY <3>2, <1>1
  <2> QED
    BY <2>1, <1>4 DEF ToSet
<1> QED
  BY <1>3, <1>6, <1>7, <1>8, <1>9 DEF Distinct, front, back

\* What a full buffer keeps of old and new, and what it lets go.
LEMMA AddAllProperties ==
    ASSUME NEW S, NEW queue, Distinct(queue, S), NEW cs, Distinct(cs, S),
           ToSet(queue) \cap ToSet(cs) = {}, NEW limit \in Nat
    PROVE  LET a == AddAll(queue, cs, limit) IN
           /\ Distinct(a.queue, S) /\ Len(a.queue) <= limit
           /\ a.lost \cup ToSet(a.queue) = ToSet(queue) \cup ToSet(cs)
           /\ a.lost \cap ToSet(a.queue) = {}
<1> DEFINE all == queue \o cs
           over == IF Len(all) > limit THEN Len(all) - limit ELSE 0
<1>1. Distinct(all, S) /\ ToSet(all) = ToSet(queue) \cup ToSet(cs)
  BY ConcatQueue
<1>2. Len(all) \in Nat
  BY <1>1 DEF Distinct
<1>3. AddAll(queue, cs, limit).queue = SubSeq(all, over + 1, Len(all))
      /\ AddAll(queue, cs, limit).lost = ToSet(SubSeq(all, 1, over))
  BY DEF AddAll
<1> HIDE DEF all
<1>4. over \in Nat /\ over <= Len(all) /\ Len(all) - over <= limit
  BY <1>2
<1> HIDE DEF over
<1> QED
  BY <1>1, <1>3, <1>4, CutQueue

LEMMA AddProperties ==
    ASSUME NEW S, NEW queue, Distinct(queue, S), NEW c \in S, c \notin ToSet(queue),
           NEW limit \in Nat
    PROVE  LET a == Add(queue, c, limit) IN
           /\ Distinct(a.queue, S) /\ Len(a.queue) <= limit
           /\ a.lost \cup ToSet(a.queue) = ToSet(queue) \cup {c}
           /\ a.lost \cap ToSet(a.queue) = {}
<1>1. Distinct(<<c>>, S) /\ ToSet(<<c>>) = {c}
  BY SingleQueue
<1>2. ToSet(queue) \cap ToSet(<<c>>) = {}
  BY <1>1
<1>3. LET a == AddAll(queue, <<c>>, limit) IN
           /\ Distinct(a.queue, S) /\ Len(a.queue) <= limit
           /\ a.lost \cup ToSet(a.queue) = ToSet(queue) \cup ToSet(<<c>>)
           /\ a.lost \cap ToSet(a.queue) = {}
  BY <1>1, <1>2, AddAllProperties
<1> QED
  BY <1>1, <1>3 DEF Add

\* A candidate is counted once or not at all.
LEMMA TimesOnce ==
    ASSUME NEW S, NEW queue, Distinct(queue, S), NEW c
    PROVE  Times(c, queue) = IF c \in ToSet(queue) THEN 1 ELSE 0
<1> DEFINE places == {i \in DOMAIN queue : queue[i] = c}
<1>1. CASE c \in ToSet(queue)
  <2>1. PICK i \in DOMAIN queue : queue[i] = c
    BY <1>1 DEF ToSet
  <2>2. places = {i}
    BY <2>1 DEF Distinct, IsInjective
  <2> QED
    BY <1>1, <2>2, FS_Singleton DEF Times
<1>2. CASE c \notin ToSet(queue)
  <2>1. places = {}
    BY <1>2 DEF ToSet
  <2> QED
    BY <1>2, <2>1, FS_EmptySet DEF Times
<1> QED
  BY <1>1, <1>2

LEMMA SendsOnce ==
    ASSUME LocalInv, NEW queue, Distinct(queue, gathered)
    PROVE  /\ Sends(queue) \in [NearCandidates -> Nat]
           /\ \A c \in NearCandidates :
                Sends(queue)[c] = IF c \in ToSet(queue) THEN sent[c] + 1 ELSE sent[c]
<1>1. \A c : Times(c, queue) = IF c \in ToSet(queue) THEN 1 ELSE 0
  BY TimesOnce
<1> QED
  BY <1>1 DEF Sends, LocalInv

-----------------------------------------------------------------------------
(* What the actions do to the browser's candidates.                        *)

LEMMA CandidatesDiffer == NearCandidates \cap FarCandidates = {}
  BY CandidatesAssumption DEF NearCandidates, FarCandidates

\* Something of the streamer's is left out, or nothing.
LEMMA LocalKept ==
    ASSUME LocalInv, UNCHANGED <<gathered, bufferedLocal, delayedLocal, sent>>,
           NEW lost \in SUBSET FarCandidates, dropped' = dropped \cup lost
    PROVE  LocalInv'
<1>1. lost \cap NearCandidates = {}
  BY CandidatesDiffer
<1>2. ToSet(bufferedLocal) \subseteq NearCandidates /\ ToSet(delayedLocal) \subseteq NearCandidates
  BY QueueSet DEF LocalInv
<1>3. /\ Distinct(bufferedLocal, gathered)' /\ Distinct(delayedLocal, gathered)'
      /\ ToSet(bufferedLocal)' = ToSet(bufferedLocal) /\ ToSet(delayedLocal)' = ToSet(delayedLocal)
  BY DEF LocalInv
<1> QED
  BY <1>1, <1>2, <1>3 DEF LocalInv

\* The delayed ones are left out.
LEMMA DelayedLocalDropped ==
    ASSUME LocalInv, UNCHANGED <<gathered, bufferedLocal, sent>>, delayedLocal' = <<>>,
           NEW lost \in SUBSET FarCandidates, dropped' = dropped \cup ToSet(delayedLocal) \cup lost
    PROVE  LocalInv'
<1>1. lost \cap NearCandidates = {}
  BY CandidatesDiffer
<1>2. ToSet(bufferedLocal) \subseteq gathered /\ ToSet(delayedLocal) \subseteq gathered
  BY QueueSet DEF LocalInv
<1>3. /\ Distinct(bufferedLocal, gathered)' /\ ToSet(bufferedLocal)' = ToSet(bufferedLocal)
      /\ Distinct(delayedLocal, gathered)' /\ ToSet(delayedLocal)' = {}
  BY EmptyQueue DEF LocalInv
<1> QED
  BY <1>1, <1>2, <1>3 DEF LocalInv

\* The delayed ones are sent.
LEMMA DelayedLocalSent ==
    ASSUME LocalInv, UNCHANGED <<gathered, bufferedLocal, dropped>>, delayedLocal' = <<>>,
           sent' = Sends(delayedLocal)
    PROVE  LocalInv'
<1>1. /\ sent' \in [NearCandidates -> Nat]
      /\ \A c \in NearCandidates : sent'[c] = IF c \in ToSet(delayedLocal) THEN sent[c] + 1 ELSE sent[c]
  BY SendsOnce DEF LocalInv
<1>2. ToSet(bufferedLocal) \subseteq gathered /\ ToSet(delayedLocal) \subseteq gathered
  BY QueueSet DEF LocalInv
<1>3. /\ Distinct(bufferedLocal, gathered)' /\ ToSet(bufferedLocal)' = ToSet(bufferedLocal)
      /\ Distinct(delayedLocal, gathered)' /\ ToSet(delayedLocal)' = {}
  BY EmptyQueue DEF LocalInv
<1>4. \A c \in gathered :
        sent'[c] = IF c \in dropped \cup ToSet(bufferedLocal) THEN 0 ELSE 1
  <2> TAKE c \in gathered
  <2>1. c \in NearCandidates
    BY DEF LocalInv
  <2>2. CASE c \in ToSet(delayedLocal)
    <3>1. sent[c] = 0 /\ c \notin dropped /\ c \notin ToSet(bufferedLocal)
      BY <2>2 DEF LocalInv
    <3> QED
      BY <2>1, <2>2, <3>1, <1>1
  <2>3. CASE c \notin ToSet(delayedLocal)
    BY <2>1, <2>3, <1>1 DEF LocalInv
  <2> QED
    BY <2>2, <2>3
<1>5. \A c \in NearCandidates \ gathered : sent'[c] = 0
  BY <1>1, <1>2 DEF LocalInv
<1> QED
  BY <1>1, <1>2, <1>3, <1>4, <1>5 DEF LocalInv

LEMMA SendBufferedStep ==
    ASSUME LocalInv, SendBuffered
    PROVE  LocalInv'
<1>1. UNCHANGED <<gathered, delayedLocal, dropped>> /\ bufferedLocal' = <<>>
      /\ sent' = Sends(bufferedLocal)
  BY DEF SendBuffered
<1>2. /\ sent' \in [NearCandidates -> Nat]
      /\ \A c \in NearCandidates : sent'[c] = IF c \in ToSet(bufferedLocal) THEN sent[c] + 1 ELSE sent[c]
  BY <1>1, SendsOnce DEF LocalInv
<1>3. ToSet(bufferedLocal) \subseteq gathered /\ ToSet(delayedLocal) \subseteq gathered
  BY QueueSet DEF LocalInv
<1>4. /\ Distinct(bufferedLocal, gathered)' /\ ToSet(bufferedLocal)' = {}
      /\ Distinct(delayedLocal, gathered)' /\ ToSet(delayedLocal)' = ToSet(delayedLocal)
  BY <1>1, EmptyQueue DEF LocalInv
<1>5. \A c \in gathered :
        sent'[c] = IF c \in dropped \cup ToSet(delayedLocal) THEN 0 ELSE 1
  <2> TAKE c \in gathered
  <2>1. c \in NearCandidates
    BY DEF LocalInv
  <2>2. CASE c \in ToSet(bufferedLocal)
    <3>1. sent[c] = 0 /\ c \notin dropped /\ c \notin ToSet(delayedLocal)
      BY <2>2 DEF LocalInv
    <3> QED
      BY <2>1, <2>2, <3>1, <1>2
  <2>3. CASE c \notin ToSet(bufferedLocal)
    BY <2>1, <2>3, <1>2 DEF LocalInv
  <2> QED
    BY <2>2, <2>3
<1>6. \A c \in NearCandidates \ gathered : sent'[c] = 0
  BY <1>2, <1>3 DEF LocalInv
<1> QED
  BY <1>1, <1>2, <1>3, <1>4, <1>5, <1>6 DEF LocalInv

\* A new candidate is left out, delayed, buffered or sent.
LEMMA GatherStep ==
    ASSUME LocalInv, NEW c \in NearCandidates, Gather(c)
    PROVE  LocalInv'
<1>1. /\ c \notin gathered /\ gathered' = gathered \cup {c} /\ gathered' \subseteq NearCandidates
      /\ gathered \subseteq gathered'
  BY DEF Gather, LocalInv
<1>2. ToSet(bufferedLocal) \subseteq gathered /\ ToSet(delayedLocal) \subseteq gathered
      /\ sent[c] = 0 /\ c \notin dropped
  BY <1>1, QueueSet DEF LocalInv
<1>3. Distinct(bufferedLocal, gathered') /\ Distinct(delayedLocal, gathered')
  BY <1>1, WiderQueue DEF LocalInv
<1>4. CASE dropped' = dropped \cup {c} /\ UNCHANGED <<bufferedLocal, delayedLocal, sent>>
  <2>1. Distinct(bufferedLocal, gathered)' /\ Distinct(delayedLocal, gathered)'
        /\ ToSet(bufferedLocal)' = ToSet(bufferedLocal) /\ ToSet(delayedLocal)' = ToSet(delayedLocal)
    BY <1>3, <1>4
  <2> QED
    BY <1>1, <1>2, <1>4, <2>1 DEF LocalInv
<1>5. CASE /\ delayedLocal' = Add(delayedLocal, c, MaxDelayedRelayCandidates).queue
           /\ dropped' = dropped \cup Add(delayedLocal, c, MaxDelayedRelayCandidates).lost
           /\ UNCHANGED <<bufferedLocal, sent>>
  <2> DEFINE lost == Add(delayedLocal, c, MaxDelayedRelayCandidates).lost
  <2>1. /\ Distinct(delayedLocal', gathered')
        /\ lost \cup ToSet(delayedLocal') = ToSet(delayedLocal) \cup {c}
        /\ lost \cap ToSet(delayedLocal') = {}
    BY <1>1, <1>2, <1>3, <1>5, AddProperties, CandidatesAssumption
  <2> HIDE DEF lost
  <2>2. Distinct(bufferedLocal, gathered)' /\ Distinct(delayedLocal, gathered)'
        /\ ToSet(bufferedLocal)' = ToSet(bufferedLocal) /\ ToSet(delayedLocal)' = ToSet(delayedLocal')
    BY <1>3, <1>5, <2>1
  <2>3. dropped' = dropped \cup lost
    BY <1>5 DEF lost
  <2> QED
    BY <1>1, <1>2, <1>5, <2>1, <2>2, <2>3 DEF LocalInv
<1>6. CASE bufferedLocal' = Append(bufferedLocal, c) /\ UNCHANGED <<delayedLocal, dropped, sent>>
  <2>1. Distinct(bufferedLocal', gathered') /\ ToSet(bufferedLocal') = ToSet(bufferedLocal) \cup {c}
    BY <1>1, <1>2, <1>3, <1>6, AppendQueue
  <2>2. Distinct(bufferedLocal, gathered)' /\ Distinct(delayedLocal, gathered)'
        /\ ToSet(bufferedLocal)' = ToSet(bufferedLocal') /\ ToSet(delayedLocal)' = ToSet(delayedLocal)
    BY <1>3, <1>6, <2>1
  <2> QED
    BY <1>1, <1>2, <1>6, <2>1, <2>2 DEF LocalInv
<1>7. CASE sent' = Sends(<<c>>) /\ UNCHANGED <<bufferedLocal, delayedLocal, dropped>>
  <2>1. \A d : Times(d, <<c>>) = IF d = c THEN 1 ELSE 0
    BY SingleQueue, TimesOnce
  <2>2. /\ sent' \in [NearCandidates -> Nat]
        /\ \A d \in NearCandidates : sent'[d] = IF d = c THEN sent[d] + 1 ELSE sent[d]
    BY <1>7, <2>1 DEF Sends, LocalInv
  <2>3. Distinct(bufferedLocal, gathered)' /\ Distinct(delayedLocal, gathered)'
        /\ ToSet(bufferedLocal)' = ToSet(bufferedLocal) /\ ToSet(delayedLocal)' = ToSet(delayedLocal)
    BY <1>3, <1>7
  <2> QED
    BY <1>1, <1>2, <1>7, <2>2, <2>3 DEF LocalInv
<1> QED
  BY <1>4, <1>5, <1>6, <1>7 DEF Gather

-----------------------------------------------------------------------------
(* What they do to the streamer's.                                         *)

LEMMA QueuesReceived ==
    ASSUME RemoteInv
    PROVE  /\ ToSet(iceCandidates) \subseteq received /\ ToSet(delayedRemote) \subseteq received
           /\ ToSet(flushing) \subseteq received
  BY QueueSet DEF RemoteInv

\* The places of the candidates, and what became of them.
placesVars == <<received, iceCandidates, delayedRemote, flushing, awaited, outcomeVars>>

\* Something of the browser's is left out, or nothing.
LEMMA RemoteKept ==
    ASSUME RemoteInv, UNCHANGED placesVars,
           NEW lost \in SUBSET NearCandidates, dropped' = dropped \cup lost
    PROVE  RemoteInv'
<1>1. lost \cap FarCandidates = {}
  BY CandidatesDiffer
<1>2. UNCHANGED <<received, iceCandidates, delayedRemote, flushing, awaited, applied, refused,
                  repeated, failed>>
  BY DEF placesVars, outcomeVars
<1>3. Lost' = Lost
  BY <1>1, <1>2 DEF Lost
<1>4. Calling' = Calling
  BY <1>2 DEF Calling
<1>5. Pending' = Pending
  BY <1>2, <1>4 DEF Pending
<1> QED
  BY <1>2, <1>3, <1>4, <1>5 DEF RemoteInv, Distinct

\* The delayed ones are left out.
LEMMA DelayedRemoteDropped ==
    ASSUME RemoteInv, UNCHANGED <<received, iceCandidates, flushing, awaited, outcomeVars>>,
           delayedRemote' = <<>>, NEW lost \in SUBSET NearCandidates,
           dropped' = dropped \cup ToSet(delayedRemote) \cup lost
    PROVE  RemoteInv'
<1>1. lost \cap FarCandidates = {}
  BY CandidatesDiffer
<1>2. UNCHANGED <<received, iceCandidates, flushing, awaited, applied, refused, repeated, failed>>
  BY DEF outcomeVars
<1>3. ToSet(delayedRemote) \subseteq FarCandidates
  BY QueuesReceived DEF RemoteInv
<1>4. Lost' = Lost \cup ToSet(delayedRemote)
  BY <1>1, <1>2, <1>3 DEF Lost
<1>5. Calling' = Calling
  BY <1>2 DEF Calling
<1>6. Distinct(delayedRemote, received)' /\ ToSet(delayedRemote)' = {}
  BY EmptyQueue
<1>7. Pending' = ToSet(iceCandidates) \cup ToSet(flushing) \cup Calling
  BY <1>2, <1>5, <1>6 DEF Pending
<1>8. /\ Distinct(iceCandidates, received)' /\ ToSet(iceCandidates)' = ToSet(iceCandidates)
      /\ Distinct(flushing, received)' /\ ToSet(flushing)' = ToSet(flushing)
  BY <1>2 DEF RemoteInv
<1> QED
  BY <1>2, <1>4, <1>5, <1>6, <1>7, <1>8, QueuesReceived DEF RemoteInv, Pending

\* The delayed ones are given to the browser one after the other.
LEMMA DelayedRemoteFlushed ==
    ASSUME RemoteInv, UNCHANGED <<received, iceCandidates, awaited, outcomeVars, dropped>>,
           delayedRemote' = <<>>, flushing' = flushing \o delayedRemote
    PROVE  RemoteInv'
<1>2. UNCHANGED <<received, iceCandidates, awaited, applied, refused, repeated, failed>>
  BY DEF outcomeVars
<1>3. /\ Distinct(flushing', received)
      /\ ToSet(flushing') = ToSet(flushing) \cup ToSet(delayedRemote)
  BY ConcatQueue DEF RemoteInv
<1>4. Lost' = Lost
  BY <1>2 DEF Lost
<1>5. Calling' = Calling
  BY <1>2 DEF Calling
<1>6. Distinct(delayedRemote, received)' /\ ToSet(delayedRemote)' = {}
  BY EmptyQueue
<1>7. /\ Distinct(iceCandidates, received)' /\ ToSet(iceCandidates)' = ToSet(iceCandidates)
      /\ Distinct(flushing, received)' /\ ToSet(flushing)' = ToSet(flushing) \cup ToSet(delayedRemote)
  BY <1>2, <1>3 DEF RemoteInv
<1>8. Pending' = Pending
  BY <1>5, <1>6, <1>7 DEF Pending
<1> QED
  BY <1>2, <1>4, <1>5, <1>6, <1>7, <1>8, QueuesReceived DEF RemoteInv

\* The delayed ones wait with the others, and make room.
LEMMA DelayedRemoteRequeued ==
    ASSUME RemoteInv, UNCHANGED <<received, flushing, awaited, outcomeVars>>,
           applied = {}, refused = {},
           delayedRemote' = <<>>,
           iceCandidates' = AddAll(iceCandidates, delayedRemote, MaxBufferedRemoteCandidates).queue,
           dropped' = dropped
             \cup AddAll(iceCandidates, delayedRemote, MaxBufferedRemoteCandidates).lost
    PROVE  RemoteInv'
<1> DEFINE lost == AddAll(iceCandidates, delayedRemote, MaxBufferedRemoteCandidates).lost
<1>1. /\ Distinct(iceCandidates', received)
      /\ lost \cup ToSet(iceCandidates') = ToSet(iceCandidates) \cup ToSet(delayedRemote)
      /\ lost \cap ToSet(iceCandidates') = {}
  BY AddAllProperties, CandidatesAssumption DEF RemoteInv
<1>2. dropped' = dropped \cup lost
  OBVIOUS
<1> HIDE DEF lost
<1>3. UNCHANGED <<received, flushing, awaited, applied, refused, repeated, failed>>
  BY DEF outcomeVars
<1>4. lost \subseteq ToSet(iceCandidates) \cup ToSet(delayedRemote) /\ lost \subseteq FarCandidates
  BY <1>1, QueuesReceived DEF RemoteInv
<1>5. Lost' = Lost \cup lost
  BY <1>2, <1>3, <1>4 DEF Lost
<1>6. Calling' = Calling
  BY <1>3 DEF Calling
<1>7. /\ Distinct(iceCandidates, received)' /\ ToSet(iceCandidates)' = ToSet(iceCandidates')
      /\ Distinct(delayedRemote, received)' /\ ToSet(delayedRemote)' = {}
      /\ Distinct(flushing, received)' /\ ToSet(flushing)' = ToSet(flushing)
  BY <1>1, <1>3, EmptyQueue DEF RemoteInv
<1>8. Pending' = ToSet(iceCandidates') \cup ToSet(flushing) \cup Calling
  BY <1>6, <1>7 DEF Pending
<1> QED
  BY <1>1, <1>3, <1>4, <1>5, <1>6, <1>7, <1>8, QueuesReceived DEF RemoteInv, Pending

\* A new candidate waits in its call, or in a buffer that may let others go.
LEMMA ReceivedCalls ==
    ASSUME RemoteInv, NEW c \in FarCandidates \ received, received' = received \cup {c},
           UNCHANGED <<iceCandidates, delayedRemote, flushing, outcomeVars, dropped>>,
           Calling' = Calling \cup {c}
    PROVE  RemoteInv'
<1>1. received' \subseteq FarCandidates /\ received \subseteq received'
  BY DEF RemoteInv
<1>2. UNCHANGED <<iceCandidates, delayedRemote, flushing, dropped, applied, refused, repeated, failed>>
  BY DEF outcomeVars
<1>3. Lost' = Lost
  BY <1>2 DEF Lost
<1>4. /\ Distinct(iceCandidates, received') /\ Distinct(delayedRemote, received')
      /\ Distinct(flushing, received')
  BY <1>1, WiderQueue DEF RemoteInv
<1>5. /\ Distinct(iceCandidates, received)' /\ ToSet(iceCandidates)' = ToSet(iceCandidates)
      /\ Distinct(delayedRemote, received)' /\ ToSet(delayedRemote)' = ToSet(delayedRemote)
      /\ Distinct(flushing, received)' /\ ToSet(flushing)' = ToSet(flushing)
  BY <1>2, <1>4
<1>6. Pending' = Pending \cup {c}
  BY <1>5 DEF Pending
<1> QED
  BY <1>1, <1>2, <1>3, <1>5, <1>6, QueuesReceived DEF RemoteInv

LEMMA ReceivedDelayed ==
    ASSUME RemoteInv, NEW c \in FarCandidates \ received, received' = received \cup {c},
           UNCHANGED <<iceCandidates, flushing, awaited, outcomeVars>>,
           delayedRemote' = Add(delayedRemote, c, MaxDelayedRelayCandidates).queue,
           dropped' = dropped \cup Add(delayedRemote, c, MaxDelayedRelayCandidates).lost
    PROVE  RemoteInv'
<1> DEFINE lost == Add(delayedRemote, c, MaxDelayedRelayCandidates).lost
<1>1. received' \subseteq FarCandidates /\ received \subseteq received'
  BY DEF RemoteInv
<1>2. UNCHANGED <<iceCandidates, flushing, awaited, applied, refused, repeated, failed>>
  BY DEF outcomeVars
<1>3. /\ Distinct(iceCandidates, received') /\ Distinct(delayedRemote, received')
      /\ Distinct(flushing, received')
  BY <1>1, WiderQueue DEF RemoteInv
<1>4. c \notin ToSet(delayedRemote)
  BY QueuesReceived
<1>5. /\ Distinct(delayedRemote', received')
      /\ lost \cup ToSet(delayedRemote') = ToSet(delayedRemote) \cup {c}
      /\ lost \cap ToSet(delayedRemote') = {}
  BY <1>3, <1>4, AddProperties, CandidatesAssumption
<1>6. dropped' = dropped \cup lost
  OBVIOUS
<1> HIDE DEF lost
<1>7. lost \subseteq received' /\ lost \subseteq ToSet(delayedRemote) \cup {c}
  BY <1>5, QueuesReceived
<1>8. Lost' = Lost \cup lost
  BY <1>1, <1>2, <1>6, <1>7 DEF Lost
<1>9. Calling' = Calling
  BY <1>2 DEF Calling
<1>10. /\ Distinct(iceCandidates, received)' /\ ToSet(iceCandidates)' = ToSet(iceCandidates)
       /\ Distinct(delayedRemote, received)' /\ ToSet(delayedRemote)' = ToSet(delayedRemote')
       /\ Distinct(flushing, received)' /\ ToSet(flushing)' = ToSet(flushing)
  BY <1>2, <1>3, <1>5
<1>11. Pending' = ToSet(iceCandidates) \cup ToSet(delayedRemote') \cup ToSet(flushing) \cup Calling
  BY <1>9, <1>10 DEF Pending
<1> QED
  BY <1>1, <1>2, <1>5, <1>7, <1>8, <1>9, <1>10, <1>11, QueuesReceived DEF RemoteInv, Pending

LEMMA ReceivedBuffered ==
    ASSUME RemoteInv, NEW c \in FarCandidates \ received, received' = received \cup {c},
           UNCHANGED <<delayedRemote, flushing, awaited, outcomeVars>>,
           applied = {}, refused = {},
           iceCandidates' = Add(iceCandidates, c, MaxBufferedRemoteCandidates).queue,
           dropped' = dropped \cup Add(iceCandidates, c, MaxBufferedRemoteCandidates).lost
    PROVE  RemoteInv'
<1> DEFINE lost == Add(iceCandidates, c, MaxBufferedRemoteCandidates).lost
<1>1. received' \subseteq FarCandidates /\ received \subseteq received'
  BY DEF RemoteInv
<1>2. UNCHANGED <<delayedRemote, flushing, awaited, applied, refused, repeated, failed>>
  BY DEF outcomeVars
<1>3. /\ Distinct(iceCandidates, received') /\ Distinct(delayedRemote, received')
      /\ Distinct(flushing, received')
  BY <1>1, WiderQueue DEF RemoteInv
<1>4. c \notin ToSet(iceCandidates)
  BY QueuesReceived
<1>5. /\ Distinct(iceCandidates', received')
      /\ lost \cup ToSet(iceCandidates') = ToSet(iceCandidates) \cup {c}
      /\ lost \cap ToSet(iceCandidates') = {}
  BY <1>3, <1>4, AddProperties, CandidatesAssumption
<1>6. dropped' = dropped \cup lost
  OBVIOUS
<1> HIDE DEF lost
<1>7. lost \subseteq received' /\ lost \subseteq ToSet(iceCandidates) \cup {c}
  BY <1>5, QueuesReceived
<1>8. Lost' = Lost \cup lost
  BY <1>1, <1>2, <1>6, <1>7 DEF Lost
<1>9. Calling' = Calling
  BY <1>2 DEF Calling
<1>10. /\ Distinct(iceCandidates, received)' /\ ToSet(iceCandidates)' = ToSet(iceCandidates')
       /\ Distinct(delayedRemote, received)' /\ ToSet(delayedRemote)' = ToSet(delayedRemote)
       /\ Distinct(flushing, received)' /\ ToSet(flushing)' = ToSet(flushing)
  BY <1>2, <1>3, <1>5
<1>11. Pending' = ToSet(iceCandidates') \cup ToSet(delayedRemote) \cup ToSet(flushing) \cup Calling
  BY <1>9, <1>10 DEF Pending
<1> QED
  BY <1>1, <1>2, <1>5, <1>7, <1>8, <1>9, <1>10, <1>11, QueuesReceived DEF RemoteInv, Pending

\* A flush gives the browser its next one.
LEMMA TailQueue ==
    ASSUME NEW S, NEW queue, Distinct(queue, S), queue # <<>>
    PROVE  /\ Distinct(Tail(queue), S) /\ Head(queue) \in S
           /\ ToSet(queue) = ToSet(Tail(queue)) \cup {Head(queue)}
           /\ Head(queue) \notin ToSet(Tail(queue))
<1> DEFINE rest == Tail(queue)
           first == Head(queue)
<1>1. queue \in Seq(S) /\ Len(queue) \in Nat /\ DOMAIN queue = 1..Len(queue) /\ Len(queue) >= 1
  BY EmptySeq, LenProperties DEF Distinct
<1>2. /\ first \in S /\ first = queue[1] /\ rest \in Seq(S) /\ Len(rest) = Len(queue) - 1
      /\ \A i \in 1..Len(rest) : rest[i] = queue[i + 1]
  BY <1>1, HeadTailProperties
<1> HIDE DEF rest, first
<1>3. DOMAIN rest = 1..Len(queue) - 1
  BY <1>1, <1>2
<1>4. \A i \in DOMAIN rest : i + 1 \in DOMAIN queue /\ i + 1 # 1 /\ rest[i] = queue[i + 1]
  BY <1>1, <1>2, <1>3
<1>5. IsInjective(rest)
  <2>1. ASSUME NEW i \in DOMAIN rest, NEW j \in DOMAIN rest, rest[i] = rest[j] PROVE i = j
    <3>1. i + 1 = j + 1
      BY <2>1, <1>4 DEF Distinct, IsInjective
    <3> QED
      BY <3>1, <1>3
  <2> QED
    BY <2>1 DEF IsInjective
<1>6. first \notin ToSet(rest)
  <2>1. ASSUME NEW i \in DOMAIN rest, rest[i] = first PROVE FALSE
    <3>1. queue[i + 1] = queue[1] /\ 1 \in DOMAIN queue
      BY <2>1, <1>1, <1>2, <1>4
    <3> QED
      BY <3>1, <1>4 DEF Distinct, IsInjective
  <2> QED
    BY <2>1 DEF ToSet
<1>7. ToSet(queue) \subseteq ToSet(rest) \cup {first}
  <2>1. ASSUME NEW i \in DOMAIN queue PROVE queue[i] \in ToSet(rest) \cup {first}
    <3>1. CASE i = 1
      BY <3>1, <1>2
    <3>2. CASE i # 1
      <4>1. i - 1 \in DOMAIN rest /\ i - 1 + 1 = i
        BY <3>2, <1>1, <1>3
      <4> QED
        BY <4>1, <1>4 DEF ToSet
    <3> QED
      BY <3>1, <3>2
  <2> QED
    BY <2>1 DEF ToSet
<1>8. ToSet(rest) \cup {first} \subseteq ToSet(queue)
  <2>1. \A i \in DOMAIN rest : rest[i] \in ToSet(queue)
    BY <1>4 DEF ToSet
  <2>2. first \in ToSet(queue)
    BY <1>1, <1>2 DEF ToSet
  <2> QED
    BY <2>1, <2>2 DEF ToSet
<1> QED
  BY <1>2, <1>5, <1>6, <1>7, <1>8 DEF Distinct, rest, first

-----------------------------------------------------------------------------
(* What the calls do.                                                      *)

RemoteInvs == RemoteInv /\ LoopInv /\ NothingGiven /\ OnceInv

LEMMA CallersOfStreamer == FarCandidates \subseteq Callers /\ NoCandidate \notin FarCandidates
  BY CandidatesAssumption DEF Callers, FarCandidates

LEMMA BufferTyped ==
    ASSUME RemoteInv
    PROVE  /\ iceCandidates \in Seq(received) /\ Len(iceCandidates) \in Nat
           /\ iceCandidates # <<>> => Len(iceCandidates) >= 1
           /\ \A i \in 1..Len(iceCandidates) :
                iceCandidates[i] \in ToSet(iceCandidates) /\ iceCandidates[i] # NoCandidate
           /\ \A i, j \in 1..Len(iceCandidates) : iceCandidates[i] = iceCandidates[j] => i = j
           /\ \A c \in ToSet(iceCandidates) : \E i \in 1..Len(iceCandidates) : c = iceCandidates[i]
<1>1. /\ iceCandidates \in Seq(received) /\ Len(iceCandidates) \in Nat
      /\ DOMAIN iceCandidates = 1..Len(iceCandidates)
      /\ iceCandidates # <<>> => Len(iceCandidates) >= 1
  BY EmptySeq, LenProperties DEF RemoteInv, Distinct
<1>2. \A i \in 1..Len(iceCandidates) : iceCandidates[i] \in ToSet(iceCandidates)
  BY <1>1 DEF ToSet
<1>3. \A c \in ToSet(iceCandidates) : \E i \in 1..Len(iceCandidates) : c = iceCandidates[i]
  BY <1>1 DEF ToSet
<1>4. \A i, j \in 1..Len(iceCandidates) : iceCandidates[i] = iceCandidates[j] => i = j
  BY <1>1 DEF RemoteInv, Distinct, IsInjective
<1>5. NoCandidate \notin ToSet(iceCandidates)
  BY QueuesReceived, CallersOfStreamer DEF RemoteInv
<1> QED
  BY <1>1, <1>2, <1>3, <1>4, <1>5

\* What a call awaits in a loop is buffered or was taken.
LEMMA AwaitedInLoop ==
    ASSUME RemoteInvs, NEW x \in Callers, at[x] > 0
    PROVE  /\ awaited[x] \in received /\ awaited[x] # NoCandidate
           /\ awaited[x] \notin ToSet(delayedRemote) \cup ToSet(flushing) \cup Calling \cup Lost
<1>1. awaited[x] \in ToSet(iceCandidates) \cup applied
  BY DEF RemoteInvs, LoopInv
<1> QED
  BY <1>1, QueuesReceived, CallersOfStreamer DEF RemoteInvs, RemoteInv, Pending

\* Something moves that no loop reads.
LEMMA LoopsKept ==
    ASSUME RemoteInvs, UNCHANGED <<iceCandidates, loopVars, outcomeVars>>,
           received \subseteq received', described => described'
    PROVE  LoopInv' /\ OnceInv'
<1>1. UNCHANGED <<iceCandidates, at, awaited, overlapped, applied, refused, repeated, failed>>
  BY DEF loopVars, outcomeVars
<1>2. awaited \in [Callers -> received' \cup {NoCandidate}]
  BY DEF RemoteInvs, LoopInv
<1>3. LoopInv'
  BY <1>1, <1>2 DEF RemoteInvs, LoopInv
<1>4. OnceInv'
  BY <1>1 DEF RemoteInvs, OnceInv
<1> QED
  BY <1>3, <1>4

\* The buffer changes before there is a description.
LEMMA BufferChanges ==
    ASSUME RemoteInvs, ~described, UNCHANGED <<loopVars, outcomeVars>>, received \subseteq received'
    PROVE  LoopInv' /\ OnceInv'
<1>1. UNCHANGED <<at, awaited, overlapped, applied, refused, repeated, failed>>
  BY DEF loopVars, outcomeVars
<1>2. awaited \in [Callers -> received' \cup {NoCandidate}] /\ at \in [Callers -> Nat]
  BY DEF RemoteInvs, LoopInv
<1>3. applied = {} /\ refused = {} /\ \A x \in Callers : ~(at[x] > 0)
  BY DEF RemoteInvs, LoopInv, NothingGiven
<1>4. LoopInv'
  BY <1>1, <1>2, <1>3 DEF RemoteInvs, LoopInv
<1>5. OnceInv'
  BY <1>1, <1>3 DEF RemoteInvs, OnceInv
<1> QED
  BY <1>4, <1>5

\* A call begins.
LEMMA DequeueBegins ==
    ASSUME RemoteInvs, NEW x \in Callers, awaited[x] = NoCandidate, BeginDequeue(x), described',
           UNCHANGED <<iceCandidates, outcomeVars>>, received \subseteq received',
           x \in FarCandidates => x \in received'
    PROVE  LoopInv' /\ OnceInv' /\ Calling' = Calling \cup ({x} \cap FarCandidates)
<1>1. UNCHANGED <<iceCandidates, applied, refused, repeated, failed>>
  BY DEF outcomeVars
<1>2. at[x] = 0
  BY AwaitedInLoop DEF RemoteInvs, LoopInv
<1>3. /\ at \in [Callers -> Nat] /\ awaited \in [Callers -> received' \cup {NoCandidate}]
      /\ iceCandidates # <<>> => iceCandidates[1] \in received' /\ iceCandidates[1] # NoCandidate
                                 /\ iceCandidates[1] \in ToSet(iceCandidates)
                                 /\ 1 <= Len(iceCandidates)
  BY BufferTyped, QueuesReceived DEF RemoteInvs, LoopInv
<1>4. Own(x) \in received' \cup {NoCandidate} /\ (Own(x) # NoCandidate => x \in FarCandidates /\ Own(x) = x)
      /\ (x \in FarCandidates => Own(x) # NoCandidate)
  BY CallersOfStreamer DEF Own
<1>5. /\ at' \in [Callers -> Nat] /\ awaited' \in [Callers -> received' \cup {NoCandidate}]
      /\ at'[x] = IF iceCandidates = <<>> THEN 0 ELSE 1
      /\ awaited'[x] = IF iceCandidates = <<>> THEN Own(x) ELSE iceCandidates[1]
      /\ \A y \in Callers : y # x => at'[y] = at[y] /\ awaited'[y] = awaited[y]
  BY <1>3, <1>4 DEF BeginDequeue
<1>6. LoopInv'
  <2>1. ASSUME NEW y \in Callers, at'[y] = 0, awaited'[y] # NoCandidate
        PROVE  y \in FarCandidates /\ awaited'[y] = y
    BY <2>1, <1>4, <1>5 DEF RemoteInvs, LoopInv
  <2>2. ASSUME NEW y \in Callers, at'[y] > 0
        PROVE  /\ awaited'[y] \in ToSet(iceCandidates) \cup applied
               /\ iceCandidates # <<>> =>
                    /\ at'[y] <= Len(iceCandidates) /\ awaited'[y] = iceCandidates[at'[y]]
                    /\ \A j \in 1..at'[y] - 1 : iceCandidates[j] \in applied
    <3>1. CASE y = x
      BY <2>2, <3>1, <1>3, <1>5
    <3>2. CASE y # x
      BY <2>2, <3>2, <1>5 DEF RemoteInvs, LoopInv
    <3> QED
      BY <3>1, <3>2
  <2> QED
    BY <2>1, <2>2, <1>1, <1>5 DEF LoopInv
<1>7. OnceInv'
  <2> SUFFICES ASSUME refused = {} PROVE OnceInv'
    BY <1>1 DEF OnceInv
  <2>1. failed' = {}
    BY <1>1 DEF RemoteInvs, OnceInv
  <2>2. ASSUME ToSet(iceCandidates) \cap applied # {} PROVE \E y \in Callers : at'[y] > 0
    <3>1. PICK y \in Callers : at[y] > 0
      BY <2>2 DEF RemoteInvs, OnceInv
    <3>2. y # x
      BY <3>1, <1>2
    <3> QED
      BY <3>1, <3>2, <1>5
  <2>3. ASSUME ~overlapped'
        PROVE  /\ repeated' = {}
               /\ \A y, z \in Callers : at'[y] > 0 /\ at'[z] > 0 => y = z
               /\ \A y \in Callers : at'[y] > 0 =>
                    /\ iceCandidates # <<>>
                    /\ \A j \in at'[y]..Len(iceCandidates) : iceCandidates[j] \notin applied
    <3>1. ~overlapped /\ (iceCandidates = <<>> \/ \A y \in Callers : ~(at[y] > 0))
      BY <2>3 DEF BeginDequeue
    <3>2. repeated' = {}
      BY <3>1, <1>1 DEF RemoteInvs, OnceInv
    <3>3. CASE iceCandidates = <<>>
      <4>1. \A y \in Callers : at'[y] = at[y]
        BY <3>3, <1>2, <1>5
      <4> QED
        BY <4>1, <3>1, <3>2 DEF RemoteInvs, OnceInv
    <3>4. CASE iceCandidates # <<>> /\ \A y \in Callers : ~(at[y] > 0)
      <4>1. \A y \in Callers : at'[y] > 0 => y = x /\ at'[y] = 1
        BY <3>4, <1>5
      <4>2. ToSet(iceCandidates) \cap applied = {}
        BY <3>4 DEF RemoteInvs, OnceInv
      <4>3. \A j \in 1..Len(iceCandidates) : iceCandidates[j] \notin applied
        BY <4>2, BufferTyped DEF RemoteInvs
      <4> QED
        BY <4>1, <4>3, <3>2, <3>4
    <3> QED
      BY <3>1, <3>3, <3>4
  <2> QED
    BY <2>1, <2>2, <2>3, <1>1 DEF OnceInv
<1>8. Calling' = Calling \cup ({x} \cap FarCandidates)
  <2>1. x \in FarCandidates => awaited'[x] # NoCandidate
    BY <1>3, <1>4, <1>5
  <2>2. \A y \in FarCandidates : y # x => awaited'[y] = awaited[y]
    BY <1>5, CallersOfStreamer
  <2> QED
    BY <2>1, <2>2 DEF Calling
<1> QED
  BY <1>6, <1>7, <1>8

\* Of what the browser takes, only the outcomes and the places of the call change.
takenVars == <<received, delayedRemote, flushing, refused, failed, overlapped, described>>

\* The browser takes what a loop gave it, and the loop goes on.
LEMMA LoopGoesOn ==
    ASSUME RemoteInvs, NEW x \in Callers, at[x] > 0, at[x] < Len(iceCandidates), Takes(awaited[x]),
           at' = [at EXCEPT ![x] = @ + 1],
           awaited' = [awaited EXCEPT ![x] = iceCandidates[at[x] + 1]],
           UNCHANGED <<takenVars, iceCandidates, dropped>>
    PROVE  RemoteInvs'
<1>1. /\ UNCHANGED <<received, delayedRemote, flushing, refused, failed, overlapped, described,
                     iceCandidates, dropped>>
      /\ applied' = applied \cup {awaited[x]} /\ repeated' = repeated \cup ({awaited[x]} \cap applied)
  BY DEF takenVars, Takes
<1>2. /\ at \in [Callers -> Nat] /\ awaited \in [Callers -> received \cup {NoCandidate}]
      /\ at[x] \in Nat /\ iceCandidates # <<>> /\ at[x] + 1 \in 1..Len(iceCandidates)
      /\ at[x] \in 1..Len(iceCandidates)
  BY BufferTyped, EmptySeq DEF RemoteInvs, LoopInv
<1>3. /\ iceCandidates[at[x] + 1] \in received /\ iceCandidates[at[x] + 1] # NoCandidate
      /\ iceCandidates[at[x] + 1] \in ToSet(iceCandidates)
      /\ awaited[x] = iceCandidates[at[x]] /\ awaited[x] \in ToSet(iceCandidates)
  BY <1>2, BufferTyped, QueuesReceived DEF RemoteInvs, LoopInv
<1>4. /\ at' \in [Callers -> Nat] /\ awaited' \in [Callers -> received \cup {NoCandidate}]
      /\ at'[x] = at[x] + 1 /\ awaited'[x] = iceCandidates[at[x] + 1]
      /\ \A y \in Callers : y # x => at'[y] = at[y] /\ awaited'[y] = awaited[y]
  BY <1>2, <1>3
<1>5. Calling' = Calling
  <2>1. \A y \in FarCandidates : awaited'[y] # NoCandidate <=> awaited[y] # NoCandidate
    BY <1>3, <1>4, CallersOfStreamer, AwaitedInLoop
  <2> QED
    BY <2>1 DEF Calling
<1>6. Lost' = Lost
  BY <1>1 DEF Lost
<1>7. Pending' = Pending
  BY <1>1, <1>5 DEF Pending
<1>8. RemoteInv'
  BY <1>1, <1>3, <1>5, <1>6, <1>7, AwaitedInLoop, QueuesReceived
  DEF RemoteInvs, RemoteInv, Distinct, Pending
<1>9. LoopInv'
  <2>1. ASSUME NEW y \in Callers, at'[y] = 0, awaited'[y] # NoCandidate
        PROVE  y \in FarCandidates /\ awaited'[y] = y
    BY <2>1, <1>2, <1>4 DEF RemoteInvs, LoopInv
  <2>2. ASSUME NEW y \in Callers, at'[y] > 0
        PROVE  /\ described /\ awaited'[y] \in ToSet(iceCandidates) \cup applied'
               /\ at'[y] <= Len(iceCandidates) /\ awaited'[y] = iceCandidates[at'[y]]
               /\ \A j \in 1..at'[y] - 1 : iceCandidates[j] \in applied'
    <3>1. CASE y = x
      <4>1. \A j \in 1..at[x] : j = at[x] \/ j \in 1..at[x] - 1
        BY <1>2
      <4>2. \A j \in 1..at[x] : iceCandidates[j] \in applied'
        BY <4>1, <1>1, <1>2, <1>3 DEF RemoteInvs, LoopInv
      <4>3. at'[x] - 1 = at[x]
        BY <1>2, <1>4
      <4> QED
        BY <3>1, <4>2, <4>3, <1>2, <1>3, <1>4 DEF RemoteInvs, LoopInv
    <3>2. CASE y # x
      BY <2>2, <3>2, <1>1, <1>2, <1>4 DEF RemoteInvs, LoopInv
    <3> QED
      BY <3>1, <3>2
  <2> QED
    BY <2>1, <2>2, <1>1, <1>4 DEF LoopInv
<1>10. NothingGiven'
  BY <1>1 DEF RemoteInvs, NothingGiven, LoopInv
<1>11. OnceInv'
  <2> SUFFICES ASSUME refused = {} PROVE OnceInv'
    BY <1>1 DEF OnceInv
  <2>1. failed' = {}
    BY <1>1 DEF RemoteInvs, OnceInv
  <2>2. \E y \in Callers : at'[y] > 0
    BY <1>2, <1>4
  <2>3. ASSUME ~overlapped
        PROVE  /\ repeated' = {}
               /\ \A y, z \in Callers : at'[y] > 0 /\ at'[z] > 0 => y = z
               /\ \A y \in Callers : at'[y] > 0 =>
                    \A j \in at'[y]..Len(iceCandidates) : iceCandidates[j] \notin applied'
    <3>1. /\ repeated = {} /\ \A y \in Callers : at[y] > 0 => y = x
          /\ \A j \in at[x]..Len(iceCandidates) : iceCandidates[j] \notin applied
      BY <2>3 DEF RemoteInvs, OnceInv
    <3>2. awaited[x] \notin applied
      BY <3>1, <1>2, <1>3
    <3>3. \A y \in Callers : at'[y] > 0 => y = x
      BY <3>1, <1>4
    <3>4. \A j \in at[x] + 1..Len(iceCandidates) :
            j \in 1..Len(iceCandidates) /\ j # at[x] /\ j \in at[x]..Len(iceCandidates)
      BY <1>2, BufferTyped DEF RemoteInvs
    <3>5. \A j \in at[x] + 1..Len(iceCandidates) : iceCandidates[j] # awaited[x]
      BY <3>4, <1>2, <1>3, BufferTyped DEF RemoteInvs
    <3>6. \A j \in at[x] + 1..Len(iceCandidates) : iceCandidates[j] \notin applied'
      BY <3>1, <3>4, <3>5, <1>1
    <3> QED
      BY <3>1, <3>2, <3>3, <3>6, <1>1, <1>4
  <2> QED
    BY <2>1, <2>2, <2>3, <1>1, <1>2 DEF OnceInv
<1> QED
  BY <1>8, <1>9, <1>10, <1>11 DEF RemoteInvs

\* It takes the last one: the buffer is emptied, and the call goes on to its own.
LEMMA LoopEnds ==
    ASSUME RemoteInvs, NEW x \in Callers, at[x] > 0, at[x] >= Len(iceCandidates), Takes(awaited[x]),
           at' = [at EXCEPT ![x] = 0], awaited' = [awaited EXCEPT ![x] = Own(x)],
           iceCandidates' = <<>>, UNCHANGED <<takenVars, dropped>>
    PROVE  RemoteInvs'
<1>1. /\ UNCHANGED <<received, delayedRemote, flushing, refused, failed, overlapped, described, dropped>>
      /\ applied' = applied \cup {awaited[x]} /\ repeated' = repeated \cup ({awaited[x]} \cap applied)
  BY DEF takenVars, Takes
<1>2. /\ at \in [Callers -> Nat] /\ awaited \in [Callers -> received \cup {NoCandidate}]
      /\ at[x] \in Nat /\ awaited[x] \in received /\ awaited[x] # NoCandidate
  BY AwaitedInLoop DEF RemoteInvs, LoopInv
<1>3. x \in FarCandidates => x \in Calling /\ x \in received
  BY <1>2 DEF Calling, RemoteInvs, RemoteInv
<1>4. /\ Own(x) \in received \cup {NoCandidate}
      /\ Own(x) # NoCandidate => x \in FarCandidates /\ Own(x) = x
      /\ x \in FarCandidates => Own(x) # NoCandidate
  BY <1>3, CallersOfStreamer DEF Own
<1>5. /\ at' \in [Callers -> Nat] /\ awaited' \in [Callers -> received \cup {NoCandidate}]
      /\ at'[x] = 0 /\ awaited'[x] = Own(x)
      /\ \A y \in Callers : y # x => at'[y] = at[y] /\ awaited'[y] = awaited[y]
  BY <1>2, <1>4
<1>6. Calling' = Calling
  <2>1. \A y \in FarCandidates : awaited'[y] # NoCandidate <=> awaited[y] # NoCandidate
    BY <1>2, <1>4, <1>5, CallersOfStreamer
  <2> QED
    BY <2>1 DEF Calling
<1>7. ToSet(iceCandidates) \subseteq applied'
  <2>1. ASSUME NEW c \in ToSet(iceCandidates) PROVE c \in applied'
    <3>1. PICK i \in 1..Len(iceCandidates) : c = iceCandidates[i]
      BY <2>1, BufferTyped DEF RemoteInvs
    <3>2. Len(iceCandidates) >= 1 /\ Len(iceCandidates) \in Nat /\ iceCandidates # <<>>
      BY <3>1, BufferTyped, EmptySeq DEF RemoteInvs
    <3>3. /\ at[x] = Len(iceCandidates) /\ awaited[x] = iceCandidates[at[x]]
          /\ \A j \in 1..at[x] - 1 : iceCandidates[j] \in applied
      BY <3>2, <1>2 DEF RemoteInvs, LoopInv
    <3>4. i = at[x] \/ i \in 1..at[x] - 1
      BY <3>1, <3>2, <3>3
    <3> QED
      BY <3>1, <3>3, <3>4, <1>1
  <2> QED
    BY <2>1
<1>8. Lost' = Lost
  BY <1>1 DEF Lost
<1>9. Distinct(iceCandidates, received)' /\ ToSet(iceCandidates)' = {}
  BY EmptyQueue
<1>10. Pending' = ToSet(delayedRemote) \cup ToSet(flushing) \cup Calling
  BY <1>1, <1>6, <1>9 DEF Pending
<1>11. RemoteInv'
  <2>1. /\ awaited[x] \notin ToSet(delayedRemote) \cup ToSet(flushing) \cup Calling \cup Lost
        /\ ToSet(delayedRemote)' = ToSet(delayedRemote) /\ ToSet(flushing)' = ToSet(flushing)
    BY <1>1, AwaitedInLoop
  <2>2. Distinct(delayedRemote, received)' /\ Distinct(flushing, received)'
    BY <1>1 DEF RemoteInvs, RemoteInv
  <2> QED
    BY <2>1, <2>2, <1>1, <1>2, <1>6, <1>7, <1>8, <1>9, <1>10 DEF RemoteInvs, RemoteInv, Pending
<1>12. LoopInv'
  <2>1. ASSUME NEW y \in Callers, at'[y] = 0, awaited'[y] # NoCandidate
        PROVE  y \in FarCandidates /\ awaited'[y] = y
    BY <2>1, <1>4, <1>5 DEF RemoteInvs, LoopInv
  <2>2. ASSUME NEW y \in Callers, at'[y] > 0 PROVE described /\ awaited'[y] \in applied'
    <3>1. y # x
      BY <2>2, <1>5
    <3>2. at[y] > 0 /\ awaited'[y] = awaited[y]
      BY <2>2, <3>1, <1>5
    <3>3. described /\ awaited[y] \in ToSet(iceCandidates) \cup applied
      BY <3>2 DEF RemoteInvs, LoopInv
    <3> QED
      BY <3>2, <3>3, <1>1, <1>7
  <2> QED
    BY <2>1, <2>2, <1>1, <1>5 DEF LoopInv
<1>13. NothingGiven'
  BY <1>1 DEF RemoteInvs, NothingGiven, LoopInv
<1>14. OnceInv'
  <2> SUFFICES ASSUME refused = {} PROVE OnceInv'
    BY <1>1 DEF OnceInv
  <2>1. failed' = {}
    BY <1>1 DEF RemoteInvs, OnceInv
  <2>2. ASSUME ~overlapped PROVE repeated' = {} /\ \A y \in Callers : ~(at'[y] > 0)
    <3>1. /\ repeated = {} /\ \A y \in Callers : at[y] > 0 => y = x
          /\ iceCandidates # <<>>
          /\ \A j \in at[x]..Len(iceCandidates) : iceCandidates[j] \notin applied
      BY <2>2 DEF RemoteInvs, OnceInv
    <3>2. at[x] <= Len(iceCandidates) /\ awaited[x] = iceCandidates[at[x]] /\ Len(iceCandidates) \in Nat
      BY <3>1, BufferTyped DEF RemoteInvs, LoopInv
    <3>3. at[x] \in at[x]..Len(iceCandidates)
      BY <3>2, <1>2
    <3>4. awaited[x] \notin applied
      BY <3>1, <3>2, <3>3
    <3> QED
      BY <3>1, <3>4, <1>1, <1>5
  <2> QED
    BY <2>1, <2>2, <1>1, <1>9 DEF OnceInv
<1> QED
  BY <1>11, <1>12, <1>13, <1>14 DEF RemoteInvs

\* A call ends, or throws: it awaits nothing any more.
LEMMA CallLeaves ==
    ASSUME RemoteInvs, NEW x \in Callers,
           awaited' = [awaited EXCEPT ![x] = NoCandidate], UNCHANGED received
    PROVE  /\ awaited' \in [Callers -> received' \cup {NoCandidate}] /\ awaited'[x] = NoCandidate
           /\ \A y \in Callers : y # x => awaited'[y] = awaited[y]
           /\ Calling' = Calling \ {x}
<1>1. awaited \in [Callers -> received \cup {NoCandidate}]
  BY DEF RemoteInvs, LoopInv
<1>2. /\ awaited' \in [Callers -> received' \cup {NoCandidate}] /\ awaited'[x] = NoCandidate
      /\ \A y \in Callers : y # x => awaited'[y] = awaited[y]
  BY <1>1
<1>3. \A y \in FarCandidates : awaited'[y] # NoCandidate <=> awaited[y] # NoCandidate /\ y # x
  BY <1>2, CallersOfStreamer
<1> QED
  BY <1>2, <1>3 DEF Calling

\* It takes the call's own candidate.
LEMMA CallEnds ==
    ASSUME RemoteInvs, NEW x \in Callers, awaited[x] # NoCandidate, at[x] = 0, Takes(awaited[x]),
           awaited' = [awaited EXCEPT ![x] = NoCandidate],
           UNCHANGED <<takenVars, at, iceCandidates, dropped>>
    PROVE  RemoteInvs'
<1>1. x \in FarCandidates /\ awaited[x] = x /\ x \in Calling /\ x \in received
  BY DEF RemoteInvs, LoopInv, RemoteInv, Calling
<1>2. /\ UNCHANGED <<received, delayedRemote, flushing, refused, failed, overlapped, described, dropped,
                     at, iceCandidates>>
      /\ applied' = applied \cup {x} /\ repeated' = repeated \cup ({x} \cap applied)
  BY <1>1 DEF takenVars, Takes
<1>3. /\ awaited' \in [Callers -> received' \cup {NoCandidate}] /\ awaited'[x] = NoCandidate
      /\ \A y \in Callers : y # x => awaited'[y] = awaited[y]
      /\ Calling' = Calling \ {x}
  BY <1>2, CallLeaves
<1>4. Lost' = Lost
  BY <1>2 DEF Lost
<1>5. Pending' = ToSet(iceCandidates) \cup ToSet(delayedRemote) \cup ToSet(flushing) \cup (Calling \ {x})
  BY <1>2, <1>3 DEF Pending
<1>6. x \notin ToSet(iceCandidates) \cup ToSet(delayedRemote) \cup ToSet(flushing) \cup applied
  BY <1>1 DEF RemoteInvs, RemoteInv
<1>7. RemoteInv'
  BY <1>1, <1>2, <1>3, <1>4, <1>5, <1>6 DEF RemoteInvs, RemoteInv, Distinct, Pending
<1>8. LoopInv'
  BY <1>2, <1>3 DEF RemoteInvs, LoopInv
<1>9. NothingGiven'
  BY <1>2 DEF RemoteInvs, NothingGiven
<1>10. OnceInv'
  <2>1. \A j \in 1..Len(iceCandidates) : iceCandidates[j] # x
    BY <1>6, BufferTyped DEF RemoteInvs
  <2>2. \A y \in Callers : at[y] > 0 => \A j \in at[y]..Len(iceCandidates) : iceCandidates[j] # x
    <3>1. ASSUME NEW y \in Callers, at[y] > 0, NEW j \in at[y]..Len(iceCandidates)
          PROVE  j \in 1..Len(iceCandidates)
      BY <3>1, BufferTyped DEF RemoteInvs, LoopInv
    <3> QED
      BY <2>1, <3>1
  <2> QED
    BY <2>2, <1>2, <1>6 DEF RemoteInvs, OnceInv
<1> QED
  BY <1>7, <1>8, <1>9, <1>10 DEF RemoteInvs

LEMMA BrowserTakesStep ==
    ASSUME RemoteInvs, NEW x \in Callers, BrowserTakes(x)
    PROVE  RemoteInvs'
<1>1. UNCHANGED <<takenVars, dropped>> /\ awaited[x] # NoCandidate /\ Takes(awaited[x])
  BY DEF BrowserTakes, takenVars, peerVars
<1>2. \/ /\ at[x] > 0 /\ at[x] < Len(iceCandidates)
         /\ at' = [at EXCEPT ![x] = @ + 1]
         /\ awaited' = [awaited EXCEPT ![x] = iceCandidates[at[x] + 1]]
         /\ UNCHANGED iceCandidates
      \/ /\ at[x] > 0 /\ at[x] >= Len(iceCandidates) /\ iceCandidates' = <<>>
         /\ at' = [at EXCEPT ![x] = 0] /\ awaited' = [awaited EXCEPT ![x] = Own(x)]
      \/ /\ at[x] = 0 /\ awaited' = [awaited EXCEPT ![x] = NoCandidate]
         /\ UNCHANGED <<at, iceCandidates>>
  BY DEF BrowserTakes
<1> QED
  BY <1>1, <1>2, LoopGoesOn, LoopEnds, CallEnds

\* It refuses what a call awaits: a loop leaves the buffer, and its own candidate is lost.
LEMMA BrowserRefusesStep ==
    ASSUME RemoteInvs, NEW x \in Callers, BrowserRefuses(x)
    PROVE  RemoteInvs'
<1>1. /\ UNCHANGED <<received, delayedRemote, flushing, applied, repeated, overlapped, described,
                     dropped, iceCandidates>>
      /\ awaited[x] # NoCandidate /\ refused' = refused \cup {awaited[x]}
      /\ failed' = failed \cup (IF at[x] > 0 THEN {x} \cap FarCandidates ELSE {})
      /\ at' = [at EXCEPT ![x] = 0] /\ awaited' = [awaited EXCEPT ![x] = NoCandidate]
  BY DEF BrowserRefuses, peerVars
<1>2. /\ awaited' \in [Callers -> received' \cup {NoCandidate}] /\ awaited'[x] = NoCandidate
      /\ \A y \in Callers : y # x => awaited'[y] = awaited[y]
      /\ Calling' = Calling \ {x}
  BY <1>1, CallLeaves
<1>3. at \in [Callers -> Nat]
  BY DEF RemoteInvs, LoopInv
<1>4. at' \in [Callers -> Nat] /\ at'[x] = 0 /\ \A y \in Callers : y # x => at'[y] = at[y]
  BY <1>1, <1>3
<1>5. Pending' = ToSet(iceCandidates) \cup ToSet(delayedRemote) \cup ToSet(flushing) \cup (Calling \ {x})
  BY <1>1, <1>2 DEF Pending
<1>6. RemoteInv'
  <2>1. CASE at[x] > 0
    <3>1. /\ awaited[x] \in received /\ awaited[x] \in ToSet(iceCandidates) \cup applied
          /\ awaited[x] \notin ToSet(delayedRemote) \cup ToSet(flushing) \cup Calling \cup Lost
      BY <2>1, AwaitedInLoop DEF RemoteInvs, LoopInv
    <3>2. x \in FarCandidates => x \in Calling
      BY <1>1 DEF Calling
    <3>3. x \in FarCandidates =>
            x \notin ToSet(iceCandidates) \cup ToSet(delayedRemote) \cup ToSet(flushing)
                     \cup applied \cup refused \cup {awaited[x]}
      BY <3>1, <3>2 DEF RemoteInvs, RemoteInv
    <3>4. Lost' = Lost \cup ({x} \cap FarCandidates)
      BY <2>1, <1>1 DEF Lost
    <3>5. failed' = failed \cup ({x} \cap FarCandidates)
      BY <2>1, <1>1
    <3> QED
      BY <3>1, <3>2, <3>3, <3>4, <3>5, <1>1, <1>2, <1>5 DEF RemoteInvs, RemoteInv, Distinct, Pending
  <2>2. CASE ~(at[x] > 0)
    <3>1. x \in FarCandidates /\ awaited[x] = x /\ x \in Calling
      BY <2>2, <1>1, <1>3 DEF RemoteInvs, LoopInv, Calling
    <3>2. x \notin ToSet(iceCandidates) \cup ToSet(delayedRemote) \cup ToSet(flushing) \cup Lost
      BY <3>1 DEF RemoteInvs, RemoteInv, Pending
    <3>3. failed' = failed
      BY <2>2, <1>1
    <3>4. Lost' = Lost
      BY <3>3, <1>1 DEF Lost
    <3> QED
      BY <3>1, <3>2, <3>3, <3>4, <1>1, <1>2, <1>5 DEF RemoteInvs, RemoteInv, Distinct, Pending
  <2> QED
    BY <2>1, <2>2
<1>7. LoopInv'
  <2>1. ASSUME NEW y \in Callers, at'[y] = 0, awaited'[y] # NoCandidate
        PROVE  y \in FarCandidates /\ awaited'[y] = y
    <3>1. y # x
      BY <2>1, <1>2
    <3> QED
      BY <2>1, <3>1, <1>2, <1>4 DEF RemoteInvs, LoopInv
  <2>2. ASSUME NEW y \in Callers, at'[y] > 0
        PROVE  /\ described /\ awaited'[y] \in ToSet(iceCandidates) \cup applied
               /\ iceCandidates # <<>> =>
                    /\ at'[y] <= Len(iceCandidates) /\ awaited'[y] = iceCandidates[at'[y]]
                    /\ \A j \in 1..at'[y] - 1 : iceCandidates[j] \in applied
    <3>1. y # x
      BY <2>2, <1>4
    <3> QED
      BY <2>2, <3>1, <1>2, <1>4 DEF RemoteInvs, LoopInv
  <2> QED
    BY <2>1, <2>2, <1>1, <1>2, <1>4 DEF LoopInv
<1>8. NothingGiven'
  BY <1>1 DEF RemoteInvs, NothingGiven
<1>9. OnceInv'
  BY <1>1 DEF OnceInv
<1> QED
  BY <1>6, <1>7, <1>8, <1>9 DEF RemoteInvs

\* A flush goes on, whatever the browser does with its candidate.
LEMMA FlushGoesOnStep ==
    ASSUME RemoteInvs, FlushGoesOn
    PROVE  RemoteInvs'
<1> DEFINE h == Head(flushing)
<1>1. /\ flushing # <<>> /\ flushing' = Tail(flushing)
      /\ UNCHANGED <<received, iceCandidates, delayedRemote, at, awaited, overlapped, failed, described,
                     dropped>>
      /\ \/ /\ applied' = applied \cup {h} /\ repeated' = repeated \cup ({h} \cap applied)
            /\ refused' = refused
         \/ refused' = refused \cup {h} /\ applied' = applied /\ repeated' = repeated
  BY DEF FlushGoesOn, Takes, loopVars, peerVars
<1>2. /\ Distinct(Tail(flushing), received) /\ h \in received
      /\ ToSet(flushing) = ToSet(Tail(flushing)) \cup {h} /\ h \notin ToSet(Tail(flushing))
  BY <1>1, TailQueue DEF RemoteInvs, RemoteInv
<1> HIDE DEF h
<1>3. /\ Distinct(flushing, received)' /\ ToSet(flushing)' = ToSet(flushing) \ {h}
      /\ h \in ToSet(flushing)
  BY <1>1, <1>2
<1>4. Calling' = Calling
  BY <1>1 DEF Calling
<1>5. Lost' = Lost
  BY <1>1 DEF Lost
<1>6. Pending' = ToSet(iceCandidates) \cup ToSet(delayedRemote) \cup (ToSet(flushing) \ {h}) \cup Calling
  BY <1>1, <1>3, <1>4 DEF Pending
<1>7. h \notin ToSet(iceCandidates) \cup ToSet(delayedRemote) \cup Calling \cup applied \cup Lost
  BY <1>3 DEF RemoteInvs, RemoteInv, Pending
<1>8. Distinct(iceCandidates, received)' /\ Distinct(delayedRemote, received)'
  BY <1>1 DEF RemoteInvs, RemoteInv
<1>9. RemoteInv'
  <2>1. ToSet(iceCandidates)' = ToSet(iceCandidates) /\ ToSet(delayedRemote)' = ToSet(delayedRemote)
    BY <1>1
  <2>2. applied' \cup refused' = applied \cup refused \cup {h}
    BY <1>1
  <2>3. applied' \subseteq received /\ refused' \subseteq received /\ repeated' \subseteq applied'
    BY <1>1, <1>2 DEF RemoteInvs, RemoteInv
  <2> QED
    BY <2>1, <2>2, <2>3, <1>1, <1>2, <1>3, <1>4, <1>5, <1>6, <1>7, <1>8
    DEF RemoteInvs, RemoteInv, Pending
<1>10. LoopInv'
  <2>1. applied \subseteq applied'
    BY <1>1
  <2> QED
    BY <2>1, <1>1 DEF RemoteInvs, LoopInv
<1>11. NothingGiven'
  BY <1>1 DEF RemoteInvs, NothingGiven
<1>12. OnceInv'
  <2>1. CASE refused' = refused \cup {h}
    BY <2>1 DEF OnceInv
  <2>2. CASE /\ applied' = applied \cup {h} /\ repeated' = repeated \cup ({h} \cap applied)
             /\ refused' = refused
    <3>1. \A y \in Callers : at[y] > 0 => \A j \in at[y]..Len(iceCandidates) : iceCandidates[j] # h
      <4>1. ASSUME NEW y \in Callers, at[y] > 0, NEW j \in at[y]..Len(iceCandidates)
            PROVE  iceCandidates[j] \in ToSet(iceCandidates)
        BY <4>1, BufferTyped DEF RemoteInvs, LoopInv
      <4> QED
        BY <4>1, <1>7
    <3>2. h \notin applied /\ h \notin ToSet(iceCandidates)
      BY <1>7
    <3> QED
      BY <2>2, <3>1, <3>2, <1>1 DEF RemoteInvs, OnceInv
  <2> QED
    BY <2>1, <2>2, <1>1
<1> QED
  BY <1>9, <1>10, <1>11, <1>12 DEF RemoteInvs

-----------------------------------------------------------------------------
(* What is gathered, received, left out or waits agrees.                   *)

CandidatesInv == LocalInv /\ RemoteInvs

LEMMA CandidatesInitially ==
    ASSUME CandidatesInit
    PROVE  CandidatesInv
<1>1. Distinct(<<>>, {}) /\ ToSet(<<>>) = {}
  BY EmptyQueue
<1>2. LocalInv
  BY <1>1 DEF CandidatesInit, LocalInv
<1>3. /\ at \in [Callers -> Nat] /\ awaited \in [Callers -> received \cup {NoCandidate}]
      /\ \A x \in Callers : at[x] = 0 /\ awaited[x] = NoCandidate
  BY DEF CandidatesInit
<1>4. Calling = {}
  BY <1>3, CallersOfStreamer DEF Calling
<1>5. Lost = {} /\ Pending = {}
  BY <1>1, <1>4 DEF CandidatesInit, Lost, Pending
<1>6. RemoteInv
  BY <1>1, <1>4, <1>5 DEF CandidatesInit, RemoteInv
<1>7. LoopInv
  BY <1>3 DEF LoopInv
<1>8. NothingGiven
  BY <1>3 DEF CandidatesInit, NothingGiven
<1>9. OnceInv
  BY <1>1, <1>3 DEF CandidatesInit, OnceInv
<1> QED
  BY <1>2, <1>6, <1>7, <1>8, <1>9 DEF CandidatesInv, RemoteInvs

\* The candidates move, and the calls do not.
LEMMA CallsKept ==
    ASSUME RemoteInvs, RemoteInv', UNCHANGED <<received, iceCandidates, loopVars, outcomeVars>>,
           described => described', flushing' = <<>> \/ described'
    PROVE  RemoteInvs'
<1>1. LoopInv' /\ OnceInv'
  BY LoopsKept
<1>2. NothingGiven'
  <2>1. UNCHANGED <<awaited, applied, refused>>
    BY DEF loopVars, outcomeVars
  <2> QED
    BY <2>1 DEF RemoteInvs, NothingGiven
<1> QED
  BY <1>1, <1>2 DEF RemoteInvs

LEMMA AllDropped ==
    ASSUME CandidatesInv,
           UNCHANGED <<gathered, bufferedLocal, sent, received, iceCandidates, flushing, loopVars,
                       outcomeVars, described>>,
           delayedLocal' = <<>>, delayedRemote' = <<>>,
           dropped' = dropped \cup ToSet(delayedLocal) \cup ToSet(delayedRemote)
    PROVE  CandidatesInv'
<1>1. ToSet(delayedLocal) \subseteq NearCandidates /\ ToSet(delayedRemote) \subseteq FarCandidates
  BY QueueSet DEF CandidatesInv, LocalInv, RemoteInvs, RemoteInv
<1>2. LocalInv'
  BY <1>1, DelayedLocalDropped DEF CandidatesInv
<1>3. /\ dropped' = dropped \cup ToSet(delayedRemote) \cup ToSet(delayedLocal)
      /\ awaited' = awaited
  BY DEF loopVars
<1>4. RemoteInv'
  BY <1>1, <1>3, DelayedRemoteDropped DEF CandidatesInv, RemoteInvs
<1>5. flushing' = <<>> \/ described'
  BY DEF CandidatesInv, RemoteInvs, NothingGiven
<1>6. RemoteInvs'
  BY <1>4, <1>5, CallsKept DEF CandidatesInv
<1> QED
  BY <1>2, <1>6 DEF CandidatesInv

\* Something of the browser's is left out, or nothing, and the streamer's stay.
LEMMA RemoteInvsKept ==
    ASSUME RemoteInvs, UNCHANGED remoteVars, described' = described,
           NEW lost \in SUBSET NearCandidates, dropped' = dropped \cup lost
    PROVE  RemoteInvs'
<1>1. /\ UNCHANGED placesVars
      /\ UNCHANGED <<received, iceCandidates, loopVars, outcomeVars, flushing>>
  BY DEF remoteVars, placesVars, loopVars
<1>2. RemoteInv'
  BY <1>1, RemoteKept DEF RemoteInvs
<1>3. flushing' = <<>> \/ described'
  BY <1>1 DEF RemoteInvs, NothingGiven
<1> QED
  BY <1>1, <1>2, <1>3, CallsKept

LEMMA NothingMoves ==
    ASSUME CandidatesInv, UNCHANGED <<localVars, remoteVars, dropped, described>>
    PROVE  CandidatesInv'
<1>1. UNCHANGED <<gathered, bufferedLocal, delayedLocal, sent>>
  BY DEF localVars
<1>2. /\ dropped' = dropped \cup {}
      /\ {} \in SUBSET FarCandidates /\ {} \in SUBSET NearCandidates
  OBVIOUS
<1>3. LocalInv'
  BY <1>1, <1>2, LocalKept DEF CandidatesInv
<1>4. RemoteInvs'
  BY <1>2, RemoteInvsKept DEF CandidatesInv
<1> QED
  BY <1>3, <1>4 DEF CandidatesInv

LEMMA FlushStep ==
    ASSUME CandidatesInv, Flush,
           UNCHANGED <<gathered, bufferedLocal, received, loopVars, outcomeVars, described>>
    PROVE  CandidatesInv'
<1>1. CASE connection = "connected"
  BY <1>1, AllDropped DEF Flush
<1>2. CASE connection # "connected" /\ ~described
  <2> DEFINE lost == AddAll(iceCandidates, delayedRemote, MaxBufferedRemoteCandidates).lost
  <2>1. /\ iceCandidates' = AddAll(iceCandidates, delayedRemote, MaxBufferedRemoteCandidates).queue
        /\ dropped' = dropped \cup lost /\ delayedRemote' = <<>>
        /\ UNCHANGED <<delayedLocal, sent, flushing>>
    BY <1>2 DEF Flush
  <2>2. applied = {} /\ refused = {} /\ flushing = <<>> /\ awaited' = awaited
    BY <1>2 DEF CandidatesInv, RemoteInvs, NothingGiven, loopVars
  <2>3. RemoteInv'
    BY <2>1, <2>2, DelayedRemoteRequeued DEF CandidatesInv, RemoteInvs
  <2>4. lost \subseteq FarCandidates
    <3>1. lost \subseteq ToSet(iceCandidates) \cup ToSet(delayedRemote)
      BY AddAllProperties, CandidatesAssumption DEF CandidatesInv, RemoteInvs, RemoteInv
    <3> QED
      BY <3>1, QueuesReceived DEF CandidatesInv, RemoteInvs, RemoteInv
  <2> HIDE DEF lost
  <2>5. LocalInv'
    BY <2>1, <2>4, LocalKept DEF CandidatesInv
  <2>6. LoopInv' /\ OnceInv'
    BY <1>2, BufferChanges DEF CandidatesInv
  <2>7. NothingGiven'
    BY <2>1, <2>2 DEF CandidatesInv, RemoteInvs, NothingGiven, outcomeVars
  <2> QED
    BY <2>3, <2>5, <2>6, <2>7 DEF CandidatesInv, RemoteInvs
<1>3. CASE connection # "connected" /\ described
  <2>1. /\ sent' = Sends(delayedLocal) /\ delayedLocal' = <<>>
        /\ flushing' = flushing \o delayedRemote /\ delayedRemote' = <<>>
        /\ UNCHANGED <<iceCandidates, dropped>>
    BY <1>3 DEF Flush
  <2>2. LocalInv'
    BY <2>1, DelayedLocalSent DEF CandidatesInv
  <2>3. awaited' = awaited
    BY DEF loopVars
  <2>4. RemoteInv'
    BY <2>1, <2>3, DelayedRemoteFlushed DEF CandidatesInv, RemoteInvs
  <2>5. RemoteInvs'
    BY <1>3, <2>1, <2>4, CallsKept DEF CandidatesInv
  <2> QED
    BY <2>2, <2>5 DEF CandidatesInv
<1> QED
  BY <1>1, <1>2, <1>3

LEMMA DescribeStep ==
    ASSUME RemoteInvs, NEW d \in Descriptions, Describe(d)
    PROVE  RemoteInvs'
<1>1. /\ UNCHANGED <<received, iceCandidates, delayedRemote, flushing, outcomeVars, dropped>>
      /\ awaited[d] = NoCandidate /\ described' = TRUE /\ BeginDequeue(d)
  BY DEF Describe
<1>2. d \in Callers /\ d \notin FarCandidates
  BY CandidatesAssumption DEF Callers, FarCandidates
<1>3. LoopInv' /\ OnceInv' /\ Calling' = Calling \cup ({d} \cap FarCandidates)
  BY <1>1, <1>2, DequeueBegins
<1>4. Calling' = Calling
  BY <1>2, <1>3
<1>5. UNCHANGED <<applied, refused, repeated, failed>>
  BY <1>1 DEF outcomeVars
<1>6. Lost' = Lost /\ Pending' = Pending
  BY <1>1, <1>4, <1>5 DEF Lost, Pending
<1>7. RemoteInv'
  BY <1>1, <1>4, <1>5, <1>6 DEF RemoteInvs, RemoteInv, Distinct
<1>8. NothingGiven'
  BY <1>1 DEF NothingGiven
<1> QED
  BY <1>3, <1>7, <1>8 DEF RemoteInvs

LEMMA AddIceCandidateStep ==
    ASSUME RemoteInvs, NEW c \in FarCandidates, AddIceCandidate(c)
    PROVE  RemoteInvs'
<1>1. /\ c \in FarCandidates \ received /\ received' = received \cup {c}
      /\ received \subseteq received' /\ UNCHANGED <<flushing, outcomeVars, described>>
  BY DEF AddIceCandidate, FarSends, peerVars
<1>2. UNCHANGED <<applied, refused, repeated, failed>>
  BY <1>1 DEF outcomeVars
<1>3. CASE /\ delayedRemote' = Add(delayedRemote, c, MaxDelayedRelayCandidates).queue
           /\ dropped' = dropped \cup Add(delayedRemote, c, MaxDelayedRelayCandidates).lost
           /\ UNCHANGED <<iceCandidates, loopVars>>
  <2>1. awaited' = awaited
    BY <1>3 DEF loopVars
  <2>2. RemoteInv'
    BY <1>1, <1>3, <2>1, ReceivedDelayed DEF RemoteInvs
  <2>3. LoopInv' /\ OnceInv'
    BY <1>1, <1>3, LoopsKept
  <2>4. NothingGiven'
    BY <1>1, <1>2, <2>1 DEF RemoteInvs, NothingGiven
  <2> QED
    BY <2>2, <2>3, <2>4 DEF RemoteInvs
<1>4. CASE /\ iceCandidates' = Add(iceCandidates, c, MaxBufferedRemoteCandidates).queue
           /\ dropped' = dropped \cup Add(iceCandidates, c, MaxBufferedRemoteCandidates).lost
           /\ ~described /\ UNCHANGED <<delayedRemote, loopVars>>
  <2>1. awaited' = awaited /\ applied = {} /\ refused = {}
    BY <1>4 DEF loopVars, RemoteInvs, NothingGiven
  <2>2. RemoteInv'
    BY <1>1, <1>4, <2>1, ReceivedBuffered DEF RemoteInvs
  <2>3. LoopInv' /\ OnceInv'
    BY <1>1, <1>4, BufferChanges
  <2>4. NothingGiven'
    BY <1>1, <1>2, <2>1 DEF RemoteInvs, NothingGiven
  <2> QED
    BY <2>2, <2>3, <2>4 DEF RemoteInvs
<1>5. CASE described /\ BeginDequeue(c) /\ UNCHANGED <<iceCandidates, delayedRemote, dropped>>
  <2>1. c \in Callers /\ awaited[c] = NoCandidate
    BY <1>1, CallersOfStreamer DEF RemoteInvs, RemoteInv, Calling
  <2>2. described' /\ c \in received'
    BY <1>1, <1>5
  <2>3. LoopInv' /\ OnceInv' /\ Calling' = Calling \cup ({c} \cap FarCandidates)
    BY <1>1, <1>5, <2>1, <2>2, DequeueBegins
  <2>4. Calling' = Calling \cup {c}
    BY <2>3
  <2>5. RemoteInv'
    BY <1>1, <1>5, <2>4, ReceivedCalls DEF RemoteInvs
  <2>6. NothingGiven'
    BY <2>2 DEF NothingGiven
  <2> QED
    BY <2>3, <2>5, <2>6 DEF RemoteInvs
<1> QED
  BY <1>3, <1>4, <1>5 DEF AddIceCandidate

\* The streamer's move between the browser and the calls.
LEMMA RemoteInvsMove ==
    ASSUME CandidatesInv, RemoteInvs', UNCHANGED <<gathered, bufferedLocal, delayedLocal, sent, dropped>>
    PROVE  CandidatesInv'
<1>1. dropped' = dropped \cup {} /\ {} \in SUBSET FarCandidates
  OBVIOUS
<1>2. LocalInv'
  BY <1>1, LocalKept DEF CandidatesInv
<1> QED
  BY <1>2 DEF CandidatesInv

LEMMA CandidatesStep ==
    ASSUME CandidatesInv, [CandidatesNext]_candidatesVars
    PROVE  CandidatesInv'
<1>1. CASE UNCHANGED candidatesVars
  BY <1>1, NothingMoves DEF candidatesVars, peerVars
<1>2. CASE SyncStart
  BY <1>2, NothingMoves DEF SyncStart
<1>3. CASE SendBuffered
  <2>1. LocalInv'
    BY <1>3, SendBufferedStep DEF CandidatesInv
  <2>2. dropped' = dropped \cup {}
    BY <1>3 DEF SendBuffered
  <2>3. RemoteInvs'
    BY <1>3, <2>2, RemoteInvsKept DEF CandidatesInv, SendBuffered, peerVars
  <2> QED
    BY <2>1, <2>3 DEF CandidatesInv
<1>4. CASE WindowEnds
  BY <1>4, NothingMoves DEF WindowEnds, peerVars
<1>5. CASE UnblockTimerFires
  <2>1. /\ UNCHANGED <<gathered, bufferedLocal, received, loopVars, outcomeVars, described>>
        /\ UNCHANGED <<srflxSeen, emitted, remoteSrflxSeen>>
    BY <1>5 DEF UnblockTimerFires, peerVars
  <2>2. CASE UNCHANGED <<delayedLocal, sent, iceCandidates, delayedRemote, flushing, dropped>>
    BY <2>1, <2>2, NothingMoves DEF localVars, remoteVars
  <2>3. CASE Flush
    BY <2>1, <2>3, FlushStep
  <2> QED
    BY <1>5, <2>2, <2>3 DEF UnblockTimerFires
<1>6. ASSUME NEW d \in Descriptions, Describe(d) PROVE CandidatesInv'
  <2>1. RemoteInvs'
    BY <1>6, DescribeStep DEF CandidatesInv
  <2> QED
    BY <1>6, <2>1, RemoteInvsMove DEF Describe, localVars
<1>7. CASE Connecting
  BY <1>7, NothingMoves DEF Connecting
<1>8. CASE Connect
  BY <1>8, AllDropped DEF Connect
<1>9. CASE Trouble
  BY <1>9, NothingMoves DEF Trouble
<1>10. CASE Close
  BY <1>10, AllDropped DEF Close
<1>11. ASSUME NEW c \in NearCandidates, Gather(c) PROVE CandidatesInv'
  <2>1. LocalInv'
    BY <1>11, GatherStep DEF CandidatesInv
  <2>2. PICK lost \in SUBSET NearCandidates : dropped' = dropped \cup lost
    <3>1. CASE dropped' = dropped \cup {c}
      BY <3>1
    <3>2. CASE dropped' = dropped
      <4>1. dropped' = dropped \cup {} /\ {} \in SUBSET NearCandidates
        BY <3>2
      <4> QED
        BY <4>1
    <3>3. CASE dropped' = dropped \cup Add(delayedLocal, c, MaxDelayedRelayCandidates).lost
      <4>1. Distinct(delayedLocal, NearCandidates) /\ c \notin ToSet(delayedLocal)
        BY <1>11, QueueSet, WiderQueue DEF Gather, CandidatesInv, LocalInv
      <4>2. Add(delayedLocal, c, MaxDelayedRelayCandidates).lost \subseteq ToSet(delayedLocal) \cup {c}
        BY <4>1, AddProperties, CandidatesAssumption
      <4> QED
        BY <3>3, <4>1, <4>2, QueueSet
    <3> QED
      BY <1>11, <3>1, <3>2, <3>3 DEF Gather
  <2>3. RemoteInvs'
    BY <1>11, <2>2, RemoteInvsKept DEF CandidatesInv, Gather, peerVars
  <2> QED
    BY <2>1, <2>3 DEF CandidatesInv
<1>12. ASSUME NEW c \in FarCandidates, AddIceCandidate(c) PROVE CandidatesInv'
  <2>1. RemoteInvs'
    BY <1>12, AddIceCandidateStep DEF CandidatesInv
  <2>2. PICK lost \in SUBSET FarCandidates : dropped' = dropped \cup lost
    <3>1. CASE dropped' = dropped
      <4>1. dropped' = dropped \cup {} /\ {} \in SUBSET FarCandidates
        BY <3>1
      <4> QED
        BY <4>1
    <3>2. c \notin ToSet(iceCandidates) /\ c \notin ToSet(delayedRemote)
          /\ Distinct(iceCandidates, FarCandidates) /\ Distinct(delayedRemote, FarCandidates)
      BY <1>12, QueueSet, WiderQueue DEF AddIceCandidate, FarSends, CandidatesInv, RemoteInvs, RemoteInv
    <3>3. CASE dropped' = dropped \cup Add(delayedRemote, c, MaxDelayedRelayCandidates).lost
      <4>1. Add(delayedRemote, c, MaxDelayedRelayCandidates).lost
              \subseteq ToSet(delayedRemote) \cup {c}
        BY <3>2, AddProperties, CandidatesAssumption
      <4> QED
        BY <3>2, <3>3, <4>1, QueueSet
    <3>4. CASE dropped' = dropped \cup Add(iceCandidates, c, MaxBufferedRemoteCandidates).lost
      <4>1. Add(iceCandidates, c, MaxBufferedRemoteCandidates).lost
              \subseteq ToSet(iceCandidates) \cup {c}
        BY <3>2, AddProperties, CandidatesAssumption
      <4> QED
        BY <3>2, <3>4, <4>1, QueueSet
    <3> QED
      BY <1>12, <3>1, <3>3, <3>4 DEF AddIceCandidate
  <2>3. LocalInv'
    BY <1>12, <2>2, LocalKept DEF CandidatesInv, AddIceCandidate, localVars
  <2> QED
    BY <2>1, <2>3 DEF CandidatesInv
<1>13. ASSUME NEW score \in Scores, Sample(score) PROVE CandidatesInv'
  BY <1>13, NothingMoves DEF Sample, peerVars
<1>14. CASE FlushGoesOn
  <2>1. RemoteInvs'
    BY <1>14, FlushGoesOnStep DEF CandidatesInv
  <2> QED
    BY <1>14, <2>1, RemoteInvsMove DEF FlushGoesOn, localVars
<1>15. ASSUME NEW x \in Callers, BrowserTakes(x) PROVE CandidatesInv'
  <2>1. RemoteInvs'
    BY <1>15, BrowserTakesStep DEF CandidatesInv
  <2> QED
    BY <1>15, <2>1, RemoteInvsMove DEF BrowserTakes, localVars
<1>16. ASSUME NEW x \in Callers, BrowserRefuses(x) PROVE CandidatesInv'
  <2>1. RemoteInvs'
    BY <1>16, BrowserRefusesStep DEF CandidatesInv
  <2> QED
    BY <1>16, <2>1, RemoteInvsMove DEF BrowserRefuses, localVars
<1> QED
  BY <1>1, <1>2, <1>3, <1>4, <1>5, <1>6, <1>7, <1>8, <1>9, <1>10, <1>11, <1>12, <1>13,
     <1>14, <1>15, <1>16
  DEF CandidatesNext

LEMMA InvConserves ==
    ASSUME CandidatesInv
    PROVE  Conserved
<1>1. ASSUME NEW c \in gathered
      PROVE  sent[c] + Times(c, bufferedLocal) + Times(c, delayedLocal)
               = IF c \in dropped THEN 0 ELSE 1
  <2>1. /\ Times(c, bufferedLocal) = IF c \in ToSet(bufferedLocal) THEN 1 ELSE 0
        /\ Times(c, delayedLocal) = IF c \in ToSet(delayedLocal) THEN 1 ELSE 0
    BY TimesOnce DEF CandidatesInv, LocalInv
  <2>2. /\ sent[c] = IF c \in dropped \cup ToSet(bufferedLocal) \cup ToSet(delayedLocal) THEN 0 ELSE 1
        /\ ~(c \in ToSet(bufferedLocal) /\ c \in ToSet(delayedLocal))
        /\ c \in dropped => c \notin ToSet(bufferedLocal) /\ c \notin ToSet(delayedLocal)
    BY DEF CandidatesInv, LocalInv
  <2> QED
    BY <2>1, <2>2
<1>2. ASSUME NEW c \in received
      PROVE  /\ Places(c) <= 1
             /\ Places(c) = 0 => c \in applied \cup refused \cup dropped \cup failed
             /\ c \in dropped \cup failed => Places(c) = 0 /\ c \notin applied \cup refused
             /\ c \in applied \cup refused /\ Places(c) = 1
                  => Times(c, iceCandidates) = 1 /\ (InLoop # {} \/ refused # {})
  <2>1. /\ Times(c, iceCandidates) = IF c \in ToSet(iceCandidates) THEN 1 ELSE 0
        /\ Times(c, delayedRemote) = IF c \in ToSet(delayedRemote) THEN 1 ELSE 0
        /\ Times(c, flushing) = IF c \in ToSet(flushing) THEN 1 ELSE 0
    BY TimesOnce DEF CandidatesInv, RemoteInvs, RemoteInv
  <2>2. c \in FarCandidates /\ (awaited[c] # NoCandidate <=> c \in Calling)
    BY DEF CandidatesInv, RemoteInvs, RemoteInv, Calling
  <2>3. /\ ~(c \in ToSet(iceCandidates) /\ c \in ToSet(delayedRemote) \cup ToSet(flushing) \cup Calling)
        /\ ~(c \in ToSet(delayedRemote) /\ c \in ToSet(flushing) \cup Calling)
        /\ ~(c \in ToSet(flushing) /\ c \in Calling)
    BY DEF CandidatesInv, RemoteInvs, RemoteInv
  <2>4. /\ Places(c) <= 1 /\ (Places(c) = 0 <=> c \notin Pending)
        /\ Times(c, iceCandidates) = 1 <=> c \in ToSet(iceCandidates)
    BY <2>1, <2>2, <2>3 DEF Places, Pending
  <2>5. c \in dropped \cup failed <=> c \in Lost
    BY <2>2 DEF Lost
  <2>6. /\ c \in Lost \cup applied \cup refused \cup Pending
        /\ c \in Lost => c \notin Pending /\ c \notin applied \cup refused
        /\ c \in applied \cup refused /\ c \in Pending => c \in ToSet(iceCandidates)
    BY DEF CandidatesInv, RemoteInvs, RemoteInv, Pending
  <2>7. ASSUME c \in applied, c \in ToSet(iceCandidates) PROVE InLoop # {} \/ refused # {}
    BY <2>7 DEF CandidatesInv, RemoteInvs, OnceInv, InLoop
  <2> QED
    BY <2>4, <2>5, <2>6, <2>7
<1>3. (failed # {} => refused # {}) /\ (repeated # {} => refused # {} \/ overlapped)
  BY DEF CandidatesInv, RemoteInvs, OnceInv
<1> QED
  BY <1>1, <1>2, <1>3 DEF Conserved

\* For any candidates and buffers of any size: each candidate of the browser is sent once,
\* waits in one place or was left out, and each of the streamer's waits in one place, or the
\* browser took or refused it, or it was left out or its call failed; and a call fails only
\* after a refusal, and a candidate is given twice only after one or by overlapping loops
\* (onIceCandidate, addIceCandidate, tryDequeueIceCandidates, flushDelayedRelayCandidates).
THEOREM CandidatesConserved == CandidatesSpec => []Conserved
<1>1. CandidatesInit => CandidatesInv
  BY CandidatesInitially
<1>2. CandidatesInv /\ [CandidatesNext]_candidatesVars => CandidatesInv'
  BY CandidatesStep
<1>3. CandidatesInv => Conserved
  BY InvConserves
<1> QED
  BY <1>1, <1>2, <1>3, PTL DEF CandidatesSpec

-----------------------------------------------------------------------------
(* Types.                                                                  *)

\* The count of the candidates let through never exceeds that of those gathered.
CountInv == IsFiniteSet(gathered) /\ emitted \in Nat /\ emitted <= Cardinality(gathered)

\* No buffer is longer than its limit.
LengthInv ==
  /\ Len(delayedLocal) <= MaxDelayedRelayCandidates
  /\ Len(delayedRemote) <= MaxDelayedRelayCandidates
  /\ Len(iceCandidates) <= MaxBufferedRemoteCandidates

\* The flags, and the score of the path.
FlagInv ==
  /\ iceMode \in {"prefer-direct", "relay-only"} /\ troubles \in 0..MaxTroubles
  /\ connection \in {"new", "connecting", "connected", "closed"}
  /\ syncStarted \in BOOLEAN /\ described \in BOOLEAN /\ blocked \in BOOLEAN
  /\ srflxSeen \in BOOLEAN /\ remoteSrflxSeen \in BOOLEAN /\ biasApplied \in BOOLEAN
  /\ unblockTimer \in {"off", "first", "extended"}

ScoreInv ==
  /\ pair \in {"none", "direct", "relay"} /\ poorSamples \in 0..PoorRelaySamplesRequired
  /\ suppressions \in 0..MaxSuppressions

LEMMA CountStep ==
    ASSUME CountInv, [CandidatesNext]_candidatesVars
    PROVE  CountInv'
<1>1. CASE UNCHANGED <<gathered, emitted>>
  BY <1>1 DEF CountInv
<1>2. ASSUME NEW c \in NearCandidates, Gather(c) PROVE CountInv'
  <2>1. gathered' = gathered \cup {c} /\ c \notin gathered
        /\ (emitted' = emitted \/ emitted' = emitted + 1)
    BY <1>2 DEF Gather
  <2>2. IsFiniteSet(gathered') /\ Cardinality(gathered') = Cardinality(gathered) + 1
    BY <2>1, FS_AddElement DEF CountInv
  <2>3. Cardinality(gathered) \in Nat
    BY FS_CardinalityType DEF CountInv
  <2> QED
    BY <2>1, <2>2, <2>3 DEF CountInv
<1> QED
  BY <1>1, <1>2 DEF CandidatesNext, SyncStart, SendBuffered, WindowEnds, UnblockTimerFires, Describe,
     Connecting, Connect, Trouble, Close, AddIceCandidate, BrowserTakes, BrowserRefuses, FlushGoesOn,
     Sample, candidatesVars, localVars

LEMMA LengthStep ==
    ASSUME CandidatesInv, LengthInv, [CandidatesNext]_candidatesVars
    PROVE  LengthInv'
<1> DEFINE same == UNCHANGED <<delayedLocal, delayedRemote, iceCandidates>>
<1>1. CASE same
  BY <1>1 DEF LengthInv
<1>2. Len(<<>>) = 0 /\ MaxDelayedRelayCandidates \in Nat /\ MaxBufferedRemoteCandidates \in Nat
  BY CandidatesAssumption
<1>3. CASE delayedLocal' = <<>> /\ delayedRemote' = <<>> /\ iceCandidates' = iceCandidates
  BY <1>2, <1>3 DEF LengthInv
<1>4. ASSUME Flush PROVE LengthInv'
  <2>1. CASE connection # "connected" /\ ~described
    <3>1. /\ iceCandidates' = AddAll(iceCandidates, delayedRemote, MaxBufferedRemoteCandidates).queue
          /\ delayedRemote' = <<>> /\ delayedLocal' = delayedLocal
      BY <1>4, <2>1 DEF Flush
    <3>2. Len(iceCandidates') <= MaxBufferedRemoteCandidates
      BY <3>1, <1>2, AddAllProperties DEF CandidatesInv, RemoteInvs, RemoteInv
    <3> QED
      BY <3>1, <3>2, <1>2 DEF LengthInv
  <2> QED
    BY <2>1, <1>3, <1>4 DEF Flush
<1>5. ASSUME NEW c \in NearCandidates, Gather(c) PROVE LengthInv'
  <2>1. Distinct(delayedLocal, NearCandidates) /\ c \notin ToSet(delayedLocal)
    BY <1>5, QueueSet, WiderQueue DEF Gather, CandidatesInv, LocalInv
  <2>2. Len(Add(delayedLocal, c, MaxDelayedRelayCandidates).queue) <= MaxDelayedRelayCandidates
    BY <2>1, <1>2, AddProperties
  <2>3. UNCHANGED <<delayedRemote, iceCandidates>>
    BY <1>5 DEF Gather, remoteVars
  <2>4. CASE delayedLocal' = Add(delayedLocal, c, MaxDelayedRelayCandidates).queue
    BY <2>2, <2>3, <2>4 DEF LengthInv
  <2> QED
    BY <2>3, <2>4, <1>1, <1>5 DEF Gather
<1>6. ASSUME NEW c \in FarCandidates, AddIceCandidate(c) PROVE LengthInv'
  <2>1. /\ Distinct(delayedRemote, FarCandidates) /\ c \notin ToSet(delayedRemote)
        /\ Distinct(iceCandidates, FarCandidates) /\ c \notin ToSet(iceCandidates)
    BY <1>6, QueueSet, WiderQueue DEF AddIceCandidate, FarSends, CandidatesInv, RemoteInvs, RemoteInv
  <2>2. /\ Len(Add(delayedRemote, c, MaxDelayedRelayCandidates).queue) <= MaxDelayedRelayCandidates
        /\ Len(Add(iceCandidates, c, MaxBufferedRemoteCandidates).queue) <= MaxBufferedRemoteCandidates
    BY <2>1, <1>2, AddProperties
  <2>3. UNCHANGED delayedLocal
    BY <1>6 DEF AddIceCandidate, localVars
  <2>4. CASE /\ delayedRemote' = Add(delayedRemote, c, MaxDelayedRelayCandidates).queue
             /\ UNCHANGED iceCandidates
    BY <2>2, <2>3, <2>4 DEF LengthInv
  <2>5. CASE /\ iceCandidates' = Add(iceCandidates, c, MaxBufferedRemoteCandidates).queue
             /\ UNCHANGED delayedRemote
    BY <2>2, <2>3, <2>5 DEF LengthInv
  <2> QED
    BY <2>3, <2>4, <2>5, <1>1, <1>6 DEF AddIceCandidate
<1>7. ASSUME NEW x \in Callers, BrowserTakes(x) PROVE LengthInv'
  <2>1. /\ UNCHANGED <<delayedLocal, delayedRemote>>
        /\ iceCandidates' = iceCandidates \/ iceCandidates' = <<>>
    BY <1>7 DEF BrowserTakes, localVars
  <2> QED
    BY <2>1, <1>2 DEF LengthInv
<1>8. CASE UnblockTimerFires
  BY <1>8, <1>1, <1>4 DEF UnblockTimerFires
<1> HIDE DEF same
<1> QED
  BY <1>1, <1>3, <1>5, <1>6, <1>7, <1>8 DEF CandidatesNext, SyncStart, SendBuffered, WindowEnds,
     Describe, Connecting, Connect, Trouble, Close, BrowserRefuses, FlushGoesOn, Sample,
     candidatesVars, localVars, remoteVars, same

LEMMA BiasTypes ==
    ASSUME ScoreInv, NEW score \in Scores, NEW poor \in 0..PoorRelaySamplesRequired
    PROVE  LET bias == Bias(score, poor) IN
           /\ bias.poorSamples \in 0..PoorRelaySamplesRequired
           /\ bias.suppress \in BOOLEAN
           /\ suppressions + bias.spend \in 0..MaxSuppressions
<1>1. PoorRelaySamplesRequired \in Nat /\ MaxSuppressions \in Nat
  BY CandidatesAssumption
<1>2. poor \in 0..PoorRelaySamplesRequired /\ suppressions \in 0..MaxSuppressions
  BY DEF ScoreInv
<1> DEFINE same == [poorSamples |-> poor, suppress |-> FALSE, spend |-> 0]
           more == [poorSamples |-> poor + 1, suppress |-> FALSE, spend |-> 0]
           reset == [poorSamples |-> 0, suppress |-> FALSE, spend |-> 0]
           spent == [poorSamples |-> 0, suppress |-> TRUE, spend |-> 1]
<1>3. \/ Bias(score, poor) = same
      \/ Bias(score, poor) = reset
      \/ Bias(score, poor) = more /\ poor + 1 < PoorRelaySamplesRequired
      \/ Bias(score, poor) = spent /\ ~(suppressions >= MaxSuppressions)
  BY DEF Bias
<1>4. CASE Bias(score, poor) = same
  BY <1>1, <1>2, <1>4
<1>5. CASE Bias(score, poor) = reset
  BY <1>1, <1>2, <1>5
<1>6. CASE Bias(score, poor) = more /\ poor + 1 < PoorRelaySamplesRequired
  BY <1>1, <1>2, <1>6
<1>7. CASE Bias(score, poor) = spent /\ ~(suppressions >= MaxSuppressions)
  BY <1>1, <1>2, <1>7
<1> QED
  BY <1>3, <1>4, <1>5, <1>6, <1>7

LEMMA SampleTypes ==
    ASSUME FlagInv, ScoreInv, NEW score \in Scores, Sample(score)
    PROVE  ScoreInv' /\ blocked' \in BOOLEAN /\ biasApplied' \in BOOLEAN
<1> DEFINE poor == IF score.changed THEN 0 ELSE poorSamples
           bias == Bias(score, poor)
<1>1. poor \in 0..PoorRelaySamplesRequired
  BY CandidatesAssumption DEF ScoreInv
<1> HIDE DEF poor
<1>2. /\ bias.poorSamples \in 0..PoorRelaySamplesRequired /\ bias.suppress \in BOOLEAN
      /\ suppressions + bias.spend \in 0..MaxSuppressions
  BY <1>1, BiasTypes
<1>3. pair' = score.pair /\ poorSamples' = bias.poorSamples /\ suppressions' = suppressions + bias.spend
  BY DEF Sample, poor
<1>4. score.pair \in {"direct", "relay"}
  BY DEF Scores
<1>5. ScoreInv'
  BY <1>2, <1>3, <1>4 DEF ScoreInv
<1>6. blocked' \in BOOLEAN
  BY DEF Sample
<1>7. biasApplied' \in BOOLEAN
  BY DEF Sample
<1> QED
  BY <1>5, <1>6, <1>7

LEMMA FlagStep ==
    ASSUME FlagInv, ScoreInv, [CandidatesNext]_candidatesVars
    PROVE  FlagInv' /\ ScoreInv'
<1> USE DEF FlagInv, ScoreInv, peerVars, windowVars, pathVars, localVars, remoteVars
<1>1. CASE UNCHANGED candidatesVars
  BY <1>1 DEF candidatesVars
<1>2. CASE SyncStart
  BY <1>2 DEF SyncStart
<1>3. CASE SendBuffered
  BY <1>3 DEF SendBuffered
<1>4. CASE WindowEnds
  BY <1>4 DEF WindowEnds
<1>5. CASE UnblockTimerFires
  BY <1>5 DEF UnblockTimerFires
<1>6. ASSUME NEW d \in Descriptions, Describe(d) PROVE FlagInv' /\ ScoreInv'
  BY <1>6 DEF Describe
<1>7. CASE Connecting
  BY <1>7 DEF Connecting
<1>8. CASE Connect
  BY <1>8 DEF Connect
<1>9. CASE Trouble
  BY <1>9, CandidatesAssumption DEF Trouble
<1>10. CASE Close
  BY <1>10 DEF Close
<1>11. ASSUME NEW c \in NearCandidates, Gather(c) PROVE FlagInv' /\ ScoreInv'
  <2>1. srflxSeen' \in BOOLEAN
    BY <1>11 DEF Gather
  <2> QED
    BY <1>11, <2>1 DEF Gather
<1>12. ASSUME NEW c \in FarCandidates, AddIceCandidate(c) PROVE FlagInv' /\ ScoreInv'
  <2>1. remoteSrflxSeen' \in BOOLEAN
    BY <1>12 DEF AddIceCandidate
  <2> QED
    BY <1>12, <2>1 DEF AddIceCandidate
<1>13. ASSUME NEW score \in Scores, Sample(score) PROVE FlagInv' /\ ScoreInv'
  BY <1>13, SampleTypes DEF Sample
<1>14. CASE FlushGoesOn
  BY <1>14 DEF FlushGoesOn
<1>15. ASSUME NEW x \in Callers, BrowserTakes(x) PROVE FlagInv' /\ ScoreInv'
  BY <1>15 DEF BrowserTakes
<1>16. ASSUME NEW x \in Callers, BrowserRefuses(x) PROVE FlagInv' /\ ScoreInv'
  BY <1>16 DEF BrowserRefuses
<1> QED
  BY <1>1, <1>2, <1>3, <1>4, <1>5, <1>6, <1>7, <1>8, <1>9, <1>10, <1>11, <1>12, <1>13,
     <1>14, <1>15, <1>16
  DEF CandidatesNext

\* Whether loops have overlapped.
OverlapInv == overlapped \in BOOLEAN

LEMMA OverlapStep ==
    ASSUME OverlapInv, [CandidatesNext]_candidatesVars
    PROVE  OverlapInv'
<1>1. ASSUME NEW x \in Callers, BeginDequeue(x) PROVE OverlapInv'
  BY <1>1 DEF BeginDequeue, OverlapInv
<1>2. CASE UNCHANGED overlapped
  BY <1>2 DEF OverlapInv
<1>3. ASSUME NEW d \in Descriptions, Describe(d) PROVE OverlapInv'
  BY <1>1, <1>3 DEF Describe, Callers
<1>4. ASSUME NEW c \in FarCandidates, AddIceCandidate(c) PROVE OverlapInv'
  BY <1>1, <1>2, <1>4, CallersOfStreamer DEF AddIceCandidate, loopVars
<1> QED
  BY <1>2, <1>3, <1>4 DEF CandidatesNext, SyncStart, SendBuffered, WindowEnds, UnblockTimerFires,
     Connecting, Connect, Trouble, Close, Gather, BrowserTakes, BrowserRefuses, FlushGoesOn, Sample,
     candidatesVars, remoteVars, loopVars

TypesInv == CandidatesInv /\ CountInv /\ LengthInv /\ FlagInv /\ ScoreInv /\ OverlapInv

LEMMA TypesInitially ==
    ASSUME CandidatesInit
    PROVE  TypesInv
<1>1. CandidatesInv
  BY CandidatesInitially
<1>2. CountInv
  <2>1. gathered = {} /\ emitted = 0
    BY DEF CandidatesInit
  <2> QED
    BY <2>1, FS_EmptySet DEF CountInv
<1>3. LengthInv
  <2>1. delayedLocal = <<>> /\ delayedRemote = <<>> /\ iceCandidates = <<>>
    BY DEF CandidatesInit
  <2>2. MaxDelayedRelayCandidates \in Nat /\ MaxBufferedRemoteCandidates \in Nat /\ Len(<<>>) = 0
    BY CandidatesAssumption
  <2> QED
    BY <2>1, <2>2 DEF LengthInv
<1>4. FlagInv
  <2>1. 0 \in 0..MaxTroubles
    BY CandidatesAssumption
  <2>2. syncStarted \in BOOLEAN /\ described \in BOOLEAN /\ blocked \in BOOLEAN
        /\ srflxSeen \in BOOLEAN /\ remoteSrflxSeen \in BOOLEAN /\ biasApplied \in BOOLEAN
    BY DEF CandidatesInit
  <2> QED
    BY <2>1, <2>2 DEF CandidatesInit, FlagInv
<1>5. ScoreInv
  <2>1. 0 \in 0..PoorRelaySamplesRequired /\ 0 \in 0..MaxSuppressions
    BY CandidatesAssumption
  <2> QED
    BY <2>1 DEF CandidatesInit, ScoreInv
<1> QED
  BY <1>1, <1>2, <1>3, <1>4, <1>5 DEF TypesInv, OverlapInv, CandidatesInit

LEMMA InvTypes ==
    ASSUME TypesInv
    PROVE  CandidatesTypeOK
<1>1. /\ gathered \subseteq NearCandidates /\ received \subseteq FarCandidates
      /\ applied \cup refused \cup failed \subseteq received /\ repeated \subseteq applied
      /\ flushing \in Seq(received) /\ {bufferedLocal, delayedLocal} \subseteq Seq(gathered)
      /\ sent \in [NearCandidates -> Nat]
  BY DEF TypesInv, CandidatesInv, LocalInv, RemoteInvs, RemoteInv, Distinct
<1>2. emitted \in 0..Cardinality(gathered)
  BY FS_CardinalityType DEF TypesInv, CountInv
<1>3. {syncStarted, described, blocked, srflxSeen, remoteSrflxSeen, biasApplied} \subseteq BOOLEAN
  BY DEF TypesInv, FlagInv
<1>4. at \in [Callers -> Nat] /\ awaited \in [Callers -> received \cup {NoCandidate}]
  BY DEF TypesInv, CandidatesInv, RemoteInvs, LoopInv
<1> QED
  BY <1>1, <1>2, <1>3, <1>4 DEF TypesInv, LengthInv, FlagInv, ScoreInv, OverlapInv, CandidatesTypeOK

\* For any candidates: no buffer exceeds its limit, the count of those let through that of
\* those gathered, or the suppressions their budget (queueDelayedRelayCandidate,
\* onIceCandidate, maybeApplyRelaySuppressionBias).
THEOREM CandidatesTyped == CandidatesSpec => []CandidatesTypeOK
<1>1. CandidatesInit => TypesInv
  BY TypesInitially
<1>2. TypesInv /\ [CandidatesNext]_candidatesVars => TypesInv'
  BY CandidatesStep, CountStep, LengthStep, FlagStep, OverlapStep DEF TypesInv
<1>3. TypesInv => CandidatesTypeOK
  BY InvTypes
<1> QED
  BY <1>1, <1>2, <1>3, PTL DEF CandidatesSpec

-----------------------------------------------------------------------------
(* Player: the least number of a set, by which what a recursion over a      *)
(* sequence computes is known.                                             *)

LEMMA LeastOf ==
    ASSUME NEW S \in SUBSET Nat, S # {}
    PROVE  \E i \in S : \A j \in S : i <= j
<1>1. PICK x \in S : \A y \in S : ~(<<y, x>> \in OpToRel(<, Nat))
  BY NatLessThanWellFounded, WFMin
<1>2. \A y \in S : ~(y < x)
  BY <1>1 DEF OpToRel
<1> QED
  BY <1>2

-----------------------------------------------------------------------------
(* Player: a decoder that is given one unit after the other.               *)

\* The units as the translator leaves them.
LEMMA UnitFacts ==
    ASSUME NEW unit \in Units
    PROVE  /\ unit.key \in BOOLEAN
           /\ Chunk(unit.nals) = (IF unit.key THEN << <<Idr>> >> ELSE << <<Slice>> >>)
  BY UnitsArrive DEF Units

LEMMA UnitArrives ==
    ASSUME wire \in Seq({KeyUnit, DeltaUnit}), wire # <<>>
    PROVE  Unit \in Units /\ Tail(wire) \in Seq({KeyUnit, DeltaUnit})
<1>1. Head(wire) \in {KeyUnit, DeltaUnit} /\ Tail(wire) \in Seq({KeyUnit, DeltaUnit})
  BY HeadTailProperties
<1> QED
  BY <1>1 DEF Unit, Units

\* A decoder that takes units other than key frames was given the unit before.
States == [decoder : Decoders, ok : BOOLEAN, waiting : Seq(Units)]
Chained(d) == d.chained \/ (IF InBand THEN d.needsKeyFrame ELSE ~d.hasDescription)
Healthy == {d \in States : d.ok /\ Chained(d.decoder)}

LEMMA HealthyFacts ==
    ASSUME NEW d \in Healthy
    PROVE  /\ d \in States
           /\ d.ok = TRUE /\ Chained(d.decoder) /\ d.decoder \in Decoders
<1>1. d \in States /\ d.ok /\ Chained(d.decoder)
  BY DEF Healthy
<1>2. d.ok = TRUE /\ d.decoder \in Decoders
  BY <1>1 DEF States
<1> QED
  BY <1>1, <1>2

LEMMA GivenIsHealthy ==
    ASSUME NEW d \in States, NEW isKey \in BOOLEAN, d.ok, isKey \/ d.decoder.chained
    PROVE  Given(d, isKey) \in Healthy
<1> DEFINE fed == [d.decoder EXCEPT !.queue = @ + 1, !.chained = TRUE]
           given == [d EXCEPT !.decoder = fed, !.ok = TRUE]
<1>1. d.decoder \in Decoders /\ d.ok = TRUE
  BY DEF States
<1>2. Given(d, isKey) = given
  <2>1. (d.ok /\ (isKey \/ d.decoder.chained)) = TRUE
    OBVIOUS
  <2>2. Given(d, isKey) = [d EXCEPT !.decoder.queue = @ + 1, !.decoder.chained = TRUE, !.ok = TRUE]
    BY <2>1, Zenon DEF Given
  <2>3. [d EXCEPT !.decoder.queue = @ + 1, !.decoder.chained = TRUE, !.ok = TRUE] = given
    BY DEF States
  <2> QED
    BY <2>2, <2>3
<1>3. fed \in Decoders /\ fed.chained
  <2>1. d.decoder.queue + 1 \in Nat
    BY <1>1 DEF Decoders
  <2>2. fed \in Decoders
    BY <1>1, <2>1 DEF Decoders
  <2>3. fed.chained = TRUE
    BY <1>1 DEF Decoders
  <2> QED
    BY <2>2, <2>3
<1> HIDE DEF fed
<1>4. given \in States /\ given.decoder = fed /\ given.ok
  BY <1>3 DEF States
<1> HIDE DEF given
<1>5. Chained(given.decoder)
  BY <1>3, <1>4 DEF Chained
<1> QED
  BY <1>2, <1>4, <1>5 DEF Healthy

LEMMA SkippedIsHealthy ==
    ASSUME NEW d \in Healthy,
           IF InBand THEN d.decoder.needsKeyFrame ELSE ~d.decoder.hasDescription
    PROVE  Skipped(d) \in Healthy
<1> DEFINE starved == [d.decoder EXCEPT !.chained = FALSE]
           skipped == [d EXCEPT !.decoder = starved]
<1>1. Skipped(d) = skipped
  BY DEF Skipped
<1>2. starved \in Decoders /\ Chained(starved)
  BY HealthyFacts DEF Decoders, Chained
<1> HIDE DEF starved
<1>3. skipped \in States /\ skipped.decoder = starved /\ skipped.ok
  BY <1>2, HealthyFacts DEF States
<1> QED
  BY <1>1, <1>2, <1>3 DEF Healthy

\* Whatever unit comes, a healthy decoder stays so.
LEMMA TakeKeeps ==
    ASSUME NEW d \in Healthy, NEW unit \in Units
    PROVE  Take(d, unit) \in Healthy
<1>1. /\ d \in States /\ d.ok = TRUE
      /\ Chained(d.decoder) /\ d.decoder \in Decoders
  BY HealthyFacts
<1>2. unit.key \in BOOLEAN
  BY UnitFacts
<1>3. CASE InBand
  <2> DEFINE core == [d.decoder EXCEPT !.needsKeyFrame = FALSE, !.requestedIdr = FALSE]
             fresh == [d EXCEPT !.decoder = core]
  <2>1. CASE unit.key \/ ~d.decoder.needsKeyFrame
    <3>1. fresh = [d EXCEPT !.decoder.needsKeyFrame = FALSE, !.decoder.requestedIdr = FALSE]
      BY <1>1 DEF States
    <3>2. core \in Decoders /\ core.chained = d.decoder.chained
      BY <1>1 DEF Decoders
    <3>3. unit.key \/ d.decoder.chained
      BY <1>1, <1>3, <2>1 DEF Chained
    <3>4. Take(d, unit) = Given(fresh, unit.key)
      BY <1>3, <2>1, <3>1 DEF Take, Decode
    <3> HIDE DEF core
    <3>5. fresh \in States /\ fresh.ok = d.ok /\ fresh.decoder = core
      BY <1>1, <3>2 DEF States
    <3> HIDE DEF fresh
    <3> QED
      BY <1>1, <1>2, <3>1, <3>2, <3>3, <3>4, <3>5, GivenIsHealthy
  <2>2. CASE ~(unit.key \/ ~d.decoder.needsKeyFrame)
    <3>1. Take(d, unit) = Skipped(d)
      BY <1>3, <2>2 DEF Take, Decode
    <3> QED
      BY <1>3, <2>2, <3>1, SkippedIsHealthy
  <2> QED
    BY <2>1, <2>2
<1>4. CASE ~InBand
  <2> DEFINE core == [d.decoder EXCEPT !.hasDescription = TRUE, !.requestedIdr = FALSE, !.queue = 0]
             configured == [d EXCEPT !.decoder = core]
             base == IF Configures(unit.nals) THEN configured ELSE d
             next == Given(base, unit.key)
  <2>1. CASE unit.key \/ d.decoder.hasDescription
    <3>1. configured = [d EXCEPT !.decoder.hasDescription = TRUE, !.decoder.requestedIdr = FALSE,
                                 !.decoder.queue = 0]
      BY <1>1 DEF States
    <3>2. core \in Decoders /\ core.chained = d.decoder.chained
      BY <1>1 DEF Decoders
    <3>3. unit.key \/ d.decoder.chained
      BY <1>1, <1>4, <2>1 DEF Chained
    <3>4. Take(d, unit) = [next EXCEPT !.ok = @ /\ Chunk(unit.nals) = (IF unit.key THEN << <<Idr>> >> ELSE << <<Slice>> >>)]
      BY <1>4, <2>1, <3>1 DEF Take, DecodeTranslated
    <3> HIDE DEF core
    <3>5. configured \in States /\ configured.ok = d.ok /\ configured.decoder = core
      BY <1>1, <3>2 DEF States
    <3> HIDE DEF configured
    <3>6. /\ base \in States /\ base.ok
          /\ unit.key \/ base.decoder.chained
      BY <1>1, <3>2, <3>3, <3>5
    <3> HIDE DEF base
    <3>7. next \in Healthy
      BY <1>2, <3>6, GivenIsHealthy
    <3> HIDE DEF next
    <3>8. Chunk(unit.nals) = (IF unit.key THEN << <<Idr>> >> ELSE << <<Slice>> >>)
      BY UnitFacts
    <3>9. next \in States /\ next.ok = TRUE
      BY <3>7, HealthyFacts
    <3>10. Take(d, unit) = [next EXCEPT !.ok = TRUE]
      BY <3>4, <3>8, <3>9
    <3>11. Take(d, unit) = next
      BY <3>9, <3>10 DEF States
    <3> QED
      BY <3>7, <3>11
  <2>2. CASE ~(unit.key \/ d.decoder.hasDescription)
    <3>1. Take(d, unit) = Skipped(d)
      BY <1>4, <2>2 DEF Take, DecodeTranslated
    <3> QED
      BY <1>4, <2>2, <3>1, SkippedIsHealthy
  <2> QED
    BY <2>1, <2>2
<1> QED
  BY <1>3, <1>4

\* A recursion over a sequence has a value at every step.
Follows(run, F, b, s) == run[0] = b /\ \A n \in 1..Len(s) : run[n] = F[<<run[n - 1], s[n]>>]
LEMMA RunExists ==
    ASSUME NEW D, NEW U, NEW F \in [D \X U -> D], NEW b \in D, NEW s \in Seq(U)
    PROVE  \E run \in [0..Len(s) -> D] : Follows(run, F, b, s)
<1> DEFINE Runs(k) == {g \in [0..k -> D] : g[0] = b /\ \A n \in 1..k : g[n] = F[<<g[n - 1], s[n]>>]}
           Stuck == {k \in 0..Len(s) : Runs(k) = {}}
<1>1. Len(s) \in Nat
  BY LenProperties
<1>2. [n \in 0..0 |-> b] \in Runs(0)
  OBVIOUS
<1>3. SUFFICES ASSUME Stuck # {}
               PROVE  FALSE
  BY <1>1 DEF Follows
<1>a. Stuck \in SUBSET Nat
  BY <1>1
<1> HIDE DEF Stuck
<1>4. PICK k \in Stuck : \A j \in Stuck : k <= j
  BY <1>a, <1>3, LeastOf
<1>b. k \in 0..Len(s) /\ Runs(k) = {}
  BY <1>4 DEF Stuck
<1>5. k \in 1..Len(s)
  <2>1. k # 0
    BY <1>2, <1>b
  <2> QED
    BY <1>1, <1>b, <2>1
<1>6. k - 1 \notin Stuck
  <2>1. ~(k <= k - 1)
    BY <1>1, <1>5
  <2> QED
    BY <1>4, <2>1
<1>7. PICK g : g \in Runs(k - 1)
  <2>1. k - 1 \in 0..Len(s)
    BY <1>1, <1>5
  <2> QED
    BY <1>6, <2>1 DEF Stuck
<1> DEFINE next == F[<<g[k - 1], s[k]>>]
           h == [n \in 0..k |-> IF n = k THEN next ELSE g[n]]
<1>8. s[k] \in U /\ g[k - 1] \in D
  BY <1>5, <1>7, ElementOfSeq
<1>9. next \in D
  BY <1>8
<1> HIDE DEF next
<1>10. h \in [0..k -> D] /\ h[0] = b
  BY <1>1, <1>5, <1>7, <1>9
<1>11. ASSUME NEW n \in 1..k
       PROVE  h[n] = F[<<h[n - 1], s[n]>>]
  <2>1. CASE n = k
    <3>1. h[k] = next /\ h[k - 1] = g[k - 1]
      BY <1>1, <1>5
    <3> QED
      BY <2>1, <3>1 DEF next
  <2>2. CASE n # k
    BY <1>5, <1>7, <2>2
  <2> QED
    BY <2>1, <2>2
<1>12. h \in Runs(k)
  BY <1>10, <1>11
<1> QED
  BY <1>b, <1>12

\* SubmitAll gives one unit after the other, from the state of the pipe.
LEMMA SubmitAllRuns ==
    ASSUME NEW units \in Seq(Units),
           [decoder |-> decoder, ok |-> decodable, waiting |-> <<>>] \in Healthy
    PROVE  \E run :
             /\ run = [n \in 0..Len(units) |->
                         IF n = 0 THEN [decoder |-> decoder, ok |-> decodable, waiting |-> <<>>]
                         ELSE Take(run[n - 1], units[n])]
             /\ SubmitAll(units) = run[Len(units)]
<1> DEFINE start == [decoder |-> decoder, ok |-> decodable, waiting |-> <<>>]
           IsRun(run) == run = [n \in 0..Len(units) |-> IF n = 0 THEN start ELSE Take(run[n - 1], units[n])]
           F == [p \in Healthy \X Units |-> Take(p[1], p[2])]
<1>1. F \in [Healthy \X Units -> Healthy]
  BY TakeKeeps
<1>2. \A d \in Healthy, unit \in Units : F[<<d, unit>>] = Take(d, unit)
  OBVIOUS
<1> HIDE DEF F
<1>a. start \in Healthy
  OBVIOUS
<1> HIDE DEF start
<1>3. PICK g \in [0..Len(units) -> Healthy] : Follows(g, F, start, units)
  BY <1>1, <1>a, RunExists
<1>b. g[0] = start /\ \A n \in 1..Len(units) : g[n] = F[<<g[n - 1], units[n]>>]
  BY <1>3 DEF Follows
<1>4. Len(units) \in Nat /\ \A n \in 1..Len(units) : units[n] \in Units
  BY LenProperties, ElementOfSeq
<1>5. \A n \in 1..Len(units) : g[n] = Take(g[n - 1], units[n])
  <2>1. ASSUME NEW n \in 1..Len(units)
        PROVE  g[n] = Take(g[n - 1], units[n])
    <3>1. n - 1 \in 0..Len(units)
      BY <1>4
    <3>2. g[n - 1] \in Healthy /\ units[n] \in Units
      BY <1>3, <1>4, <3>1
    <3> QED
      BY <1>2, <1>b, <3>2
  <2> QED
    BY <2>1
<1>6. \A n \in 0..Len(units) : g[n] = IF n = 0 THEN start ELSE Take(g[n - 1], units[n])
  BY <1>b, <1>4, <1>5
<1>7. IsRun(g)
  BY <1>3, <1>6
<1>8. IsRun(CHOOSE run : IsRun(run))
  BY <1>7, Zenon
<1>9. SubmitAll(units) = (CHOOSE run : IsRun(run))[Len(units)]
  BY Zenon DEF SubmitAll, start
<1> QED
  BY <1>8, <1>9 DEF start

LEMMA SubmitAllKeeps ==
    ASSUME NEW units \in Seq(Units),
           [decoder |-> decoder, ok |-> decodable, waiting |-> <<>>] \in Healthy
    PROVE  SubmitAll(units) \in Healthy
<1> DEFINE start == [decoder |-> decoder, ok |-> decodable, waiting |-> <<>>]
<1>1. PICK run :
        /\ run = [n \in 0..Len(units) |-> IF n = 0 THEN start ELSE Take(run[n - 1], units[n])]
        /\ SubmitAll(units) = run[Len(units)]
  BY SubmitAllRuns
<1>2. Len(units) \in Nat /\ \A n \in 1..Len(units) : units[n] \in Units
  BY LenProperties, ElementOfSeq
<1> DEFINE ill == {n \in 0..Len(units) : run[n] \notin Healthy}
<1>3. run[0] = start
  BY <1>1, <1>2
<1>4. \A n \in 1..Len(units) : run[n] = Take(run[n - 1], units[n])
  BY <1>1, <1>2
<1> HIDE DEF start
<1>a. start \in Healthy
  BY DEF start
<1>5. SUFFICES ASSUME run[Len(units)] \notin Healthy
               PROVE  FALSE
  BY <1>1, Zenon
<1>d. ill # {}
  BY <1>2, <1>5
<1>b. ill \in SUBSET Nat
  BY <1>2
<1> HIDE DEF ill
<1>6. PICK k \in ill : \A j \in ill : k <= j
  BY <1>b, <1>d, LeastOf
<1>c. k \in 0..Len(units) /\ run[k] \notin Healthy
  BY <1>6 DEF ill
<1>7. k \in 1..Len(units)
  BY <1>2, <1>3, <1>a, <1>c
<1>8. run[k - 1] \in Healthy
  <2>1. k - 1 \in 0..Len(units) /\ ~(k <= k - 1)
    BY <1>2, <1>7
  <2> QED
    BY <1>6, <2>1 DEF ill
<1>9. run[k] \in Healthy
  BY <1>2, <1>4, <1>7, <1>8, TakeKeeps
<1> QED
  BY <1>c, <1>9

-----------------------------------------------------------------------------
(* Player: a MediaSource whose segments follow each other.                 *)

\* The frame before the one that follows an init segment has the time -1.
At(segment) == IF segment.init THEN -1 ELSE segment.time
Continues(time, segment) == segment.init \/ segment.time = (time + 1) % Stamps
\* What the source buffer has not played.
Ahead(m) == m.appending \o m.buffers
Linked(s) == \A i \in 1..Len(s) - 1 : Continues(At(s[i]), s[i + 1])
\* What is ahead continues what was played, up to the last time given; before its first
\* append a new source buffer takes an init segment or fails.
InOrder(m) ==
  /\ Len(m.appending) <= 1
  /\ Linked(Ahead(m))
  /\ m.source = "none" => Ahead(m) = <<>> /\ m.needIdr
  /\ m.source = "created" => Ahead(m) # <<>>
  /\ m.source = "started" /\ Ahead(m) # <<>> => Continues(m.played, Ahead(m)[1])
  /\ m.source = "started" /\ Ahead(m) = <<>> => m.played = m.last
  /\ Ahead(m) # <<>> => At(Ahead(m)[Len(Ahead(m))]) = m.last

LEMMA StampTypes ==
    ASSUME NEW time \in Int
    PROVE  (time + 1) % Stamps \in 0..Stamps - 1 /\ Stamps \in Nat /\ Stamps > 1
<1>1. Stamps \in Nat /\ Stamps > 1
  BY PlayerAssumption
<1> QED
  BY <1>1

LEMMA SegmentTypes ==
  /\ InitSegment \in Segments /\ At(InitSegment) = -1
  /\ \A time \in 0..Stamps - 1 : FrameSegment(time) \in Segments /\ At(FrameSegment(time)) = time
  /\ Continues(-1, FrameSegment(0)) /\ \A time \in Int : Continues(time, InitSegment)
<1>1. Stamps \in Nat /\ Stamps > 1
  BY PlayerAssumption
<1>2. (-1 + 1) % Stamps = 0
  BY <1>1
<1> QED
  BY <1>1, <1>2 DEF InitSegment, FrameSegment, Segments, At, Continues

LEMMA LinkedTail ==
    ASSUME NEW s \in Seq(Segments), s # <<>>, Linked(s)
    PROVE  /\ Tail(s) \in Seq(Segments) /\ Linked(Tail(s)) /\ s[1] \in Segments
           /\ Tail(s) # <<>> => Continues(At(s[1]), Tail(s)[1]) /\ Tail(s)[Len(Tail(s))] = s[Len(s)]
           /\ Tail(s) = <<>> => Len(s) = 1
<1> DEFINE t == Tail(s)
<1>1. /\ Len(s) \in Nat /\ Len(s) >= 1 /\ t \in Seq(Segments) /\ Len(t) = Len(s) - 1
      /\ \A i \in 1..Len(s) - 1 : t[i] = s[i + 1]
      /\ s[1] \in Segments
  BY HeadTailProperties, EmptySeq, LenProperties, ElementOfSeq
<1>2. t = <<>> <=> Len(t) = 0
  BY <1>1, EmptySeq
<1> HIDE DEF t
<1>3. Linked(t)
  BY <1>1 DEF Linked
<1>4. ASSUME t # <<>>
      PROVE  Continues(At(s[1]), t[1]) /\ t[Len(t)] = s[Len(s)]
  <2>1. Len(s) - 1 \in 1..Len(s) - 1 /\ 1 \in 1..Len(s) - 1
    BY <1>1, <1>2, <1>4
  <2>2. t[1] = s[2] /\ t[Len(s) - 1] = s[Len(s)]
    BY <1>1, <2>1
  <2>3. Continues(At(s[1]), s[2])
    BY <1>1, <2>1 DEF Linked
  <2> QED
    BY <1>1, <2>2, <2>3
<1> QED
  BY <1>1, <1>2, <1>3, <1>4 DEF t

LEMMA LinkedAppend ==
    ASSUME NEW s \in Seq(Segments), NEW x \in Segments, Linked(s),
           s = <<>> \/ Continues(At(s[Len(s)]), x)
    PROVE  /\ Append(s, x) \in Seq(Segments) /\ Linked(Append(s, x)) /\ Append(s, x) # <<>>
           /\ Append(s, x)[Len(Append(s, x))] = x
           /\ Append(s, x)[1] = IF s = <<>> THEN x ELSE s[1]
<1> DEFINE t == Append(s, x)
<1>1. /\ Len(s) \in Nat /\ t \in Seq(Segments) /\ Len(t) = Len(s) + 1 /\ t # <<>>
      /\ t[Len(s) + 1] = x /\ \A i \in 1..Len(s) : t[i] = s[i]
  BY AppendProperties, LenProperties
<1>2. s = <<>> <=> Len(s) = 0
  BY EmptySeq
<1> HIDE DEF t
<1>3. ASSUME NEW i \in 1..Len(t) - 1
      PROVE  Continues(At(t[i]), t[i + 1])
  <2>1. i \in 1..Len(s) /\ t[i] = s[i]
    BY <1>1
  <2>2. CASE i = Len(s)
    BY <1>1, <1>2, <2>1, <2>2
  <2>3. CASE i # Len(s)
    <3>1. i + 1 \in 1..Len(s) /\ i \in 1..Len(s) - 1
      BY <1>1, <2>1, <2>3
    <3> QED
      BY <1>1, <2>1, <3>1 DEF Linked
  <2> QED
    BY <2>2, <2>3
<1>4. t[1] = IF s = <<>> THEN x ELSE s[1]
  BY <1>1, <1>2
<1> QED
  BY <1>1, <1>3, <1>4 DEF Linked, t

LEMMA MediaFacts ==
    ASSUME NEW m \in MediaSources, InOrder(m)
    PROVE  /\ m.appending \in Seq(Segments) /\ m.buffers \in Seq(Segments)
           /\ Ahead(m) \in Seq(Segments) /\ m.last \in 0..Stamps - 1 /\ m.played \in -1..Stamps - 1
           /\ Linked(Ahead(m)) /\ Linked(m.buffers)
           /\ m.appending = <<>> => Ahead(m) = m.buffers
           /\ m.appending # <<>> => /\ Head(m.appending) = Ahead(m)[1] /\ Ahead(m) # <<>>
                                    /\ m.buffers = Tail(Ahead(m))
<1>1. /\ m.appending \in Seq(Segments) /\ m.buffers \in Seq(Segments) /\ Ahead(m) \in Seq(Segments)
      /\ m.last \in 0..Stamps - 1 /\ m.played \in -1..Stamps - 1
  <2>1. /\ m.appending \in Seq(Segments) /\ m.buffers \in Seq(Segments)
        /\ m.last \in 0..Stamps - 1 /\ m.played \in -1..Stamps - 1
    BY DEF MediaSources
  <2> QED
    BY <2>1, ConcatProperties DEF Ahead
<1>2. Linked(Ahead(m)) /\ Len(m.appending) <= 1
  BY DEF InOrder
<1>3. CASE m.appending = <<>>
  <2>1. Ahead(m) = m.buffers
    BY <1>1, <1>3, ConcatEmptySeq DEF Ahead
  <2> QED
    BY <1>1, <1>2, <1>3, <2>1
<1>4. CASE m.appending # <<>>
  <2>1. Len(m.appending) = 1
    <3> DEFINE length == Len(m.appending)
    <3>1. length \in Nat /\ length # 0
      BY <1>1, <1>4, EmptySeq
    <3>2. length <= 1
      BY <1>2
    <3> HIDE DEF length
    <3>3. length = 1
      BY <3>1, <3>2
    <3> QED
      BY <3>3 DEF length
  <2>2. /\ Head(m.appending) = m.appending[1] /\ Len(Ahead(m)) = Len(m.buffers) + 1
        /\ Ahead(m)[1] = m.appending[1] /\ Len(m.buffers) \in Nat
        /\ \A i \in 1..Len(m.buffers) : Ahead(m)[i + 1] = m.buffers[i]
    <3> DEFINE a == m.appending
               b == m.buffers
    <3>1. a \in Seq(Segments) /\ b \in Seq(Segments) /\ Len(a) = 1
      BY <1>1, <2>1
    <3>2. Ahead(m) = a \o b
      BY DEF Ahead
    <3> HIDE DEF a, b
    <3>3. /\ Len(a \o b) = Len(b) + 1 /\ Len(b) \in Nat /\ (a \o b)[1] = a[1] /\ Head(a) = a[1]
          /\ \A i \in 1..Len(b) : (a \o b)[i + 1] = b[i]
      <4>1. /\ Len(a \o b) = Len(a) + Len(b)
            /\ \A i \in 1..Len(a) + Len(b) : (a \o b)[i] = IF i <= Len(a) THEN a[i] ELSE b[i - Len(a)]
        BY <3>1, ConcatProperties
      <4>2. Len(b) \in Nat /\ Head(a) = a[1]
        BY <3>1
      <4>3. ASSUME NEW i \in 1..Len(b)
            PROVE  (a \o b)[i + 1] = b[i]
        <5>1. i + 1 \in 1..Len(a) + Len(b) /\ ~(i + 1 <= Len(a)) /\ i + 1 - Len(a) = i
          BY <3>1, <4>2
        <5> QED
          BY <4>1, <5>1
      <4> QED
        BY <3>1, <4>1, <4>2, <4>3
    <3> QED
      BY <3>2, <3>3 DEF a, b
  <2>3. Ahead(m) # <<>>
    BY <1>1, <2>2, EmptySeq
  <2>4. /\ Tail(Ahead(m)) \in Seq(Segments) /\ Len(Tail(Ahead(m))) = Len(m.buffers)
        /\ \A i \in 1..Len(m.buffers) : Tail(Ahead(m))[i] = m.buffers[i]
    BY <1>1, <2>2, <2>3, HeadTailProperties
  <2>5. Tail(Ahead(m)) = m.buffers
    BY <1>1, <2>4, SeqEqual
  <2>6. Linked(m.buffers)
    BY <1>1, <1>2, <2>3, <2>5, LinkedTail
  <2> QED
    BY <1>1, <1>2, <1>4, <2>2, <2>3, <2>5, <2>6
<1> QED
  BY <1>3, <1>4

\* The first that waits is appended: the order stays.
LEMMA TryAppendKeeps ==
    ASSUME NEW m \in MediaSources, InOrder(m)
    PROVE  TryAppend(m) \in MediaSources /\ InOrder(TryAppend(m))
<1> DEFINE n == TryAppend(m)
<1>1. CASE m.source = "none" \/ m.appending # <<>> \/ m.buffers = <<>>
  BY <1>1 DEF TryAppend
<1>2. CASE ~(m.source = "none" \/ m.appending # <<>> \/ m.buffers = <<>>)
  <2> DEFINE one == <<Head(m.buffers)>>
             rest == Tail(m.buffers)
  <2>1. n = [m EXCEPT !.appending = one, !.buffers = rest]
    BY <1>2 DEF TryAppend
  <2>2. m.buffers \in Seq(Segments) /\ m.buffers # <<>> /\ m.appending = <<>> /\ Ahead(m) = m.buffers
    BY <1>2, MediaFacts
  <2>3. rest \in Seq(Segments) /\ Head(m.buffers) \in Segments /\ m.buffers = one \o rest
    BY <2>2, HeadTailProperties
  <2>4. one \in Seq(Segments) /\ Len(one) = 1
    BY <2>3
  <2> HIDE DEF one, rest
  <2>5. /\ n \in MediaSources /\ n.appending = one /\ n.buffers = rest
        /\ n.source = m.source /\ n.needIdr = m.needIdr /\ n.played = m.played /\ n.last = m.last
    BY <2>1, <2>3, <2>4 DEF MediaSources
  <2>6. Ahead(n) = Ahead(m)
    BY <2>2, <2>3, <2>5 DEF Ahead
  <2> HIDE DEF n
  <2>7. InOrder(n)
    <3>1. m.source # "none"
      BY <1>2
    <3>2. /\ Linked(Ahead(m))
          /\ m.source = "created" => Ahead(m) # <<>>
          /\ m.source = "started" /\ Ahead(m) # <<>> => Continues(m.played, Ahead(m)[1])
          /\ m.source = "started" /\ Ahead(m) = <<>> => m.played = m.last
          /\ Ahead(m) # <<>> => At(Ahead(m)[Len(Ahead(m))]) = m.last
      BY DEF InOrder
    <3>3. Len(n.appending) <= 1
      <4>1. n.appending = one /\ Len(one) = 1
        BY <2>4, <2>5
      <4> QED
        BY <4>1
    <3> QED
      BY <2>5, <2>6, <3>1, <3>2, <3>3 DEF InOrder
  <2> QED
    BY <2>5, <2>7 DEF n
<1> QED
  BY <1>1, <1>2

\* A new configuration goes behind what waits.
LEMMA ConfigureKeeps ==
    ASSUME NEW m \in MediaSources, InOrder(m),
           NEW n, n = [m EXCEPT !.hasDescription = TRUE, !.needIdr = FALSE, !.droppedFrames = 0,
                             !.last = 0, !.source = "created", !.appending = <<>>,
                             !.buffers = @ \o <<InitSegment, FrameSegment(0)>>]
    PROVE  n \in MediaSources /\ InOrder(n)
<1> DEFINE once == Append(m.buffers, InitSegment)
           twice == Append(once, FrameSegment(0))
<1>zero. 0 \in 0..Stamps - 1 /\ -1 \in -1..Stamps - 1 /\ \A s \in Segments : At(s) \in Int
  BY PlayerAssumption DEF At, Segments
<1>1. m.buffers \in Seq(Segments) /\ Linked(m.buffers)
  BY MediaFacts
<1>2. InitSegment \in Segments /\ FrameSegment(0) \in Segments /\ At(FrameSegment(0)) = 0
  BY <1>zero, SegmentTypes
<1>3. m.buffers = <<>> \/ Continues(At(m.buffers[Len(m.buffers)]), InitSegment)
  <2>1. ASSUME m.buffers # <<>>
        PROVE  m.buffers[Len(m.buffers)] \in Segments
    BY <1>1, <2>1, EmptySeq, LenProperties, ElementOfSeq
  <2> QED
    BY <1>zero, <2>1, SegmentTypes
<1>4. once \in Seq(Segments) /\ Linked(once) /\ once # <<>> /\ once[Len(once)] = InitSegment
  BY <1>1, <1>2, <1>3, LinkedAppend
<1> HIDE DEF once
<1>5. Continues(At(once[Len(once)]), FrameSegment(0))
  BY <1>4, SegmentTypes
<1>6. /\ twice \in Seq(Segments) /\ Linked(twice) /\ twice # <<>>
      /\ twice[Len(twice)] = FrameSegment(0)
  BY <1>2, <1>4, <1>5, LinkedAppend
<1>7. m.buffers \o <<InitSegment, FrameSegment(0)>> = twice
  BY <1>1, <1>2 DEF once
<1> HIDE DEF twice
<1>8. <<>> \in Seq(Segments) /\ Len(<<>>) = 0
  OBVIOUS
<1>9. /\ n \in MediaSources /\ n.source = "created" /\ n.appending = <<>> /\ n.buffers = twice
      /\ n.last = 0
  BY <1>zero, <1>6, <1>7, <1>8 DEF MediaSources
<1>10. Ahead(n) = twice
  BY <1>6, <1>9, ConcatEmptySeq DEF Ahead
<1>11. InOrder(n)
  BY <1>2, <1>6, <1>8, <1>9, <1>10 DEF InOrder
<1> QED
  BY <1>9, <1>11

\* A frame continues the last time given.
LEMMA FrameKeeps ==
    ASSUME NEW m \in MediaSources, InOrder(m), ~m.needIdr, NEW time, time = (m.last + 1) % Stamps,
           NEW n, n = [m EXCEPT !.last = time, !.buffers = Append(@, FrameSegment(time))]
    PROVE  n \in MediaSources /\ InOrder(n)
<1> DEFINE x == FrameSegment(time)
           more == Append(m.buffers, x)
           ahead == Ahead(m)
<1>1. m.last \in Int /\ time \in 0..Stamps - 1 /\ x \in Segments /\ At(x) = time
  BY MediaFacts, StampTypes, SegmentTypes
<1>2. Continues(m.last, x)
  BY <1>1 DEF Continues, FrameSegment
<1>3. /\ m.appending \in Seq(Segments) /\ m.buffers \in Seq(Segments) /\ ahead \in Seq(Segments)
      /\ Linked(ahead)
  BY MediaFacts
<1>4. ahead # <<>> => At(ahead[Len(ahead)]) = m.last
  BY DEF InOrder
<1> HIDE DEF x
<1>5. /\ Append(ahead, x) \in Seq(Segments) /\ Linked(Append(ahead, x)) /\ Append(ahead, x) # <<>>
      /\ Append(ahead, x)[Len(Append(ahead, x))] = x
      /\ Append(ahead, x)[1] = IF ahead = <<>> THEN x ELSE ahead[1]
  BY <1>1, <1>2, <1>3, <1>4, LinkedAppend
<1>6. more \in Seq(Segments)
  BY <1>1, <1>3, AppendProperties
<1>7. m.appending \o more = Append(ahead, x)
  <2>1. more = m.buffers \o <<x>> /\ Append(ahead, x) = ahead \o <<x>>
    BY <1>1, <1>3, AppendIsConcat
  <2>2. <<x>> \in Seq(Segments)
    BY <1>1
  <2>3. m.appending \o (m.buffers \o <<x>>) = (m.appending \o m.buffers) \o <<x>>
    <3> DEFINE a == m.appending
               b == m.buffers
               c == <<x>>
    <3>1. a \in Seq(Segments) /\ b \in Seq(Segments) /\ c \in Seq(Segments)
      BY <1>3, <2>2
    <3> HIDE DEF a, b, c
    <3>2. a \o (b \o c) = (a \o b) \o c
      BY <3>1, ConcatAssociative
    <3> QED
      BY <3>2 DEF a, b, c
  <2> QED
    BY <2>1, <2>3 DEF Ahead
<1>8. n = [m EXCEPT !.last = time, !.buffers = more]
  BY DEF x
<1> HIDE DEF more
<1>9. /\ n \in MediaSources /\ n.appending = m.appending /\ n.buffers = more /\ n.source = m.source
      /\ n.played = m.played /\ n.last = time
  BY <1>1, <1>6, <1>8 DEF MediaSources
<1>10. Ahead(n) = Append(ahead, x)
  BY <1>7, <1>9 DEF Ahead
<1>11. /\ m.source # "none" /\ Len(m.appending) <= 1
       /\ m.source = "started" /\ ahead # <<>> => Continues(m.played, ahead[1])
       /\ m.source = "started" /\ ahead = <<>> => m.played = m.last
  BY DEF InOrder
<1> HIDE DEF ahead
<1>12. InOrder(n)
  BY <1>1, <1>2, <1>5, <1>9, <1>10, <1>11 DEF InOrder
<1> QED
  BY <1>9, <1>12

LEMMA SubmitToMediaKeeps ==
    ASSUME NEW m \in MediaSources, InOrder(m), NEW unit
    PROVE  SubmitToMedia(m, unit) \in MediaSources /\ InOrder(SubmitToMedia(m, unit))
<1> DEFINE n == SubmitToMedia(m, unit)
           configure == unit.key /\ Configures(unit.nals)
           time == (m.last + 1) % Stamps
           configured == [m EXCEPT !.hasDescription = TRUE, !.needIdr = FALSE, !.droppedFrames = 0,
                             !.last = 0, !.source = "created", !.appending = <<>>,
                             !.buffers = @ \o <<InitSegment, FrameSegment(0)>>]
           framed == [m EXCEPT !.last = time, !.buffers = Append(@, FrameSegment(time))]
<1>1. CASE ~unit.key /\ ~m.hasDescription
  BY <1>1 DEF SubmitToMedia
<1>2. CASE ~(~unit.key /\ ~m.hasDescription) /\ configure /\ ~ready
  <2>1. n = [m EXCEPT !.hasDescription = TRUE]
    BY <1>2 DEF SubmitToMedia
  <2> HIDE DEF n
  <2>2. /\ n \in MediaSources /\ n.appending = m.appending /\ n.buffers = m.buffers
        /\ n.source = m.source /\ n.needIdr = m.needIdr /\ n.played = m.played /\ n.last = m.last
    BY <2>1 DEF MediaSources
  <2>3. Ahead(n) = Ahead(m)
    BY <2>2 DEF Ahead
  <2>4. InOrder(n)
    BY <2>2, <2>3 DEF InOrder
  <2> QED
    BY <2>2, <2>4 DEF n
<1>3. CASE ~(~unit.key /\ ~m.hasDescription) /\ configure /\ ready
  <2>1. n = TryAppend(configured)
    BY <1>3 DEF SubmitToMedia
  <2>2. configured \in MediaSources /\ InOrder(configured)
    BY ConfigureKeeps
  <2> HIDE DEF configured
  <2> QED
    BY <2>1, <2>2, TryAppendKeeps
<1>4. CASE ~(~unit.key /\ ~m.hasDescription) /\ ~configure /\ m.needIdr
  <2>1. n = [m EXCEPT !.droppedFrames = @ + 1]
    BY <1>4 DEF SubmitToMedia
  <2> HIDE DEF n
  <2>2. /\ n \in MediaSources /\ n.appending = m.appending /\ n.buffers = m.buffers
        /\ n.source = m.source /\ n.needIdr = m.needIdr /\ n.played = m.played /\ n.last = m.last
    BY <2>1 DEF MediaSources
  <2>3. Ahead(n) = Ahead(m)
    BY <2>2 DEF Ahead
  <2>4. InOrder(n)
    BY <2>2, <2>3 DEF InOrder
  <2> QED
    BY <2>2, <2>4 DEF n
<1>5. CASE ~(~unit.key /\ ~m.hasDescription) /\ ~configure /\ ~m.needIdr
  <2>1. n = TryAppend(framed)
    BY <1>5 DEF SubmitToMedia
  <2>2. framed \in MediaSources /\ InOrder(framed)
    BY <1>5, FrameKeeps
  <2> HIDE DEF framed
  <2> QED
    BY <2>1, <2>2, TryAppendKeeps
<1> QED
  BY <1>1, <1>2, <1>3, <1>4, <1>5

LEMMA PollMediaKeeps ==
    ASSUME NEW m \in MediaSources, InOrder(m)
    PROVE  PollMedia(m).media \in MediaSources /\ InOrder(PollMedia(m).media)
<1> DEFINE n == [m EXCEPT !.droppedFrames = 0]
<1>2. /\ n \in MediaSources /\ n.appending = m.appending /\ n.buffers = m.buffers
      /\ n.source = m.source /\ n.needIdr = m.needIdr /\ n.played = m.played /\ n.last = m.last
  BY DEF MediaSources
<1>1. PollMedia(m).media \in {m, n}
  BY DEF PollMedia
<1> HIDE DEF n
<1>3. Ahead(n) = Ahead(m)
  BY <1>2 DEF Ahead
<1>4. InOrder(n)
  BY <1>2, <1>3 DEF InOrder
<1> QED
  BY <1>1, <1>2, <1>4

-----------------------------------------------------------------------------
(* Player: its invariant.                                                  *)

\* OpenH264, until it has or misses a key frame: the next unit it receives is one.
KeyFirst ==
  (Decodes = "openh264" /\ ~errored /\ ~decoder.chained /\ ~missed)
    => IF wire = <<>> THEN host = "new" ELSE wire[1] = KeyUnit
PlayerInv ==
  PlayerTypeOK /\ Decodable /\ Chained(decoder) /\ (~errored => InOrder(media)) /\ KeyFirst

LEMMA PlayerFacts ==
    ASSUME PlayerInv
    PROVE  /\ wire \in Seq({KeyUnit, DeltaUnit}) /\ bufferedUnits \in Seq(Units) /\ asking \in Nat
           /\ decoder \in Decoders /\ media \in MediaSources
           /\ decodable \in BOOLEAN /\ missed \in BOOLEAN /\ (Decodes # "openh264" => decodable = TRUE)
           /\ Chained(decoder) /\ (~errored => InOrder(media))
<1>1. /\ wire \in Seq({KeyUnit, DeltaUnit}) /\ bufferedUnits \in Seq(Units) /\ asking \in Nat
      /\ decoder \in Decoders /\ media \in MediaSources
  BY DEF PlayerInv, PlayerTypeOK
<1>2. decodable \in BOOLEAN /\ missed \in BOOLEAN
  BY DEF PlayerInv, PlayerTypeOK
<1> QED
  BY <1>1, <1>2 DEF PlayerInv, Decodable

LEMMA PlayerInitInv == PlayerInit => PlayerInv
<1> SUFFICES ASSUME PlayerInit PROVE PlayerInv
  OBVIOUS
<1>1. 0 \in 0..Stamps - 1 /\ 0 \in -1..Stamps - 1
  BY PlayerAssumption
<1>2. /\ <<>> \in Seq({KeyUnit, DeltaUnit}) /\ <<>> \in Seq(Units) /\ <<>> \in Seq(Segments)
      /\ Len(<<>>) = 0
  BY EmptySeq
<1>3. decoder \in Decoders /\ media \in MediaSources
  BY <1>1, <1>2 DEF PlayerInit, Decoders, MediaSources
<1>4. PlayerTypeOK
  BY <1>2, <1>3 DEF PlayerInit, PlayerTypeOK
<1>5. Decodable /\ Chained(decoder) /\ KeyFirst
  BY DEF PlayerInit, Decodable, Chained, KeyFirst
<1>6. /\ media.appending = <<>> /\ media.buffers = <<>> /\ media.source = "none" /\ media.needIdr
  BY DEF PlayerInit
<1>7. Ahead(media) = <<>>
  BY <1>2, <1>6, ConcatEmptySeq DEF Ahead
<1>8. InOrder(media)
  BY <1>2, <1>6, <1>7 DEF InOrder, Linked
<1> QED
  BY <1>4, <1>5, <1>8 DEF PlayerInv

\* What a source buffer plays continues what it played.
LEMMA AppendEndsKeeps ==
    ASSUME PlayerInv, AppendEnds
    PROVE  media' \in MediaSources /\ decodable' = decodable /\ errored' \in BOOLEAN /\ (~errored' => InOrder(media'))
<1>1. media \in MediaSources /\ decodable \in BOOLEAN /\ InOrder(media) /\ media.appending # <<>>
  BY PlayerFacts DEF AppendEnds
<1> DEFINE segment == Head(media.appending)
<1>2. /\ media.appending \in Seq(Segments) /\ media.buffers \in Seq(Segments)
      /\ Ahead(media) \in Seq(Segments) /\ Linked(Ahead(media)) /\ Ahead(media) # <<>>
      /\ segment = Ahead(media)[1] /\ media.buffers = Tail(Ahead(media))
  BY <1>1, MediaFacts
<1>3. /\ segment \in Segments /\ Linked(media.buffers)
      /\ media.buffers # <<>> => /\ Continues(At(segment), media.buffers[1])
                                 /\ media.buffers[Len(media.buffers)] = Ahead(media)[Len(Ahead(media))]
      /\ media.buffers = <<>> => Len(Ahead(media)) = 1
  BY <1>2, LinkedTail
<1>4. /\ errored' = (media.source = "created" /\ ~segment.init)
      /\ decodable' = (decodable /\ (errored' \/ segment.init \/ segment.time = (media.played + 1) % Stamps))
      /\ media' = (IF errored' THEN [media EXCEPT !.appending = <<>>, !.buffers = <<>>]
                   ELSE TryAppend([media EXCEPT !.appending = <<>>, !.source = "started",
                                   !.played = IF segment.init THEN -1 ELSE segment.time]))
  BY DEF AppendEnds
<1>5. /\ Linked(Ahead(media)) /\ At(Ahead(media)[Len(Ahead(media))]) = media.last
      /\ media.source = "started" => Continues(media.played, segment)
      /\ media.source # "none"
  BY <1>1, <1>2 DEF InOrder
<1>6. media.source \in {"created", "started"}
  BY <1>1, <1>5 DEF MediaSources
<1>7. <<>> \in Seq(Segments) /\ Len(<<>>) = 0 /\ At(segment) \in -1..Stamps - 1
  BY <1>3, PlayerAssumption DEF At, Segments
<1> HIDE DEF segment
<1>8. errored' \in BOOLEAN /\ decodable' = decodable
  BY <1>1, <1>4, <1>5, <1>6 DEF Continues
<1>9. CASE errored'
  <2>1. media' = [media EXCEPT !.appending = <<>>, !.buffers = <<>>]
    BY <1>4, <1>9
  <2> QED
    BY <1>1, <1>7, <1>8, <1>9, <2>1 DEF MediaSources
<1>10. CASE ~errored'
  <2> DEFINE time == At(segment)
             m == [media EXCEPT !.appending = <<>>, !.source = "started", !.played = time]
  <2>1. media' = TryAppend(m)
    BY <1>4, <1>10 DEF At
  <2> HIDE DEF time
  <2>2. /\ m \in MediaSources /\ m.appending = <<>> /\ m.buffers = media.buffers
        /\ m.source = "started" /\ m.played = time /\ m.last = media.last
    BY <1>1, <1>7 DEF MediaSources, time
  <2> HIDE DEF m
  <2>3. Ahead(m) = media.buffers
    BY <1>2, <2>2, ConcatEmptySeq DEF Ahead
  <2>4. media.buffers = <<>> => m.played = m.last
    BY <1>2, <1>3, <1>5, <2>2 DEF time
  <2>5. InOrder(m)
    BY <1>3, <1>5, <1>7, <2>2, <2>3, <2>4 DEF InOrder, time
  <2> QED
    BY <1>8, <2>1, <2>2, <2>5, TryAppendKeeps
<1> QED
  BY <1>9, <1>10

\* A decoder that is reset waits for a key frame.
LEMMA PollKeeps ==
    ASSUME NEW d \in Decoders, Chained(d)
    PROVE  Poll(d).decoder \in Decoders /\ Chained(Poll(d).decoder) /\ Poll(d).request \in BOOLEAN
<1> DEFINE reset == [d EXCEPT !.requestedIdr = TRUE, !.needsKeyFrame = TRUE, !.queue = 0, !.chained = FALSE]
           asked == [d EXCEPT !.requestedIdr = TRUE]
<1>1. /\ reset \in Decoders /\ asked \in Decoders
      /\ reset.needsKeyFrame = TRUE /\ asked.chained = d.chained
      /\ asked.hasDescription = d.hasDescription
  BY DEF Decoders
<1>2. /\ Poll(d).decoder = d \/ (InBand /\ Poll(d).decoder = reset) \/ (~InBand /\ Poll(d).decoder = asked)
      /\ Poll(d).request \in BOOLEAN
  BY DEF Poll
<1> HIDE DEF reset, asked
<1>3. /\ InBand => Chained(reset)
      /\ ~InBand => Chained(asked)
  BY <1>1 DEF Chained
<1> QED
  BY <1>1, <1>2, <1>3

LEMMA SubmitKeeps ==
    ASSUME PlayerInv, UsesVideoDecoder, NEW unit \in Units
    PROVE  Submit(unit) \in Healthy
<1> DEFINE start == [decoder |-> decoder, ok |-> decodable, waiting |-> <<>>]
           more == Append(bufferedUnits, unit)
           kept == [decoder |-> decoder, ok |-> decodable, waiting |-> more]
<1>1. /\ decoder \in Decoders /\ decodable = TRUE /\ Chained(decoder)
      /\ bufferedUnits \in Seq(Units)
  BY PlayerFacts DEF UsesVideoDecoder
<1>2. more \in Seq(Units) /\ <<>> \in Seq(Units)
  BY <1>1, AppendProperties
<1> HIDE DEF more
<1>3. start \in Healthy /\ kept \in Healthy
  BY <1>1, <1>2 DEF Healthy, States
<1>4. setup # "done" => Submit(unit) = kept
  BY DEF Submit, more
<1>5. setup = "done" => Submit(unit) = SubmitAll(more)
  BY DEF Submit, more
<1> HIDE DEF kept
<1>6. SubmitAll(more) \in Healthy
  BY <1>2, <1>3, SubmitAllKeeps
<1> QED
  BY <1>3, <1>4, <1>5, <1>6

LEMMA ReceiveForDecoderKeeps ==
    ASSUME PlayerInv, ReceiveForDecoder
    PROVE  PlayerInv'
<1>1. /\ Arrives /\ ~errored /\ UsesVideoDecoder /\ UNCHANGED <<media, errored, missed>>
      /\ LET d == Submit(Unit)
             polled == IF Decodes = "page" THEN Poll(d.decoder)
                       ELSE [decoder |-> d.decoder, request |-> FALSE] IN
         /\ decoder' = polled.decoder /\ decodable' = d.ok /\ bufferedUnits' = d.waiting
         /\ asking' = asking + (IF polled.request THEN 1 ELSE 0)
  BY DEF ReceiveForDecoder
<1>2. /\ wire \in Seq({KeyUnit, DeltaUnit}) /\ wire # <<>> /\ asking \in Nat
      /\ UNCHANGED <<browser, host, needs_idr, setup, ready>> /\ wire' = Tail(wire)
  BY <1>1, PlayerFacts DEF Arrives, sourceVars, hostVars
<1>3. Unit \in Units /\ Tail(wire) \in Seq({KeyUnit, DeltaUnit})
  BY <1>2, UnitArrives
<1> DEFINE d == Submit(Unit)
<1>4. d \in Healthy
  BY <1>1, <1>3, SubmitKeeps
<1>5. decoder' = d.decoder \/ decoder' = Poll(d.decoder).decoder
  BY <1>1
<1>6. decodable' = d.ok /\ bufferedUnits' = d.waiting
  BY <1>1
<1>7. asking' = asking \/ asking' = asking + 1
  BY <1>1, <1>2
<1> HIDE DEF d
<1>8. /\ d.decoder \in Decoders /\ Chained(d.decoder) /\ d.ok = TRUE /\ d.waiting \in Seq(Units)
  BY <1>4, HealthyFacts DEF States
<1>9. decoder' \in Decoders /\ Chained(decoder')
  BY <1>5, <1>8, PollKeeps
<1>10. asking' \in Nat
  BY <1>2, <1>7
<1>11. PlayerTypeOK'
  BY <1>1, <1>2, <1>3, <1>6, <1>8, <1>9, <1>10 DEF PlayerInv, PlayerTypeOK
<1>12. Chained(decoder)'
  BY <1>2, <1>9 DEF Chained, InBand
<1>13. (~errored => InOrder(media))'
  BY <1>1 DEF PlayerInv
<1>14. Decodable'
  BY <1>6, <1>8 DEF Decodable
<1>15. KeyFirst'
  BY <1>1, <1>2 DEF KeyFirst, UsesVideoDecoder, Decodes, Supported
<1> QED
  BY <1>11, <1>12, <1>13, <1>14, <1>15 DEF PlayerInv

\* A step that leaves the pipe and, until it has something, OpenH264's first unit alone.
LEMMA PipeKept ==
    ASSUME PlayerInv, UNCHANGED <<browser, pipeVars>>, PlayerTypeOK',
           errored \/ UNCHANGED <<host, wire>>
    PROVE  PlayerInv'
<1>1. UNCHANGED <<decoder, media, errored, decodable, missed, browser>>
  BY DEF pipeVars
<1>2. Decodes' = Decodes
  BY <1>1 DEF Decodes, Supported
<1>3. Chained(decoder)'
  BY <1>1 DEF PlayerInv, Chained, InBand
<1>4. (~errored => InOrder(media))'
  BY <1>1 DEF PlayerInv
<1>5. Decodable' /\ KeyFirst'
  BY <1>1, <1>2 DEF PlayerInv, Decodable, KeyFirst
<1> QED
  BY <1>3, <1>4, <1>5 DEF PlayerInv

\* The host's first unit is a key frame.
LEMMA SendUnitKeeps ==
    ASSUME PlayerInv, NEW isKey \in BOOLEAN, SendUnit(isKey)
    PROVE  PlayerInv'
<1> DEFINE unit == IF isKey THEN KeyUnit ELSE DeltaUnit
<1>1. /\ wire' = Append(wire, unit) /\ (isKey \/ host # "new")
      /\ host' \in {"new", "due", "fine"} /\ needs_idr' = FALSE
      /\ UNCHANGED <<browser, asking, setup, ready, pipeVars>>
  BY DEF SendUnit
<1>2. unit \in {KeyUnit, DeltaUnit} /\ (isKey => unit = KeyUnit)
  OBVIOUS
<1>3. wire \in Seq({KeyUnit, DeltaUnit})
  BY PlayerFacts
<1> HIDE DEF unit
<1>4. /\ wire' \in Seq({KeyUnit, DeltaUnit}) /\ wire' # <<>>
      /\ wire = <<>> => wire'[1] = unit
      /\ wire # <<>> => wire'[1] = wire[1]
  <2>1. /\ wire' \in Seq({KeyUnit, DeltaUnit}) /\ Len(wire') = Len(wire) + 1 /\ Len(wire) \in Nat
        /\ wire'[Len(wire) + 1] = unit /\ \A i \in 1..Len(wire) : wire'[i] = wire[i]
    BY <1>1, <1>2, <1>3, AppendProperties, LenProperties
  <2>2. (wire = <<>> => Len(wire) = 0) /\ (wire # <<>> => Len(wire) >= 1)
    BY <1>3, <2>1, EmptySeq
  <2>3. wire' # <<>>
    BY <2>1, EmptySeq
  <2> QED
    BY <2>1, <2>2, <2>3
<1>5. PlayerTypeOK'
  BY <1>1, <1>4 DEF PlayerInv, PlayerTypeOK, pipeVars
<1>6. UNCHANGED <<decoder, media, errored, decodable, missed, browser>>
  BY <1>1 DEF pipeVars
<1>7. Decodes' = Decodes
  BY <1>6 DEF Decodes, Supported
<1>8. Chained(decoder)' /\ (~errored => InOrder(media))' /\ Decodable'
  BY <1>6, <1>7 DEF PlayerInv, Chained, InBand, Decodable
<1>9. KeyFirst'
  BY <1>1, <1>2, <1>4, <1>6, <1>7 DEF PlayerInv, KeyFirst
<1> QED
  BY <1>5, <1>8, <1>9 DEF PlayerInv

\* The first unit that OpenH264 takes or drops is a key frame.
LEMMA ReceiveForOpenH264Keeps ==
    ASSUME PlayerInv, ReceiveForOpenH264
    PROVE  PlayerInv'
<1> DEFINE chained == decoder.chained \/ (ready /\ Unit.key)
<1>1. /\ UNCHANGED <<browser, host, needs_idr, setup, ready, asking, bufferedUnits, media>>
      /\ wire # <<>> /\ wire' = Tail(wire) /\ ~errored /\ errored' \in BOOLEAN
      /\ decoder' = [decoder EXCEPT !.chained = chained] /\ Decodes = "openh264"
      /\ decodable' = (decodable /\ (~ready \/ decoder'.chained))
      /\ missed' = (missed \/ (~ready /\ Unit.key))
  BY DEF ReceiveForOpenH264, Arrives, sourceVars, hostVars
<1>2. /\ wire \in Seq({KeyUnit, DeltaUnit}) /\ decoder \in Decoders /\ Chained(decoder)
      /\ decodable \in BOOLEAN /\ missed \in BOOLEAN /\ InOrder(media)
  BY <1>1, PlayerFacts
<1>3. Unit \in Units /\ wire' \in Seq({KeyUnit, DeltaUnit})
  BY <1>1, <1>2, UnitArrives
<1>4. chained \in BOOLEAN /\ (decoder.chained => chained)
  OBVIOUS
<1>5. (~decoder.chained /\ ~missed) => Unit.key
  <2>1. (~decoder.chained /\ ~missed) => wire[1] = KeyUnit
    BY <1>1 DEF PlayerInv, KeyFirst
  <2>2. Head(wire) = wire[1]
    BY <1>1, <1>2, HeadTailProperties
  <2> QED
    BY <2>1, <2>2, UnitsArrive DEF Unit
<1>6. (~chained /\ ~missed) => (~ready /\ Unit.key)
  BY <1>5
<1>7. Decodable => (decodable \/ missed)
  BY DEF Decodable
<1> HIDE DEF chained
<1>8. /\ decoder' \in Decoders /\ decoder'.needsKeyFrame = decoder.needsKeyFrame
      /\ decoder'.hasDescription = decoder.hasDescription /\ decoder'.chained = chained
  BY <1>1, <1>2, <1>4 DEF Decoders
<1>9. Chained(decoder)' /\ (~errored => InOrder(media))'
  BY <1>1, <1>2, <1>4, <1>8 DEF Chained, InBand
<1>10. PlayerTypeOK'
  BY <1>1, <1>3, <1>8 DEF PlayerInv, PlayerTypeOK
<1>11. Decodes' = "openh264"
  BY <1>1 DEF Decodes, Supported
<1>12. Decodable'
  BY <1>1, <1>6, <1>7, <1>8, <1>11 DEF PlayerInv, Decodable
<1>13. KeyFirst'
  BY <1>1, <1>6, <1>8 DEF KeyFirst
<1> QED
  BY <1>9, <1>10, <1>12, <1>13 DEF PlayerInv

LEMMA PlayerStepInv == PlayerInv /\ [PlayerNext]_playerVars => PlayerInv'
<1> SUFFICES ASSUME PlayerInv, [PlayerNext]_playerVars PROVE PlayerInv'
  OBVIOUS
<1>zero. PlayerTypeOK
  BY DEF PlayerInv
<1>types. /\ wire \in Seq({KeyUnit, DeltaUnit}) /\ bufferedUnits \in Seq(Units) /\ asking \in Nat
      /\ decoder \in Decoders /\ media \in MediaSources
      /\ decodable \in BOOLEAN /\ missed \in BOOLEAN /\ Chained(decoder) /\ (~errored => InOrder(media))
  BY PlayerFacts
<1>1. ASSUME NEW isKey \in BOOLEAN, SendUnit(isKey)
      PROVE  PlayerInv'
  BY <1>1, SendUnitKeeps
<1>2. CASE RequestArrives
  <2>1. /\ asking' \in Nat /\ needs_idr' = TRUE
        /\ UNCHANGED <<browser, host, wire, setup, ready, pipeVars>>
    BY <1>types, <1>2 DEF RequestArrives, hostVars
  <2>2. PlayerTypeOK'
    BY <1>zero, <2>1 DEF PlayerTypeOK, pipeVars
  <2> QED
    BY <2>1, <2>2, PipeKept
<1>3. CASE SetupBegins \/ BecomesReady \/ SetupEnds
  <2>1. /\ setup' \in {"before", "running", "done"} /\ ready' \in BOOLEAN
        /\ UNCHANGED <<browser, host, needs_idr, wire, asking, pipeVars>>
    BY <1>zero, <1>3 DEF SetupBegins, BecomesReady, SetupEnds, sourceVars, hostVars, PlayerTypeOK
  <2>2. PlayerTypeOK'
    BY <1>zero, <2>1 DEF PlayerTypeOK, pipeVars
  <2> QED
    BY <2>1, <2>2, PipeKept
<1>4. CASE ReceiveForDecoder
  BY <1>4, ReceiveForDecoderKeeps
<1>5. CASE ReceiveForOpenH264
  BY <1>5, ReceiveForOpenH264Keeps
<1>6. CASE ReceiveForMedia
  <2>1. /\ UNCHANGED <<browser, host, needs_idr, setup, ready, bufferedUnits, decoder, errored, decodable, missed>>
        /\ wire # <<>> /\ wire' = Tail(wire) /\ ~errored
        /\ media' = PollMedia(SubmitToMedia(media, Unit)).media
        /\ (asking' = asking \/ asking' = asking + 1) /\ Decodes = "media"
    BY <1>types, <1>6 DEF ReceiveForMedia, Arrives, sourceVars, hostVars
  <2>2. wire' \in Seq({KeyUnit, DeltaUnit}) /\ asking' \in Nat
    BY <1>types, <2>1, UnitArrives
  <2>3. SubmitToMedia(media, Unit) \in MediaSources /\ InOrder(SubmitToMedia(media, Unit))
    BY <1>types, <2>1, SubmitToMediaKeeps
  <2>4. media' \in MediaSources /\ InOrder(media')
    BY <2>1, <2>3, PollMediaKeeps
  <2>5. PlayerTypeOK'
    BY <1>zero, <2>1, <2>2, <2>4 DEF PlayerTypeOK
  <2>6. Chained(decoder)'
    BY <1>types, <2>1 DEF Chained, InBand
  <2>7. Decodes' = Decodes
    BY <2>1 DEF Decodes, Supported
  <2>8. Decodable' /\ KeyFirst'
    BY <2>1, <2>7 DEF PlayerInv, Decodable, KeyFirst
  <2> QED
    BY <1>types, <2>1, <2>4, <2>5, <2>6, <2>8 DEF PlayerInv
<1>7. CASE ReceiveInVain
  <2>1. /\ UNCHANGED <<browser, host, needs_idr, setup, ready, asking, pipeVars>>
        /\ wire # <<>> /\ wire' = Tail(wire) /\ errored
    BY <1>7 DEF ReceiveInVain, Arrives, sourceVars, hostVars
  <2>2. wire' \in Seq({KeyUnit, DeltaUnit})
    BY <1>types, <2>1, UnitArrives
  <2>3. PlayerTypeOK'
    BY <1>zero, <2>1, <2>2 DEF PlayerTypeOK, pipeVars
  <2> QED
    BY <2>1, <2>3, PipeKept
<1>8. CASE DecoderOutputs \/ DecoderFails
  <2>1. /\ UNCHANGED <<browser, host, needs_idr, wire, asking, setup, ready, bufferedUnits, media, decodable, missed>>
        /\ decoder.queue > 0 /\ (errored' = errored \/ errored' = TRUE)
        /\ decoder' = [decoder EXCEPT !.queue = @ - 1] \/ decoder' = [decoder EXCEPT !.queue = 0]
    BY <1>8 DEF DecoderOutputs, DecoderFails, sourceVars, hostVars
  <2>2. decoder.queue - 1 \in Nat
    BY <1>types, <2>1 DEF Decoders
  <2>3. /\ decoder' \in Decoders /\ decoder'.needsKeyFrame = decoder.needsKeyFrame
        /\ decoder'.hasDescription = decoder.hasDescription /\ decoder'.chained = decoder.chained
    BY <1>types, <2>1, <2>2 DEF Decoders
  <2>4. Chained(decoder)'
    BY <1>types, <2>1, <2>3 DEF Chained, InBand
  <2>5. PlayerTypeOK'
    BY <1>zero, <2>1, <2>3 DEF PlayerTypeOK
  <2>6. (~errored => InOrder(media))'
    BY <1>types, <2>1
  <2>7. Decodes' = Decodes
    BY <2>1 DEF Decodes, Supported
  <2>8. Decodable' /\ KeyFirst'
    BY <2>1, <2>3, <2>7 DEF PlayerInv, Decodable, KeyFirst
  <2> QED
    BY <2>4, <2>5, <2>6, <2>8 DEF PlayerInv
<1>9. CASE AppendEnds
  <2>1. /\ UNCHANGED <<browser, host, needs_idr, wire, asking, setup, ready, bufferedUnits, decoder, missed>>
        /\ ~errored
    BY <1>9 DEF AppendEnds, sourceVars, hostVars
  <2>2. /\ media' \in MediaSources /\ decodable' = decodable /\ errored' \in BOOLEAN
        /\ (~errored' => InOrder(media'))
    BY <1>9, AppendEndsKeeps
  <2>3. PlayerTypeOK'
    BY <1>zero, <2>1, <2>2 DEF PlayerTypeOK
  <2>4. Chained(decoder)'
    BY <1>types, <2>1 DEF Chained, InBand
  <2>5. Decodes' = Decodes
    BY <2>1 DEF Decodes, Supported
  <2>6. Decodable' /\ KeyFirst'
    BY <2>1, <2>2, <2>5 DEF PlayerInv, Decodable, KeyFirst
  <2> QED
    BY <2>2, <2>3, <2>4, <2>6 DEF PlayerInv
<1>10. CASE UNCHANGED playerVars
  <2>1. UNCHANGED <<browser, host, needs_idr, wire, asking, setup, ready, pipeVars>>
    BY <1>10 DEF playerVars, sourceVars, hostVars
  <2>2. PlayerTypeOK'
    BY <1>zero, <2>1 DEF PlayerTypeOK, pipeVars
  <2> QED
    BY <2>1, <2>2, PipeKept
<1> QED
  BY <1>1, <1>2, <1>3, <1>4, <1>5, <1>6, <1>7, <1>8, <1>9, <1>10 DEF PlayerNext

\* For any browsers, backlogs and limits: the units, the decoder and the media source have
\* their types (buildVideoPipeline, submitDecodeUnit, pollRequestIdr).
THEOREM PlayerTyped == PlayerSpec => []PlayerTypeOK
<1>1. PlayerInv => PlayerTypeOK
  BY DEF PlayerInv
<1> QED
  BY <1>1, PlayerInitInv, PlayerStepInv, PTL DEF PlayerSpec

\* For any browsers, backlogs and limits: no decoder is given a unit without the one it
\* refers to, whatever is received before the set-up or lost in a reset, and a media source
\* plays its frames in the order of their times (submitDecodeUnit, onUpdateEnd); OpenH264
\* only if no key frame came before its module was loaded.
THEOREM DecodableAlways == PlayerSpec => []Decodable
<1>1. PlayerInv => Decodable
  BY DEF PlayerInv
<1> QED
  BY <1>1, PlayerInitInv, PlayerStepInv, PTL DEF PlayerSpec
=============================================================================
