--------------------------- MODULE WebServerProofs ---------------------------
(* Theorems about the web server. Of StreamBridge, for every length of its  *)
(* queues and any number of messages: types, that the handler and the relay *)
(* keep what StreamLifecycle promises of each step, and that the process    *)
(* they live with is one that StreamerProcess describes. Of Server, for any *)
(* users, hosts and requests: types, that every change of the data is       *)
(* written or about to be, and that the session of a deleted user changes   *)
(* nothing but hosts of his own.                                            *)
EXTENDS StreamBridge, Server, TLAPS, SequenceTheorems

-----------------------------------------------------------------------------
(* Types.                                                                  *)

ToChildOK == toChild \in Seq({"Init", "Message", "Stop"}) /\ Len(toChild) <= Room
FromChildOK == fromChild \in Seq({"ws", "Stop"}) /\ Len(fromChild) <= Room

LEMMA SendToChildType ==
    ASSUME TypeOK, NEW m \in {"Init", "Message", "Stop"}, SendToChild(m)
    PROVE  ToChildOK'
<1>1. CASE Len(toChild) < Room /\ toChild' = Append(toChild, m)
  <2>1. /\ Append(toChild, m) \in Seq({"Init", "Message", "Stop"})
        /\ Len(Append(toChild, m)) = Len(toChild) + 1 /\ Len(toChild) \in Nat
    BY AppendProperties DEF TypeOK
  <2> QED
    BY <1>1, <2>1, BridgeAssumption DEF ToChildOK
<1>2. CASE UNCHANGED toChild
  BY <1>2 DEF TypeOK, ToChildOK
<1> QED
  BY <1>1, <1>2 DEF SendToChild

LEMMA SendToServerType ==
    ASSUME TypeOK, NEW m \in {"ws", "Stop"}, SendToServer(m)
    PROVE  FromChildOK'
<1>1. /\ Append(fromChild, m) \in Seq({"ws", "Stop"})
      /\ Len(Append(fromChild, m)) = Len(fromChild) + 1 /\ Len(fromChild) \in Nat
  BY AppendProperties DEF TypeOK
<1> QED
  BY <1>1, BridgeAssumption DEF SendToServer, FromChildOK

LEMMA TailTypes ==
    ASSUME TypeOK
    PROVE  /\ toChild # <<>> /\ toChild' = Tail(toChild) => ToChildOK'
           /\ fromChild # <<>> =>
                 /\ Head(fromChild) \in {"ws", "Stop"}
                 /\ fromChild' = Tail(fromChild) => FromChildOK'
<1>1. ASSUME toChild # <<>>, toChild' = Tail(toChild) PROVE ToChildOK'
  <2>1. /\ Tail(toChild) \in Seq({"Init", "Message", "Stop"})
        /\ Len(Tail(toChild)) = Len(toChild) - 1 /\ Len(toChild) \in Nat
    BY <1>1, HeadTailProperties DEF TypeOK
  <2> QED
    BY <1>1, <2>1, BridgeAssumption DEF TypeOK, ToChildOK
<1>2. ASSUME fromChild # <<>>
      PROVE  /\ Head(fromChild) \in {"ws", "Stop"}
             /\ fromChild' = Tail(fromChild) => FromChildOK'
  <2>1. /\ Tail(fromChild) \in Seq({"ws", "Stop"})
        /\ Head(fromChild) \in {"ws", "Stop"}
        /\ Len(Tail(fromChild)) = Len(fromChild) - 1 /\ Len(fromChild) \in Nat
    BY <1>2, HeadTailProperties DEF TypeOK
  <2> QED
    BY <2>1, BridgeAssumption DEF TypeOK, FromChildOK
<1> QED
  BY <1>1, <1>2

LEMMA InitTypeOK == Init => TypeOK
<1>1. <<>> \in Seq({"Init", "Message", "Stop"}) /\ <<>> \in Seq({"ws", "Stop"})
      /\ Len(<<>>) = 0
  OBVIOUS
<1>2. 0 <= Room /\ 0 \in 0..MaxMessages
  BY BridgeAssumption
<1>3. ASSUME Init PROVE {ws, warned, busy, told, streaming, deaf} \subseteq BOOLEAN
  BY <1>3 DEF Init
<1> QED
  BY <1>1, <1>2, <1>3 DEF Init, TypeOK

\* The Booleans apart, which the provers treat on their own.
Flags == {ws, warned, busy, told, streaming, deaf} \subseteq BOOLEAN
Places ==
    /\ sent \in 0..MaxMessages
    /\ handler \in {"init", "lookup", "sendInit", "relay", "send", "done"}
    /\ relay \in {"none", "recv", "stop", "sleep", "kill", "done"}
    /\ child \in {"none", "starting", "waiting", "setup", "serving",
                  "stopping", "told", "silent", "gone"}

LEMMA TypeParts == TypeOK <=> Flags /\ Places /\ ToChildOK /\ FromChildOK
  BY DEF TypeOK, Flags, Places, ToChildOK, FromChildOK

LEMMA HandlerTypes ==
    ASSUME TypeOK, Handler \/ BrowserLeaves \/ BrowserMessage
    PROVE  TypeOK'
<1> USE DEF handlerVars, relayVars, childVars
<1>1. Flags'
  BY DEF Handler, FirstMessage, LookupFails, SpawnStreamer, SendInit, SendMessage,
     SocketEnds, BrowserLeaves, BrowserMessage, TypeOK, Flags
<1>2. Places'
  BY BridgeAssumption DEF Handler, FirstMessage, LookupFails, SpawnStreamer,
     SendInit, SendMessage, SocketEnds, BrowserLeaves, BrowserMessage, TypeOK, Places
<1>3. ToChildOK'
  <2>1. SendToChild("Init") \/ SendToChild("Message") \/ UNCHANGED toChild
    BY DEF Handler, FirstMessage, LookupFails, SpawnStreamer, SendInit, SendMessage,
       SocketEnds, BrowserLeaves, BrowserMessage
  <2> QED
    BY <2>1, SendToChildType DEF TypeOK, ToChildOK
<1>4. FromChildOK'
  BY DEF Handler, FirstMessage, LookupFails, SpawnStreamer, SendInit, SendMessage,
     SocketEnds, BrowserLeaves, BrowserMessage, TypeOK, FromChildOK
<1>5. TypeOK' <=> (Flags /\ Places /\ ToChildOK /\ FromChildOK)'
  BY DEF TypeOK, Flags, Places, ToChildOK, FromChildOK
<1> QED
  BY <1>1, <1>2, <1>3, <1>4, <1>5

LEMMA RelayTypes ==
    ASSUME TypeOK, Relay
    PROVE  TypeOK'
<1> USE DEF handlerVars, relayVars, childVars
<1>1. Flags'
  BY DEF Relay, RelayMessage, RelayStop, RelayEof, RelayCloses, RelayKills, TypeOK,
     Flags
<1>2. Places'
  <2>1. CASE RelayMessage
    BY <2>1, TailTypes DEF RelayMessage, TypeOK, Places
  <2> QED
    BY <2>1 DEF Relay, RelayStop, RelayEof, RelayCloses, RelayKills, TypeOK, Places
<1>3. ToChildOK'
  <2>1. SendToChild("Stop") \/ UNCHANGED toChild
    BY DEF Relay, RelayMessage, RelayStop, RelayEof, RelayCloses, RelayKills
  <2> QED
    BY <2>1, SendToChildType DEF TypeOK, ToChildOK
<1>4. FromChildOK'
  <2>1. (fromChild # <<>> /\ fromChild' = Tail(fromChild)) \/ UNCHANGED fromChild
    BY DEF Relay, RelayMessage, RelayStop, RelayEof, RelayCloses, RelayKills
  <2> QED
    BY <2>1, TailTypes DEF TypeOK, FromChildOK
<1>5. TypeOK' <=> (Flags /\ Places /\ ToChildOK /\ FromChildOK)'
  BY DEF TypeOK, Flags, Places, ToChildOK, FromChildOK
<1> QED
  BY <1>1, <1>2, <1>3, <1>4, <1>5

LEMMA ChildTypes ==
    ASSUME TypeOK, Child \/ ChildTalks \/ ChildTells \/ ChildDies
    PROVE  TypeOK'
<1> USE DEF handlerVars, relayVars, childVars
<1>1. Flags'
  BY DEF Child, ChildStarts, ChildAwaitsInit, ChildSetup, ChildReads, ChildReplies,
     ChildTalks, ChildTells, ChildDies, TypeOK, Flags
<1>2. Places'
  BY DEF Child, ChildStarts, ChildAwaitsInit, ChildSetup, ChildReads, ChildReplies,
     ChildTalks, ChildTells, ChildDies, TypeOK, Places
<1>3. ToChildOK'
  <2>1. (toChild # <<>> /\ toChild' = Tail(toChild)) \/ UNCHANGED toChild
    BY DEF Child, ChildStarts, ChildAwaitsInit, ChildSetup, ChildReads,
       ChildReplies, ChildTalks, ChildTells, ChildDies
  <2> QED
    BY <2>1, TailTypes DEF TypeOK, ToChildOK
<1>4. FromChildOK'
  <2>1. SendToServer("ws") \/ SendToServer("Stop") \/ UNCHANGED fromChild
    BY DEF Child, ChildStarts, ChildAwaitsInit, ChildSetup, ChildReads,
       ChildReplies, ChildTalks, ChildTells, ChildDies
  <2> QED
    BY <2>1, SendToServerType DEF TypeOK, FromChildOK
<1>5. TypeOK' <=> (Flags /\ Places /\ ToChildOK /\ FromChildOK)'
  BY DEF TypeOK, Flags, Places, ToChildOK, FromChildOK
<1> QED
  BY <1>1, <1>2, <1>3, <1>4, <1>5

LEMMA NextTypeOK == TypeOK /\ [Next]_vars => TypeOK'
<1>1. ASSUME TypeOK, UNCHANGED vars PROVE TypeOK'
  BY <1>1 DEF vars, handlerVars, relayVars, childVars, TypeOK
<1> QED
  BY <1>1, HandlerTypes, RelayTypes, ChildTypes DEF Next

(* TypeOK holds in every reachable state: neither direction of the IPC ever *)
(* holds more than Room messages.                                          *)
THEOREM TypeCorrect == Spec => []TypeOK
<1> QED
  BY InitTypeOK, NextTypeOK, PTL DEF Spec

-----------------------------------------------------------------------------
(* The inductive invariant of both refinements: the relay and the process  *)
(* begin together, when the handler has found the host; the process says   *)
(* its last word once; the socket is closed before the process is killed.  *)
BridgeInv ==
    /\ handler \in {"init", "lookup"} => relay = "none"
    /\ handler \in {"sendInit", "relay", "send"} => relay # "none"
    /\ relay = "none" <=> child = "none"
    /\ child \in {"told", "silent"} => told
    /\ told => child \in {"told", "silent", "gone"}
    /\ relay = "kill" => ws = FALSE
BInv == TypeOK /\ BridgeInv

LEMMA NextBInv == BInv /\ [Next]_vars => BInv'
<1> SUFFICES ASSUME BInv, [Next]_vars PROVE BInv'
  OBVIOUS
<1> USE DEF handlerVars, relayVars, childVars
<1>1. TypeOK /\ TypeOK'
  BY NextTypeOK DEF BInv
<1>2. CASE Handler \/ BrowserLeaves \/ BrowserMessage
  BY <1>1, <1>2 DEF Handler, FirstMessage, LookupFails, SpawnStreamer, SendInit,
     SendMessage, SocketEnds, BrowserLeaves, BrowserMessage, BInv, BridgeInv, TypeOK
<1>3. CASE Relay
  <2>1. CASE RelayMessage
    BY <1>1, <2>1, TailTypes DEF RelayMessage, BInv, BridgeInv
  <2>2. CASE RelayStop \/ RelayEof \/ RelayCloses
    BY <1>1, <2>2 DEF RelayStop, RelayEof, RelayCloses, BInv, BridgeInv
  <2>3. CASE RelayKills
    BY <1>1, <2>3 DEF RelayKills, BInv, BridgeInv
  <2> QED
    BY <1>3, <2>1, <2>2, <2>3 DEF Relay
<1>4. CASE Child \/ ChildTalks \/ ChildTells \/ ChildDies
  BY <1>1, <1>4 DEF Child, ChildStarts, ChildAwaitsInit, ChildSetup, ChildReads,
     ChildReplies, ChildTalks, ChildTells, ChildDies, Alive, BInv, BridgeInv
<1>5. CASE UNCHANGED vars
  BY <1>1, <1>5 DEF vars, BInv, BridgeInv
<1> QED
  BY <1>2, <1>3, <1>4, <1>5 DEF Next

LEMMA InitBInv == Init => BInv
  BY InitTypeOK DEF Init, BInv, BridgeInv

-----------------------------------------------------------------------------
(* The promise to the outside.                                             *)

LEMMA NextLifecycle ==
    ASSUME BInv, [Next]_vars
    PROVE  [Lifecycle!Next]_<<phase, Alive, ws>>
<1> USE DEF handlerVars, relayVars, childVars
<1>1. TypeOK /\ BridgeInv /\ Alive \in BOOLEAN
  BY DEF BInv, Alive
<1>2. CASE BrowserLeaves
  BY <1>1, <1>2 DEF BrowserLeaves, phase, Alive, TypeOK, Lifecycle!Next,
     Lifecycle!Leave
<1>3. CASE FirstMessage \/ LookupFails
  BY <1>1, <1>3 DEF FirstMessage, LookupFails, phase, Alive, BridgeInv,
     Lifecycle!Next, Lifecycle!Refuse
<1>4. CASE SpawnStreamer
  BY <1>1, <1>4 DEF SpawnStreamer, phase, Alive, BridgeInv, Lifecycle!Next,
     Lifecycle!Launch
<1>5. CASE SendInit \/ SendMessage \/ SocketEnds \/ BrowserMessage
  <2>1. relay # "none" /\ UNCHANGED <<relay, child, ws>>
    BY <1>1, <1>5 DEF SendInit, SendMessage, SocketEnds, BrowserMessage, BridgeInv
  <2>2. relay \in {"recv", "stop", "sleep", "kill", "done"}
    BY <1>1, <2>1 DEF TypeOK
  <2>3. phase' = phase /\ Alive' = Alive
    BY <2>1, <2>2 DEF phase, Alive
  <2> QED
    BY <2>1, <2>3
<1>6. CASE RelayMessage
  BY <1>1, <1>6, TailTypes DEF RelayMessage, phase, Alive, Lifecycle!Next,
     Lifecycle!End
<1>7. CASE RelayStop
  BY <1>7 DEF RelayStop, phase, Alive
<1>8. CASE RelayEof
  BY <1>8 DEF RelayEof, phase, Alive, Lifecycle!Next, Lifecycle!End
<1>9. CASE RelayCloses
  <2>1. phase' = phase /\ Alive' = Alive /\ ws' = FALSE
    BY <1>9 DEF RelayCloses, phase, Alive
  <2>2. ws = TRUE \/ ws = FALSE
    BY <1>1 DEF TypeOK
  <2> QED
    BY <2>1, <2>2 DEF Lifecycle!Next, Lifecycle!Leave
<1>10. CASE RelayKills
  <2>0. relay = "kill" /\ relay' = "done" /\ handler' = handler /\ ws' = ws
    BY <1>10 DEF RelayKills, handlerVars
  <2>1. phase = "ending" /\ phase' = "over" /\ ws = FALSE /\ ws' = ws
    <3>1. phase = "ending"
      BY <2>0 DEF phase
    <3>2. phase' = "over"
      BY <2>0 DEF phase
    <3>3. ws = FALSE
      BY <1>1, <2>0 DEF BridgeInv
    <3> QED
      BY <2>0, <3>1, <3>2, <3>3
  <2>2. child' = "gone"
    BY <1>10 DEF RelayKills
  <2>3. ~Alive'
    BY <2>2 DEF Alive
  <2>4. Alive' = FALSE
    BY <2>3 DEF Alive
  <2> QED
    BY <2>1, <2>4 DEF Lifecycle!Next, Lifecycle!Finish
<1>11. CASE Child \/ ChildTalks \/ ChildTells
  BY <1>11 DEF Child, ChildStarts, ChildAwaitsInit, ChildSetup, ChildReads,
     ChildReplies, ChildTalks, ChildTells, phase, Alive
<1>12. CASE ChildDies
  BY <1>12 DEF ChildDies, phase, Alive, Lifecycle!Next, Lifecycle!Die
<1>13. CASE UNCHANGED vars
  BY <1>13 DEF vars, phase, Alive
<1> QED
  BY <1>2, <1>3, <1>4, <1>5, <1>6, <1>7, <1>8, <1>9, <1>10, <1>11, <1>12, <1>13
     DEF Next, Handler, Relay

(* Every step of the handler, the relay and the process is a step of the   *)
(* abstract session of StreamLifecycle or none: no session is served twice, *)
(* none is over while its process or its socket is left (start_host).      *)
THEOREM LifecycleKept == Spec => Lifecycle!Init /\ [][Lifecycle!Next]_<<phase, Alive, ws>>
<1>1. Init => BInv /\ Lifecycle!Init
  BY InitBInv DEF Init, Lifecycle!Init, phase, Alive
<1>2. BInv /\ [Next]_vars => BInv'
  BY NextBInv
<1>3. BInv /\ [Next]_vars => [Lifecycle!Next]_<<phase, Alive, ws>>
  BY NextLifecycle
<1> QED
  BY <1>1, <1>2, <1>3, PTL DEF Spec

-----------------------------------------------------------------------------
(* The promise of the process.                                             *)

LEMMA NextProcess ==
    ASSUME BInv, [Next]_vars
    PROVE  [\/ Process!Spawn \/ Process!Tell
            \/ Process!Exit \/ Process!Crash]_childState
<1> USE DEF handlerVars, relayVars, childVars
<1>1. TypeOK /\ BridgeInv
  BY DEF BInv
<1>2. CASE SpawnStreamer
  BY <1>1, <1>2 DEF SpawnStreamer, BridgeInv, childState, Process!Spawn
<1>3. CASE ChildTells
  BY <1>1, <1>3 DEF ChildTells, BridgeInv, childState, Process!Tell
<1>4. CASE ChildDies \/ RelayKills
  BY <1>1, <1>4 DEF ChildDies, RelayKills, Alive, BridgeInv, childState,
     Process!Crash
<1>5. CASE Child \/ ChildTalks
  BY <1>1, <1>5 DEF Child, ChildStarts, ChildAwaitsInit, ChildSetup, ChildReads,
     ChildReplies, ChildTalks, BridgeInv, childState
<1>6. CASE \/ BrowserLeaves \/ BrowserMessage \/ FirstMessage \/ LookupFails
           \/ SendInit \/ SendMessage \/ SocketEnds
           \/ RelayMessage \/ RelayStop \/ RelayEof \/ RelayCloses
  BY <1>6 DEF BrowserLeaves, BrowserMessage, FirstMessage, LookupFails, SendInit,
     SendMessage, SocketEnds, RelayMessage, RelayStop, RelayEof, RelayCloses,
     childState
<1>7. CASE UNCHANGED vars
  BY <1>7 DEF vars, childState
<1> QED
  BY <1>2, <1>3, <1>4, <1>5, <1>6, <1>7 DEF Next, Handler, Relay

(* The process the bridge lives with is one of StreamerProcess, crashes    *)
(* included, which StreamConnection implements without them: what the      *)
(* server assumes is what the streamer keeps.                              *)
THEOREM ProcessAssumed == Spec => Process!Spec
<1>1. Init => BInv /\ Process!Init
  BY InitBInv DEF Init, Process!Init, childState
<1>2. BInv /\ [Next]_vars => BInv'
  BY NextBInv
<1>3. BInv /\ [Next]_vars
          => [\/ Process!Spawn \/ Process!Tell
              \/ Process!Exit \/ Process!Crash]_childState
  BY NextProcess
<1> QED
  BY <1>1, <1>2, <1>3, PTL DEF Spec, Process!Spec

-----------------------------------------------------------------------------
(* Users, hosts and sessions: Server.                                      *)

AccountOps == {"login", "header", "addUser", "deleteUser", "patchUser", "setPassword"}

\* What a request holds where it is.
RequestOK(R) ==
  /\ R.op = "none" => R.at = "idle"
  /\ R.at \in {"look", "insert"} /\ R.op \in AccountOps => R.read \in Users
  /\ R.at \in {"change", "dirty"} /\ R.op \in AccountOps => R.target \in UserIds
  /\ R.at = "dirty" => R.op \in AccountOps
  /\ R.op \in HostOps => R.at \in {"look", "change"} /\ R.target \in HostIds /\ R.user \in UserIds
  /\ R.op = "postHost" => R.at = "insert" /\ R.read \in Hosts
  /\ R.at \in {"listed", "assign", "session"} => R.op = "login" /\ R.user \in UserIds
RequestsOK == \A r \in Requests : RequestOK(req[r])

\* The requests that come from a session of a deleted user ask for hosts, and only to
\* remove one do they get past the checks.
IsGone(R) == R.user # Absent /\ R.role = "Gone"
GoneOK(R) == IsGone(R) => /\ R.user \in UserIds /\ R.op \in HostOps
                          /\ R.at = "change" => R.op = "deleteHost"
GoneInv == \A r \in Requests : GoneOK(req[r]) /\ (IsGone(req[r]) => data[req[r].user] = Absent)

\* A server that is down has no requests.
DownInv == ~up => writer.at = "idle" /\ \A r \in Requests : req[r] = Idle

\* While the writer is at work every entry is due, even if the file holds it already: the
\* file is about to be emptied.
OnDisk(k) == disk.good /\ disk.data[k] = data[k]
WriteInv ==
  up => \A k \in Keys : WriteDue(k) \/ (writer.at = "idle" /\ (failed \/ OnDisk(k)))

-----------------------------------------------------------------------------
(* Entries.                                                                *)

LEMMA TableTypes ==
    ASSUME NEW d \in Tables
    PROVE  /\ d \in [Keys -> Users \cup Hosts \cup {Absent}]
           /\ \A u \in UserIds : u \in Keys /\ d[u] \in Users \cup {Absent}
           /\ \A h \in HostIds : h \in Keys /\ d[h] \in Hosts \cup {Absent}
  BY DEF Tables, Keys

LEMMA PutUserType ==
    ASSUME NEW d \in Tables, NEW u \in UserIds, NEW e \in Users \cup {Absent}
    PROVE  [d EXCEPT ![u] = e] \in Tables
<1>1. [d EXCEPT ![u] = e] \in [Keys -> Users \cup Hosts \cup {Absent}]
  BY TableTypes
<1>2. \A v \in UserIds : [d EXCEPT ![u] = e][v] \in Users \cup {Absent}
  BY TableTypes
<1>3. \A h \in HostIds : [d EXCEPT ![u] = e][h] \in Hosts \cup {Absent}
  BY TableTypes, IdsAreDistinct
<1> QED
  BY <1>1, <1>2, <1>3 DEF Tables

LEMMA PutHostType ==
    ASSUME NEW d \in Tables, NEW h \in HostIds, NEW e \in Hosts \cup {Absent}
    PROVE  [d EXCEPT ![h] = e] \in Tables
<1>1. [d EXCEPT ![h] = e] \in [Keys -> Users \cup Hosts \cup {Absent}]
  BY TableTypes
<1>2. \A v \in HostIds : [d EXCEPT ![h] = e][v] \in Hosts \cup {Absent}
  BY TableTypes
<1>3. \A u \in UserIds : [d EXCEPT ![h] = e][u] \in Users \cup {Absent}
  BY TableTypes, IdsAreDistinct
<1> QED
  BY <1>1, <1>2, <1>3 DEF Tables

LEMMA NothingType == NoEntries \in Tables
<1>1. \A k \in Keys : NoEntries[k] = Absent
  BY DEF NoEntries
<1>2. NoEntries \in [Keys -> Users \cup Hosts \cup {Absent}]
  BY DEF NoEntries
<1>3. \A k \in UserIds \cup HostIds : k \in Keys
  BY DEF Keys
<1> QED
  BY <1>1, <1>2, <1>3 DEF Tables

-----------------------------------------------------------------------------
(* Requests.                                                               *)

LEMMA IdleType == Idle \in RequestType /\ RequestOK(Idle) /\ GoneOK(Idle) /\ ~IsGone(Idle)
<1>1. Idle \in RequestType
  BY DEF Idle, RequestType, Ops
<1>2. RequestOK(Idle) /\ ~IsGone(Idle)
  BY DEF Idle, RequestOK, IsGone, HostOps, AccountOps
<1> QED
  BY <1>1, <1>2 DEF GoneOK

\* A request that only changes its place.
LEMMA GotoType ==
    ASSUME NEW R \in RequestType,
           NEW place \in {"idle", "look", "insert", "change", "dirty", "listed", "assign", "session"}
    PROVE  LET new == [R EXCEPT !.at = place] IN
           /\ new \in RequestType /\ new.at = place
           /\ new.op = R.op /\ new.user = R.user /\ new.role = R.role /\ new.target = R.target
           /\ new.read = R.read /\ new.hosts = R.hosts
  BY DEF RequestType

LEMMA RoleType ==
    ASSUME data \in Tables, NEW u \in UserIds
    PROVE  /\ Role(u) \in {"Gone", "User", "Admin"}
           /\ Role(u) = "Gone" <=> data[u] = Absent
<1>1. data[u] \in Users \cup {Absent}
  BY TableTypes
<1>2. CASE data[u] = Absent
  BY <1>2 DEF Role
<1>3. CASE data[u] # Absent
  <2>1. data[u] \in Users
    BY <1>1, <1>3
  <2>2. data[u].role \in {"User", "Admin"}
    BY <2>1 DEF Users
  <2> QED
    BY <2>2, <1>3 DEF Role
<1> QED
  BY <1>2, <1>3

\* A request as it arrives from a caller.
LEMMA ByType ==
    ASSUME data \in Tables, NEW u \in UserIds \cup {Absent}, NEW op \in Ops,
           NEW at \in {"look", "insert", "change", "session"},
           NEW target \in Keys \cup Names \cup {Absent}, NEW read \in Users \cup Hosts \cup {Absent}
    PROVE  LET new == By(u, op, at, target, read) IN
           /\ new \in RequestType /\ new.op = op /\ new.at = at /\ new.user = u
           /\ u # Absent => new.role = Role(u)
           /\ new.target = target /\ new.read = read
<1>1. (IF u = Absent THEN "Gone" ELSE Role(u)) \in {"Gone", "User", "Admin"}
  BY RoleType
<1> QED
  BY <1>1 DEF RequestType, By

\* A slot takes a request, or moves on with it.
LEMMA StepType ==
    ASSUME req \in [Requests -> RequestType], RequestsOK, NEW r \in Requests,
           NEW new \in RequestType, RequestOK(new), req' = [req EXCEPT ![r] = new]
    PROVE  req' \in [Requests -> RequestType] /\ RequestsOK'
<1>1. \A q \in Requests : req'[q] = IF q = r THEN new ELSE req[q]
  OBVIOUS
<1> QED
  BY <1>1 DEF RequestsOK


\* What a handler leaves of its request.
Moved(r, new) ==
  /\ new \in RequestType /\ RequestOK(new) /\ GoneOK(new)
  /\ req' = [req EXCEPT ![r] = new]
  /\ IsGone(new) => new.user = req[r].user /\ IsGone(req[r])

LEMMA EndMoves ==
    ASSUME NEW r \in Requests, Ends(r)
    PROVE  Moved(r, Idle)
  BY IdleType DEF Ends, Moved

\* A request goes on to a place it fits.
LEMMA GotoMoves ==
    ASSUME req \in [Requests -> RequestType], NEW r \in Requests,
           NEW place \in {"idle", "look", "insert", "change", "dirty", "listed", "assign", "session"},
           Goto(r, place), RequestOK([req[r] EXCEPT !.at = place]),
           GoneOK([req[r] EXCEPT !.at = place])
    PROVE  Moved(r, [req[r] EXCEPT !.at = place])
<1> DEFINE new == [req[r] EXCEPT !.at = place]
<1>1. req[r] \in RequestType
  OBVIOUS
<1>2. new \in RequestType /\ new.user = req[r].user /\ new.role = req[r].role
  BY <1>1, GotoType
<1>3. req' = [req EXCEPT ![r] = new]
  BY DEF Goto
<1> QED
  BY <1>2, <1>3 DEF Moved, IsGone

LEMMA HandleMoves ==
    ASSUME data \in Tables, req \in [Requests -> RequestType], RequestsOK, GoneInv,
           NEW r \in Requests, Handle(r)
    PROVE  \E new : Moved(r, new)
<1> DEFINE R == req[r]
           At(place) == [R EXCEPT !.at = place]
<1>1. R \in RequestType /\ RequestOK(R) /\ GoneOK(R) /\ (IsGone(R) => data[R.user] = Absent)
  BY DEF RequestsOK, GoneInv
<1>2. \A place \in {"idle", "look", "insert", "change", "dirty", "listed", "assign", "session"} :
         /\ At(place).at = place /\ At(place).op = R.op /\ At(place).user = R.user
         /\ At(place).role = R.role /\ At(place).target = R.target
         /\ At(place).read = R.read /\ At(place).hosts = R.hosts
         /\ At(place) \in RequestType
  BY <1>1 DEF RequestType
<1>3. R.op \in Ops /\ AccountOps \cap HostOps = {} /\ "postHost" \notin AccountOps \cup HostOps
      /\ "none" \notin AccountOps \cup HostOps /\ Ops = AccountOps \cup HostOps \cup {"none", "postHost"}
  BY <1>1 DEF RequestType, Ops, AdminOps, HostOps, AccountOps
<1>4. CASE Ends(r)
  BY <1>4, EndMoves
<1>5. CASE NameIsFree(r)
  <2>1. R.at = "look" /\ R.op \in AccountOps /\ R.read \in Users
    BY <1>1, <1>3, <1>5 DEF NameIsFree, RequestOK
  <2>2. RequestOK(At("insert")) /\ GoneOK(At("insert"))
    BY <1>1, <1>2, <1>3, <2>1 DEF RequestOK, GoneOK, IsGone
  <2> QED
    BY <1>2, <1>4, <1>5, <2>2, GotoMoves DEF NameIsFree
<1>6. CASE InsertUser(r)
  <2>1. R.at = "insert" /\ R.op \in AccountOps
    BY <1>1, <1>3, <1>6 DEF InsertUser, RequestOK
  <2>2. PICK u \in UserIds : Step(r, [R EXCEPT !.at = "dirty", !.target = u])
    BY <1>6 DEF InsertUser
  <2> DEFINE new == [R EXCEPT !.at = "dirty", !.target = u]
  <2>3. /\ new \in RequestType /\ new.at = "dirty" /\ new.target = u /\ new.op = R.op
        /\ new.user = R.user /\ new.role = R.role
    BY <1>1 DEF RequestType, Keys
  <2> HIDE DEF new
  <2>4. RequestOK(new) /\ GoneOK(new)
    BY <1>1, <1>3, <2>1, <2>3 DEF RequestOK, GoneOK, IsGone
  <2> QED
    BY <2>2, <2>3, <2>4 DEF Moved, Step, IsGone, new
<1>7. CASE ModifyUser(r)
  <2>1. R.at = "change" /\ R.op \in AccountOps /\ R.target \in UserIds
    BY <1>1, <1>3, <1>7 DEF ModifyUser, RequestOK, AccountOps
  <2>2. RequestOK(At("dirty")) /\ GoneOK(At("dirty"))
    BY <1>1, <1>2, <1>3, <2>1 DEF RequestOK, GoneOK, IsGone
  <2>3. Ends(r) \/ Goto(r, "dirty")
    BY <1>7 DEF ModifyUser
  <2> QED
    BY <1>2, <1>4, <2>2, <2>3, GotoMoves
<1>8. CASE RemoveUser(r)
  <2>1. R.at = "change" /\ R.op \in AccountOps /\ R.target \in UserIds
    BY <1>1, <1>3, <1>8 DEF RemoveUser, RequestOK, AccountOps
  <2>2. RequestOK(At("dirty")) /\ GoneOK(At("dirty"))
    BY <1>1, <1>2, <1>3, <2>1 DEF RequestOK, GoneOK, IsGone
  <2> QED
    BY <1>2, <1>8, <2>2, GotoMoves DEF RemoveUser
<1>9. CASE RequestWrite(r)
  <2>1. R.at = "dirty" /\ R.target \in UserIds
    BY <1>1, <1>9 DEF RequestWrite, RequestOK
  <2>2. CASE R.op = "login"
    <3>1. PICK place \in {"listed", "session"} :
            Step(r, [R EXCEPT !.user = R.target, !.role = "Admin", !.at = place])
      <4>1. CASE AssignGlobalHosts
        BY <1>9, <2>2, <4>1 DEF RequestWrite
      <4>2. CASE ~AssignGlobalHosts
        BY <1>9, <2>2, <4>2 DEF RequestWrite
      <4> QED
        BY <4>1, <4>2
    <3> DEFINE new == [R EXCEPT !.user = R.target, !.role = "Admin", !.at = place]
    <3>2. /\ new \in RequestType /\ new.at = place /\ new.op = "login" /\ new.user = R.target
          /\ new.role = "Admin"
      BY <1>1, <2>1, <2>2 DEF RequestType
    <3> HIDE DEF new
    <3>3. RequestOK(new) /\ GoneOK(new) /\ ~IsGone(new)
      BY <1>3, <2>1, <3>2 DEF RequestOK, GoneOK, IsGone, AccountOps
    <3> QED
      BY <3>1, <3>2, <3>3 DEF Moved, Step, new
  <2> QED
    BY <1>4, <1>9, <2>2 DEF RequestWrite
<1>10. CASE ListHosts(r)
  <2> DEFINE new == [R EXCEPT !.at = "assign", !.hosts = ListUserHosts(R.user)]
  <2>1. R.at = "listed" /\ R.op = "login" /\ R.user \in UserIds
    BY <1>1, <1>10 DEF ListHosts, RequestOK
  <2>2. ListUserHosts(R.user) \in SUBSET HostIds
    BY DEF ListUserHosts
  <2>3. /\ new \in RequestType /\ new.at = "assign" /\ new.op = R.op /\ new.user = R.user
        /\ new.role = R.role
    BY <1>1, <2>2 DEF RequestType
  <2> HIDE DEF new
  <2>4. RequestOK(new) /\ GoneOK(new)
    BY <1>1, <1>3, <2>1, <2>3 DEF RequestOK, GoneOK, IsGone
  <2> QED
    BY <1>10, <2>3, <2>4 DEF ListHosts, Moved, Step, IsGone, new
<1>11. CASE AssignHost(r)
  <2>1. R.at = "assign" /\ R.op = "login" /\ R.user \in UserIds
    BY <1>1, <1>11 DEF AssignHost, RequestOK
  <2>2. CASE Goto(r, "session")
    <3>1. RequestOK(At("session")) /\ GoneOK(At("session"))
      BY <1>1, <1>2, <1>3, <2>1 DEF RequestOK, GoneOK, IsGone
    <3> QED
      BY <1>2, <2>2, <3>1, GotoMoves
  <2>3. ASSUME NEW h \in R.hosts, Step(r, [R EXCEPT !.hosts = R.hosts \ {h}])
        PROVE  \E new : Moved(r, new)
    <3> DEFINE new == [R EXCEPT !.hosts = R.hosts \ {h}]
    <3>1. R.hosts \ {h} \in SUBSET HostIds
      BY <1>1 DEF RequestType
    <3>2. /\ new \in RequestType /\ new.at = R.at /\ new.op = R.op /\ new.user = R.user
          /\ new.role = R.role
      BY <1>1, <3>1 DEF RequestType
    <3> HIDE DEF new
    <3>3. RequestOK(new) /\ GoneOK(new)
      BY <1>1, <1>3, <2>1, <3>2 DEF RequestOK, GoneOK, IsGone
    <3> QED
      BY <2>3, <3>2, <3>3 DEF Moved, Step, IsGone, new
  <2> QED
    BY <1>11, <2>2, <2>3 DEF AssignHost
<1>12. ASSUME NEW op \in HostOps, NEW check \in BOOLEAN, Asks(r, op), Goes(r, check),
              IsGone(R) /\ check => op = "deleteHost"
       PROVE  \E new : Moved(r, new)
  <2>1. CASE ~check
    BY <1>12, <1>4, <2>1 DEF Goes
  <2>2. CASE check
    <3>1. Goto(r, "change") /\ R.op = op
      BY <1>12, <2>2 DEF Goes, Asks
    <3>2. RequestOK(At("change")) /\ GoneOK(At("change"))
      BY <1>1, <1>2, <1>3, <1>12, <2>2, <3>1 DEF RequestOK, GoneOK, IsGone
    <3> QED
      BY <1>2, <3>1, <3>2, GotoMoves
  <2> QED
    BY <2>1, <2>2
<1>13. IsGone(R) => ~IsAdmin(R.user) /\ Role(R.user) = "Gone"
  BY <1>1, RoleType DEF GoneOK, IsAdmin
<1>14. {"deleteHost", "patchHost", "giveHost", "pair"} \subseteq HostOps
  BY DEF HostOps
<1>15. CASE DeleteHost(r)
  BY <1>12, <1>14, <1>15 DEF DeleteHost
<1>16. CASE PatchHost(r)
  BY <1>12, <1>13, <1>14, <1>16 DEF PatchHost, IsAdmin
<1>17. CASE PairHost(r)
  BY <1>4, <1>12, <1>13, <1>14, <1>17 DEF PairHost, Fail
<1>18. CASE NewSession(r) \/ HostNotFound(r) \/ AddHost(r) \/ RemoveHost(r) \/ ModifyHost(r)
  BY <1>4, <1>18 DEF NewSession, HostNotFound, Fail, AddHost, RemoveHost, ModifyHost
<1> QED
  BY <1>5, <1>6, <1>7, <1>8, <1>9, <1>10, <1>11, <1>15, <1>16, <1>17, <1>18 DEF Handle

-----------------------------------------------------------------------------
(* What a handler does to the entries, the sessions and the writer's token. *)

\* An entry changes under its lock; what asks for the write follows or is done.
EntryChanges(r, k, entry) ==
  /\ k \in Keys /\ data' = [data EXCEPT ![k] = entry]
  /\ k \in UserIds => entry \in Users \cup {Absent}
  /\ k \in HostIds => entry \in Hosts \cup {Absent}
  /\ k \in UserIds /\ data[k] = Absent /\ entry # Absent => Fresh(k)
  /\ token' = TRUE \/ (req'[r].at = "dirty" /\ req'[r].target = k)

HandleEffect(r) ==
  /\ UNCHANGED data \/ \E k, entry : EntryChanges(r, k, entry)
  /\ token' \in {TRUE, token}
  /\ UNCHANGED <<writer, disk, failed, up, events>>
  /\ req[r].at = "dirty" => token' = TRUE

LEMMA OnlyReadsEffect ==
    ASSUME NEW r \in Requests, OnlyReads, UNCHANGED <<writer, disk, failed, up, events>>,
           req[r].at # "dirty"
    PROVE  HandleEffect(r)
  BY DEF HandleEffect, OnlyReads

LEMMA HandleEffects ==
    ASSUME data \in Tables, req \in [Requests -> RequestType], RequestsOK,
           NEW r \in Requests, Handle(r)
    PROVE  HandleEffect(r)
<1> DEFINE R == req[r]
<1>1. R \in RequestType /\ RequestOK(R)
  BY DEF RequestsOK
<1>2. /\ \A u \in UserIds : u \in Keys /\ data[u] \in Users \cup {Absent}
      /\ \A h \in HostIds : h \in Keys /\ data[h] \in Hosts \cup {Absent}
  BY TableTypes
<1>3. /\ \A u \in UserIds : u \notin HostIds
      /\ AccountOps \cap HostOps = {} /\ "postHost" \notin AccountOps \cup HostOps
      /\ R.op \in Ops /\ Ops = AccountOps \cup HostOps \cup {"none", "postHost"}
  BY <1>1, IdsAreDistinct DEF RequestType, Ops, AdminOps, HostOps, AccountOps
<1>4. CASE NameIsFree(r) \/ ListHosts(r)
  BY <1>4, OnlyReadsEffect DEF NameIsFree, ListHosts, Elsewhere
<1>5. CASE NewSession(r)
  BY <1>5 DEF NewSession, HandleEffect
<1>6. CASE DeleteHost(r) \/ PatchHost(r) \/ PairHost(r)
  BY <1>6, OnlyReadsEffect DEF DeleteHost, PatchHost, PairHost, Asks, Goes, Fail, Elsewhere
<1>7. CASE HostNotFound(r)
  BY <1>1, <1>7, OnlyReadsEffect DEF HostNotFound, Fail, Elsewhere, RequestOK
<1>8. CASE InsertUser(r)
  <2>1. R.at = "insert" /\ R.op \in AccountOps /\ R.read \in Users
    BY <1>1, <1>3, <1>8 DEF InsertUser, RequestOK
  <2>2. PICK u \in UserIds : /\ Fresh(u) /\ data' = [data EXCEPT ![u] = R.read]
                             /\ Step(r, [R EXCEPT !.at = "dirty", !.target = u])
    BY <1>8 DEF InsertUser, Put
  <2>3. req'[r].at = "dirty" /\ req'[r].target = u
    BY <1>1, <2>2 DEF Step, RequestType
  <2>4. EntryChanges(r, u, R.read)
    BY <1>2, <1>3, <2>1, <2>2, <2>3 DEF EntryChanges
  <2> QED
    BY <1>8, <2>1, <2>4 DEF InsertUser, HandleEffect, Elsewhere
<1>9. CASE ModifyUser(r)
  <2>1. R.at = "change" /\ R.target \in UserIds
    BY <1>1, <1>3, <1>9 DEF ModifyUser, RequestOK, AccountOps
  <2>2. CASE data[R.target] = Absent
    BY <1>9, <2>1, <2>2, OnlyReadsEffect DEF ModifyUser, Elsewhere
  <2>3. CASE data[R.target] # Absent
    <3>1. data[R.target] \in Users
      BY <1>2, <2>1, <2>3
    <3>2. PICK entry \in Users : data' = [data EXCEPT ![R.target] = entry]
      <4>1. \A password \in BOOLEAN, role \in {"User", "Admin"} :
              /\ [data[R.target] EXCEPT !.password = password] \in Users
              /\ [data[R.target] EXCEPT !.role = role, !.password = password] \in Users
        BY <3>1 DEF Users
      <4> QED
        BY <1>9, <2>3, <4>1 DEF ModifyUser, Put
    <3>3. req'[r].at = "dirty" /\ req'[r].target = R.target /\ UNCHANGED token
      BY <1>1, <1>9, <2>3 DEF ModifyUser, Goto, RequestType
    <3>4. EntryChanges(r, R.target, entry)
      BY <1>2, <1>3, <2>1, <2>3, <3>2, <3>3 DEF EntryChanges
    <3> QED
      BY <1>9, <2>1, <3>3, <3>4 DEF ModifyUser, HandleEffect, Elsewhere
  <2> QED
    BY <2>2, <2>3
<1>10. CASE RemoveUser(r)
  <2>1. R.at = "change" /\ R.target \in UserIds
    BY <1>1, <1>3, <1>10 DEF RemoveUser, RequestOK, AccountOps
  <2>2. req'[r].at = "dirty" /\ req'[r].target = R.target
    BY <1>1, <1>10 DEF RemoveUser, Goto, RequestType
  <2>3. EntryChanges(r, R.target, Absent)
    BY <1>2, <1>3, <1>10, <2>1, <2>2 DEF RemoveUser, Put, EntryChanges
  <2> QED
    BY <1>10, <2>1, <2>3 DEF RemoveUser, HandleEffect, Elsewhere
<1>11. CASE RequestWrite(r)
  BY <1>11 DEF RequestWrite, ForceWrite, HandleEffect, Elsewhere
<1>12. CASE AssignHost(r)
  <2>1. R.at = "assign" /\ R.user \in UserIds /\ R.hosts \subseteq HostIds
    BY <1>1, <1>12 DEF AssignHost, RequestOK, RequestType
  <2>2. CASE OnlyReads
    BY <1>12, <2>1, <2>2, OnlyReadsEffect DEF AssignHost, Elsewhere
  <2>3. ASSUME NEW h \in R.hosts, data[h] # Absent,
               data' = [data EXCEPT ![h] = [data[h] EXCEPT !.owner = R.user]], token' = TRUE
        PROVE  HandleEffect(r)
    <3>1. h \in HostIds /\ h \notin UserIds /\ data[h] \in Hosts
      BY <1>2, <1>3, <2>1, <2>3
    <3>2. [data[h] EXCEPT !.owner = R.user] \in Hosts
      BY <2>1, <3>1 DEF Hosts
    <3>3. EntryChanges(r, h, [data[h] EXCEPT !.owner = R.user])
      BY <1>2, <2>3, <3>1, <3>2 DEF EntryChanges
    <3> QED
      BY <1>12, <2>1, <2>3, <3>3 DEF AssignHost, HandleEffect, Elsewhere
  <2> QED
    BY <1>12, <2>2, <2>3 DEF AssignHost, Put, ForceWrite
<1>13. CASE AddHost(r)
  <2>1. R.at = "insert" /\ R.read \in Hosts
    BY <1>1, <1>13 DEF AddHost, RequestOK
  <2>2. PICK h \in HostIds : data' = [data EXCEPT ![h] = R.read]
    BY <1>13 DEF AddHost, Put
  <2>3. EntryChanges(r, h, R.read)
    BY <1>2, <1>3, <1>13, <2>1, <2>2 DEF AddHost, ForceWrite, EntryChanges
  <2> QED
    BY <1>13, <2>1, <2>3 DEF AddHost, ForceWrite, HandleEffect, Elsewhere
<1>14. CASE RemoveHost(r)
  <2>1. R.at = "change" /\ R.target \in HostIds
    BY <1>1, <1>14 DEF RemoveHost, RequestOK, HostOps
  <2>2. CASE OnlyReads
    BY <1>14, <2>1, <2>2, OnlyReadsEffect DEF RemoveHost, Elsewhere
  <2>3. CASE data' = [data EXCEPT ![R.target] = Absent] /\ token' = TRUE
    <3>1. EntryChanges(r, R.target, Absent)
      BY <1>2, <1>3, <2>1, <2>3 DEF EntryChanges
    <3> QED
      BY <1>14, <2>1, <2>3, <3>1 DEF RemoveHost, HandleEffect, Elsewhere
  <2> QED
    BY <1>14, <2>2, <2>3 DEF RemoveHost, Put, ForceWrite
<1>15. CASE ModifyHost(r)
  <2>1. R.at = "change" /\ R.target \in HostIds
    BY <1>1, <1>15 DEF ModifyHost, RequestOK, HostOps
  <2>2. CASE data[R.target] = Absent
    BY <1>15, <2>1, <2>2, OnlyReadsEffect DEF ModifyHost, Elsewhere
  <2>3. CASE data[R.target] # Absent
    <3>1. data[R.target] \in Hosts /\ token' = TRUE
      BY <1>2, <1>15, <2>1, <2>3 DEF ModifyHost, ForceWrite
    <3>2. CASE UNCHANGED data
      BY <1>15, <2>1, <3>1, <3>2 DEF ModifyHost, HandleEffect, Elsewhere
    <3>3. ASSUME NEW entry \in Hosts, data' = [data EXCEPT ![R.target] = entry]
          PROVE  HandleEffect(r)
      <4>1. EntryChanges(r, R.target, entry)
        BY <1>2, <1>3, <2>1, <3>1, <3>3 DEF EntryChanges
      <4> QED
        BY <1>15, <2>1, <3>1, <4>1 DEF ModifyHost, HandleEffect, Elsewhere
    <3>4. /\ [data[R.target] EXCEPT !.paired = TRUE] \in Hosts
          /\ \A owner \in UserIds \cup {Absent} : [data[R.target] EXCEPT !.owner = owner] \in Hosts
      BY <3>1 DEF Hosts
    <3> QED
      BY <1>15, <2>3, <3>2, <3>3, <3>4 DEF ModifyHost, Put
  <2> QED
    BY <2>2, <2>3
<1> QED
  BY <1>4, <1>5, <1>6, <1>7, <1>8, <1>9, <1>10, <1>11, <1>12, <1>13, <1>14, <1>15 DEF Handle

-----------------------------------------------------------------------------
(* Requests that arrive.                                                   *)

Arrival(r, new) ==
  /\ new \in RequestType /\ RequestOK(new) /\ GoneOK(new)
  /\ IsGone(new) => data[new.user] = Absent
  /\ Arrive(r, new)

LEMMA ArrivesFit ==
    ASSUME data \in Tables, NEW r \in Requests, Arrives(r)
    PROVE  \E new : Arrival(r, new)
<1>1. /\ AccountOps \subseteq Ops /\ HostOps \subseteq Ops /\ AccountOps \cap HostOps = {}
      /\ "postHost" \in Ops /\ "postHost" \notin AccountOps \cup HostOps
      /\ "none" \notin AccountOps \cup HostOps
      /\ {"login", "header", "addUser", "deleteUser", "patchUser", "setPassword"} = AccountOps
  BY DEF Ops, AdminOps, HostOps, AccountOps
<1>2. \A name \in Names, role \in {"User", "Admin"}, password \in BOOLEAN :
        [name |-> name, role |-> role, password |-> password] \in Users
  BY DEF Users
<1>3. ASSUME NEW n \in Names, FirstLogin(r, n) PROVE \E new : Arrival(r, new)
  <2> DEFINE read == [name |-> n, role |-> "Admin", password |-> TRUE]
             new == By(Absent, "login", "look", n, read)
  <2>1. read \in Users /\ Arrive(r, new)
    BY <1>2, <1>3 DEF FirstLogin
  <2> HIDE DEF read
  <2>2. /\ new \in RequestType /\ new.op = "login" /\ new.at = "look" /\ new.user = Absent
        /\ new.read = read
    <3>1. /\ "login" \in Ops /\ Absent \in UserIds \cup {Absent} /\ read \in Users \cup Hosts \cup {Absent}
          /\ n \in Keys \cup Names \cup {Absent}
      BY <1>1, <2>1
    <3> QED
      BY <3>1, ByType
  <2> HIDE DEF new
  <2>3. RequestOK(new) /\ GoneOK(new) /\ ~IsGone(new)
    BY <1>1, <2>1, <2>2 DEF RequestOK, GoneOK, IsGone
  <2> QED
    BY <2>1, <2>2, <2>3 DEF Arrival
<1>4. ASSUME NEW n \in Names, ForwardedHeader(r, n) PROVE \E new : Arrival(r, new)
  <2> DEFINE read == [name |-> n, role |-> "User", password |-> FALSE]
             new == By(Absent, "header", "look", n, read)
  <2>1. read \in Users /\ Arrive(r, new)
    BY <1>2, <1>4 DEF ForwardedHeader
  <2> HIDE DEF read
  <2>2. /\ new \in RequestType /\ new.op = "header" /\ new.at = "look" /\ new.user = Absent
        /\ new.read = read
    <3>1. /\ "header" \in Ops /\ Absent \in UserIds \cup {Absent} /\ read \in Users \cup Hosts \cup {Absent}
          /\ n \in Keys \cup Names \cup {Absent}
      BY <1>1, <2>1
    <3> QED
      BY <3>1, ByType
  <2> HIDE DEF new
  <2>3. RequestOK(new) /\ GoneOK(new) /\ ~IsGone(new)
    BY <1>1, <2>1, <2>2 DEF RequestOK, GoneOK, IsGone
  <2> QED
    BY <2>1, <2>2, <2>3 DEF Arrival
<1>5. ASSUME NEW u \in UserIds, NEW op \in Ops, NEW at \in {"look", "insert", "change", "session"},
             NEW target \in Keys \cup Names \cup {Absent},
             NEW read \in Users \cup Hosts \cup {Absent}, Arrive(r, By(u, op, at, target, read)),
             /\ at \in {"look", "insert"} /\ op \in AccountOps => read \in Users
             /\ at = "change" /\ op \in AccountOps => target \in UserIds
             /\ op \in HostOps => at = "look" /\ target \in HostIds
             /\ op = "postHost" => at = "insert" /\ read \in Hosts
             /\ at = "session" => op = "login",
             op # "none", op \notin HostOps => data[u] # Absent
      PROVE  \E new : Arrival(r, new)
  <2> DEFINE new == By(u, op, at, target, read)
  <2>1. /\ new \in RequestType /\ new.op = op /\ new.at = at /\ new.user = u
        /\ u # Absent => new.role = Role(u)
        /\ new.target = target /\ new.read = read
    BY ByType
  <2>2. Arrive(r, new)
    BY <1>5
  <2> HIDE DEF new
  <2>3. u # Absent
    BY IdsAreDistinct
  <2>4. Role(u) = "Gone" <=> data[u] = Absent
    BY RoleType
  <2>5. RequestOK(new)
    BY <1>1, <1>5, <2>1 DEF RequestOK
  <2>6. IsGone(new) => op \in HostOps /\ data[u] = Absent
    BY <1>5, <2>1, <2>3, <2>4 DEF IsGone
  <2>7. op \in HostOps => at = "look"
    BY <1>5
  <2>8. GoneOK(new)
    BY <2>1, <2>6, <2>7 DEF GoneOK
  <2> QED
    BY <2>1, <2>2, <2>5, <2>6, <2>8 DEF Arrival
<1>6. ASSUME NEW n \in Names, Login(r, n) PROVE \E new : Arrival(r, new)
  <2>1. PICK u \in UserIds : data[u] # Absent /\ Arrive(r, By(u, "login", "session", Absent, Absent))
    BY <1>6 DEF Login, WithName, Existing
  <2> QED
    BY <1>1, <1>5, <2>1
<1>7. ASSUME NEW u \in UserIds, NEW n \in Names, NEW role \in {"User", "Admin"}, AddUser(r, u, n, role)
      PROVE  \E new : Arrival(r, new)
  <2> DEFINE read == [name |-> n, role |-> role, password |-> TRUE]
  <2>1. read \in Users
    BY <1>2
  <2>2. data[u] # Absent /\ Arrive(r, By(u, "addUser", "look", n, read))
    BY <1>7, RoleType DEF AddUser, IsAdmin
  <2> HIDE DEF read
  <2> QED
    BY <1>1, <1>5, <2>1, <2>2
<1>8. ASSUME NEW u \in UserIds, NEW v \in UserIds, AdminRequest(r, u, v)
      PROVE  \E new : Arrival(r, new)
  <2>1. PICK op \in {"deleteUser", "patchUser"} : Arrive(r, By(u, op, "change", v, Absent))
    BY <1>8 DEF AdminRequest
  <2>2. data[u] # Absent
    BY <1>8, RoleType DEF AdminRequest, IsAdmin
  <2>3. op \in AccountOps /\ v \in Keys
    BY <1>1 DEF Keys
  <2> QED
    BY <1>1, <1>5, <2>1, <2>2, <2>3
<1>9. ASSUME NEW u \in UserIds, SetPassword(r, u) PROVE \E new : Arrival(r, new)
  <2>1. Arrive(r, By(u, "setPassword", "change", u, Absent)) /\ data[u] # Absent /\ u \in Keys
    BY <1>9, RoleType DEF SetPassword, Keys
  <2> QED
    BY <1>1, <1>5, <2>1
<1>10. ASSUME NEW u \in UserIds, NEW h \in HostIds, HostRequest(r, u, h)
       PROVE  \E new : Arrival(r, new)
  <2>1. PICK op \in HostOps : Arrive(r, By(u, op, "look", h, Absent))
    BY <1>10 DEF HostRequest
  <2>2. h \in Keys
    BY DEF Keys
  <2> QED
    BY <1>1, <1>5, <2>1, <2>2
<1>11. ASSUME NEW u \in UserIds, PostHost(r, u) PROVE \E new : Arrival(r, new)
  <2> DEFINE read == [owner |-> u, paired |-> FALSE]
  <2>1. read \in Hosts
    BY DEF Hosts
  <2>2. Arrive(r, By(u, "postHost", "insert", Absent, read)) /\ data[u] # Absent
    BY <1>11 DEF PostHost
  <2> HIDE DEF read
  <2> QED
    BY <1>1, <1>5, <2>1, <2>2
<1> QED
  BY <1>3, <1>4, <1>6, <1>7, <1>8, <1>9, <1>10, <1>11 DEF Arrives

-----------------------------------------------------------------------------
(* The storage.                                                            *)

WriterType == [at: {"idle", "woken", "reading", "writing", "opened"},
               left: SUBSET Keys, snap: Tables]
SessionType == [user: UserIds, expired: BOOLEAN] \cup {Absent}

LEMMA RestingType == Resting \in WriterType /\ Resting.at = "idle"
  BY NothingType DEF Resting, WriterType

LEMMA StorageTypes ==
    ASSUME StorageTypeOK, StorageNext
    PROVE  StorageTypeOK'
<1>1. /\ data \in Tables /\ disk \in [good: BOOLEAN, data: Tables]
      /\ sessions \in [Tokens -> SessionType] /\ writer \in WriterType
      /\ token \in BOOLEAN /\ failed \in BOOLEAN /\ up \in BOOLEAN
  BY DEF StorageTypeOK, SessionType, WriterType
<1> SUFFICES /\ data' \in Tables /\ disk' \in [good: BOOLEAN, data: Tables]
             /\ sessions' \in [Tokens -> SessionType] /\ writer' \in WriterType
             /\ token' \in BOOLEAN /\ failed' \in BOOLEAN /\ up' \in BOOLEAN
  BY DEF StorageTypeOK, SessionType, WriterType
<1>2. CASE WriterWakes
  BY <1>1, <1>2 DEF WriterWakes, WriterType
<1>3. CASE StoreLocks
  BY <1>1, <1>3 DEF StoreLocks, WriterType
<1>4. CASE StoreCopies
  <2>1. PICK k \in writer.left :
          writer' = [writer EXCEPT !.left = @ \ {k}, !.snap[k] = data[k],
                                   !.at = IF writer.left = {k} THEN "writing" ELSE @]
    BY <1>4 DEF StoreCopies
  <2>2. k \in Keys /\ writer.snap \in Tables /\ writer.left \ {k} \in SUBSET Keys
    BY <1>1, <2>1 DEF WriterType
  <2>3. [writer.snap EXCEPT ![k] = data[k]] \in Tables
    <3>1. k \in UserIds \/ k \in HostIds
      BY <2>2 DEF Keys
    <3> QED
      BY <1>1, <2>2, <3>1, TableTypes, PutUserType, PutHostType
  <2>4. (IF writer.left = {k} THEN "writing" ELSE writer.at)
          \in {"idle", "woken", "reading", "writing", "opened"}
    BY <1>1 DEF WriterType
  <2>5. writer' \in WriterType
    BY <1>1, <2>1, <2>2, <2>3, <2>4 DEF WriterType
  <2> QED
    BY <1>1, <1>4, <2>5 DEF StoreCopies
<1>5. CASE StoreOpens
  BY <1>1, <1>5 DEF StoreOpens, WriterType
<1>6. CASE StoreEnds
  BY <1>1, <1>6, RestingType DEF StoreEnds, WriterType
<1>7. ASSUME NEW t \in Tokens, Expire(t) PROVE sessions' \in [Tokens -> SessionType]
  <2>1. [sessions[t] EXCEPT !.expired = TRUE] \in SessionType
    BY <1>1, <1>7 DEF Expire, SessionType
  <2> QED
    BY <1>1, <1>7, <2>1 DEF Expire
<1>8. CASE SweepSessions
  BY <1>1, <1>8 DEF SweepSessions, SessionType
<1> QED
  BY <1>1, <1>2, <1>3, <1>4, <1>5, <1>6, <1>7, <1>8 DEF StorageNext, Expire

-----------------------------------------------------------------------------
(* The invariant.                                                          *)

ServerInv == ServerTypeOK /\ RequestsOK /\ GoneInv /\ DownInv /\ WriteInv

\* A handler runs for a request.
LEMMA HandleBusy ==
    ASSUME NEW r \in Requests, Handle(r)
    PROVE  req[r] # Idle
<1>1. CASE req[r] = Idle
  <2>1. req[r].at = "idle" /\ req[r].op = "none"
    BY <1>1 DEF Idle
  <2> QED
    BY <2>1 DEF Handle, NameIsFree, InsertUser, ModifyUser, RemoveUser, RequestWrite, ListHosts,
       AssignHost, NewSession, DeleteHost, PatchHost, PairHost, HostNotFound, AddHost, RemoveHost,
       ModifyHost, Asks
<1> QED
  BY <1>1

LEMMA EntryTypes ==
    ASSUME data \in Tables, NEW r \in Requests, HandleEffect(r)
    PROVE  data' \in Tables
<1>1. CASE UNCHANGED data
  BY <1>1
<1>2. ASSUME NEW k, NEW entry, EntryChanges(r, k, entry) PROVE data' \in Tables
  <2>1. CASE k \in UserIds
    BY <1>2, <2>1, PutUserType DEF EntryChanges
  <2>2. CASE k \in HostIds
    BY <1>2, <2>2, PutHostType DEF EntryChanges
  <2> QED
    BY <1>2, <2>1, <2>2 DEF EntryChanges, Keys
<1> QED
  BY <1>1, <1>2 DEF HandleEffect

\* A deleted user does not come back while a request of his is served.
LEMMA GoneStays ==
    ASSUME data \in Tables, GoneInv, NEW r \in Requests, HandleEffect(r),
           NEW q \in Requests, IsGone(req[q])
    PROVE  data'[req[q].user] = Absent
<1>1. req[q].user \in UserIds /\ data[req[q].user] = Absent
  BY DEF GoneInv, GoneOK
<1>2. CASE UNCHANGED data
  BY <1>1, <1>2
<1>3. ASSUME NEW k, NEW entry, EntryChanges(r, k, entry) PROVE data'[req[q].user] = Absent
  <2>1. CASE k # req[q].user
    BY <1>1, <1>3, <2>1, TableTypes DEF EntryChanges
  <2>2. CASE k = req[q].user
    <3>1. ~Fresh(k)
      BY <2>2 DEF Fresh
    <3>2. entry = Absent
      BY <1>1, <1>3, <2>2, <3>1 DEF EntryChanges
    <3> QED
      BY <1>1, <1>3, <2>2, <3>2, TableTypes DEF EntryChanges
  <2> QED
    BY <2>1, <2>2
<1> QED
  BY <1>2, <1>3 DEF HandleEffect

\* What is due stays due, and what a handler changes is.
LEMMA HandleWrites ==
    ASSUME ServerInv, NEW r \in Requests, HandleEffect(r), NEW new, Moved(r, new)
    PROVE  WriteInv'
<1>1. CASE token' = TRUE
  BY <1>1 DEF WriteInv, WriteDue
<1>2. CASE token' # TRUE
  <2>1. token' = token /\ token = FALSE /\ req[r].at # "dirty" /\ token \in BOOLEAN
    BY <1>2 DEF HandleEffect, ServerInv, ServerTypeOK, StorageTypeOK
  <2>2. UNCHANGED <<writer, disk, failed, up>>
    BY DEF HandleEffect
  <2>3. req' = [req EXCEPT ![r] = new] /\ req \in [Requests -> RequestType] /\ data \in Tables
    BY DEF Moved, ServerInv, ServerTypeOK, StorageTypeOK
  <2> SUFFICES ASSUME up', NEW k \in Keys
               PROVE  WriteDue(k)' \/ (writer'.at = "idle" /\ (failed' \/ OnDisk(k)'))
    BY DEF WriteInv
  <2>4. WriteDue(k) \/ (writer.at = "idle" /\ (failed \/ OnDisk(k)))
    BY <2>2 DEF ServerInv, WriteInv
  <2>5. CASE data'[k] = data[k]
    <3>1. CASE writer.at = "idle" /\ (failed \/ OnDisk(k))
      BY <2>2, <2>5, <3>1 DEF OnDisk
    <3>2. ASSUME NEW q \in Requests, req[q].at = "dirty" /\ req[q].target = k PROVE WriteDue(k)'
      <4>1. req'[q] = req[q]
        BY <2>1, <2>3, <3>2
      <4> QED
        BY <3>2, <4>1 DEF WriteDue
    <3>3. CASE writer.at = "woken" \/ (writer.at = "reading" /\ k \in writer.left)
               \/ (writer.at # "idle" /\ writer.snap[k] = data[k])
      BY <2>2, <2>5, <3>3 DEF WriteDue
    <3> QED
      BY <2>1, <2>4, <3>1, <3>2, <3>3 DEF WriteDue
  <2>6. CASE data'[k] # data[k]
    <3>1. PICK j, entry : EntryChanges(r, j, entry)
      BY <2>6 DEF HandleEffect
    <3>2. j = k
      BY <2>3, <2>6, <3>1, TableTypes DEF EntryChanges
    <3>3. req'[r].at = "dirty" /\ req'[r].target = k
      BY <1>2, <3>1, <3>2 DEF EntryChanges
    <3> QED
      BY <3>3 DEF WriteDue
  <2> QED
    BY <2>5, <2>6
<1> QED
  BY <1>1, <1>2

LEMMA HandleStep ==
    ASSUME ServerInv, NEW r \in Requests, Handle(r)
    PROVE  ServerInv'
<1>1. /\ data \in Tables /\ req \in [Requests -> RequestType] /\ RequestsOK /\ GoneInv
      /\ sessions \in [Tokens -> SessionType] /\ token \in BOOLEAN /\ up \in BOOLEAN
  BY DEF ServerInv, ServerTypeOK, StorageTypeOK, SessionType
<1>2. PICK new : Moved(r, new)
  BY <1>1, HandleMoves
<1>3. HandleEffect(r)
  BY <1>1, HandleEffects
<1>4. req' \in [Requests -> RequestType] /\ RequestsOK'
  BY <1>1, <1>2, StepType DEF Moved
<1>5. data' \in Tables
  BY <1>1, <1>3, EntryTypes
<1>6. sessions' \in [Tokens -> SessionType]
  <2>1. CASE UNCHANGED sessions
    BY <1>1, <2>1
  <2>2. CASE NewSession(r)
    <3>1. PICK t \in Tokens :
            sessions' = [sessions EXCEPT ![t] = [user |-> req[r].user, expired |-> FALSE]]
      BY <2>2 DEF NewSession
    <3>2. req[r].user \in UserIds
      BY <1>1, <2>2 DEF NewSession, RequestsOK, RequestOK
    <3>3. [user |-> req[r].user, expired |-> FALSE] \in SessionType
      BY <3>2 DEF SessionType
    <3> QED
      BY <1>1, <3>1, <3>3
  <2> QED
    BY <2>1, <2>2 DEF Handle, NameIsFree, InsertUser, ModifyUser, RemoveUser, RequestWrite,
       ListHosts, AssignHost, DeleteHost, PatchHost, PairHost, HostNotFound, AddHost,
       RemoveHost, ModifyHost, Goes, Fail, Elsewhere
<1>7. token' \in BOOLEAN
  BY <1>1, <1>3 DEF HandleEffect
<1>8. ServerTypeOK'
  <2>1. UNCHANGED <<writer, disk, failed, up, events>>
    BY <1>3 DEF HandleEffect
  <2>2. /\ failed' \in BOOLEAN /\ up' \in BOOLEAN /\ events' \in 0..MaxEvents
        /\ disk' \in [good: BOOLEAN, data: Tables] /\ writer' \in WriterType
    BY <2>1 DEF ServerInv, ServerTypeOK, StorageTypeOK, WriterType
  <2>3. StorageTypeOK'
    BY <1>5, <1>6, <1>7, <2>2 DEF StorageTypeOK, WriterType, SessionType
  <2> QED
    BY <1>4, <2>2, <2>3 DEF ServerTypeOK
<1>9. \A q \in Requests : req'[q] = IF q = r THEN new ELSE req[q]
  BY <1>1, <1>2 DEF Moved
<1>10. GoneInv'
  <2>1. \A q \in Requests : IsGone(req[q]) => data'[req[q].user] = Absent
    BY <1>1, <1>3, GoneStays
  <2>2. \A q \in Requests : GoneOK(req'[q]) /\ (IsGone(req'[q]) => data'[req'[q].user] = Absent)
    BY <1>1, <1>2, <1>9, <2>1 DEF GoneInv, Moved
  <2> QED
    BY <2>2 DEF GoneInv
<1>11. DownInv'
  <2>1. up
    BY HandleBusy, <1>1 DEF ServerInv, DownInv
  <2>2. up'
    BY <1>3, <2>1 DEF HandleEffect
  <2> QED
    BY <2>2 DEF DownInv
<1>12. WriteInv'
  BY <1>2, <1>3, HandleWrites
<1> QED
  BY <1>4, <1>8, <1>10, <1>11, <1>12 DEF ServerInv

\* The writer at work: each entry is due at every step of it.
LEMMA WriterStep ==
    ASSUME ServerInv, StorageNext, UNCHANGED req
    PROVE  WriteInv'
<1>1. /\ writer \in WriterType /\ up \in BOOLEAN /\ token \in BOOLEAN
      /\ disk \in [good: BOOLEAN, data: Tables]
  BY DEF ServerInv, ServerTypeOK, StorageTypeOK, WriterType
<1>2. UNCHANGED data
  BY DEF StorageNext, WriterWakes, StoreLocks, StoreCopies, StoreOpens, StoreEnds, Expire,
     SweepSessions
<1> SUFFICES ASSUME up', NEW k \in Keys
             PROVE  WriteDue(k)' \/ (writer'.at = "idle" /\ (failed' \/ OnDisk(k)'))
  BY DEF WriteInv
<1>3. up
  BY DEF StorageNext, WriterWakes, StoreLocks, StoreCopies, StoreOpens, StoreEnds, Expire,
     SweepSessions
<1>4. WriteDue(k) \/ (writer.at = "idle" /\ (failed \/ OnDisk(k)))
  BY <1>3 DEF ServerInv, WriteInv
<1>5. CASE \E r \in Requests : req[r].at = "dirty" /\ req[r].target = k
  BY <1>5 DEF WriteDue
<1>6. CASE WriterWakes
  <2>1. writer'.at = "woken"
    BY <1>1, <1>6 DEF WriterWakes, WriterType
  <2> QED
    BY <2>1 DEF WriteDue
<1>7. CASE StoreLocks
  <2>1. writer'.at = "reading" /\ writer'.left = Keys
    BY <1>1, <1>7 DEF StoreLocks, WriterType
  <2> QED
    BY <2>1 DEF WriteDue
<1>8. CASE StoreCopies
  <2>1. PICK j \in writer.left :
          writer' = [writer EXCEPT !.left = @ \ {j}, !.snap[j] = data[j],
                                   !.at = IF writer.left = {j} THEN "writing" ELSE @]
    BY <1>8 DEF StoreCopies
  <2>2. j \in Keys /\ writer.snap \in Tables /\ writer.at = "reading" /\ token' = token
    BY <1>1, <1>8, <2>1 DEF WriterType, StoreCopies
  <2>3. /\ writer'.at = IF writer.left = {j} THEN "writing" ELSE "reading"
        /\ writer'.left = writer.left \ {j} /\ writer'.snap = [writer.snap EXCEPT ![j] = data[j]]
    BY <1>1, <2>1, <2>2 DEF WriterType
  <2>4. CASE k = j
    <3>1. writer'.snap[k] = data'[k] /\ writer'.at # "idle"
      BY <1>2, <2>2, <2>3, <2>4, TableTypes
    <3> QED
      BY <3>1 DEF WriteDue
  <2>5. CASE k # j
    <3>1. writer'.snap[k] = writer.snap[k]
      BY <2>2, <2>3, <2>5, TableTypes
    <3>2. k \in writer.left => writer'.at = "reading" /\ k \in writer'.left
      BY <2>3, <2>5
    <3>3. writer'.at # "idle"
      BY <2>3
    <3> QED
      BY <1>2, <1>4, <1>5, <2>2, <3>1, <3>2, <3>3 DEF WriteDue
  <2> QED
    BY <2>4, <2>5
<1>9. CASE StoreOpens
  <2>1. writer'.at = "opened" /\ writer'.snap = writer.snap /\ writer.at = "writing" /\ token' = token
    BY <1>1, <1>9 DEF StoreOpens, WriterType
  <2> QED
    BY <1>2, <1>4, <1>5, <2>1 DEF WriteDue
<1>10. CASE StoreEnds
  <2>1. /\ writer'.at = "idle" /\ writer.at = "opened" /\ token' = token
        /\ disk'.good = TRUE /\ disk'.data = writer.snap
    BY <1>1, <1>10, RestingType DEF StoreEnds
  <2>2. \/ token \/ writer.snap[k] = data[k]
        \/ \E r \in Requests : req[r].at = "dirty" /\ req[r].target = k
    BY <1>4, <2>1 DEF WriteDue
  <2>3. CASE token
    BY <2>1, <2>3 DEF WriteDue
  <2>4. CASE writer.snap[k] = data[k]
    BY <1>2, <2>1, <2>4 DEF OnDisk
  <2> QED
    BY <1>5, <2>2, <2>3, <2>4
<1>11. CASE UNCHANGED <<token, writer, disk, failed>>
  BY <1>2, <1>4, <1>11 DEF WriteDue, OnDisk
<1> QED
  BY <1>6, <1>7, <1>8, <1>9, <1>10, <1>11 DEF StorageNext, Expire, SweepSessions

\* The other steps leave the requests, or end all of them.
LEMMA QuietStep ==
    ASSUME ServerInv, StorageTypeOK', UNCHANGED <<req, data>>, events' \in 0..MaxEvents,
           up /\ up', WriteInv'
    PROVE  ServerInv'
<1>1. ServerTypeOK'
  BY DEF ServerInv, ServerTypeOK
<1>2. RequestsOK' /\ GoneInv'
  BY DEF ServerInv, RequestsOK, GoneInv
<1> QED
  BY <1>1, <1>2 DEF ServerInv, DownInv

LEMMA ArrivalStep ==
    ASSUME ServerInv, NEW r \in Requests, Arrives(r)
    PROVE  ServerInv'
<1>1. /\ data \in Tables /\ req \in [Requests -> RequestType] /\ RequestsOK /\ GoneInv
      /\ events \in 0..MaxEvents /\ MaxEvents \in Nat
  BY RequestsAssumption DEF ServerInv, ServerTypeOK, StorageTypeOK
<1>2. PICK new : Arrival(r, new)
  BY <1>1, ArrivesFit
<1>3. /\ up /\ req[r] = Idle /\ req' = [req EXCEPT ![r] = new] /\ UNCHANGED storageVars
      /\ events < MaxEvents /\ events' = events + 1
  BY <1>2 DEF Arrival, Arrive, Step, Free, Counted
<1>4. /\ UNCHANGED <<data, sessions, token, writer, disk, failed, up>>
  BY <1>3 DEF storageVars
<1>5. req' \in [Requests -> RequestType] /\ RequestsOK'
  BY <1>1, <1>2, <1>3, StepType DEF Arrival
<1>6. \A q \in Requests : req'[q] = IF q = r THEN new ELSE req[q]
  BY <1>1, <1>3
<1>7. events' \in 0..MaxEvents
  BY <1>1, <1>3
<1>8. StorageTypeOK'
  BY <1>4 DEF ServerInv, ServerTypeOK, StorageTypeOK
<1>9. ServerTypeOK'
  BY <1>5, <1>7, <1>8 DEF ServerTypeOK
<1>10. GoneInv'
  BY <1>1, <1>2, <1>4, <1>6 DEF GoneInv, Arrival
<1>11. DownInv'
  BY <1>3, <1>4 DEF DownInv
<1>12. WriteInv'
  <2>1. req[r].at # "dirty"
    BY <1>3 DEF Idle
  <2> SUFFICES ASSUME up', NEW k \in Keys
               PROVE  WriteDue(k)' \/ (writer'.at = "idle" /\ (failed' \/ OnDisk(k)'))
    BY DEF WriteInv
  <2>2. WriteDue(k) \/ (writer.at = "idle" /\ (failed \/ OnDisk(k)))
    BY <1>3 DEF ServerInv, WriteInv
  <2>3. ASSUME NEW q \in Requests, req[q].at = "dirty", req[q].target = k
        PROVE  req'[q].at = "dirty" /\ req'[q].target = k
    BY <1>6, <2>1, <2>3
  <2> QED
    BY <1>4, <2>2, <2>3 DEF WriteDue, OnDisk
<1> QED
  BY <1>5, <1>9, <1>10, <1>11, <1>12 DEF ServerInv

LEMMA LogoutStep ==
    ASSUME ServerInv, NEW t \in Tokens, Logout(t)
    PROVE  ServerInv'
<1>1. /\ UNCHANGED <<req, data, token, writer, disk, failed, up>> /\ up
      /\ events < MaxEvents /\ events' = events + 1
      /\ sessions' = [sessions EXCEPT ![t] = Absent]
  BY DEF Logout, Counted
<1>2. sessions \in [Tokens -> SessionType] /\ events \in 0..MaxEvents /\ MaxEvents \in Nat
  BY RequestsAssumption DEF ServerInv, ServerTypeOK, StorageTypeOK, SessionType
<1>3. sessions' \in [Tokens -> SessionType]
  BY <1>1, <1>2 DEF SessionType
<1>4. StorageTypeOK'
  BY <1>1, <1>3 DEF ServerInv, ServerTypeOK, StorageTypeOK, SessionType
<1>5. events' \in 0..MaxEvents
  BY <1>1, <1>2
<1>6. WriteInv'
  BY <1>1 DEF ServerInv, WriteInv, WriteDue, OnDisk
<1> QED
  BY <1>1, <1>4, <1>5, <1>6, QuietStep

LEMMA CrashStep ==
    ASSUME ServerInv, Crash
    PROVE  ServerInv'
<1>1. /\ up' = FALSE /\ data' = NoEntries /\ sessions' = [t \in Tokens |-> Absent]
      /\ token' = FALSE /\ writer' = Resting /\ failed' = FALSE /\ disk' = disk
      /\ req' = [r \in Requests |-> Idle]
      /\ events < MaxEvents /\ events' = events + 1
  BY DEF Crash, StorageCrash, Counted
<1>2. StorageTypeOK'
  <2>1. data' \in Tables /\ writer' \in WriterType
    BY <1>1, NothingType, RestingType
  <2>2. sessions' \in [Tokens -> SessionType]
    BY <1>1 DEF SessionType
  <2>3. token' \in BOOLEAN /\ failed' \in BOOLEAN /\ up' \in BOOLEAN
    BY <1>1
  <2>4. disk' \in [good: BOOLEAN, data: Tables]
    BY <1>1 DEF ServerInv, ServerTypeOK, StorageTypeOK
  <2> QED
    BY <2>1, <2>2, <2>3, <2>4 DEF StorageTypeOK, WriterType, SessionType
<1>3. events' \in 0..MaxEvents
  BY <1>1, RequestsAssumption DEF ServerInv, ServerTypeOK
<1>4. \A r \in Requests : req'[r] = Idle
  BY <1>1
<1>5. req' \in [Requests -> RequestType] /\ RequestsOK' /\ GoneInv'
  BY <1>1, <1>4, IdleType DEF RequestsOK, GoneInv
<1>6. DownInv' /\ WriteInv'
  BY <1>1, <1>4, RestingType DEF DownInv, WriteInv
<1> QED
  BY <1>2, <1>3, <1>5, <1>6 DEF ServerInv, ServerTypeOK

LEMMA FailsStep ==
    ASSUME ServerInv, Fails
    PROVE  ServerInv'
<1>1. /\ up /\ failed' = TRUE /\ writer' = Resting /\ UNCHANGED <<data, sessions, token, disk, up, req>>
      /\ events < MaxEvents /\ events' = events + 1
  BY DEF Fails, StoreFails, Counted
<1>2. failed' \in BOOLEAN /\ writer' \in WriterType
  BY <1>1, RestingType
<1>3. StorageTypeOK'
  BY <1>1, <1>2 DEF ServerInv, ServerTypeOK, StorageTypeOK, WriterType
<1>4. events' \in 0..MaxEvents
  BY <1>1, RequestsAssumption DEF ServerInv, ServerTypeOK
<1>5. WriteInv'
  BY <1>1, RestingType DEF WriteInv
<1> QED
  BY <1>1, <1>3, <1>4, <1>5, QuietStep

LEMMA StartStep ==
    ASSUME ServerInv, Start
    PROVE  ServerInv'
<1>1. /\ ~up /\ disk.good /\ up' = TRUE /\ data' = disk.data
      /\ UNCHANGED <<sessions, token, writer, disk, failed, req, events>>
  BY DEF Start, StorageLoads
<1>2. writer.at = "idle" /\ \A r \in Requests : req[r] = Idle
  BY <1>1 DEF ServerInv, DownInv
<1>3. data' \in Tables /\ up' \in BOOLEAN
  BY <1>1 DEF ServerInv, ServerTypeOK, StorageTypeOK
<1>4. StorageTypeOK'
  BY <1>1, <1>3 DEF ServerInv, ServerTypeOK, StorageTypeOK
<1>5. RequestsOK' /\ GoneInv'
  BY <1>1, <1>2, IdleType DEF RequestsOK, GoneInv
<1>6. DownInv' /\ WriteInv'
  BY <1>1, <1>2 DEF DownInv, WriteInv, OnDisk
<1> QED
  BY <1>1, <1>4, <1>5, <1>6 DEF ServerInv, ServerTypeOK

LEMMA ServerInvStep ==
    ASSUME ServerInv, [ServerNext]_serverVars
    PROVE  ServerInv'
<1>1. CASE UNCHANGED serverVars
  BY <1>1 DEF serverVars, storageVars, ServerInv, ServerTypeOK, StorageTypeOK, RequestsOK, GoneInv,
     DownInv, WriteInv, WriteDue, OnDisk
<1>2. CASE StorageNext /\ UNCHANGED <<req, events>>
  <2>1. UNCHANGED <<data, up>>
    BY <1>2 DEF StorageNext, WriterWakes, StoreLocks, StoreCopies, StoreOpens, StoreEnds, Expire,
       SweepSessions
  <2>1a. up
    BY <1>2 DEF StorageNext, WriterWakes, StoreLocks, StoreCopies, StoreOpens, StoreEnds, Expire,
       SweepSessions
  <2>2. StorageTypeOK'
    BY <1>2, StorageTypes DEF ServerInv, ServerTypeOK
  <2>3. events' \in 0..MaxEvents
    BY <1>2 DEF ServerInv, ServerTypeOK
  <2>4. WriteInv'
    BY <1>2, WriterStep
  <2> QED
    BY <1>2, <2>1, <2>1a, <2>2, <2>3, <2>4, QuietStep
<1> QED
  BY <1>1, <1>2, ArrivalStep, HandleStep, LogoutStep, CrashStep, FailsStep, StartStep DEF ServerNext

LEMMA ServerInitially ==
    ASSUME ServerInit
    PROVE  ServerInv
<1>1. req = [r \in Requests |-> Idle] /\ events = 0 /\ MaxEvents \in Nat
  BY RequestsAssumption DEF ServerInit
<1>2. PICK file \in Tables, given \in [Tokens -> SessionType] : StorageInit(file, given)
  <2>1. CASE StorageInit(Migrated, [t \in Tokens |-> Absent])
    <3>1. \A h \in HostIds : h \in Keys /\ Migrated[h] \in Hosts
      BY DEF Migrated, Hosts, Keys
    <3>2. \A u \in UserIds : u \in Keys /\ Migrated[u] = Absent
      BY IdsAreDistinct DEF Migrated, Keys
    <3>3. Migrated \in [Keys -> Users \cup Hosts \cup {Absent}]
      BY DEF Migrated, Hosts
    <3>4. Migrated \in Tables
      BY <3>1, <3>2, <3>3 DEF Tables
    <3>5. [t \in Tokens |-> Absent] \in [Tokens -> SessionType]
      BY DEF SessionType
    <3> QED
      BY <2>1, <3>4, <3>5
  <2>2. CASE ~StorageInit(Migrated, [t \in Tokens |-> Absent])
    <3> DEFINE u == CHOOSE v \in UserIds : TRUE
               n == CHOOSE m \in Names : TRUE
               t == CHOOSE s \in Tokens : TRUE
               file == [k \in Keys |-> IF k \in HostIds THEN [owner |-> u, paired |-> TRUE]
                                       ELSE IF k = u THEN [name |-> n, role |-> "Admin", password |-> TRUE]
                                       ELSE Absent]
               given == [[s \in Tokens |-> Absent] EXCEPT ![t] = [user |-> u, expired |-> FALSE]]
    <3>1. StorageInit(file, given)
      BY <2>2 DEF ServerInit
    <3>2. u \in UserIds /\ n \in Names /\ t \in Tokens
      BY RequestsAssumption
    <3> HIDE DEF u, n, t
    <3>3. [owner |-> u, paired |-> TRUE] \in Hosts
      BY <3>2 DEF Hosts
    <3>4. [name |-> n, role |-> "Admin", password |-> TRUE] \in Users
      BY <3>2 DEF Users
    <3>5. file \in [Keys -> Users \cup Hosts \cup {Absent}]
      BY <3>3, <3>4
    <3>6. \A h \in HostIds : file[h] \in Hosts
      BY <3>3 DEF Keys
    <3>7. \A v \in UserIds : file[v] \in Users \cup {Absent}
      BY <3>4, IdsAreDistinct DEF Keys
    <3>8. file \in Tables
      BY <3>5, <3>6, <3>7 DEF Tables
    <3>9. [user |-> u, expired |-> FALSE] \in SessionType /\ Absent \in SessionType
      BY <3>2 DEF SessionType
    <3>10. given \in [Tokens -> SessionType]
      BY <3>9
    <3> QED
      BY <3>1, <3>8, <3>10
  <2> QED
    BY <2>1, <2>2
<1>3. /\ data = file /\ disk = [good |-> TRUE, data |-> file] /\ sessions = given
      /\ token = FALSE /\ failed = FALSE /\ up = TRUE /\ writer = Resting
  BY <1>2 DEF StorageInit
<1>4. StorageTypeOK
  <2>1. token \in BOOLEAN /\ failed \in BOOLEAN /\ up \in BOOLEAN
    BY <1>3
  <2>2. disk \in [good: BOOLEAN, data: Tables]
    BY <1>3
  <2>3. writer \in WriterType
    BY <1>3, RestingType
  <2> QED
    BY <1>3, <2>1, <2>2, <2>3 DEF StorageTypeOK, WriterType, SessionType
<1>5. \A r \in Requests : req[r] = Idle
  BY <1>1
<1>6. ServerTypeOK
  BY <1>1, <1>4, IdleType DEF ServerTypeOK
<1>7. RequestsOK /\ GoneInv
  BY <1>5, IdleType DEF RequestsOK, GoneInv
<1>8. DownInv
  BY <1>3 DEF DownInv
<1>9. WriteInv
  BY <1>3, RestingType DEF WriteInv, OnDisk
<1> QED
  BY <1>6, <1>7, <1>8, <1>9 DEF ServerInv

\* For any users, hosts, names and sessions, any number of requests at a time, crashes and
\* failed writes: types, and a file only ever holds entries of the right kind.
THEOREM ServerTyped == ServerFairSpec => []ServerTypeOK
<1>1. ServerInv => ServerTypeOK
  BY DEF ServerInv
<1> QED
  BY <1>1, ServerInitially, ServerInvStep, PTL DEF ServerFairSpec, ServerSpec

\* An entry that differs from the file is about to be written, whatever the handlers change
\* while store() copies (force_write, file_writer, store).
THEOREM ChangesAlwaysDue == ServerFairSpec => []ChangesAreDue
<1>1. ServerInv => ChangesAreDue
  BY DEF ServerInv, WriteInv, ChangesAreDue, OnDisk
<1> QED
  BY <1>1, ServerInitially, ServerInvStep, PTL DEF ServerFairSpec, ServerSpec

-----------------------------------------------------------------------------
(* What the session of a deleted user can do.                              *)

KeptOut ==
  \A r \in Requests :
    up' /\ req'[r] # req[r] /\ req[r].user # Absent /\ req[r].role = "Gone"
      => LET h == req[r].target IN
         /\ \A k \in Keys : data'[k] # data[k] => k = h /\ k \in HostIds /\ data'[k] = Absent
         /\ req'[r].at = "change" => data[h].owner = req[r].user

LEMMA GoneHandles ==
    ASSUME ServerInv, NEW r \in Requests, Handle(r), IsGone(req[r])
    PROVE  LET h == req[r].target IN
           /\ \A k \in Keys : data'[k] # data[k] => k = h /\ k \in HostIds /\ data'[k] = Absent
           /\ req'[r].at = "change" => data[h].owner = req[r].user
<1> DEFINE R == req[r]
           h == req[r].target
<1>1. /\ R \in RequestType /\ RequestOK(R) /\ GoneOK(R) /\ data[R.user] = Absent /\ data \in Tables
      /\ req \in [Requests -> RequestType]
  BY DEF ServerInv, ServerTypeOK, StorageTypeOK, RequestsOK, GoneInv
<1>2. /\ R.op \in HostOps /\ R.at \in {"look", "change"} /\ h \in HostIds /\ R.user \in UserIds
      /\ R.at = "change" => R.op = "deleteHost"
  BY <1>1 DEF GoneOK, RequestOK
<1>3. ~IsAdmin(R.user) /\ Role(R.user) = "Gone"
  BY <1>1, <1>2, RoleType DEF IsAdmin
<1>4. CASE Ends(r) /\ UNCHANGED data
  <2>1. req'[r].at = "idle"
    BY <1>1, <1>4 DEF Ends, Idle
  <2> QED
    BY <1>4, <2>1
<1>5. CASE DeleteHost(r)
  <2>1. CASE data[h] # Absent /\ data[h].owner = R.user
    BY <1>5, <2>1 DEF DeleteHost, Goes, OnlyReads
  <2>2. CASE ~(data[h] # Absent /\ data[h].owner = R.user)
    BY <1>3, <1>4, <1>5, <2>2 DEF DeleteHost, Goes, OnlyReads
  <2> QED
    BY <2>1, <2>2
<1>6. CASE PatchHost(r) \/ PairHost(r)
  BY <1>3, <1>4, <1>6 DEF PatchHost, PairHost, Goes, Fail, OnlyReads
<1>7. CASE RemoveHost(r)
  <2>1. req'[r].at = "idle"
    BY <1>1, <1>7 DEF RemoveHost, Ends, Idle
  <2>2. UNCHANGED data \/ data' = [data EXCEPT ![h] = Absent]
    BY <1>7 DEF RemoveHost, OnlyReads, Put
  <2>3. \A k \in Keys : data'[k] # data[k] => k = h /\ data'[k] = Absent
    BY <1>1, <2>2, TableTypes
  <2> QED
    BY <1>2, <2>1, <2>3
<1> QED
  BY <1>2, <1>5, <1>6, <1>7 DEF Handle, NameIsFree, InsertUser, ModifyUser, RemoveUser, RequestWrite,
     ListHosts, AssignHost, NewSession, HostNotFound, AddHost, ModifyHost, HostOps

LEMMA GoneKeepsOut ==
    ASSUME ServerInv, [ServerNext]_serverVars
    PROVE  KeptOut
<1> SUFFICES ASSUME NEW r \in Requests, up', req'[r] # req[r], IsGone(req[r])
             PROVE  LET h == req[r].target IN
                    /\ \A k \in Keys :
                         data'[k] # data[k] => k = h /\ k \in HostIds /\ data'[k] = Absent
                    /\ req'[r].at = "change" => data[h].owner = req[r].user
  BY DEF KeptOut, IsGone
<1>1. req \in [Requests -> RequestType] /\ data \in Tables /\ RequestsOK /\ GoneInv
  BY DEF ServerInv, ServerTypeOK, StorageTypeOK
<1>2. req[r] # Idle
  BY IdleType
<1>3. ASSUME NEW q \in Requests, Arrives(q) PROVE FALSE
  <2>1. PICK new : Arrive(q, new)
    BY <1>1, <1>3, ArrivesFit DEF Arrival
  <2>2. req[q] = Idle /\ req' = [req EXCEPT ![q] = new]
    BY <2>1 DEF Arrive, Free, Step
  <2>3. r # q
    BY <1>2, <2>2
  <2> QED
    BY <1>1, <2>2, <2>3
<1>4. ASSUME NEW q \in Requests, Handle(q) PROVE q = r
  <2>1. PICK new : req' = [req EXCEPT ![q] = new]
    BY <1>1, <1>4, HandleMoves DEF Moved
  <2> QED
    BY <1>1, <2>1
<1>5. ~UNCHANGED req
  OBVIOUS
<1>6. ~Crash
  BY DEF Crash, StorageCrash
<1> QED
  BY <1>3, <1>4, <1>5, <1>6, GoneHandles DEF ServerNext, Logout, Fails, Start, serverVars

\* For any requests at a time: the session of a deleted user takes away hosts that were his
\* own when it asked, and nothing else (AuthenticatedUser::host, Host::delete, Host::modify).
THEOREM DeletedUsersAlwaysKeptOut == ServerFairSpec => DeletedUsersKeepOut
<1>1. ServerInv /\ [ServerNext]_serverVars => [KeptOut]_serverVars
  BY GoneKeepsOut
<1>2. ServerFairSpec => [][KeptOut]_serverVars
  BY <1>1, ServerInitially, ServerInvStep, PTL DEF ServerFairSpec, ServerSpec
<1> QED
  BY <1>2 DEF DeletedUsersKeepOut, KeptOut
=============================================================================
