--------------------------- MODULE KeyboardProofs ---------------------------
(* Theorems about Keyboard for every set of keys and modifiers and every   *)
(* bound: types, that the streamer knows the keys that are down at the     *)
(* host, and that every key the browser has given up is released.          *)
EXTENDS Keyboard, TLAPS, SequenceTheorems

LEMMA RaisedType ==
    ASSUME TypeOK
    PROVE  Raised \in Seq(Packets) /\ Append(Raised, Reset) \in Seq(Packets)
<1>1. Packet("up", pressedKeys) \in Packets /\ Reset \in Packets
  BY DEF TypeOK, Packets, Packet, Reset
<1>2. Raised \in Seq(Packets)
  BY <1>1 DEF Raised
<1> QED
  BY <1>1, <1>2, AppendProperties

LEMMA SendType ==
    ASSUME TypeOK, NEW packets \in Seq(Packets), Send(packets)
    PROVE  toStreamer' \in Seq(Packets) /\ sendQueue' \in Seq(Packets)
<1>1. /\ toStreamer \in Seq(Packets) /\ sendQueue \in Seq(Packets)
      /\ <<>> \in Seq(Packets)
  BY DEF TypeOK
<1>2. /\ sendQueue \o packets \in Seq(Packets)
      /\ toStreamer \o sendQueue \in Seq(Packets)
  BY <1>1, ConcatProperties
<1>3. toStreamer \o sendQueue \o packets \in Seq(Packets)
  BY <1>2, ConcatProperties
<1> QED
  BY <1>1, <1>2, <1>3 DEF Send

LEMMA ResetType ==
    ASSUME TypeOK, ResetAllKeys
    PROVE  /\ pressedKeys' \subseteq Keys
           /\ toStreamer' \in Seq(Packets) /\ sendQueue' \in Seq(Packets)
  BY RaisedType, SendType DEF ResetAllKeys

LEMMA SendKeyEventType ==
    ASSUME TypeOK, NEW op \in {"down", "up"}, NEW key \in Keys,
           SendKeyEvent(op, key)
    PROVE  /\ pressedKeys' \subseteq Keys /\ quiet' \in BOOLEAN
           /\ toStreamer' \in Seq(Packets) /\ sendQueue' \in Seq(Packets)
<1>1. <<Packet(op, {key})>> \in Seq(Packets)
  BY DEF Packets, Packet
<1>2. CASE UNCHANGED <<pressedKeys, sendQueue, toStreamer>>
  BY <1>2 DEF SendKeyEvent, TypeOK
<1>3. CASE ~UNCHANGED <<pressedKeys, sendQueue, toStreamer>>
  <2>1. Send(<<Packet(op, {key})>>)
    BY <1>3 DEF SendKeyEvent
  <2>2. toStreamer' \in Seq(Packets) /\ sendQueue' \in Seq(Packets)
    BY <1>1, <2>1, SendType
  <2> QED
    BY <1>3, <2>2 DEF SendKeyEvent, TypeOK
<1> QED
  BY <1>2, <1>3

LEMMA SomeType ==
    ASSUME NEW op \in {"down", "up"}, NEW keys \in SUBSET Keys
    PROVE  Some(op, keys) \in Seq(Packets)
<1>1. Packet(op, keys) \in Packets /\ <<>> \in Seq(Packets)
  BY DEF Packets, Packet
<1> QED
  BY <1>1 DEF Some

LEMMA SteeredType ==
    ASSUME TypeOK, NEW dir \in SUBSET StickKeys
    PROVE  Steered(dir) \in Seq(Packets)
<1>1. stick.dir \ dir \in SUBSET Keys /\ dir \ stick.dir \in SUBSET Keys
  BY KeysAssumption DEF TypeOK
<1>2. /\ Some("up", stick.dir \ dir) \in Seq(Packets)
      /\ Some("down", dir \ stick.dir) \in Seq(Packets)
  BY <1>1, SomeType
<1> QED
  BY <1>2, ConcatProperties DEF Steered

LEMMA InitTypeOK == Init => TypeOK
<1>1. Idle \in [op : {"down", "up", "release"}, keys : SUBSET Keys]
  BY DEF Idle, Packet
<1>2. <<>> \in Seq(Packets)
  OBVIOUS
<1>3. 0 \in 0..MaxEvents
  BY BoundsAssumption
<1>4. ASSUME Init
      PROVE  stick \in [drag : {"none", "keys", "analog"}, dir : SUBSET StickKeys]
  BY <1>4 DEF Init
<1>5. ASSUME Init
      PROVE  /\ inWindow \in BOOLEAN /\ quiet \in BOOLEAN
             /\ reading \in BOOLEAN /\ streaming \in BOOLEAN
  BY <1>5 DEF Init
<1> QED
  BY <1>1, <1>2, <1>3, <1>4, <1>5, KeysAssumption
     DEF Init, TypeOK, Focus, Channel

LEMMA NextTypeOK == TypeOK /\ [Next]_vars => TypeOK'
<1> SUFFICES ASSUME TypeOK, [Next]_vars PROVE TypeOK'
  OBVIOUS
<1> USE DEF userVars, pageVars, wireVars, streamerVars
<1>1. ASSUME NEW key \in Keys, OnKeyDown(key) PROVE TypeOK'
  <2>1. /\ pressedKeys' \subseteq Keys /\ quiet' \in BOOLEAN
        /\ toStreamer' \in Seq(Packets) /\ sendQueue' \in Seq(Packets)
    BY <1>1, ResetType, SendKeyEventType DEF OnKeyDown, TypeOK
  <2>2. UNION HeldModifiers \subseteq Keys
    BY KeysAssumption DEF HeldModifiers
  <2>3. skipNextHostKeyUpCodes' \subseteq Keys /\ reading' \in BOOLEAN
    BY <1>1, <2>2 DEF OnKeyDown, TypeOK
  <2>4. events' \in 0..MaxEvents
    BY <1>1, BoundsAssumption DEF OnKeyDown, UserStep, TypeOK
  <2> QED
    BY <1>1, <2>1, <2>3, <2>4 DEF OnKeyDown, TypeOK
<1>2. ASSUME NEW key \in Keys, OnKeyUp(key) PROVE TypeOK'
  <2>1. /\ pressedKeys' \subseteq Keys /\ quiet' \in BOOLEAN
        /\ toStreamer' \in Seq(Packets) /\ sendQueue' \in Seq(Packets)
    BY <1>2, ResetType, SendKeyEventType DEF OnKeyUp, TypeOK
  <2>2. events' \in 0..MaxEvents
    BY <1>2, BoundsAssumption DEF OnKeyUp, UserStep, TypeOK
  <2> QED
    BY <1>2, <2>1, <2>2 DEF OnKeyUp, TypeOK
<1>3. ASSUME NEW key \in Buttons, SendKeycode(key) PROVE TypeOK'
  <2>1. <<Packet("down", {key}), Packet("up", {key})>> \in Seq(Packets)
    BY KeysAssumption DEF Packets, Packet
  <2>2. toStreamer' \in Seq(Packets) /\ sendQueue' \in Seq(Packets)
    BY <1>3, <2>1, SendType DEF SendKeycode
  <2>3. events' \in 0..MaxEvents
    BY <1>3, BoundsAssumption DEF SendKeycode, UserStep, TypeOK
  <2> QED
    BY <1>3, <2>2, <2>3 DEF SendKeycode, TypeOK
<1>4. CASE ChangeWindow
  <2>1. events' \in 0..MaxEvents
    BY <1>4, BoundsAssumption DEF ChangeWindow, UserStep, TypeOK
  <2> QED
    BY <1>4, <2>1, ResetType DEF ChangeWindow, TypeOK
<1>5. ASSUME NEW f \in Focus, ChangeFocus(f) PROVE TypeOK'
  <2>1. events' \in 0..MaxEvents
    BY <1>5, BoundsAssumption DEF ChangeFocus, UserStep, TypeOK
  <2> QED
    BY <1>5, <2>1, ResetType DEF ChangeFocus, TypeOK
<1>6. CASE ClipboardRead
  BY <1>6, RaisedType, SendType DEF ClipboardRead, RaiseAllKeys, TypeOK
<1>7. CASE WatchdogTick
  BY <1>7, ResetType DEF WatchdogTick, TypeOK
<1>8. CASE Silence
  BY <1>8 DEF Silence, TypeOK
<1>9. CASE SetTransport \/ ChannelOpens
  <2>1. <<>> \in Seq(Packets)
    OBVIOUS
  <2> QED
    BY <1>9, <2>1 DEF SetTransport, ChannelOpens, TypeOK, Channel
<1>10. CASE ChannelCloses
  <2>1. PICK n \in 0..Len(toStreamer) : toStreamer' = SubSeq(toStreamer, 1, n)
    BY <1>10 DEF ChannelCloses
  <2>2. toStreamer' \in Seq(Packets)
    BY <2>1, SubSeqProperties DEF TypeOK
  <2> QED
    BY <1>10, <2>2 DEF ChannelCloses, TypeOK, Channel
<1>11. CASE StreamStarts \/ Stop
  BY <1>11 DEF StreamStarts, Stop, TypeOK
<1>12. CASE OnPacket
  <2>1. Tail(toStreamer) \in Seq(Packets) /\ Head(toStreamer) \in Packets
    BY <1>12, HeadTailProperties DEF OnPacket, TypeOK
  <2>2. /\ task' \in [op : {"down", "up", "release"}, keys : SUBSET Keys]
        /\ pressed_keys' \subseteq Keys
    BY <1>12, <2>1 DEF OnPacket, TypeOK, Packets, Packet, Idle
  <2> QED
    BY <1>12, <2>1, <2>2 DEF OnPacket, TypeOK
<1>13. ASSUME NEW key \in Keys, OnKey(key) PROVE TypeOK'
  BY <1>13 DEF OnKey, TypeOK
<1>14. ASSUME NEW key \in Keys, ReleaseKey(key) PROVE TypeOK'
  BY <1>14 DEF ReleaseKey, TypeOK, Idle, Packet
<1>15. ASSUME NEW key \in Buttons, SendDigitalDown(key) \/ SendDigitalUp(key)
       PROVE  TypeOK'
  <2>1. /\ <<Packet("down", {key})>> \in Seq(Packets)
        /\ <<Packet("up", {key})>> \in Seq(Packets)
    BY KeysAssumption DEF Packets, Packet
  <2>2. toStreamer' \in Seq(Packets) /\ sendQueue' \in Seq(Packets)
    BY <1>15, <2>1, SendType DEF SendDigitalDown, SendDigitalUp
  <2>3. events' \in 0..MaxEvents
    BY <1>15, BoundsAssumption
       DEF SendDigitalDown, SendDigitalUp, UserStep, TypeOK
  <2>4. touched' \subseteq Buttons /\ stale' \subseteq Buttons
    BY <1>15 DEF SendDigitalDown, SendDigitalUp, TypeOK
  <2> QED
    BY <1>15, <2>2, <2>3, <2>4 DEF SendDigitalDown, SendDigitalUp, TypeOK
<1>16. CASE RenderControls
  <2>1. events' \in 0..MaxEvents
    BY <1>16, BoundsAssumption DEF RenderControls, UserStep, TypeOK
  <2>2. touched' \subseteq Buttons /\ stale' \subseteq Buttons
    BY <1>16 DEF RenderControls, TypeOK
  <2>3. Steered({}) \in Seq(Packets) /\ Send(Steered({}))
    BY <1>16, SteeredType DEF RenderControls
  <2>4. toStreamer' \in Seq(Packets) /\ sendQueue' \in Seq(Packets)
    BY <2>3, SendType
  <2> QED
    BY <1>16, <2>1, <2>2, <2>4 DEF RenderControls, TypeOK
<1>17. ASSUME NEW kind \in {"keys", "analog"}, StickDown(kind) PROVE TypeOK'
  <2>1. events' \in 0..MaxEvents
    BY <1>17, BoundsAssumption DEF StickDown, UserStep, TypeOK
  <2> QED
    BY <1>17, <2>1 DEF StickDown, TypeOK
<1>18. ASSUME NEW dir \in {{}} \cup {{key} : key \in StickKeys},
              StickMoves(dir)
       PROVE  TypeOK'
  <2>1. events' \in 0..MaxEvents
    BY <1>18, BoundsAssumption DEF StickMoves, UserStep, TypeOK
  <2>2. dir \in SUBSET StickKeys
    OBVIOUS
  <2>3. Steered(dir) \in Seq(Packets) /\ Send(Steered(dir))
    BY <1>18, <2>2, SteeredType DEF StickMoves
  <2>4. toStreamer' \in Seq(Packets) /\ sendQueue' \in Seq(Packets)
    BY <2>3, SendType
  <2> QED
    BY <1>18, <2>1, <2>2, <2>4 DEF StickMoves, TypeOK
<1>19. CASE EndStick
  <2>1. events' \in 0..MaxEvents
    BY <1>19, BoundsAssumption DEF EndStick, UserStep, TypeOK
  <2>2. PICK dir \in SUBSET StickKeys :
            stick' = [drag |-> "none", dir |-> dir] /\ Send(Steered(dir))
    BY <1>19 DEF EndStick, TypeOK
  <2>3. toStreamer' \in Seq(Packets) /\ sendQueue' \in Seq(Packets)
    BY <2>2, SteeredType, SendType
  <2> QED
    BY <1>19, <2>1, <2>2, <2>3 DEF EndStick, TypeOK
<1>20. CASE UNCHANGED vars
  BY <1>20 DEF vars, TypeOK
<1> QED
  BY <1>1, <1>2, <1>3, <1>4, <1>5, <1>6, <1>7, <1>8, <1>9, <1>10, <1>11,
     <1>12, <1>13, <1>14, <1>15, <1>16, <1>17, <1>18, <1>19, <1>20
     DEF Next, User, Streamer

(* TypeOK holds in every reachable state: key events, packets and sets stay *)
(* within Keys.                                                             *)
THEOREM TypeCorrect == Spec => []TypeOK
<1> QED
  BY InitTypeOK, NextTypeOK, PTL DEF Spec
-----------------------------------------------------------------------------
(* How a sequence of packets leaves one key.                               *)

LEMMA Weaken ==
    ASSUME NEW q \in Seq(Packets), NEW key, NEW r \in BOOLEAN,
           NEW s \in BOOLEAN, r => s, LastReleases(q, key, r)
    PROVE  LastReleases(q, key, s)
  BY DEF LastReleases

LEMMA Witnessed ==
    ASSUME NEW q, NEW key, NEW r, NEW i \in 0..Len(q), i = 0 => r,
           i > 0 => Releases(q[i], key),
           \A j \in (i + 1)..Len(q) : ~Presses(q[j], key)
    PROVE  LastReleases(q, key, r)
  BY DEF LastReleases

LEMMA Joined ==
    ASSUME NEW q \in Seq(Packets), NEW p \in Seq(Packets), NEW key,
           NEW r \in BOOLEAN,
           LastReleases(p, key, LastReleases(q, key, r))
    PROVE  LastReleases(q \o p, key, r)
<1>1. /\ Len(q \o p) = Len(q) + Len(p)
      /\ Len(q) \in Nat /\ Len(p) \in Nat
      /\ \A j \in 1..Len(q) : (q \o p)[j] = q[j]
      /\ \A j \in (Len(q) + 1)..(Len(q) + Len(p)) :
            (q \o p)[j] = p[j - Len(q)]
  BY ConcatProperties
<1>2. PICK i \in 0..Len(p) :
          /\ i = 0 => LastReleases(q, key, r)
          /\ i > 0 => Releases(p[i], key)
          /\ \A j \in (i + 1)..Len(p) : ~Presses(p[j], key)
  BY DEF LastReleases
<1>3. ASSUME NEW j \in (Len(q) + i + 1)..(Len(q) + Len(p))
      PROVE  ~Presses((q \o p)[j], key)
  <2>1. /\ j - Len(q) \in (i + 1)..Len(p)
        /\ j \in (Len(q) + 1)..(Len(q) + Len(p))
    BY <1>1
  <2> QED
    BY <1>1, <1>2, <2>1
<1>4. CASE i > 0
  <2>1. /\ Len(q) + i \in (Len(q) + 1)..(Len(q) + Len(p))
        /\ (Len(q) + i) - Len(q) = i
    BY <1>1, <1>4
  <2>2. Releases((q \o p)[Len(q) + i], key)
    BY <1>1, <1>2, <1>4, <2>1
  <2>3. Len(q) + i \in 0..Len(q \o p) /\ Len(q) + i # 0
    BY <1>1, <1>4
  <2>4. \A j \in ((Len(q) + i) + 1)..Len(q \o p) :
            ~Presses((q \o p)[j], key)
    BY <1>1, <1>3
  <2> QED
    BY <2>2, <2>3, <2>4, Witnessed
<1>5. CASE i = 0
  <2>1. PICK k \in 0..Len(q) :
            /\ k = 0 => r
            /\ k > 0 => Releases(q[k], key)
            /\ \A j \in (k + 1)..Len(q) : ~Presses(q[j], key)
    BY <1>2, <1>5 DEF LastReleases
  <2>2. k \in 0..Len(q \o p)
    BY <1>1
  <2>3. k > 0 => Releases((q \o p)[k], key)
    <3>1. k > 0 => k \in 1..Len(q)
      BY <1>1
    <3> QED
      BY <1>1, <2>1, <3>1
  <2>4. ASSUME NEW j \in (k + 1)..Len(q \o p)
        PROVE  ~Presses((q \o p)[j], key)
    <3>1. CASE j <= Len(q)
      <4>1. j \in 1..Len(q) /\ j \in (k + 1)..Len(q)
        BY <1>1, <3>1
      <4> QED
        BY <1>1, <2>1, <4>1
    <3>2. CASE ~(j <= Len(q))
      <4>1. j \in (Len(q) + i + 1)..(Len(q) + Len(p))
        BY <1>1, <1>5, <3>2
      <4> QED
        BY <1>3, <4>1
    <3> QED
      BY <3>1, <3>2
  <2> QED
    BY <2>1, <2>2, <2>3, <2>4 DEF LastReleases
<1> QED
  BY <1>1, <1>4, <1>5

LEMMA HeadTailJoined ==
    ASSUME NEW q \in Seq(Packets), q # <<>>, NEW p \in Seq(Packets)
    PROVE  /\ q \o p # <<>>
           /\ Head(q \o p) = Head(q)
           /\ Tail(q \o p) = Tail(q) \o p
<1>1. /\ q \o p \in Seq(Packets) /\ Tail(q) \in Seq(Packets)
      /\ Len(q) \in Nat \ {0} /\ Len(p) \in Nat
      /\ Len(q \o p) = Len(q) + Len(p)
      /\ Len(Tail(q)) = Len(q) - 1 /\ Head(q) = q[1]
      /\ \A j \in 1..Len(q) : (q \o p)[j] = q[j]
      /\ \A j \in (Len(q) + 1)..(Len(q) + Len(p)) :
            (q \o p)[j] = p[j - Len(q)]
      /\ \A j \in 1..Len(Tail(q)) : Tail(q)[j] = q[j + 1]
  BY HeadTailProperties, EmptySeq, ConcatProperties
<1>2. q \o p # <<>>
  BY <1>1, EmptySeq
<1>3. /\ Tail(q \o p) \in Seq(Packets) /\ Head(q \o p) = (q \o p)[1]
      /\ Len(Tail(q \o p)) = Len(q) + Len(p) - 1
      /\ \A j \in 1..Len(Tail(q \o p)) : Tail(q \o p)[j] = (q \o p)[j + 1]
  BY <1>1, <1>2, HeadTailProperties
<1>4. /\ Tail(q) \o p \in Seq(Packets)
      /\ Len(Tail(q) \o p) = Len(q) + Len(p) - 1
      /\ \A j \in 1..Len(Tail(q)) : (Tail(q) \o p)[j] = Tail(q)[j]
      /\ \A j \in (Len(Tail(q)) + 1)..(Len(Tail(q)) + Len(p)) :
            (Tail(q) \o p)[j] = p[j - Len(Tail(q))]
  BY <1>1, ConcatProperties
<1>5. ASSUME NEW j \in 1..(Len(q) + Len(p) - 1)
      PROVE  Tail(q \o p)[j] = (Tail(q) \o p)[j]
  <2>1. Tail(q \o p)[j] = (q \o p)[j + 1]
    BY <1>3
  <2>2. CASE j <= Len(q) - 1
    <3>1. j + 1 \in 1..Len(q) /\ j \in 1..Len(Tail(q))
      BY <1>1, <2>2
    <3> QED
      BY <1>1, <1>4, <2>1, <3>1
  <2>3. CASE j > Len(q) - 1
    <3>1. /\ j + 1 \in (Len(q) + 1)..(Len(q) + Len(p))
          /\ j \in (Len(Tail(q)) + 1)..(Len(Tail(q)) + Len(p))
          /\ (j + 1) - Len(q) = j - Len(Tail(q))
      BY <1>1, <2>3
    <3> QED
      BY <1>1, <1>4, <2>1, <3>1
  <2> QED
    BY <1>1, <2>2, <2>3
<1>6. Tail(q \o p) = Tail(q) \o p
  BY <1>3, <1>4, <1>5, SeqEqual
<1> QED
  BY <1>1, <1>2, <1>3, <1>6

(* What the head does to the key is what the rest starts from.             *)
LEMMA Headless ==
    ASSUME NEW q \in Seq(Packets), q # <<>>, NEW key,
           NEW r \in BOOLEAN, LastReleases(q, key, r)
    PROVE  LastReleases(Tail(q), key,
               \/ Releases(Head(q), key)
               \/ (r /\ ~Presses(Head(q), key)))
<1>1. /\ Head(q) = q[1] /\ Len(Tail(q)) = Len(q) - 1
      /\ Len(q) \in Nat \ {0}
      /\ \A j \in 1..Len(Tail(q)) : Tail(q)[j] = q[j + 1]
  BY HeadTailProperties, EmptySeq
<1>2. PICK i \in 0..Len(q) :
          /\ i = 0 => r
          /\ i > 0 => Releases(q[i], key)
          /\ \A j \in (i + 1)..Len(q) : ~Presses(q[j], key)
  BY DEF LastReleases
<1>3. ASSUME NEW k \in 0..Len(Tail(q)), k + 1 >= i,
             NEW j \in (k + 1)..Len(Tail(q))
      PROVE  ~Presses(Tail(q)[j], key)
  <2>1. j \in 1..Len(Tail(q)) /\ j + 1 \in (i + 1)..Len(q)
    BY <1>1, <1>3
  <2> QED
    BY <1>1, <1>2, <2>1
<1>4. CASE i > 1
  <2>1. /\ i - 1 \in 0..Len(Tail(q)) /\ i - 1 > 0
        /\ i - 1 \in 1..Len(Tail(q)) /\ (i - 1) + 1 = i
    BY <1>1, <1>4
  <2>2. Releases(Tail(q)[i - 1], key)
    BY <1>1, <1>2, <1>4, <2>1
  <2>3. \A j \in ((i - 1) + 1)..Len(Tail(q)) : ~Presses(Tail(q)[j], key)
    <3>1. (i - 1) + 1 >= i
      BY <2>1
    <3> QED
      BY <1>3, <2>1, <3>1
  <2>4. i - 1 # 0
    BY <2>1
  <2> QED
    BY <2>1, <2>2, <2>3, <2>4, Witnessed
<1>5. CASE i <= 1
  <2>1. Releases(Head(q), key) \/ (r /\ ~Presses(Head(q), key))
    <3>1. CASE i = 1
      <4>1. i > 0 /\ q[i] = Head(q)
        BY <1>1, <3>1
      <4>2. Releases(q[i], key)
        BY <1>2, <4>1
      <4>3. Releases(Head(q), key)
        BY <4>1, <4>2 DEF Releases
      <4> QED
        BY <4>3
    <3>2. CASE i = 0
      <4>1. 1 \in (i + 1)..Len(q)
        BY <1>1, <3>2
      <4> QED
        BY <1>1, <1>2, <3>2, <4>1
    <3>3. i = 0 \/ i = 1
      BY <1>5
    <3> QED
      BY <3>1, <3>2, <3>3
  <2>2. 0 \in 0..Len(Tail(q)) /\ 0 + 1 >= i /\ ~(0 > 0)
    BY <1>1, <1>5
  <2>3. \A j \in (0 + 1)..Len(Tail(q)) : ~Presses(Tail(q)[j], key)
    BY <1>3, <2>2
  <2> QED
    BY <2>1, <2>2, <2>3, Witnessed
<1>6. i > 1 \/ i <= 1
  BY <1>1
<1> QED
  BY <1>4, <1>5, <1>6

-----------------------------------------------------------------------------
(* The inductive invariant: the two properties, and what holds before the  *)
(* channel opens and while there is no stream.                             *)
WithoutStream ==
    ~streaming => pressed_keys = {} /\ task.keys = {} /\ host = {}
BeforeOpening ==
    /\ channel \in {"none", "connecting"} => toStreamer = <<>> /\ ~streaming
    /\ channel = "none" => sendQueue = <<>>
KInv ==
    /\ WithoutStream /\ BeforeOpening
    /\ HostKeysAreTracked /\ EveryReleaseIsUnderWay

(* What every handler of the page does to the keys: it sends packets that  *)
(* leave released what it gives up, and presses nothing it gave up.        *)
PageStep ==
    /\ UNCHANGED <<channel, streamerVars>>
    /\ \E packets \in Seq(Packets) :
          /\ Send(packets)
          /\ \A key \in Keys \ Down' :
                LastReleases(packets, key, key \notin Down)

(* Most of them leave the buttons of the overlay alone.                    *)
KeyStep ==
    /\ UNCHANGED <<touched, stale, stick, channel, streamerVars>>
    /\ \E packets \in Seq(Packets) :
          /\ Send(packets)
          /\ \A key \in Keys \ pressedKeys' :
                LastReleases(packets, key, key \notin pressedKeys)

LEMMA KeyStepIsPageStep == KeyStep => PageStep
<1> SUFFICES ASSUME KeyStep PROVE PageStep
  OBVIOUS
<1>1. PICK packets \in Seq(Packets) :
          /\ Send(packets)
          /\ \A key \in Keys \ pressedKeys' :
                LastReleases(packets, key, key \notin pressedKeys)
  BY DEF KeyStep
<1>2. UNCHANGED <<touched, stale, stick, channel, streamerVars>>
  BY DEF KeyStep
<1>3. ASSUME NEW key \in Keys \ Down'
      PROVE  LastReleases(packets, key, key \notin Down)
  <2>1. /\ key \in Keys \ pressedKeys'
        /\ (key \notin pressedKeys) => (key \notin Down)
    BY <1>2, <1>3 DEF Down
  <2>2. (key \notin pressedKeys) \in BOOLEAN /\ (key \notin Down) \in BOOLEAN
    OBVIOUS
  <2>3. LastReleases(packets, key, key \notin pressedKeys)
    BY <1>1, <2>1
  <2> QED
    BY <2>1, <2>2, <2>3, Weaken
<1> QED
  BY <1>1, <1>2, <1>3 DEF PageStep

LEMMA SendNothing ==
    ASSUME UNCHANGED <<sendQueue, toStreamer>>, TypeOK
    PROVE  Send(<<>>)
<1>1. sendQueue \o <<>> = sendQueue
  BY ConcatEmptySeq DEF TypeOK
<1> QED
  BY <1>1 DEF Send

LEMMA NothingReleased ==
    ASSUME NEW key, NEW r \in BOOLEAN, r
    PROVE  LastReleases(<<>>, key, r)
<1>1. 0 \in 0..Len(<<>>) /\ ~(0 > 0) /\ \A j \in (0 + 1)..Len(<<>>) : FALSE
  OBVIOUS
<1> QED
  BY <1>1 DEF LastReleases

LEMMA NoKeysChange ==
    ASSUME TypeOK,
           UNCHANGED <<touched, stale, stick, channel, streamerVars, pressedKeys,
                       sendQueue, toStreamer>>
    PROVE  KeyStep
<1>1. <<>> \in Seq(Packets) /\ Send(<<>>)
  BY SendNothing
<1>2. ASSUME NEW key \in Keys \ pressedKeys'
      PROVE  LastReleases(<<>>, key, key \notin pressedKeys)
  BY NothingReleased
<1> QED
  BY <1>1, <1>2 DEF KeyStep

LEMMA RaisedReleases ==
    ASSUME TypeOK, NEW key \in Keys
    PROVE  LastReleases(Raised, key, key \notin pressedKeys)
<1>1. CASE pressedKeys = {}
  BY <1>1, NothingReleased DEF Raised
<1>2. CASE pressedKeys # {}
  <2> DEFINE p == Packet("up", pressedKeys)
  <2>1. Raised = <<p>> /\ Len(<<p>>) = 1 /\ <<p>>[1] = p
    BY <1>2 DEF Raised
  <2>2. ~Presses(p, key) /\ (key \in pressedKeys => Releases(p, key))
    BY DEF Presses, Releases, Packet
  <2> HIDE DEF p
  <2>3. CASE key \in pressedKeys
    <3>1. /\ 1 \in 0..Len(<<p>>) /\ 1 # 0
          /\ \A j \in (1 + 1)..Len(<<p>>) : FALSE
      BY <2>1
    <3> QED
      BY <2>1, <2>2, <2>3, <3>1 DEF LastReleases
  <2>4. CASE key \notin pressedKeys
    <3>1. /\ 0 \in 0..Len(<<p>>) /\ ~(0 > 0)
          /\ \A j \in (0 + 1)..Len(<<p>>) : j = 1
      BY <2>1
    <3> QED
      BY <2>1, <2>2, <2>4, <3>1 DEF LastReleases
  <2> QED
    BY <2>3, <2>4
<1> QED
  BY <1>1, <1>2

LEMMA LastIsRelease ==
    ASSUME NEW q \in Seq(Packets), NEW p \in Packets, NEW key,
           NEW r \in BOOLEAN, Releases(p, key)
    PROVE  LastReleases(Append(q, p), key, r)
<1>1. /\ Len(Append(q, p)) = Len(q) + 1 /\ Len(q) \in Nat
      /\ Append(q, p)[Len(q) + 1] = p
  BY AppendProperties
<1>2. /\ Len(q) + 1 \in 0..Len(Append(q, p)) /\ Len(q) + 1 # 0
      /\ \A j \in ((Len(q) + 1) + 1)..Len(Append(q, p)) : FALSE
  BY <1>1
<1> QED
  BY <1>1, <1>2 DEF LastReleases

LEMMA ResetReleases ==
    ASSUME TypeOK, ResetAllKeys,
           UNCHANGED <<touched, stale, stick, channel, streamerVars>>
    PROVE  KeyStep
<1>1. Reset \in Packets /\ \A key \in Keys : Releases(Reset, key)
  BY DEF Packets, Reset, Packet, Releases
<1>2. ASSUME NEW key \in Keys
      PROVE  LastReleases(Append(Raised, Reset), key, key \notin pressedKeys)
  BY <1>1, RaisedType, LastIsRelease
<1>3. Append(Raised, Reset) \in Seq(Packets) /\ Send(Append(Raised, Reset))
  BY RaisedType DEF ResetAllKeys
<1> QED
  BY <1>2, <1>3 DEF KeyStep

LEMMA KeyEventReleases ==
    ASSUME TypeOK, NEW op \in {"down", "up"}, NEW key \in Keys,
           SendKeyEvent(op, key),
           UNCHANGED <<touched, stale, stick, channel, streamerVars>>
    PROVE  KeyStep
<1>1. CASE (op = "down") = (key \in pressedKeys)
  BY <1>1, NoKeysChange DEF SendKeyEvent
<1>2. CASE ~((op = "down") = (key \in pressedKeys))
  <2> DEFINE p == Packet(op, {key})
  <2>1. /\ pressedKeys' = IF op = "down" THEN pressedKeys \cup {key}
                                         ELSE pressedKeys \ {key}
        /\ Send(<<p>>)
    BY <1>2 DEF SendKeyEvent
  <2>2. p \in Packets /\ <<p>> \in Seq(Packets)
    BY DEF Packets, Packet
  <2>3. ASSUME NEW k \in Keys \ pressedKeys'
        PROVE  LastReleases(<<p>>, k, k \notin pressedKeys)
    <3>1. CASE op = "up" /\ k = key
      <4>1. Releases(p, k) /\ <<>> \in Seq(Packets) /\ Append(<<>>, p) = <<p>>
        BY <3>1 DEF Releases, Packet
      <4> HIDE DEF p
      <4> QED
        BY <2>2, <4>1, LastIsRelease
    <3>2. CASE ~(op = "up" /\ k = key)
      <4>1. k \notin pressedKeys /\ k # key
        BY <2>1, <3>2
      <4>2. ~Presses(p, k)
        BY <4>1 DEF Presses, Packet
      <4>3. /\ Len(<<p>>) = 1 /\ <<p>>[1] = p
            /\ 0 \in 0..Len(<<p>>) /\ ~(0 > 0)
            /\ \A j \in (0 + 1)..Len(<<p>>) : j = 1
        OBVIOUS
      <4> HIDE DEF p
      <4> QED
        BY <4>1, <4>2, <4>3 DEF LastReleases
    <3> QED
      BY <3>1, <3>2
  <2> HIDE DEF p
  <2> QED
    BY <2>1, <2>2, <2>3 DEF KeyStep
<1> QED
  BY <1>1, <1>2

(* The stick raises the key of the old direction before it presses the new. *)
LEMMA SteerReleases ==
    ASSUME TypeOK, NEW dir \in SUBSET StickKeys, Send(Steered(dir)),
           stick'.dir = dir, touched' \cup stale' = touched \cup stale,
           UNCHANGED <<pressedKeys, channel, streamerVars>>
    PROVE  PageStep
<1> DEFINE ups == Some("up", stick.dir \ dir)
           downs == Some("down", dir \ stick.dir)
<1>1. ups \in Seq(Packets) /\ downs \in Seq(Packets)
  <2>1. stick.dir \ dir \in SUBSET Keys /\ dir \ stick.dir \in SUBSET Keys
    BY KeysAssumption DEF TypeOK
  <2> QED
    BY <2>1, SomeType
<1>2. ASSUME NEW key \in Keys \ Down'
      PROVE  LastReleases(Steered(dir), key, key \notin Down)
  <2>1. key \notin dir /\ (key \in stick.dir \/ key \notin Down)
    BY <1>2 DEF Down
  <2>2. LastReleases(ups, key, key \notin Down)
    <3>1. CASE stick.dir \ dir = {}
      BY <2>1, <3>1, NothingReleased DEF Some
    <3>2. CASE stick.dir \ dir # {}
      <4> DEFINE p == Packet("up", stick.dir \ dir)
      <4>1. ups = <<p>>
        BY <3>2 DEF Some
      <4>2. ~Presses(p, key) /\ (key \in stick.dir => Releases(p, key))
        BY <2>1 DEF Presses, Releases, Packet
      <4> HIDE DEF p, ups
      <4>3. /\ Len(<<p>>) = 1 /\ <<p>>[1] = p
            /\ 0 \in 0..Len(<<p>>) /\ ~(0 > 0)
            /\ 1 \in 0..Len(<<p>>) /\ 1 # 0
            /\ \A j \in (0 + 1)..Len(<<p>>) : j = 1
            /\ \A j \in (1 + 1)..Len(<<p>>) : FALSE
        OBVIOUS
      <4>4. CASE key \in stick.dir
        BY <4>1, <4>2, <4>3, <4>4 DEF LastReleases
      <4>5. CASE key \notin stick.dir
        <5>1. key \notin Down
          BY <2>1, <4>5
        <5> QED
          BY <4>1, <4>2, <4>3, <5>1 DEF LastReleases
      <4> QED
        BY <4>4, <4>5
    <3> QED
      BY <3>1, <3>2
  <2>3. LastReleases(downs, key, LastReleases(ups, key, key \notin Down))
    <3>1. LastReleases(ups, key, key \notin Down) \in BOOLEAN
      BY DEF LastReleases
    <3>2. CASE dir \ stick.dir = {}
      BY <2>2, <3>1, <3>2, NothingReleased DEF Some
    <3>3. CASE dir \ stick.dir # {}
      <4> DEFINE p == Packet("down", dir \ stick.dir)
      <4>1. downs = <<p>>
        BY <3>3 DEF Some
      <4>2. ~Presses(p, key)
        BY <2>1 DEF Presses, Packet
      <4> HIDE DEF p, ups, downs
      <4>3. /\ <<p>>[1] = p
            /\ 0 \in 0..Len(<<p>>) /\ ~(0 > 0)
            /\ \A j \in (0 + 1)..Len(<<p>>) : j = 1
        OBVIOUS
      <4> QED
        BY <2>2, <4>1, <4>2, <4>3, Witnessed
    <3> QED
      BY <3>2, <3>3
  <2> HIDE DEF ups, downs
  <2>4. (key \notin Down) \in BOOLEAN
    OBVIOUS
  <2>5. LastReleases(ups \o downs, key, key \notin Down)
    BY <1>1, <2>3, <2>4, Joined
  <2> QED
    BY <2>5 DEF Steered, ups, downs
<1>3. Steered(dir) \in Seq(Packets)
  BY SteeredType
<1> HIDE DEF ups, downs
<1> QED
  BY <1>2, <1>3 DEF PageStep

LEMMA PageSteps ==
    ASSUME TypeOK, [Next]_vars,
           ~(SetTransport \/ ChannelOpens \/ ChannelCloses \/ Streamer)
    PROVE  PageStep
<1> USE DEF userVars, pageVars, wireVars, streamerVars
<1>1. ASSUME NEW key \in Keys, OnKeyDown(key) PROVE KeyStep
  BY <1>1, NoKeysChange, ResetReleases, KeyEventReleases DEF OnKeyDown
<1>2. ASSUME NEW key \in Keys, OnKeyUp(key) PROVE KeyStep
  BY <1>2, NoKeysChange, ResetReleases, KeyEventReleases DEF OnKeyUp
<1>3. ASSUME NEW key \in Buttons, SendKeycode(key) PROVE KeyStep
  <2> DEFINE down == Packet("down", {key})
             up == Packet("up", {key})
  <2>1. <<down, up>> \in Seq(Packets)
    BY KeysAssumption DEF Packets, Packet
  <2>2. /\ Send(<<down, up>>)
        /\ UNCHANGED <<touched, stale, stick, channel, pressedKeys,
                       streamerVars>>
    BY <1>3 DEF SendKeycode
  <2>3. ASSUME NEW k \in Keys \ pressedKeys
        PROVE  LastReleases(<<down, up>>, k, k \notin pressedKeys)
    <3>1. CASE k = key
      <4>1. Releases(up, k)
        BY <3>1 DEF Releases, Packet
      <4> HIDE DEF up, down
      <4>2. /\ 2 \in 0..Len(<<down, up>>) /\ 2 # 0
            /\ \A j \in (2 + 1)..Len(<<down, up>>) : FALSE
            /\ <<down, up>>[2] = up
        OBVIOUS
      <4> QED
        BY <4>1, <4>2, Witnessed
    <3>2. CASE k # key
      <4>1. ~Presses(up, k) /\ ~Presses(down, k)
        BY <3>2 DEF Presses, Packet
      <4> HIDE DEF up, down
      <4>2. /\ 0 \in 0..Len(<<down, up>>) /\ ~(0 > 0)
            /\ \A j \in (0 + 1)..Len(<<down, up>>) : j = 1 \/ j = 2
            /\ <<down, up>>[1] = down /\ <<down, up>>[2] = up
        OBVIOUS
      <4>3. \A j \in (0 + 1)..Len(<<down, up>>) :
                ~Presses(<<down, up>>[j], k)
        BY <4>1, <4>2
      <4> QED
        BY <4>2, <4>3, Witnessed
    <3> QED
      BY <3>1, <3>2
  <2> HIDE DEF up, down
  <2> QED
    BY <2>1, <2>2, <2>3 DEF KeyStep
<1>4. ASSUME ChangeWindow PROVE KeyStep
  BY <1>4, NoKeysChange, ResetReleases DEF ChangeWindow
<1>5. ASSUME NEW f \in Focus, ChangeFocus(f) PROVE KeyStep
  BY <1>5, NoKeysChange, ResetReleases DEF ChangeFocus
<1>6. ASSUME ClipboardRead PROVE KeyStep
  <2>1. CASE RaiseAllKeys
    BY <1>6, <2>1, RaisedType, RaisedReleases
       DEF ClipboardRead, RaiseAllKeys, KeyStep
  <2>2. CASE UNCHANGED <<pressedKeys, sendQueue, toStreamer>>
    BY <1>6, <2>2, NoKeysChange DEF ClipboardRead
  <2> QED
    BY <1>6, <2>1, <2>2 DEF ClipboardRead
<1>7. ASSUME WatchdogTick PROVE KeyStep
  BY <1>7, NoKeysChange, ResetReleases DEF WatchdogTick
<1>8. ASSUME Silence PROVE KeyStep
  BY <1>8, NoKeysChange DEF Silence
<1>9. ASSUME UNCHANGED vars PROVE KeyStep
  BY <1>9, NoKeysChange DEF vars
<1>10. ASSUME NEW key \in Buttons, SendDigitalDown(key) PROVE PageStep
  <2> DEFINE p == Packet("down", {key})
  <2>1. /\ <<p>> \in Seq(Packets)
        /\ Send(<<p>>) /\ UNCHANGED <<channel, streamerVars>>
        /\ Down' = Down \cup {key}
    BY <1>10, KeysAssumption DEF SendDigitalDown, Packets, Packet, Down
  <2>2. ASSUME NEW k \in Keys \ Down'
        PROVE  LastReleases(<<p>>, k, k \notin Down)
    <3>1. k \notin Down /\ ~Presses(p, k)
      BY <2>1, <2>2 DEF Presses, Packet
    <3> HIDE DEF p
    <3>2. /\ 0 \in 0..Len(<<p>>) /\ ~(0 > 0)
          /\ \A j \in (0 + 1)..Len(<<p>>) : <<p>>[j] = p
      OBVIOUS
    <3>3. \A j \in (0 + 1)..Len(<<p>>) : ~Presses(<<p>>[j], k)
      BY <3>1, <3>2
    <3> QED
      BY <3>1, <3>2, <3>3, Witnessed
  <2> HIDE DEF p
  <2> QED
    BY <2>1, <2>2 DEF PageStep
<1>11. ASSUME NEW key \in Buttons, SendDigitalUp(key) PROVE PageStep
  <2> DEFINE p == Packet("up", {key})
  <2>1. /\ p \in Packets
        /\ Send(<<p>>) /\ UNCHANGED <<channel, streamerVars, pressedKeys>>
        /\ Down \subseteq Down' \cup {key}
    BY <1>11, KeysAssumption DEF SendDigitalUp, Packets, Packet, Down
  <2>2. ASSUME NEW k \in Keys \ Down'
        PROVE  LastReleases(<<p>>, k, k \notin Down)
    <3>1. CASE k = key
      <4>1. Releases(p, k)
        BY <3>1 DEF Releases, Packet
      <4>2. <<>> \in Seq(Packets) /\ Append(<<>>, p) = <<p>>
        OBVIOUS
      <4>3. (k \notin Down) \in BOOLEAN
        OBVIOUS
      <4> HIDE DEF p
      <4> QED
        BY <2>1, <4>1, <4>2, <4>3, LastIsRelease
    <3>2. CASE k # key
      <4>1. k \notin Down /\ ~Presses(p, k)
        BY <2>1, <2>2, <3>2 DEF Presses, Packet
      <4> HIDE DEF p
      <4>2. /\ 0 \in 0..Len(<<p>>) /\ ~(0 > 0)
            /\ \A j \in (0 + 1)..Len(<<p>>) : <<p>>[j] = p
        OBVIOUS
      <4>3. \A j \in (0 + 1)..Len(<<p>>) : ~Presses(<<p>>[j], k)
        BY <4>1, <4>2
      <4> QED
        BY <4>1, <4>2, <4>3, Witnessed
    <3> QED
      BY <3>1, <3>2
  <2>3. <<p>> \in Seq(Packets)
    BY <2>1
  <2> HIDE DEF p
  <2> QED
    BY <2>1, <2>2, <2>3 DEF PageStep
<1>12. ASSUME RenderControls PROVE PageStep
  BY <1>12, SteerReleases DEF RenderControls
<1>13. ASSUME NEW kind \in {"keys", "analog"}, StickDown(kind) PROVE PageStep
  <2>1. /\ UNCHANGED <<channel, streamerVars, sendQueue, toStreamer>>
        /\ Down' = Down
    BY <1>13 DEF StickDown, Down, TypeOK
  <2>2. <<>> \in Seq(Packets) /\ Send(<<>>)
    BY <2>1, SendNothing
  <2>3. ASSUME NEW key \in Keys \ Down'
        PROVE  LastReleases(<<>>, key, key \notin Down)
    BY <2>1, <2>3, NothingReleased
  <2> QED
    BY <2>1, <2>2, <2>3 DEF PageStep
<1>14. ASSUME NEW dir \in {{}} \cup {{key} : key \in StickKeys},
              StickMoves(dir)
       PROVE  PageStep
  <2>1. dir \in SUBSET StickKeys /\ stick'.dir = dir
    BY <1>14 DEF StickMoves, TypeOK
  <2> QED
    BY <1>14, <2>1, SteerReleases DEF StickMoves
<1>15. ASSUME EndStick PROVE PageStep
  <2>1. PICK dir \in SUBSET StickKeys :
            stick' = [drag |-> "none", dir |-> dir] /\ Send(Steered(dir))
    BY <1>15 DEF EndStick, TypeOK
  <2>2. stick'.dir = dir
    BY <2>1
  <2> QED
    BY <1>15, <2>1, <2>2, SteerReleases DEF EndStick
<1> QED
  BY <1>1, <1>2, <1>3, <1>4, <1>5, <1>6, <1>7, <1>8, <1>9, <1>10, <1>11,
     <1>12, <1>13, <1>14, <1>15, KeyStepIsPageStep DEF Next, User

(* A handler of the page keeps the invariant.                              *)
LEMMA PageKeeps ==
    ASSUME TypeOK, TypeOK', KInv, PageStep
    PROVE  KInv'
<1>1. PICK packets \in Seq(Packets) :
          /\ Send(packets)
          /\ \A key \in Keys \ Down' :
                LastReleases(packets, key, key \notin Down)
  BY DEF PageStep
<1>2. UNCHANGED <<channel, streaming, pressed_keys, task, host, lost>>
  BY DEF PageStep, streamerVars
<1>3. WithoutStream' /\ HostKeysAreTracked'
  BY <1>2 DEF KInv, WithoutStream, HostKeysAreTracked
<1>4. BeforeOpening'
  BY <1>1, <1>2 DEF KInv, BeforeOpening, Send
<1>5. EveryReleaseIsUnderWay'
  <2> SUFFICES ASSUME channel # "closed", NEW key \in Keys \ Down'
               PROVE  LastReleases(Unsent', key, Released(key)')
    BY <1>2 DEF EveryReleaseIsUnderWay, LastReleases
  <2>1. Released(key)' = Released(key) /\ Released(key) \in BOOLEAN
    BY <1>2 DEF Released, Presses
  <2>2. /\ toStreamer \in Seq(Packets) /\ sendQueue \in Seq(Packets)
        /\ Unsent \in Seq(Packets)
    BY ConcatProperties DEF TypeOK, Unsent
  <2>3. CASE channel = "none"
    <3>1. ~streaming /\ Unsent' = <<>>
      BY <1>1, <2>3 DEF KInv, BeforeOpening, Send, Unsent
    <3>2. Released(key)
      BY <3>1 DEF KInv, WithoutStream, Released, Presses
    <3> QED
      BY <2>1, <3>1, <3>2, NothingReleased
  <2>4. CASE channel # "none"
    <3>1. Unsent' = Unsent \o packets
      <4>1. CASE channel = "connecting"
        <5>1. toStreamer' = toStreamer /\ sendQueue' = sendQueue \o packets
          BY <1>1, <4>1 DEF Send
        <5> QED
          BY <2>2, <5>1, ConcatAssociative DEF Unsent
      <4>2. CASE channel = "open" /\ packets # <<>>
        <5>1. /\ toStreamer' = toStreamer \o sendQueue \o packets
              /\ sendQueue' = <<>>
          BY <1>1, <4>2 DEF Send
        <5>2. Unsent \o packets \in Seq(Packets)
          BY <2>2, ConcatProperties
        <5> QED
          BY <5>1, <5>2, ConcatEmptySeq DEF Unsent
      <4>3. CASE channel = "open" /\ packets = <<>>
        <5>1. Unsent' = Unsent
          BY <1>1, <4>3 DEF Send, Unsent
        <5> QED
          BY <2>2, <4>3, <5>1, ConcatEmptySeq
      <4> QED
        BY <2>4, <4>1, <4>2, <4>3 DEF TypeOK, Channel
    <3>2. (key \notin Down) => LastReleases(Unsent, key, Released(key))
      BY DEF KInv, EveryReleaseIsUnderWay
    <3>3. LastReleases(packets, key, key \notin Down)
      BY <1>1
    <3>4. LastReleases(Unsent, key, Released(key)) \in BOOLEAN
      BY DEF LastReleases
    <3>5. LastReleases(packets, key,
                       LastReleases(Unsent, key, Released(key)))
      BY <3>2, <3>3, <3>4, Weaken
    <3>6. LastReleases(Unsent \o packets, key, Released(key))
      BY <2>1, <2>2, <3>5, Joined
    <3> QED
      BY <2>1, <3>1, <3>6
  <2> QED
    BY <2>3, <2>4
<1> QED
  BY <1>3, <1>4, <1>5 DEF KInv

(* The steps of the transport and the streamer keep it.                    *)
LEMMA NextKInv == TypeOK /\ TypeOK' /\ KInv /\ [Next]_vars => KInv'
<1> SUFFICES ASSUME TypeOK, TypeOK', KInv, [Next]_vars PROVE KInv'
  OBVIOUS
<1> USE DEF userVars, pageVars, wireVars, streamerVars
<1>1. CASE ~(SetTransport \/ ChannelOpens \/ ChannelCloses \/ Streamer)
  BY <1>1, PageSteps, PageKeeps
<1>2. CASE SetTransport
  <2>1. /\ UNCHANGED <<streaming, pressed_keys, task, host, lost>>
        /\ toStreamer' = <<>> /\ sendQueue' = <<>> /\ ~streaming
    BY <1>2 DEF SetTransport, KInv, BeforeOpening
  <2>2. WithoutStream' /\ BeforeOpening' /\ HostKeysAreTracked'
    BY <1>2, <2>1
       DEF SetTransport, KInv, WithoutStream, BeforeOpening, HostKeysAreTracked
  <2>3. ASSUME NEW key \in Keys
        PROVE  LastReleases(Unsent', key, Released(key)')
    <3>1. Released(key)' /\ Released(key)' \in BOOLEAN
      BY <2>1, <2>2 DEF WithoutStream, Released, Presses
    <3>2. Unsent' = <<>>
      BY <2>1 DEF Unsent
    <3> QED
      BY <3>1, <3>2, NothingReleased
  <2>4. EveryReleaseIsUnderWay'
    BY <2>3 DEF EveryReleaseIsUnderWay, LastReleases
  <2> QED
    BY <2>2, <2>4 DEF KInv
<1>3. CASE ChannelOpens
  BY <1>3 DEF ChannelOpens, KInv, WithoutStream, BeforeOpening,
     HostKeysAreTracked, EveryReleaseIsUnderWay, LastReleases, Unsent,
     Released, Down
<1>4. CASE ChannelCloses
  BY <1>4 DEF ChannelCloses, KInv, WithoutStream, BeforeOpening,
     HostKeysAreTracked, EveryReleaseIsUnderWay
<1>5. CASE Stop
  BY <1>5 DEF Stop, KInv, WithoutStream, BeforeOpening, HostKeysAreTracked,
     EveryReleaseIsUnderWay
<1>6. CASE StreamStarts
  <2>1. WithoutStream' /\ BeforeOpening' /\ HostKeysAreTracked'
    BY <1>6 DEF StreamStarts, KInv, WithoutStream, BeforeOpening,
       HostKeysAreTracked
  <2>2. ASSUME NEW key \in Keys PROVE Released(key)' = Released(key)
    BY <1>6 DEF StreamStarts, KInv, WithoutStream, Released
  <2>3. EveryReleaseIsUnderWay'
    BY <1>6, <2>2 DEF StreamStarts, KInv, EveryReleaseIsUnderWay,
       LastReleases, Unsent, Down
  <2> QED
    BY <2>1, <2>3 DEF KInv
<1>7. CASE OnPacket
  <2> DEFINE packet == Head(toStreamer)
  <2>1. /\ task.keys = {} /\ toStreamer # <<>>
        /\ toStreamer' = Tail(toStreamer) /\ sendQueue' = sendQueue
        /\ pressed_keys' = IF packet.op = "reset" THEN {} ELSE pressed_keys
        /\ task' = CASE ~streaming -> Idle
                     [] packet.op = "reset" -> Packet("release", pressed_keys)
                     [] OTHER -> packet
        /\ UNCHANGED <<pressedKeys, touched, stale, stick, channel, streaming,
                       host, lost>>
    BY <1>7 DEF OnPacket
  <2>2. packet \in Packets /\ toStreamer \in Seq(Packets)
        /\ sendQueue \in Seq(Packets)
    BY <2>1, HeadTailProperties DEF TypeOK
  <2> HIDE DEF packet
  <2>3. WithoutStream'
    BY <2>1 DEF KInv, WithoutStream, Idle, Packet
  <2>4. BeforeOpening'
    BY <2>1 DEF KInv, BeforeOpening
  <2>5. HostKeysAreTracked'
    BY <2>1, <2>2 DEF KInv, WithoutStream, HostKeysAreTracked, Idle, Packet,
       Packets
  <2>6. EveryReleaseIsUnderWay'
    <3> SUFFICES ASSUME channel # "closed", NEW key \in Keys \ Down
                 PROVE  LastReleases(Unsent', key, Released(key)')
      BY <2>1 DEF EveryReleaseIsUnderWay, LastReleases, Down
    <3>1. /\ Unsent \in Seq(Packets) /\ Unsent # <<>>
          /\ Head(Unsent) = packet /\ Unsent' = Tail(Unsent)
          /\ Tail(Unsent) \in Seq(Packets)
      BY <2>1, <2>2, ConcatProperties, HeadTailProperties, HeadTailJoined
         DEF Unsent, packet
    <3>2. LastReleases(Unsent, key, Released(key))
      BY DEF KInv, EveryReleaseIsUnderWay
    <3>3. Released(key) \in BOOLEAN /\ Released(key)' \in BOOLEAN
      BY DEF Released, Presses
    <3>4. /\ Releases(packet, key) => Released(key)'
          /\ Released(key) /\ ~Presses(packet, key) => Released(key)'
      BY <2>1, <2>2 DEF Releases, Presses, Released, KInv, WithoutStream,
         Packet, Packets, Idle
    <3>5. LastReleases(Tail(Unsent), key,
              \/ Releases(packet, key)
              \/ (Released(key) /\ ~Presses(packet, key)))
      BY <3>1, <3>2, <3>3, Headless
    <3>6. (\/ Releases(packet, key)
           \/ (Released(key) /\ ~Presses(packet, key))) \in BOOLEAN
      OBVIOUS
    <3> QED
      BY <3>1, <3>3, <3>4, <3>5, <3>6, Weaken
  <2> QED
    BY <2>3, <2>4, <2>5, <2>6 DEF KInv
<1>8. ASSUME NEW k \in Keys, OnKey(k) PROVE KInv'
  <2>1. WithoutStream' /\ BeforeOpening'
    BY <1>8 DEF OnKey, KInv, WithoutStream, BeforeOpening
  <2>2. HostKeysAreTracked'
    BY <1>8 DEF OnKey, KInv, HostKeysAreTracked, TypeOK
  <2>3. ASSUME NEW key \in Keys, Released(key) PROVE Released(key)'
    BY <1>8, <2>3 DEF OnKey, Released, Presses, TypeOK
  <2>4. EveryReleaseIsUnderWay'
    BY <1>8, <2>3 DEF OnKey, KInv, EveryReleaseIsUnderWay, LastReleases,
       Unsent, Down
  <2> QED
    BY <2>1, <2>2, <2>4 DEF KInv
<1>9. ASSUME NEW k \in Keys, ReleaseKey(k) PROVE KInv'
  <2>1. WithoutStream' /\ BeforeOpening'
    BY <1>9 DEF ReleaseKey, KInv, WithoutStream, BeforeOpening
  <2>2. HostKeysAreTracked'
    BY <1>9 DEF ReleaseKey, KInv, HostKeysAreTracked, TypeOK, Idle, Packet
  <2>3. ASSUME NEW key \in Keys, Released(key) PROVE Released(key)'
    BY <1>9, <2>3 DEF ReleaseKey, Released, Presses, TypeOK, Idle, Packet
  <2>4. EveryReleaseIsUnderWay'
    BY <1>9, <2>3 DEF ReleaseKey, KInv, EveryReleaseIsUnderWay, LastReleases,
       Unsent, Down
  <2> QED
    BY <2>1, <2>2, <2>4 DEF KInv
<1> QED
  BY <1>1, <1>2, <1>3, <1>4, <1>5, <1>6, <1>7, <1>8, <1>9 DEF Streamer

LEMMA InitKInv == Init => KInv
<1> SUFFICES ASSUME Init PROVE KInv
  OBVIOUS
<1>1. WithoutStream /\ BeforeOpening /\ HostKeysAreTracked
  BY DEF Init, WithoutStream, BeforeOpening, HostKeysAreTracked, Idle, Packet
<1>2. Unsent = <<>>
  BY DEF Init, Unsent
<1>3. ASSUME NEW key \in Keys PROVE LastReleases(Unsent, key, Released(key))
  <2>1. Released(key) /\ Released(key) \in BOOLEAN
    BY DEF Init, Released, Presses, Idle, Packet
  <2> QED
    BY <1>2, <2>1, NothingReleased
<1> QED
  BY <1>1, <1>3 DEF KInv, EveryReleaseIsUnderWay

LEMMA KInvHolds == Spec => []KInv
<1>1. Init => TypeOK /\ KInv
  BY InitTypeOK, InitKInv
<1>2. TypeOK /\ KInv /\ [Next]_vars => (TypeOK /\ KInv)'
  BY NextTypeOK, NextKInv
<1> QED
  BY <1>1, <1>2, PTL DEF Spec

(* The streamer's set covers the keys that are down at the host, whatever  *)
(* sends fail, except those whose release failed.                          *)
THEOREM HostKeysTracked == Spec => []HostKeysAreTracked
<1>1. KInv => HostKeysAreTracked
  BY DEF KInv
<1> QED
  BY KInvHolds, <1>1, PTL

(* As long as the channel has not failed, a key that is in the browser's   *)
(* pressedKeys no more has its release under way or behind it.             *)
THEOREM GivenUpIsReleased == Spec => []EveryReleaseIsUnderWay
<1>1. KInv => EveryReleaseIsUnderWay
  BY DEF KInv
<1> QED
  BY KInvHolds, <1>1, PTL
=============================================================================
