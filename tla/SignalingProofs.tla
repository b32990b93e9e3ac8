-------------------------- MODULE SignalingProofs ---------------------------
(* Theorems about Signaling for every number of attempts, tracks and       *)
(* restarts: types, the negotiation flag, and that no peer is left waiting *)
(* for a description when nothing is in flight.                            *)
EXTENDS Signaling, TLAPS, SequenceTheorems

(* The entries of a FIFO, whatever their order: the arguments below only   *)
(* ask whether something is still in flight.                               *)
Entries(q) == {q[i] : i \in 1..Len(q)}

LEMMA Pushed ==
    ASSUME NEW S, NEW q \in Seq(S), NEW x \in S
    PROVE  /\ Append(q, x) \in Seq(S)
           /\ Append(q, x) # <<>>
           /\ Entries(Append(q, x)) = Entries(q) \cup {x}
<1>1. /\ Append(q, x) \in Seq(S)
      /\ Len(Append(q, x)) = Len(q) + 1 /\ Len(q) \in Nat
      /\ \A i \in 1..Len(q) : Append(q, x)[i] = q[i]
      /\ Append(q, x)[Len(q) + 1] = x
  BY AppendProperties
<1>2. Append(q, x) # <<>>
  BY <1>1, EmptySeq
<1>3. 1..Len(Append(q, x)) = (1..Len(q)) \cup {Len(q) + 1}
  BY <1>1
<1>4. Entries(Append(q, x)) = Entries(q) \cup {x}
  BY <1>1, <1>3 DEF Entries
<1> QED
  BY <1>1, <1>2, <1>4

LEMMA Popped ==
    ASSUME NEW S, NEW q \in Seq(S), q # <<>>
    PROVE  /\ Tail(q) \in Seq(S)
           /\ Head(q) \in S
           /\ Entries(q) = {Head(q)} \cup Entries(Tail(q))
<1>1. /\ Tail(q) \in Seq(S) /\ Head(q) \in S /\ Head(q) = q[1]
      /\ Len(Tail(q)) = Len(q) - 1 /\ Len(q) \in Nat \ {0}
      /\ \A i \in 1..Len(Tail(q)) : Tail(q)[i] = q[i + 1]
  BY HeadTailProperties, EmptySeq
<1>2. ASSUME NEW x \in Entries(q) PROVE x \in {Head(q)} \cup Entries(Tail(q))
  <2>1. PICK i \in 1..Len(q) : x = q[i]
    BY DEF Entries
  <2>2. CASE i = 1
    BY <1>1, <2>1, <2>2
  <2>3. CASE i # 1
    <3>1. i - 1 \in 1..Len(Tail(q)) /\ Tail(q)[i - 1] = q[(i - 1) + 1]
      BY <1>1, <2>3
    <3>2. (i - 1) + 1 = i
      OBVIOUS
    <3> QED
      BY <2>1, <3>1, <3>2 DEF Entries
  <2> QED
    BY <2>2, <2>3
<1>3. Head(q) \in Entries(q)
  <2>1. 1 \in 1..Len(q)
    BY <1>1
  <2> QED
    BY <1>1, <2>1 DEF Entries
<1>4. ASSUME NEW x \in Entries(Tail(q)) PROVE x \in Entries(q)
  <2>1. PICK i \in 1..Len(Tail(q)) : x = Tail(q)[i]
    BY DEF Entries
  <2>2. i + 1 \in 1..Len(q) /\ Tail(q)[i] = q[i + 1]
    BY <1>1
  <2> QED
    BY <2>1, <2>2 DEF Entries
<1> QED
  BY <1>1, <1>2, <1>3, <1>4

LEMMA EmptyEntries == Entries(<<>>) = {}
BY DEF Entries

-----------------------------------------------------------------------------
(* The values the counters start from.                                     *)
LEMMA Origins ==
    0 \in 0..MaxRestarts /\ 0 \in 0..MaxTracks /\ 0 \in 0..Attempts
        /\ 1 \in 1..Attempts
BY BoundsAssumption

LEMMA InitTypeOK == Init => TypeOK
<1> SUFFICES ASSUME Init PROVE TypeOK
  OBVIOUS
<1>1. <<>> \in Seq(Ops) /\ <<>> \in Seq(ToStreamer) /\ <<>> \in Seq(ToBrowser)
  OBVIOUS
<1> QED
  BY Origins, <1>1 DEF Init, TypeOK

(* A call of setLocalDescription keeps the types it may touch.             *)
LEMMA SetLocalDescriptionType ==
    ASSUME TypeOK, SetLocalDescription
    PROVE  /\ sig' \in {"stable", "have-local-offer"}
           /\ isNegotiating' \in BOOLEAN /\ negotiationNeeded' \in BOOLEAN
           /\ toStreamer' \in Seq(ToStreamer)
<1>1. Offer \in ToStreamer /\ Answer(attempt) \in ToStreamer
  BY DEF Offer, Answer, ToStreamer, TypeOK
<1>2. /\ Append(toStreamer, Offer) \in Seq(ToStreamer)
      /\ Append(toStreamer, Answer(attempt)) \in Seq(ToStreamer)
  BY <1>1, Pushed DEF TypeOK
<1> QED
  BY <1>2 DEF SetLocalDescription, TypeOK

LEMMA NegotiationType ==
    ASSUME TypeOK, NEW synced, OnNegotiationNeeded(synced)
    PROVE  chain' \in Seq(Ops) /\ isNegotiating' \in BOOLEAN
<1>1. Negotiate \in Ops
  BY DEF Negotiate, Ops
<1>2. Append(chain, Negotiate) \in Seq(Ops)
  BY <1>1, Pushed DEF TypeOK
<1> QED
  BY <1>2 DEF OnNegotiationNeeded, TypeOK

LEMMA SendOfferType ==
    ASSUME TypeOK, NEW n \in 0..MaxTracks, SendOffer(n)
    PROVE  /\ toBrowser' \in Seq(ToBrowser)
           /\ streamerSig' \in {"stable", "have-local-offer"}
           /\ failed' \in BOOLEAN
<1>1. TrackOffer(n) \in ToBrowser
  BY DEF TrackOffer, ToBrowser
<1>2. Append(toBrowser, TrackOffer(n)) \in Seq(ToBrowser)
  BY <1>1, Pushed DEF TypeOK
<1> QED
  BY <1>2 DEF SendOffer, TypeOK

LEMMA NextTypeOK == TypeOK /\ [Next]_vars => TypeOK'
<1> SUFFICES ASSUME TypeOK, [Next]_vars PROVE TypeOK'
  OBVIOUS
<1> USE BoundsAssumption, Origins
<1> USE DEF iceVars, streamerVars
<1>0. /\ chain # <<>> => Tail(chain) \in Seq(Ops) /\ Head(chain) \in Ops
      /\ toStreamer # <<>> => /\ Tail(toStreamer) \in Seq(ToStreamer)
                              /\ Head(toStreamer) \in ToStreamer
      /\ toBrowser # <<>> => /\ Tail(toBrowser) \in Seq(ToBrowser)
                             /\ Head(toBrowser) \in ToBrowser
  BY Popped DEF TypeOK
<1>1. CASE NegotiationNeededEvent
  BY <1>1, NegotiationType DEF NegotiationNeededEvent, TypeOK
<1>2. CASE SyncTimeout
  BY <1>2, NegotiationType DEF SyncTimeout, TypeOK
<1>3. CASE ReceiveOffer
  <2>1. Head(toBrowser).tracks \in 0..MaxTracks
    BY <1>0, <1>3 DEF ReceiveOffer, ToBrowser
  <2>2. /\ Rollback(Head(toBrowser).tracks) \in Ops
        /\ SetRemote(Head(toBrowser).tracks) \in Ops
    BY <2>1 DEF Rollback, SetRemote, Ops
  <2>3. chain' \in Seq(Ops)
    BY <1>3, <2>2, Pushed DEF ReceiveOffer, TypeOK
  <2> QED
    BY <1>0, <1>3, <2>3 DEF ReceiveOffer, TypeOK
<1>4. CASE NegotiateDone
  BY <1>0, <1>4, SetLocalDescriptionType DEF NegotiateDone, NextOp, TypeOK
<1>5. CASE RollbackDone
  <2>1. Head(chain).tracks \in 0..MaxTracks
    BY <1>0, <1>5 DEF RollbackDone, NextOp, Ops
  <2>2. SetRemote(Head(chain).tracks) \in Ops
    BY <2>1 DEF SetRemote, Ops
  <2>3. Append(Tail(chain), SetRemote(Head(chain).tracks)) \in Seq(Ops)
    BY <1>0, <1>5, <2>2, Pushed DEF RollbackDone, NextOp
  <2>4. /\ chain' \in Seq(Ops) /\ sig' \in {"stable"}
        /\ negotiationNeeded' \in BOOLEAN
    BY <1>0, <1>5, <2>3 DEF RollbackDone, NextOp, TypeOK
  <2> QED
    BY <1>5, <2>4 DEF RollbackDone, TypeOK
<1>6. CASE SetRemoteDone
  <2>1. Head(chain).tracks \in 0..MaxTracks /\ Dequeue \in Ops
    BY <1>0, <1>6 DEF SetRemoteDone, NextOp, Ops, Dequeue
  <2>2. Append(Tail(chain), Dequeue) \in Seq(Ops)
    BY <1>0, <1>6, <2>1, Pushed DEF SetRemoteDone, NextOp
  <2> QED
    BY <1>6, <2>1, <2>2 DEF SetRemoteDone, TypeOK
<1>7. CASE DequeueDone
  <2>1. SetAnswer \in Ops
    BY DEF SetAnswer, Ops
  <2>2. Append(Tail(chain), SetAnswer) \in Seq(Ops)
    BY <1>0, <1>7, <2>1, Pushed DEF DequeueDone, NextOp
  <2> QED
    BY <1>7, <2>2 DEF DequeueDone, TypeOK
<1>8. CASE DequeueFails
  BY <1>0, <1>8 DEF DequeueFails, NextOp, TypeOK
<1>9. CASE AnswerDone
  BY <1>0, <1>9, SetLocalDescriptionType DEF AnswerDone, NextOp, TypeOK
<1>10. CASE Connect
  <2>1. StartStream \in ToStreamer
    BY DEF StartStream, ToStreamer
  <2>2. Append(toStreamer, StartStream) \in Seq(ToStreamer)
    BY <2>1, Pushed DEF TypeOK
  <2>3. toStreamer' \in Seq(ToStreamer)
    BY <1>10, <2>2 DEF Connect, TypeOK
  <2> QED
    BY <1>10, <2>3 DEF Connect, TypeOK
<1>11. CASE IceTrouble
  <2>1. restartAttempts' \in {restartAttempts, restartAttempts + 1}
        /\ (restartAttempts' # restartAttempts
                => restartAttempts < MaxRestarts)
    BY <1>11 DEF IceTrouble
  <2>2. restartAttempts' \in 0..MaxRestarts
    BY <2>1 DEF TypeOK
  <2>3. restartTimer' \in BOOLEAN
    BY <1>11 DEF IceTrouble, TypeOK
  <2> QED
    BY <1>11, <2>2, <2>3 DEF IceTrouble, TypeOK
<1>12. CASE RestartFires
  BY <1>12, NegotiationType DEF RestartFires, TypeOK
<1>13. CASE NextAttempt
  <2>1. attempt + 1 \in 1..Attempts
    BY <1>13 DEF NextAttempt, TypeOK
  <2>2. <<>> \in Seq(Ops)
    OBVIOUS
  <2> QED
    BY <1>13, <2>1, <2>2 DEF NextAttempt, TypeOK
<1>14. CASE StreamerOffer
  BY <1>0, <1>14, SendOfferType DEF StreamerOffer, Received, TypeOK, browserVars
<1>15. CASE StreamerAnswer
  <2>1. Head(toStreamer).attempt \in 0..Attempts
    BY <1>0, <1>15 DEF StreamerAnswer, Received, ToStreamer
  <2> QED
    BY <1>0, <1>15, <2>1 DEF StreamerAnswer, Received, TypeOK, browserVars
<1>16. CASE StreamerStart
  BY <1>0, <1>16 DEF StreamerStart, Received, TypeOK, browserVars
<1>17. CASE SetupTrack
  <2>1. tracks + 1 \in 0..MaxTracks
    BY <1>17 DEF SetupTrack, TypeOK
  <2> QED
    BY <1>17, <2>1, SendOfferType DEF SetupTrack, TypeOK, browserVars
<1>18. CASE UNCHANGED vars
  BY <1>18 DEF vars, browserVars, TypeOK
<1> QED
  BY <1>1, <1>2, <1>3, <1>4, <1>5, <1>6, <1>7, <1>8, <1>9, <1>10, <1>11,
     <1>12, <1>13, <1>14, <1>15, <1>16, <1>17, <1>18
  DEF Next, Browser, Streamer, ChainStep

(* The variables keep their types, whatever the number of attempts, tracks *)
(* and restarts.                                                           *)
THEOREM TypeCorrect == Spec => []TypeOK
<1>1. QED
  BY InitTypeOK, NextTypeOK, PTL DEF Spec

-----------------------------------------------------------------------------
(* Why nothing is left half open.  A peer that waits for an answer waits   *)
(* for something in flight: the streamer for an offer in a queue, for a    *)
(* handler that will answer, or for an offer it will meet with a new one.  *)
(* A rollback in the stable state is no such handler, it drops its offer.  *)
(* Only a browser that abandons its attempt takes handlers away, and then  *)
(* its new transport still has its synchronized start to make.             *)
LocalOfferPending ==
    sig = "have-local-offer" /\ ~failed =>
        \/ chain # <<>> \/ toBrowser # <<>>
        \/ \E m \in Entries(toStreamer) : m.type = "offer"
RemoteOfferPending ==
    sig = "have-remote-offer" /\ ~failed =>
        \E op \in Entries(chain) : op.op \in {"dequeue", "answer"}
Underway ==
    \/ toBrowser # <<>>
    \/ \E m \in Entries(toStreamer) : m.type \in {"offer", "answer"}
    \/ \E op \in Entries(chain) : op.op # "rollback"
    \/ chain # <<>> /\ sig # "stable"
Abandoned ==
    ~syncStarted /\ ~connectedOnce /\ answeredBy # attempt /\ chain = <<>>
StreamerOfferPending ==
    streamerSig = "have-local-offer" /\ ~failed => Underway \/ Abandoned
AnswersOfAttempt ==
    /\ answeredBy <= attempt
    /\ \A m \in Entries(toStreamer) : m.type = "answer" => m.attempt <= attempt

HInv == /\ FlagReleased /\ LocalOfferPending /\ RemoteOfferPending
        /\ StreamerOfferPending /\ AnswersOfAttempt

LEMMA InitHInv == Init => HInv
<1> SUFFICES ASSUME Init PROVE HInv
  OBVIOUS
<1>1. Entries(toStreamer) = {}
  BY EmptyEntries DEF Init
<1> QED
  BY <1>1 DEF Init, HInv, FlagReleased, LocalOfferPending, RemoteOfferPending,
              StreamerOfferPending, AnswersOfAttempt

(* What a handler that ends in setLocalDescription leaves.                 *)
LEMMA LocalDescriptionSent ==
    ASSUME TypeOK, HInv, SetLocalDescription,
           UNCHANGED <<failed, streamerSig, answeredBy, attempt>>
    PROVE  HInv'
<1>1. Offer \in ToStreamer /\ Answer(attempt) \in ToStreamer
  BY DEF Offer, Answer, ToStreamer, TypeOK
<1>2. CASE sig = "have-remote-offer"
  <2>1. Entries(toStreamer') = Entries(toStreamer) \cup {Answer(attempt)}
    <3>1. toStreamer' = Append(toStreamer, Answer(attempt))
      BY <1>2 DEF SetLocalDescription
    <3>2. toStreamer \in Seq(ToStreamer)
      BY DEF TypeOK
    <3> QED
      BY <1>1, <3>1, <3>2, Pushed
  <2>2. Answer(attempt).type = "answer" /\ Answer(attempt).attempt = attempt
    BY DEF Answer
  <2>3. AnswersOfAttempt'
    BY <2>1, <2>2 DEF HInv, AnswersOfAttempt, TypeOK
  <2>4. Underway'
    BY <2>1, <2>2 DEF Underway
  <2> QED
    BY <1>2, <2>3, <2>4 DEF SetLocalDescription, HInv, FlagReleased,
         LocalOfferPending, RemoteOfferPending, StreamerOfferPending
<1>3. CASE sig # "have-remote-offer"
  <2>1. Entries(toStreamer') = Entries(toStreamer) \cup {Offer}
    <3>1. toStreamer' = Append(toStreamer, Offer)
      BY <1>3 DEF SetLocalDescription
    <3>2. toStreamer \in Seq(ToStreamer)
      BY DEF TypeOK
    <3> QED
      BY <1>1, <3>1, <3>2, Pushed
  <2>2. Offer.type = "offer"
    BY DEF Offer
  <2>3. AnswersOfAttempt'
    BY <2>1, <2>2 DEF HInv, AnswersOfAttempt
  <2>4. Underway'
    BY <2>1, <2>2 DEF Underway
  <2> QED
    BY <1>3, <2>1, <2>2, <2>3, <2>4 DEF SetLocalDescription, HInv,
         FlagReleased, LocalOfferPending, RemoteOfferPending,
         StreamerOfferPending
<1> QED
  BY <1>2, <1>3

(* A call of onNegotiationNeeded, whether or not it returns early.         *)
LEMMA NegotiationStarted ==
    ASSUME TypeOK, HInv, NEW synced, OnNegotiationNeeded(synced),
           UNCHANGED <<sig, syncStarted, connectedOnce, attempt, toStreamer,
                       toBrowser, streamerSig, answeredBy, failed>>
    PROVE  HInv'
<1>1. CASE UNCHANGED <<isNegotiating, chain>>
  BY <1>1 DEF HInv, FlagReleased, LocalOfferPending, RemoteOfferPending,
       StreamerOfferPending, AnswersOfAttempt, Underway, Abandoned
<1>2. CASE chain' = Append(chain, Negotiate) /\ sig = "stable"
  <2>1. Negotiate \in Ops /\ Negotiate.op = "negotiate"
    BY DEF Negotiate, Ops
  <2>2. chain' # <<>> /\ Entries(chain') = Entries(chain) \cup {Negotiate}
    BY <1>2, <2>1, Pushed DEF TypeOK
  <2> QED
    BY <1>2, <2>1, <2>2 DEF HInv, FlagReleased, LocalOfferPending,
         RemoteOfferPending, StreamerOfferPending, AnswersOfAttempt, Underway
<1> QED
  BY <1>1, <1>2 DEF OnNegotiationNeeded, MayNegotiate

LEMMA NextHInv == TypeOK /\ HInv /\ [Next]_vars => HInv'
<1> SUFFICES ASSUME TypeOK, HInv, [Next]_vars PROVE HInv'
  OBVIOUS
<1> USE DEF iceVars, streamerVars
<1>0. /\ chain # <<>> =>
            /\ Tail(chain) \in Seq(Ops) /\ Head(chain) \in Ops
            /\ Entries(chain) = {Head(chain)} \cup Entries(Tail(chain))
      /\ toStreamer # <<>> =>
            /\ Tail(toStreamer) \in Seq(ToStreamer)
            /\ Head(toStreamer) \in ToStreamer
            /\ Entries(toStreamer)
                   = {Head(toStreamer)} \cup Entries(Tail(toStreamer))
  BY Popped DEF TypeOK
<1>1. CASE NegotiationNeededEvent
  BY <1>1, NegotiationStarted DEF NegotiationNeededEvent
<1>2. CASE SyncTimeout
  <2>1. CASE chain' = Append(chain, Negotiate) /\ sig = "stable"
    <3>1. Negotiate \in Ops /\ Negotiate.op = "negotiate"
      BY DEF Negotiate, Ops
    <3>2. chain' # <<>> /\ Entries(chain') = Entries(chain) \cup {Negotiate}
      BY <2>1, <3>1, Pushed DEF TypeOK
    <3> QED
      BY <1>2, <2>1, <3>1, <3>2 DEF SyncTimeout, HInv, FlagReleased,
           LocalOfferPending, RemoteOfferPending, StreamerOfferPending,
           AnswersOfAttempt, Underway
  <2>2. CASE UNCHANGED <<isNegotiating, chain>>
             /\ (connectedOnce \/ isNegotiating \/ sig # "stable")
    <3>1. Abandoned /\ ~failed => Underway
      <4> SUFFICES ASSUME Abandoned, ~failed PROVE Underway
        OBVIOUS
      <4>1. chain = <<>> /\ Entries(chain) = {} /\ sig # "stable"
        BY <2>2, EmptyEntries DEF Abandoned, HInv, FlagReleased
      <4>2. sig = "have-local-offer"
        BY <4>1 DEF HInv, RemoteOfferPending, TypeOK
      <4> QED
        BY <4>1, <4>2 DEF HInv, LocalOfferPending, Underway
    <3>2. Underway => Underway'
      BY <1>2, <2>2 DEF SyncTimeout, Underway
    <3> QED
      BY <1>2, <2>2, <3>1, <3>2 DEF SyncTimeout, HInv, FlagReleased,
           LocalOfferPending, RemoteOfferPending, StreamerOfferPending,
           AnswersOfAttempt
  <2> QED
    BY <1>2, <2>1, <2>2 DEF SyncTimeout, OnNegotiationNeeded, MayNegotiate
<1>3. CASE ReceiveOffer
  <2> DEFINE entry == IF sig # "stable" THEN Rollback(Head(toBrowser).tracks)
                                        ELSE SetRemote(Head(toBrowser).tracks)
  <2>1. entry \in Ops /\ (sig = "stable" => entry.op = "remote")
    <3>1. Head(toBrowser).tracks \in 0..MaxTracks
      <4>1. toBrowser \in Seq(ToBrowser) /\ toBrowser # <<>>
        BY <1>3 DEF ReceiveOffer, TypeOK
      <4>2. Head(toBrowser) \in ToBrowser
        BY <4>1, Popped
      <4> QED
        BY <4>2 DEF ToBrowser
    <3> QED
      <4>1. /\ Rollback(Head(toBrowser).tracks) \in Ops
            /\ SetRemote(Head(toBrowser).tracks) \in Ops
            /\ SetRemote(Head(toBrowser).tracks).op = "remote"
        BY <3>1 DEF Rollback, SetRemote, Ops
      <4> QED
        BY <4>1
  <2>2. chain' = Append(chain, entry)
    BY <1>3 DEF ReceiveOffer
  <2> HIDE DEF entry
  <2>3. chain' # <<>> /\ Entries(chain') = Entries(chain) \cup {entry}
    BY <2>1, <2>2, Pushed DEF TypeOK
  <2>4. Underway'
    BY <1>3, <2>1, <2>3 DEF ReceiveOffer, Underway
  <2> QED
    BY <1>3, <2>3, <2>4 DEF ReceiveOffer, HInv, FlagReleased,
         LocalOfferPending, RemoteOfferPending, StreamerOfferPending,
         AnswersOfAttempt
<1>4. CASE NegotiateDone
  BY <1>4, LocalDescriptionSent DEF NegotiateDone
<1>5. CASE RollbackDone
  <2>1. CASE sig = "stable"
    <3>1. /\ chain # <<>> /\ chain' = Tail(chain) /\ Head(chain).op = "rollback"
          /\ isNegotiating' = FALSE
          /\ UNCHANGED <<sig, attempt, syncStarted, connectedOnce, toStreamer,
                         toBrowser, streamerSig, answeredBy, failed>>
      BY <1>5, <2>1 DEF RollbackDone, NextOp
    <3>2. Underway => Underway'
      BY <1>0, <2>1, <3>1 DEF Underway
    <3> QED
      BY <2>1, <3>1, <3>2 DEF HInv, FlagReleased, LocalOfferPending,
           RemoteOfferPending, StreamerOfferPending, AnswersOfAttempt,
           Abandoned
  <2>2. CASE sig # "stable"
    <3>1. Head(chain).tracks \in 0..MaxTracks
      BY <1>0, <1>5 DEF RollbackDone, NextOp, Ops
    <3>2. SetRemote(Head(chain).tracks) \in Ops
          /\ SetRemote(Head(chain).tracks).op = "remote"
      BY <3>1 DEF SetRemote, Ops
    <3>3. SetRemote(Head(chain).tracks) \in Entries(chain')
      <4>1. Tail(chain) \in Seq(Ops)
            /\ chain' = Append(Tail(chain), SetRemote(Head(chain).tracks))
        BY <1>0, <1>5, <2>2 DEF RollbackDone, NextOp
      <4>2. Entries(Append(Tail(chain), SetRemote(Head(chain).tracks)))
                = Entries(Tail(chain)) \cup {SetRemote(Head(chain).tracks)}
        BY <3>2, <4>1, Pushed
      <4> QED
        BY <4>1, <4>2
    <3>4. Underway'
      BY <3>2, <3>3 DEF Underway
    <3> QED
      BY <1>5, <2>2, <3>4 DEF RollbackDone, HInv, FlagReleased,
           LocalOfferPending, RemoteOfferPending, StreamerOfferPending,
           AnswersOfAttempt
  <2> QED
    BY <2>1, <2>2
<1>6. CASE SetRemoteDone
  <2>1. Dequeue \in Ops /\ Dequeue.op = "dequeue"
    BY DEF Dequeue, Ops
  <2>2. chain' # <<>> /\ Dequeue \in Entries(chain')
    <3>1. Tail(chain) \in Seq(Ops) /\ chain' = Append(Tail(chain), Dequeue)
      BY <1>0, <1>6 DEF SetRemoteDone, NextOp
    <3>2. /\ Append(Tail(chain), Dequeue) # <<>>
          /\ Entries(Append(Tail(chain), Dequeue))
                = Entries(Tail(chain)) \cup {Dequeue}
      BY <2>1, <3>1, Pushed
    <3> QED
      BY <3>1, <3>2
  <2> QED
    BY <1>6, <2>1, <2>2 DEF SetRemoteDone, HInv, FlagReleased,
         LocalOfferPending, RemoteOfferPending, StreamerOfferPending,
         AnswersOfAttempt, Underway
<1>7. CASE DequeueDone
  <2>1. SetAnswer \in Ops /\ SetAnswer.op = "answer"
    BY DEF SetAnswer, Ops
  <2>2. chain' # <<>> /\ SetAnswer \in Entries(chain')
    <3>1. Tail(chain) \in Seq(Ops) /\ chain' = Append(Tail(chain), SetAnswer)
      BY <1>0, <1>7 DEF DequeueDone, NextOp
    <3>2. /\ Append(Tail(chain), SetAnswer) # <<>>
          /\ Entries(Append(Tail(chain), SetAnswer))
                = Entries(Tail(chain)) \cup {SetAnswer}
      BY <2>1, <3>1, Pushed
    <3> QED
      BY <3>1, <3>2
  <2> QED
    BY <1>7, <2>1, <2>2 DEF DequeueDone, HInv, FlagReleased,
         LocalOfferPending, RemoteOfferPending, StreamerOfferPending,
         AnswersOfAttempt, Underway
<1>8. CASE DequeueFails
  BY <1>8 DEF DequeueFails, HInv, FlagReleased, LocalOfferPending,
       RemoteOfferPending, StreamerOfferPending, AnswersOfAttempt
<1>9. CASE AnswerDone
  BY <1>9, LocalDescriptionSent DEF AnswerDone
<1>10. CASE Connect
  <2>1. StartStream \in ToStreamer /\ StartStream.type = "start"
    BY DEF StartStream, ToStreamer
  <2>2. Entries(toStreamer) \subseteq Entries(toStreamer')
        /\ Entries(toStreamer') \subseteq Entries(toStreamer) \cup {StartStream}
    BY <1>10, <2>1, Pushed DEF Connect, TypeOK
  <2>3. Underway => Underway'
    BY <1>10, <2>2 DEF Connect, Underway
  <2>4. AnswersOfAttempt'
    BY <1>10, <2>1, <2>2 DEF Connect, HInv, AnswersOfAttempt
  <2> QED
    BY <1>10, <2>2, <2>3, <2>4 DEF Connect, HInv, FlagReleased,
         LocalOfferPending, RemoteOfferPending, StreamerOfferPending, Abandoned
<1>11. CASE IceTrouble
  BY <1>11 DEF IceTrouble, HInv, FlagReleased, LocalOfferPending,
       RemoteOfferPending, StreamerOfferPending, AnswersOfAttempt, Underway,
       Abandoned
<1>12. CASE RestartFires
  BY <1>12, NegotiationStarted DEF RestartFires
<1>13. CASE NextAttempt
  <2>1. answeredBy # attempt' /\ AnswersOfAttempt'
    <3>1. answeredBy \in 0..Attempts /\ attempt \in 1..Attempts
          /\ toStreamer \in Seq(ToStreamer)
      BY DEF TypeOK
    <3>2. Entries(toStreamer) \subseteq ToStreamer
      BY <3>1, ElementOfSeq DEF Entries
    <3>3. attempt' = attempt + 1 /\ UNCHANGED <<toStreamer, answeredBy>>
      BY <1>13 DEF NextAttempt
    <3>4. answeredBy <= attempt
      BY DEF HInv, AnswersOfAttempt
    <3>5. ASSUME NEW m \in Entries(toStreamer), m.type = "answer"
          PROVE  m.attempt <= attempt + 1
      <4>1. m.attempt \in 1..Attempts
        BY <3>2, <3>5 DEF ToStreamer
      <4>2. m.attempt <= attempt
        BY <3>5 DEF HInv, AnswersOfAttempt
      <4> QED
        BY <3>1, <4>1, <4>2, BoundsAssumption
    <3>6. answeredBy # attempt + 1 /\ answeredBy <= attempt + 1
      BY <3>1, <3>4, BoundsAssumption
    <3> QED
      BY <3>3, <3>5, <3>6 DEF AnswersOfAttempt
  <2> QED
    BY <1>13, <2>1 DEF NextAttempt, HInv, FlagReleased, LocalOfferPending,
         RemoteOfferPending, StreamerOfferPending, Abandoned
<1>14. CASE StreamerOffer
  <2>1. \/ failed'
        \/ toBrowser' # <<>> /\ failed' = failed
    <3>1. TrackOffer(tracks) \in ToBrowser
      BY DEF TrackOffer, ToBrowser, TypeOK
    <3> QED
      BY <1>14, <3>1, Pushed DEF StreamerOffer, SendOffer, TypeOK
  <2>2. Entries(toStreamer') \subseteq Entries(toStreamer)
    BY <1>0, <1>14 DEF StreamerOffer, Received
  <2> QED
    BY <1>14, <2>1, <2>2 DEF StreamerOffer, HInv, FlagReleased,
         LocalOfferPending, RemoteOfferPending, StreamerOfferPending,
         AnswersOfAttempt, Underway, browserVars
<1>15. CASE StreamerAnswer
  <2>1. /\ Head(toStreamer).type = "answer"
        /\ Entries(toStreamer)
               = {Head(toStreamer)} \cup Entries(toStreamer')
    BY <1>0, <1>15 DEF StreamerAnswer, Received
  <2>2. AnswersOfAttempt'
    BY <1>15, <2>1 DEF StreamerAnswer, HInv, AnswersOfAttempt, browserVars
  <2> QED
    BY <1>15, <2>1, <2>2 DEF StreamerAnswer, HInv, FlagReleased,
         LocalOfferPending, RemoteOfferPending, StreamerOfferPending,
         browserVars
<1>16. CASE StreamerStart
  <2>1. /\ Head(toStreamer).type = "start"
        /\ Entries(toStreamer)
               = {Head(toStreamer)} \cup Entries(toStreamer')
    BY <1>0, <1>16 DEF StreamerStart, Received
  <2> QED
    BY <1>16, <2>1 DEF StreamerStart, HInv, FlagReleased, LocalOfferPending,
         RemoteOfferPending, StreamerOfferPending, AnswersOfAttempt, Underway,
         Abandoned, browserVars
<1>17. CASE SetupTrack
  <2>1. \/ failed'
        \/ toBrowser' # <<>> /\ failed' = failed
    <3>1. TrackOffer(tracks + 1) \in ToBrowser
      BY <1>17, BoundsAssumption DEF SetupTrack, TrackOffer, ToBrowser, TypeOK
    <3> QED
      BY <1>17, <3>1, Pushed DEF SetupTrack, SendOffer, TypeOK
  <2> QED
    BY <1>17, <2>1 DEF SetupTrack, HInv, FlagReleased, LocalOfferPending,
         RemoteOfferPending, StreamerOfferPending, AnswersOfAttempt, Underway,
         browserVars
<1>18. CASE UNCHANGED vars
  BY <1>18 DEF vars, browserVars, HInv, FlagReleased, LocalOfferPending,
       RemoteOfferPending, StreamerOfferPending, AnswersOfAttempt, Underway,
       Abandoned
<1> QED
  BY <1>1, <1>2, <1>3, <1>4, <1>5, <1>6, <1>7, <1>8, <1>9, <1>10, <1>11,
     <1>12, <1>13, <1>14, <1>15, <1>16, <1>17, <1>18
  DEF Next, Browser, Streamer, ChainStep

LEMMA HInvHolds == Spec => [](TypeOK /\ HInv)
<1>1. Init => TypeOK /\ HInv
  BY InitTypeOK, InitHInv
<1>2. (TypeOK /\ HInv) /\ [Next]_vars => (TypeOK /\ HInv)'
  BY NextTypeOK, NextHInv
<1>3. QED
  BY <1>1, <1>2, PTL DEF Spec

(* isNegotiating never outlives the negotiation it guards, whatever the    *)
(* number of attempts, tracks and restarts, and whatever call fails.       *)
THEOREM FlagIsReleased == Spec => []FlagReleased
<1>1. HInv => FlagReleased
  BY DEF HInv
<1>2. QED
  BY HInvHolds, <1>1, PTL

(* When nothing is in flight and no call failed, both peers are stable,    *)
(* for any number of attempts, tracks and restarts.                        *)
THEOREM NothingHalfOpen == Spec => []NoHalfOpen
<1>1. TypeOK /\ HInv => NoHalfOpen
  <2> SUFFICES ASSUME TypeOK, HInv, Quiet, ~failed
               PROVE  sig = "stable" /\ streamerSig = "stable"
    BY DEF NoHalfOpen
  <2>1. Entries(chain) = {} /\ Entries(toStreamer) = {}
    BY EmptyEntries DEF Quiet
  <2>2. sig = "stable"
    BY <2>1 DEF Quiet, HInv, LocalOfferPending, RemoteOfferPending, TypeOK
  <2>3. ~Underway /\ ~Abandoned
    BY <2>1 DEF Quiet, Underway, Abandoned
  <2> QED
    BY <2>2, <2>3 DEF HInv, StreamerOfferPending, TypeOK
<1>2. QED
  BY HInvHolds, <1>1, PTL
=============================================================================
