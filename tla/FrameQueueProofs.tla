-------------------------- MODULE FrameQueueProofs --------------------------
(* Theorems about FrameQueue for every queue size: types, the shape of the *)
(* queue, and that every frame it loses is followed by an IDR frame.       *)
EXTENDS FrameQueue, TLAPS, SequenceTheorems

(* Between clear_queue(false) and the push of the IDR frame nothing but    *)
(* sample_sender touches the queue, so no delta frame is left in it.       *)
ClearedOfDeltas ==
    producer = "cleared" => \A i \in 1..Len(queue) : queue[i].important

IInv == TypeOK /\ IdrsFirst /\ DeltaBound /\ ClearedOfDeltas

(* What retain leaves is a sequence of important frames.                   *)
LEMMA RetainedImportant ==
    ASSUME queue \in Seq(Frame), RetainImportant
    PROVE  /\ queue' \in Seq(Frame)
           /\ \A i \in 1..Len(queue') : queue'[i].important
<1>1. PICK kept \in [IdrPositions -> 1..Len(queue)], n \in 0..Len(queue) :
        /\ {kept[i] : i \in IdrPositions} = 1..n
        /\ queue' = [k \in 1..n |->
                        queue[CHOOSE i \in IdrPositions : kept[i] = k]]
  BY DEF RetainImportant
<1> DEFINE pos(k) == CHOOSE i \in IdrPositions : kept[i] = k
<1>2. ASSUME NEW k \in 1..n
      PROVE  queue[pos(k)] \in Frame /\ queue[pos(k)].important
  <2>1. \E i \in IdrPositions : kept[i] = k
    BY <1>1
  <2>2. pos(k) \in IdrPositions
    BY <2>1
  <2>3. pos(k) \in 1..Len(queue) /\ queue[pos(k)].important
    BY <2>2 DEF IdrPositions
  <2> QED
    BY <2>3, ElementOfSeq
<1>3. queue' \in [1..n -> Frame] /\ n \in Nat
  BY <1>1, <1>2
<1>4. queue' \in Seq(Frame) /\ Len(queue') = n
  BY <1>3, SeqDef
<1>5. \A i \in 1..n : queue'[i].important
  BY <1>1, <1>2
<1> QED
  BY <1>4, <1>5

LEMMA InitIInv == Init => IInv
<1> SUFFICES ASSUME Init PROVE IInv
  OBVIOUS
<1>1. queue = <<>> /\ Len(queue) = 0 /\ queue \in Seq(Frame)
  BY DEF Init
<1>2. TypeOK
  BY <1>1 DEF Init, TypeOK, Idr, Frame
<1>3. IdrsFirst /\ DeltaBound /\ ClearedOfDeltas
  BY <1>1 DEF IdrsFirst, DeltaBound, ClearedOfDeltas
<1> QED
  BY <1>2, <1>3 DEF IInv

(* Appending a frame keeps the positions of the others.                    *)
LEMMA AppendFrame ==
    ASSUME NEW q \in Seq(Frame), NEW f \in Frame
    PROVE  /\ Append(q, f) \in Seq(Frame)
           /\ Len(Append(q, f)) = Len(q) + 1
           /\ Len(q) \in Nat
           /\ \A i \in 1..Len(q) : Append(q, f)[i] = q[i]
           /\ Append(q, f)[Len(q) + 1] = f
BY AppendProperties

(* Popping the oldest frame moves the others one place up.                 *)
LEMMA PopFrame ==
    ASSUME NEW q \in Seq(Frame), q # <<>>
    PROVE  /\ Head(q) \in Frame
           /\ Tail(q) \in Seq(Frame)
           /\ Len(Tail(q)) = Len(q) - 1
           /\ Len(q) \in Nat \ {0}
           /\ \A i \in 1..Len(Tail(q)) : Tail(q)[i] = q[i + 1]
           /\ Head(q) = q[1]
BY HeadTailProperties, EmptySeq

(* The steps that leave queue and producer as they are.                    *)
LEMMA QuietStep ==
    ASSUME IInv, UNCHANGED <<queue, producer>>
    PROVE  IdrsFirst' /\ DeltaBound' /\ ClearedOfDeltas'
BY DEF IInv, IdrsFirst, DeltaBound, ClearedOfDeltas

LEMMA NextIInv == IInv /\ [Next]_vars => IInv'
<1> SUFFICES ASSUME IInv, [Next]_vars PROVE IInv'
  OBVIOUS
<1> USE QueueSizeAssumption
<1> USE DEF IInv
<1>1. CASE SubmitIdr
  <2>1. queue' \in Seq(Frame) /\ \A i \in 1..Len(queue') : queue'[i].important
    BY <1>1, RetainedImportant DEF SubmitIdr, TypeOK
  <2>2. TypeOK'
    BY <1>1, <2>1 DEF SubmitIdr, TypeOK, writerVars
  <2>3. IdrsFirst' /\ DeltaBound' /\ ClearedOfDeltas'
    BY <2>1 DEF IdrsFirst, DeltaBound, ClearedOfDeltas
  <2> QED
    BY <2>2, <2>3
<1>2. CASE PushIdr
  <2>1. Idr \in Frame /\ Idr.important
    BY DEF Idr, Frame
  <2>2. /\ queue' \in Seq(Frame) /\ Len(queue') = Len(queue) + 1
        /\ Len(queue) \in Nat
        /\ \A i \in 1..Len(queue) : queue'[i] = queue[i]
        /\ queue'[Len(queue) + 1] = Idr
    BY <1>2, <2>1, AppendFrame DEF PushIdr, TypeOK
  <2>3. \A i \in 1..Len(queue) : queue[i].important
    BY <1>2 DEF PushIdr, ClearedOfDeltas
  <2>4. \A i \in 1..Len(queue') : queue'[i].important
    BY <2>1, <2>2, <2>3
  <2>5. TypeOK'
    BY <1>2, <2>2 DEF PushIdr, TypeOK, NotifyWaiters, writerVars
  <2>6. IdrsFirst' /\ DeltaBound' /\ ClearedOfDeltas'
    BY <2>4 DEF IdrsFirst, DeltaBound, ClearedOfDeltas
  <2> QED
    BY <2>5, <2>6
<1>3. CASE PushDelta
  <2>1. Delta(~gap) \in Frame /\ ~Delta(~gap).important
    BY DEF Delta, Frame, TypeOK
  <2>2. /\ queue' \in Seq(Frame) /\ Len(queue') = Len(queue) + 1
        /\ Len(queue) \in Nat
        /\ \A i \in 1..Len(queue) : queue'[i] = queue[i]
        /\ queue'[Len(queue) + 1] = Delta(~gap)
    BY <1>3, <2>1, AppendFrame DEF PushDelta, TypeOK
  <2>3. TypeOK'
    BY <1>3, <2>2 DEF PushDelta, TypeOK, NotifyWaiters, writerVars
  <2>4. IdrsFirst'
    <3> SUFFICES ASSUME NEW i \in 1..Len(queue'), NEW j \in 1..Len(queue'),
                        i < j, queue'[j].important
                 PROVE  queue'[i].important
      BY DEF IdrsFirst
    <3>1. j # Len(queue) + 1
      BY <2>1, <2>2
    <3>2. i \in 1..Len(queue) /\ j \in 1..Len(queue)
      BY <2>2, <3>1
    <3> QED
      BY <2>2, <3>2 DEF IdrsFirst
  <2>5. DeltaBound'
    <3> SUFFICES ASSUME NEW i \in 1..Len(queue'), ~queue'[i].important
                 PROVE  i <= QueueSize + 1
      BY DEF DeltaBound
    <3>1. Len(queue) <= QueueSize
      BY <1>3 DEF PushDelta
    <3> QED
      BY <2>2, <3>1
  <2>6. ClearedOfDeltas'
    BY <1>3 DEF PushDelta, ClearedOfDeltas
  <2> QED
    BY <2>3, <2>4, <2>5, <2>6
<1>4. CASE RejectDelta
  BY <1>4 DEF RejectDelta, TypeOK, IdrsFirst, DeltaBound, ClearedOfDeltas,
              writerVars
<1>5. CASE ClearAll
  <2>1. queue' = <<>> /\ Len(queue') = 0 /\ queue' \in Seq(Frame)
    BY <1>5 DEF ClearAll
  <2> QED
    BY <1>5, <2>1 DEF ClearAll, TypeOK, IdrsFirst, DeltaBound,
                      ClearedOfDeltas, writerVars
<1>6. CASE StoreNeedsIdr
  BY <1>6 DEF StoreNeedsIdr, TypeOK, IdrsFirst, DeltaBound, ClearedOfDeltas,
              writerVars
<1>7. CASE ReturnNeedIdr
  BY <1>7 DEF ReturnNeedIdr, TypeOK, IdrsFirst, DeltaBound, ClearedOfDeltas,
              writerVars
<1>8. CASE ReturnOk
  BY <1>8 DEF ReturnOk, TypeOK, IdrsFirst, DeltaBound, ClearedOfDeltas,
              writerVars
<1>9. CASE WriterUpgrade
  BY <1>9, QuietStep DEF WriterUpgrade, TypeOK, senderVars, writerVars
<1>10. CASE WriterUpgradeFails
  BY <1>10, QuietStep DEF WriterUpgradeFails, TypeOK, senderVars, writerVars
<1>11. CASE WriterPop
  <2>1. /\ Head(queue) \in Frame
        /\ Tail(queue) \in Seq(Frame)
        /\ Len(Tail(queue)) = Len(queue) - 1
        /\ Len(queue) \in Nat \ {0}
        /\ \A i \in 1..Len(Tail(queue)) : Tail(queue)[i] = queue[i + 1]
    BY <1>11, PopFrame DEF WriterPop, TypeOK
  <2>2. TypeOK'
    BY <1>11, <2>1 DEF WriterPop, TypeOK, senderVars
  <2>3. CASE queue' = <<>>
    <3>1. Len(queue') = 0
      BY <2>3
    <3> QED
      BY <2>2, <3>1 DEF IdrsFirst, DeltaBound, ClearedOfDeltas
  <2>4. CASE queue' = Tail(queue)
    <3>1. /\ Len(queue') = Len(queue) - 1
          /\ \A i \in 1..Len(queue') : queue'[i] = queue[i + 1]
                                       /\ i + 1 \in 1..Len(queue)
      BY <2>1, <2>4
    <3>2. IdrsFirst'
      <4> SUFFICES ASSUME NEW i \in 1..Len(queue'), NEW j \in 1..Len(queue'),
                          i < j, queue'[j].important
                   PROVE  queue'[i].important
        BY DEF IdrsFirst
      <4>1. i + 1 < j + 1
        OBVIOUS
      <4> QED
        BY <3>1, <4>1 DEF IdrsFirst
    <3>3. DeltaBound'
      <4> SUFFICES ASSUME NEW i \in 1..Len(queue'), ~queue'[i].important
                   PROVE  i <= QueueSize + 1
        BY DEF DeltaBound
      <4>1. i + 1 <= QueueSize + 1
        BY <3>1 DEF DeltaBound
      <4> QED
        BY <4>1
    <3>4. ClearedOfDeltas'
      <4>1. producer' = producer
        BY <1>11 DEF WriterPop, senderVars
      <4> QED
        BY <3>1, <4>1 DEF ClearedOfDeltas
    <3> QED
      BY <2>2, <3>2, <3>3, <3>4
  <2> QED
    BY <1>11, <2>3, <2>4 DEF WriterPop
<1>12. CASE WriterFindsEmpty
  BY <1>12, QuietStep DEF WriterFindsEmpty, TypeOK, senderVars, writerVars
<1>13. CASE WriterWait
  BY <1>13, QuietStep DEF WriterWait, TypeOK, senderVars, writerVars
<1>14. CASE WriterWrite
  <2>1. decoder' \in {"waiting", "ok", "silent", "broken"}
    <3>1. Decoded(current) \in {"waiting", "ok", "silent", "broken"}
      BY DEF TypeOK, Decoded, Frame
    <3> QED
      BY <1>14, <3>1 DEF WriterWrite, TypeOK
  <2> QED
    BY <1>14, <2>1, QuietStep DEF WriterWrite, TypeOK, senderVars
<1>15. CASE Bind
  BY <1>15, QuietStep DEF Bind, TypeOK, senderVars, writerVars
<1>16. CASE PictureLoss
  BY <1>16, QuietStep DEF PictureLoss, TypeOK, senderVars, writerVars
<1>17. CASE DropSender
  <2>1. CASE queue' = queue
    BY <1>17, <2>1, QuietStep DEF DropSender, TypeOK, senderVars, writerVars
  <2>2. CASE queue' = <<>>
    <3>1. Len(queue') = 0 /\ queue' \in Seq(Frame)
      BY <2>2
    <3>2. TypeOK'
      BY <1>17, <3>1 DEF DropSender, TypeOK, senderVars, writerVars
    <3>3. IdrsFirst' /\ DeltaBound' /\ ClearedOfDeltas'
      BY <3>1 DEF IdrsFirst, DeltaBound, ClearedOfDeltas
    <3> QED
      BY <3>2, <3>3
  <2> QED
    BY <1>17, <2>1, <2>2 DEF DropSender
<1>18. CASE UNCHANGED vars
  BY <1>18 DEF vars, TypeOK, IdrsFirst, DeltaBound, ClearedOfDeltas
<1> QED
  BY <1>1, <1>2, <1>3, <1>4, <1>5, <1>6, <1>7, <1>8, <1>9, <1>10, <1>11,
     <1>12, <1>13, <1>14, <1>15, <1>16, <1>17, <1>18
  DEF Next, Submit, Producing, Writing

(* IInv is inductive.                                                      *)
LEMMA IInvHolds == Spec => []IInv
<1>1. QED
  BY InitIInv, NextIInv, PTL DEF Spec

(* For every queue size, the variables keep their types.                   *)
THEOREM TypeCorrect == Spec => []TypeOK
<1>1. IInv => TypeOK
  BY DEF IInv
<1>2. QED
  BY IInvHolds, <1>1, PTL

(* For every queue size, IDR frames wait in front of delta frames and at   *)
(* most QueueSize frames wait in front of a delta frame.                   *)
THEOREM QueueShapeHolds == Spec => []QueueShape
<1>1. IInv => QueueShape
  BY DEF IInv, QueueShape
<1>2. QED
  BY IInvHolds, <1>1, PTL

-----------------------------------------------------------------------------
(* Nothing reaches the browser before the track is negotiated, so an IDR   *)
(* frame that an unbound track swallows cannot be the awaited repair.      *)
UnboundDecoder == ~bound => decoder = "waiting"
GInv == UnboundDecoder /\ GapsRepaired

LEMMA InitGInv == Init => GInv
<1> SUFFICES ASSUME Init PROVE GInv
  OBVIOUS
<1>1. queue = <<>> /\ Len(queue) = 0
  BY DEF Init
<1> QED
  BY <1>1 DEF Init, GInv, UnboundDecoder, GapsRepaired, WritingOrphan

(* The steps that change neither the queue nor the frame being written nor *)
(* what the browser shows, and that do not withdraw a request.             *)
LEMMA RequestKept ==
    ASSUME GInv,
           UNCHANGED <<queue, gap, decoder, bound>>, alive' => alive,
           IdrRequested => IdrRequested',
           WritingOrphan' => WritingOrphan,
           WritingIdr => WritingIdr'
    PROVE  GInv'
BY DEF GInv, UnboundDecoder, GapsRepaired, IdrQueued

LEMMA NextGInv == IInv /\ GInv /\ [Next]_vars => GInv'
<1> SUFFICES ASSUME IInv, GInv, [Next]_vars PROVE GInv'
  OBVIOUS
<1> USE DEF WritingOrphan, WritingIdr, IdrRequested
<1>1. CASE SubmitIdr
  BY <1>1 DEF SubmitIdr, GInv, UnboundDecoder, GapsRepaired, writerVars
<1>2. CASE PushIdr
  <2>1. Idr \in Frame /\ Idr.important
    BY DEF Idr, Frame
  <2>2. /\ Len(queue') = Len(queue) + 1 /\ Len(queue) \in Nat
        /\ \A i \in 1..Len(queue) : queue'[i] = queue[i]
        /\ queue'[Len(queue) + 1] = Idr
    BY <1>2, <2>1, AppendFrame DEF PushIdr, IInv, TypeOK
  <2>3. IdrQueued'
    <3>1. Len(queue) + 1 \in 1..Len(queue')
      BY <2>2
    <3> QED
      BY <2>1, <2>2, <3>1 DEF IdrQueued
  <2>4. \A i \in 1..Len(queue') : queue'[i].important
    BY <1>2, <2>1, <2>2 DEF PushIdr, IInv, ClearedOfDeltas
  <2> QED
    BY <1>2, <2>3, <2>4 DEF PushIdr, GInv, UnboundDecoder, GapsRepaired,
                            writerVars
<1>3. CASE PushDelta
  <2>1. Delta(~gap) \in Frame /\ Delta(~gap).follows = ~gap
    BY DEF Delta, Frame, IInv, TypeOK
  <2>2. /\ Len(queue') = Len(queue) + 1 /\ Len(queue) \in Nat
        /\ \A i \in 1..Len(queue) : queue'[i] = queue[i]
        /\ queue'[Len(queue) + 1] = Delta(~gap)
    BY <1>3, <2>1, AppendFrame DEF PushDelta, IInv, TypeOK
  <2>3. alive /\ alive' /\ IdrRequested = IdrRequested'
    BY <1>3 DEF PushDelta
  <2>4. gap \in BOOLEAN /\ (gap => IdrRequested)
    BY <2>3 DEF GInv, GapsRepaired, IInv, TypeOK
  <2>5. (\E i \in 1..Len(queue') : ~queue'[i].important /\ ~queue'[i].follows)
            => IdrRequested'
    <3> SUFFICES ASSUME NEW i \in 1..Len(queue'),
                        ~queue'[i].important, ~queue'[i].follows
                 PROVE  IdrRequested
      BY <2>3
    <3>1. CASE i \in 1..Len(queue)
      BY <2>2, <2>3, <3>1 DEF GInv, GapsRepaired
    <3>2. CASE i = Len(queue) + 1
      BY <2>1, <2>2, <2>4, <3>2
    <3> QED
      BY <2>2, <3>1, <3>2
  <2>6. IdrQueued => IdrQueued'
    BY <2>2 DEF IdrQueued
  <2>7. /\ (WritingOrphan' => WritingOrphan) /\ (WritingIdr => WritingIdr')
        /\ decoder' = decoder /\ bound' = bound /\ gap' = FALSE
    BY <1>3 DEF PushDelta, NotifyWaiters, writerVars
  <2> QED
    BY <2>3, <2>5, <2>6, <2>7 DEF GInv, UnboundDecoder, GapsRepaired
<1>4. CASE RejectDelta
  BY <1>4 DEF RejectDelta, GInv, UnboundDecoder, GapsRepaired, writerVars
<1>5. CASE ClearAll
  BY <1>5 DEF ClearAll, GInv, UnboundDecoder, GapsRepaired, writerVars
<1>6. CASE StoreNeedsIdr
  BY <1>6, RequestKept DEF StoreNeedsIdr, writerVars
<1>7. CASE ReturnNeedIdr
  BY <1>7, RequestKept DEF ReturnNeedIdr, writerVars
<1>8. CASE ReturnOk
  BY <1>8, RequestKept DEF ReturnOk, writerVars
<1>9. CASE WriterUpgrade
  BY <1>9, RequestKept DEF WriterUpgrade, senderVars, writerVars
<1>10. CASE WriterUpgradeFails
  BY <1>10, RequestKept DEF WriterUpgradeFails, senderVars, writerVars
<1>11. CASE WriterPop
  <2> SUFFICES ASSUME alive PROVE GInv'
    BY <1>11 DEF WriterPop, GInv, UnboundDecoder, GapsRepaired, senderVars
  <2>1. /\ Len(queue') = Len(queue) - 1
        /\ Len(queue) \in Nat \ {0}
        /\ \A i \in 1..Len(queue') : queue'[i] = queue[i + 1]
        /\ current' = queue[1]
    BY <1>11, PopFrame DEF WriterPop, IInv, TypeOK
  <2>2. IdrRequested = IdrRequested' /\ UNCHANGED <<gap, decoder, bound>>
    BY <1>11 DEF WriterPop, senderVars
  <2>3. (\E i \in 1..Len(queue') : ~queue'[i].important /\ ~queue'[i].follows)
            => IdrRequested'
    BY <2>1, <2>2 DEF GInv, GapsRepaired
  <2>4. WritingOrphan' => IdrRequested'
    BY <2>1, <2>2 DEF GInv, GapsRepaired
  <2>5. IdrQueued => WritingIdr'
    <3>1. IdrQueued => queue[1].important
      BY <2>1 DEF IdrQueued, IInv, IdrsFirst
    <3> QED
      BY <1>11, <2>1, <3>1 DEF WriterPop
  <2>6. ~WritingIdr
    BY <1>11 DEF WriterPop
  <2> QED
    BY <2>2, <2>3, <2>4, <2>5, <2>6 DEF GInv, UnboundDecoder, GapsRepaired
<1>12. CASE WriterFindsEmpty
  BY <1>12, RequestKept DEF WriterFindsEmpty, senderVars, writerVars
<1>13. CASE WriterWait
  BY <1>13, RequestKept DEF WriterWait, senderVars, writerVars
<1>14. CASE WriterWrite
  <2>1. /\ UNCHANGED <<queue, gap, bound, alive, current>>
        /\ IdrRequested = IdrRequested' /\ IdrQueued = IdrQueued'
        /\ writer = "writing" /\ writer' = "top"
    BY <1>14 DEF WriterWrite, senderVars, IdrQueued
  <2>2. decoder' = "silent" /\ alive => IdrRequested \/ IdrQueued
    <3> SUFFICES ASSUME decoder' = "silent", alive
                 PROVE  IdrRequested \/ IdrQueued
      OBVIOUS
    <3>1. CASE ~bound
      BY <1>14, <3>1 DEF WriterWrite, GInv, UnboundDecoder
    <3>2. CASE bound
      <4>1. decoder' = Decoded(current)
        BY <1>14, <3>2 DEF WriterWrite
      <4>2. ~current.important
        BY <4>1 DEF Decoded
      <4>3. decoder = "silent" \/ (decoder = "ok" /\ ~current.follows)
        BY <4>1, <4>2 DEF Decoded, IInv, TypeOK
      <4> QED
        BY <2>1, <4>2, <4>3 DEF GInv, GapsRepaired
    <3> QED
      BY <3>1, <3>2
  <2>3. UnboundDecoder'
    BY <1>14, <2>1 DEF WriterWrite, GInv, UnboundDecoder
  <2> QED
    BY <2>1, <2>2, <2>3 DEF GInv, GapsRepaired
<1>15. CASE Bind
  BY <1>15 DEF Bind, GInv, UnboundDecoder, GapsRepaired, IdrQueued,
               senderVars, writerVars
<1>16. CASE PictureLoss
  BY <1>16, RequestKept DEF PictureLoss, senderVars, writerVars
<1>17. CASE DropSender
  BY <1>17 DEF DropSender, GInv, UnboundDecoder, GapsRepaired, writerVars
<1>18. CASE UNCHANGED vars
  BY <1>18, RequestKept DEF vars
<1> QED
  BY <1>1, <1>2, <1>3, <1>4, <1>5, <1>6, <1>7, <1>8, <1>9, <1>10, <1>11,
     <1>12, <1>13, <1>14, <1>15, <1>16, <1>17, <1>18
  DEF Next, Submit, Producing, Writing

(* For every queue size, whatever the queue lost is followed by a request  *)
(* for an IDR frame or by an IDR frame on its way.                         *)
THEOREM GapsAreRepaired == Spec => []GapsRepaired
<1>1. IInv /\ GInv /\ [Next]_vars => (IInv /\ GInv)'
  BY NextIInv, NextGInv
<1>2. Init => IInv /\ GInv
  BY InitIInv, InitGInv
<1>3. GInv => GapsRepaired
  BY DEF GInv
<1>4. QED
  BY <1>1, <1>2, <1>3, PTL DEF Spec
=============================================================================
