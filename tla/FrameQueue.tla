----------------------------- MODULE FrameQueue -----------------------------
(***************************************************************************)
(* The outgoing video path of the WebRTC transport: the decode thread      *)
(* hands encoded frames to send_decode_unit, which puts them on the bounded*)
(* queue of a TrackLocalSender; the task sample_sender takes them off and  *)
(* writes them to the RTP track (streamer/src/transport/webrtc/sender.rs   *)
(* and video.rs).                                                          *)
(*                                                                         *)
(* A frame is abstracted to whether it is an IDR frame ("important") and   *)
(* to whether the frame the host produced just before it went into the     *)
(* queue ("follows").  RTP sequence numbers are assigned by the writer, so *)
(* a frame lost in the queue leaves no hole the browser could see: only    *)
(* needs_idr can repair it.  A frame lost or damaged after that point is   *)
(* noticed by the browser, which answers with a PLI.                       *)
(***************************************************************************)
EXTENDS Integers, Sequences, FiniteSets

CONSTANTS
    QueueSize,   \* channel_queue_size (video_frame_queue_size of the config)
    IdrBound     \* bound on the IDR frames waiting at once, to keep TLC finite

ASSUME QueueSizeAssumption == QueueSize \in Nat
ASSUME IdrBoundAssumption == IdrBound \in Nat \ {0}

VARIABLES
    queue,      \* oldest frame first: pop_back takes Head, push_front appends
    needsIdr,   \* the AtomicBool needs_idr
    producer,   \* where the decode thread is in send_decode_unit
    writer,     \* where sample_sender is in its loop
    current,    \* the frame sample_sender is writing
    alive,      \* the TrackLocalSender exists (the queue has a strong owner)
    bound,      \* the track is negotiated: its bindings are not paused
    host,       \* what the encoder does: first frame, streaming, owes an IDR
    gap,        \* the last frame the host produced was lost in the queue
    decoder     \* the browser's decoder

vars == <<queue, needsIdr, producer, writer, current, alive, bound, host, gap,
          decoder>>

senderVars == <<producer, host, gap>>
writerVars == <<current, decoder>>

Frame == [important : BOOLEAN, follows : BOOLEAN]
Idr == [important |-> TRUE, follows |-> TRUE]
Delta(follows) == [important |-> FALSE, follows |-> follows]

IdrPositions == {i \in 1..Len(queue) : queue[i].important}

Init ==
    /\ queue = <<>>
    /\ needsIdr = FALSE
    /\ producer = "idle"
    /\ writer = "top"
    /\ current = Idr
    /\ alive = TRUE
    /\ bound = FALSE
    /\ host = "starting"
    /\ gap = FALSE
    /\ decoder = "waiting"

-----------------------------------------------------------------------------
(* The decode thread: send_decode_unit, send_single_frame, send_samples.   *)

\* retain(|frame| frame.important): the important frames, in their order.
RetainImportant ==
    \E kept \in [IdrPositions -> 1..Len(queue)], n \in 0..Len(queue) :
        /\ \A i, j \in IdrPositions : i < j => kept[i] < kept[j]
        /\ {kept[i] : i \in IdrPositions} = 1..n
        /\ queue' = [k \in 1..n |->
                        queue[CHOOSE i \in IdrPositions : kept[i] = k]]

\* Mutant: send_samples forgets to notify.
NeverNotify == UNCHANGED writer

\* notify_waiters stores no permit: only a task already waiting hears it.
NotifyWaiters == writer' = IF writer = "waiting" THEN "top" ELSE writer

\* Mutant: send_single_frame does not clear the queue for an IDR frame.
SubmitIdrKeepingAll ==
    /\ alive /\ producer = "idle"
    /\ Cardinality(IdrPositions) < IdrBound
    /\ producer' = "cleared"
    /\ host' = "streaming"
    /\ UNCHANGED <<queue, needsIdr, writer, writerVars, alive, bound, gap>>

\* send_single_frame of an IDR frame starts with clear_queue(false).
SubmitIdr ==
    /\ alive /\ producer = "idle"
    /\ Cardinality(IdrPositions) < IdrBound
    /\ RetainImportant
    /\ producer' = "cleared"
    /\ host' = "streaming"
    /\ UNCHANGED <<needsIdr, writer, writerVars, alive, bound, gap>>

\* send_samples(_, true): an important frame is always accepted.
PushIdr ==
    /\ producer = "cleared"
    /\ queue' = Append(queue, Idr)
    /\ NotifyWaiters
    /\ gap' = FALSE
    /\ producer' = "sent"
    /\ UNCHANGED <<needsIdr, writerVars, alive, bound, host>>

\* send_samples(_, false) that finds room.
PushDelta ==
    /\ alive /\ producer = "idle"
    /\ host # "starting"
    /\ Len(queue) <= QueueSize
    /\ queue' = Append(queue, Delta(~gap))
    /\ NotifyWaiters
    /\ gap' = FALSE
    /\ producer' = "sent"
    /\ UNCHANGED <<needsIdr, writerVars, alive, bound, host>>

\* send_samples(_, false) that returns false: the frame is dropped.
RejectDelta ==
    /\ alive /\ producer = "idle"
    /\ host # "starting"
    /\ Len(queue) > QueueSize
    /\ gap' = TRUE
    /\ producer' = "rejected"
    /\ UNCHANGED <<queue, needsIdr, writer, writerVars, alive, bound, host>>

\* clear_queue(true) after a rejected frame.
ClearAll ==
    /\ producer = "rejected"
    /\ queue' = <<>>
    /\ producer' = "dropped"
    /\ UNCHANGED <<needsIdr, writer, writerVars, alive, bound, host, gap>>

\* Mutant: a dropped frame is not followed by needs_idr.store(true).
ForgetNeedsIdr ==
    /\ producer = "dropped"
    /\ producer' = "sent"
    /\ UNCHANGED <<queue, needsIdr, writer, writerVars, alive, bound, host,
                   gap>>

StoreNeedsIdr ==
    /\ producer = "dropped"
    /\ needsIdr' = TRUE
    /\ producer' = "sent"
    /\ UNCHANGED <<queue, writer, writerVars, alive, bound, host, gap>>

\* Mutant: the flag is cleared but DecodeResult::Ok is returned.
SwallowNeedIdr ==
    /\ producer = "sent"
    /\ needsIdr
    /\ needsIdr' = FALSE
    /\ producer' = "idle"
    /\ UNCHANGED <<queue, writer, writerVars, alive, bound, host, gap>>

\* compare_exchange_weak(true, false) succeeds: NeedIdr goes to the host.
ReturnNeedIdr ==
    /\ producer = "sent"
    /\ needsIdr
    /\ needsIdr' = FALSE
    /\ host' = "owes"
    /\ producer' = "idle"
    /\ UNCHANGED <<queue, writer, writerVars, alive, bound, gap>>

\* The flag is clear, or the weak exchange failed although it is set.
ReturnOk ==
    /\ producer = "sent"
    /\ producer' = "idle"
    /\ UNCHANGED <<queue, needsIdr, writer, writerVars, alive, bound, host,
                   gap>>

-----------------------------------------------------------------------------
(* The task sample_sender.                                                 *)

\* queue.upgrade() succeeds: from here the task owns the queue as well.
WriterUpgrade ==
    /\ writer = "top"
    /\ alive
    /\ writer' = "owner"
    /\ UNCHANGED <<queue, needsIdr, senderVars, writerVars, alive, bound>>

\* queue.upgrade() fails: the loop goes round again.
WriterUpgradeFails ==
    /\ writer = "top"
    /\ ~alive
    /\ writer' = "top"
    /\ UNCHANGED <<queue, needsIdr, senderVars, writerVars, alive, bound>>

WriterPop ==
    /\ writer = "owner"
    /\ queue # <<>>
    /\ current' = Head(queue)
    /\ queue' = IF alive THEN Tail(queue) ELSE <<>>
    /\ writer' = "writing"
    /\ UNCHANGED <<needsIdr, senderVars, decoder, alive, bound>>

\* Mutant: the task ends when it finds the queue empty.
WriterEndsOnEmpty ==
    /\ writer = "owner"
    /\ queue = <<>>
    /\ writer' = "ended"
    /\ UNCHANGED <<queue, needsIdr, senderVars, writerVars, alive, bound>>

\* The queue is empty and its mutex is released; notified() comes next.
WriterFindsEmpty ==
    /\ writer = "owner"
    /\ queue = <<>>
    /\ writer' = "parking"
    /\ UNCHANGED <<queue, needsIdr, senderVars, writerVars, alive, bound>>

WriterWait ==
    /\ writer = "parking"
    /\ writer' = "waiting"
    /\ UNCHANGED <<queue, needsIdr, senderVars, writerVars, alive, bound>>

\* What the browser makes of a frame that reached it whole.
Decoded(frame) ==
    CASE frame.important -> "ok"
      [] ~frame.important /\ decoder = "ok" ->
            IF frame.follows THEN "ok" ELSE "silent"
      [] ~frame.important /\ decoder = "waiting" -> "broken"
      [] OTHER -> decoder

\* write_with_extensions of every packet; a paused binding swallows them, and
\* a packet that fails to be packetized or written damages the frame.
WriterWrite ==
    /\ writer = "writing"
    /\ \/ ~bound /\ UNCHANGED decoder
       \/ bound /\ decoder' = Decoded(current)
       \/ bound /\ decoder' = "broken"
    /\ writer' = "top"
    /\ UNCHANGED <<queue, needsIdr, senderVars, current, alive, bound>>

-----------------------------------------------------------------------------
(* Around them: the peer connection, the browser and the transport.        *)

\* Negotiation of the added track completes.
Bind ==
    /\ ~bound
    /\ bound' = TRUE
    /\ UNCHANGED <<queue, needsIdr, senderVars, writer, writerVars, alive>>

\* RTCP: the browser noticed that it cannot decode and sent a PLI.
PictureLoss ==
    /\ bound /\ decoder = "broken"
    /\ needsIdr' = TRUE
    /\ UNCHANGED <<queue, senderVars, writer, writerVars, alive, bound>>

\* The transport goes away between two frames; the queue goes with it unless
\* sample_sender holds it.
DropSender ==
    /\ alive /\ producer = "idle"
    /\ alive' = FALSE
    /\ queue' = IF writer \in {"top", "writing"} THEN <<>> ELSE queue
    /\ UNCHANGED <<needsIdr, senderVars, writer, writerVars, bound>>

-----------------------------------------------------------------------------
Submit == SubmitIdr \/ PushDelta \/ RejectDelta
Producing == PushIdr \/ ClearAll \/ StoreNeedsIdr \/ ReturnNeedIdr \/ ReturnOk
Writing ==
    \/ WriterUpgrade \/ WriterUpgradeFails \/ WriterPop
    \/ WriterFindsEmpty \/ WriterWait \/ WriterWrite

Next == Submit \/ Producing \/ Writing \/ Bind \/ PictureLoss \/ DropSender

Spec == Init /\ [][Next]_vars

(* The runtime polls both tasks, the host keeps producing frames and       *)
(* honours a request for an IDR frame, a weak exchange does not fail for   *)
(* ever, and a browser that cannot decode keeps asking.                    *)
Fairness ==
    /\ WF_vars(Submit) /\ WF_vars(Producing) /\ WF_vars(Writing)
    /\ WF_vars(Bind) /\ WF_vars(PictureLoss)
    /\ SF_vars(ReturnNeedIdr)
    /\ SF_vars(SubmitIdr /\ host = "owes")

FairSpec == Spec /\ Fairness

-----------------------------------------------------------------------------
TypeOK ==
    /\ queue \in Seq(Frame)
    /\ needsIdr \in BOOLEAN
    /\ producer \in {"idle", "cleared", "rejected", "dropped", "sent"}
    /\ writer \in {"top", "owner", "parking", "waiting", "writing"}
    /\ current \in Frame
    /\ alive \in BOOLEAN
    /\ bound \in BOOLEAN
    /\ host \in {"starting", "streaming", "owes"}
    /\ gap \in BOOLEAN
    /\ decoder \in {"waiting", "ok", "silent", "broken"}

(* No delta frame waits in front of an IDR frame, and none waits behind    *)
(* more than QueueSize frames: what an IDR frame makes useless is never    *)
(* written after it, and the latency the queue adds is bounded although    *)
(* send_samples tests the length with ">" and lets IDR frames through.     *)
IdrsFirst ==
    \A i, j \in 1..Len(queue) :
        i < j /\ queue[j].important => queue[i].important
DeltaBound ==
    \A i \in 1..Len(queue) : ~queue[i].important => i <= QueueSize + 1
QueueShape == IdrsFirst /\ DeltaBound

\* The producer or the host still has an IDR frame to bring.
IdrRequested ==
    \/ needsIdr
    \/ host = "owes"
    \/ producer \in {"rejected", "dropped", "cleared"}
IdrQueued == \E i \in 1..Len(queue) : queue[i].important
WritingIdr == writer = "writing" /\ current.important
WritingOrphan == writer = "writing" /\ ~current.important /\ ~current.follows

(* A frame the queue lost is never forgotten: as long as the next frame, a *)
(* waiting frame or the browser's picture depends on it, an IDR frame is   *)
(* requested, being produced or on its way (send_single_frame's needs_idr  *)
(* against sample_sender, RTCP and the weak exchange).                     *)
GapsRepaired == alive =>
    /\ gap => IdrRequested
    /\ (\E i \in 1..Len(queue) : ~queue[i].important /\ ~queue[i].follows)
            => IdrRequested
    /\ WritingOrphan => IdrRequested \/ IdrQueued
    /\ decoder = "silent" => IdrRequested \/ IdrQueued \/ WritingIdr

(* A waiting frame makes sample_sender look at the queue again, although   *)
(* notify_waiters loses the wake-up of a task that is between releasing    *)
(* the mutex and notified(): the next accepted frame wakes it.             *)
NoFrameStranded ==
    (alive /\ queue # <<>>) ~> (writer \in {"owner", "writing"} \/ ~alive)

(* A picture that is silently wrong is repaired, unless the queue keeps    *)
(* overflowing, for an overflow also discards the IDR frame.               *)
SilentLossRepaired ==
    (alive /\ decoder = "silent")
        ~> (decoder # "silent" \/ producer = "rejected" \/ ~alive)
=============================================================================
