----------------------------- MODULE PageProofs -----------------------------
(***************************************************************************)
(* Theorems about Page for any fingers, pads, uses, pointers, rates,       *)
(* frames and tracks, and any bound: the types, and that every part of     *)
(* the page keeps what it promises whatever the others do.  Every part has *)
(* an inductive invariant of its own, which the steps of the others leave  *)
(* alone; the theorems at the end put them together.                       *)
(***************************************************************************)
EXTENDS Page, SequenceTheorems, FiniteSetTheorems, WellFoundedInduction, TLAPS

-----------------------------------------------------------------------------
(* The pointer lock.                                                       *)

LEMMA CursorSteps ==
    ASSUME LockAgrees, NEW h \in BOOLEAN, HostCursor(h)
    PROVE  LockAgrees'
  BY DEF HostCursor, Drawn, LockAgrees, ReleaseIsDue, OverlayIsDue, CursorIsDrawn,
     modeVars

LEMMA ConfigureSteps ==
    ASSUME LockAgrees, ClickRelocks \/ OverlayRelocks \/ RequestByUser \/ ChooseMode
    PROVE  LockAgrees'
  BY DEF ClickRelocks, OverlayRelocks, RequestByUser, ChooseMode, Request, hostVars,
     adaptiveVars, modeVars, Drawn, LockAgrees, ReleaseIsDue, OverlayIsDue, CursorIsDrawn

LEMMA ExitSteps ==
    ASSUME LockAgrees, LockExits \/ RestartLock
    PROVE  LockAgrees'
  BY DEF LockExits, RestartLock, ClearTimer, hostVars,
     adaptiveVars, modeVars, Drawn, LockAgrees, ReleaseIsDue, OverlayIsDue, CursorIsDrawn

LEMMA OverlaySteps ==
    ASSUME LockAgrees, ReleaseFires \/ OverlayDismissed \/ EscWhileLocked
    PROVE  LockAgrees'
  BY DEF ReleaseFires, OverlayDismissed, EscWhileLocked, hostVars,
     adaptiveVars, modeVars, Drawn, LockAgrees, ReleaseIsDue, OverlayIsDue, CursorIsDrawn

LEMMA AnswerSteps ==
    ASSUME LockAgrees, NEW k \in Requests, Granted(k) \/ NotSupported(k) \/ Refused(k)
    PROVE  LockAgrees'
<1>1. CASE Granted(k)
  BY <1>1 DEF Granted, Acquired, Entered, modeVars, Drawn, LockAgrees, ReleaseIsDue,
     OverlayIsDue, CursorIsDrawn
<1>2. CASE NotSupported(k)
  BY <1>2 DEF NotSupported, Acquired, hostVars, modeVars, Drawn, LockAgrees, ReleaseIsDue,
     OverlayIsDue, CursorIsDrawn
<1>3. CASE Refused(k)
  BY <1>3 DEF Refused, hostVars, modeVars, Drawn, LockAgrees, ReleaseIsDue,
     OverlayIsDue, CursorIsDrawn
<1> QED
  BY <1>1, <1>2, <1>3

-----------------------------------------------------------------------------
(* The drag.                                                               *)

LEMMA FingerSteps ==
    ASSUME DragHolds, NEW f, NEW relative, FingerDown(f) \/ FingerUp(f, relative)
    PROVE  DragHolds'
<1>1. CASE FingerDown(f)
  BY <1>1 DEF FingerDown, gestureVars, DragHolds
<1>2. CASE FingerUp(f, relative)
  BY <1>2 DEF FingerUp, gestureVars, DragHolds
<1> QED
  BY <1>1, <1>2

LEMMA OtherTouchSteps ==
    ASSUME DragHolds,
           \/ FingerMoves \/ FingerRests \/ TapTimer \/ ResetGesture \/ ChooseTouchMode
           \/ ForgetTouches \/ NewTouches
           \/ \E f \in Fingers : FingerVanishes(f) \/ StrayMove(f)
    PROVE  DragHolds'
  BY DEF FingerMoves, FingerRests, TapTimer, ResetGesture, ChooseTouchMode, ForgetTouches,
     NewTouches, FingerVanishes, StrayMove, gestureVars, DragHolds

-----------------------------------------------------------------------------
(* Types of the pointer lock and of the touches.                           *)

LockFlags ==
  {hidden, armed, active, prompt, overlay, timer, locked, leaving, toggling, late} \subseteq BOOLEAN
LockNames ==
  /\ emitted \in {"none", "hidden", "shown"} /\ cursor \in {"default", "none", "auto", "shape"}
  /\ mode \in Modes /\ previous \in Modes /\ requests \subseteq Requests

LockMoves ==
  \/ \E h \in BOOLEAN : HostCursor(h)
  \/ \E k \in Requests : Granted(k) \/ NotSupported(k) \/ Refused(k)
  \/ ClickRelocks \/ OverlayRelocks \/ RequestByUser \/ ChooseMode \/ LockExits \/ RestartLock
  \/ ReleaseFires \/ OverlayDismissed \/ EscWhileLocked

LEMMA LockFlagSteps ==
    ASSUME LockFlags, LockMoves
    PROVE  LockFlags'
<1> USE DEF LockFlags, hostVars, adaptiveVars, modeVars
<1>1. ASSUME NEW h \in BOOLEAN, HostCursor(h) PROVE LockFlags'
  BY <1>1 DEF HostCursor
<1>2. ASSUME NEW k \in Requests, Granted(k) PROVE LockFlags'
  BY <1>2 DEF Granted, Acquired, Entered
<1>3. ASSUME NEW k \in Requests, NotSupported(k) \/ Refused(k) PROVE LockFlags'
  BY <1>3 DEF NotSupported, Refused, Acquired
<1>4. CASE ClickRelocks \/ OverlayRelocks \/ RequestByUser \/ ChooseMode
  BY <1>4 DEF ClickRelocks, OverlayRelocks, RequestByUser, ChooseMode, Request
<1>5. CASE LockExits \/ RestartLock
  BY <1>5 DEF LockExits, RestartLock, ClearTimer
<1>6. CASE ReleaseFires \/ OverlayDismissed \/ EscWhileLocked
  BY <1>6 DEF ReleaseFires, OverlayDismissed, EscWhileLocked
<1> QED
  BY <1>1, <1>2, <1>3, <1>4, <1>5, <1>6 DEF LockMoves

LEMMA LockNameSteps ==
    ASSUME LockNames, LockMoves
    PROVE  LockNames'
<1> USE DEF LockNames, hostVars, adaptiveVars, modeVars, Modes, Requests
<1>1. ASSUME NEW h \in BOOLEAN, HostCursor(h) PROVE LockNames'
  BY <1>1 DEF HostCursor, Drawn
<1>2. ASSUME NEW k \in Requests, Granted(k) PROVE LockNames'
  BY <1>2 DEF Granted, Acquired, Entered
<1>3. ASSUME NEW k \in Requests, NotSupported(k) \/ Refused(k) PROVE LockNames'
  BY <1>3 DEF NotSupported, Refused, Acquired
<1>4. CASE ClickRelocks \/ OverlayRelocks \/ RequestByUser \/ ChooseMode
  BY <1>4 DEF ClickRelocks, OverlayRelocks, RequestByUser, ChooseMode, Request
<1>5. CASE LockExits \/ RestartLock
  BY <1>5 DEF LockExits, RestartLock, ClearTimer
<1>6. CASE ReleaseFires \/ OverlayDismissed \/ EscWhileLocked
  BY <1>6 DEF ReleaseFires, OverlayDismissed, EscWhileLocked
<1> QED
  BY <1>1, <1>2, <1>3, <1>4, <1>5, <1>6 DEF LockMoves

TouchRecords == [clicked : {None, "left"}, moved : BOOLEAN]
TouchInv ==
  /\ fingers \subseteq Fingers /\ touchMode \in {"touch", "mouseRelative", "pointAndDrag"}
  /\ Tracked \subseteq Fingers /\ tracker \in [Tracked -> TouchRecords]
  /\ primary \in Tracked \cup {None} /\ (touchMode = "touch" => primary = None)
  /\ action \in {"default", "drag", "scroll", "screenKeyboard"}
  /\ doubleTap \in BOOLEAN /\ taps \in 0..MaxTaps /\ left \in BOOLEAN

LEMMA TrackFacts ==
    ASSUME TouchInv, NEW f \in Fingers
    PROVE  /\ Track(f) \in [Tracked \cup {f} -> TouchRecords]
           /\ Untrack(f) \in [Tracked \ {f} -> TouchRecords]
<1> NewTouch \in TouchRecords
  BY DEF NewTouch, TouchRecords
<1>1. Track(f) \in [Tracked \cup {f} -> TouchRecords]
  BY DEF Track, TouchInv, Tracked
<1>2. Untrack(f) \in [Tracked \ {f} -> TouchRecords]
  BY DEF Untrack, TouchInv, Tracked
<1> QED
  BY <1>1, <1>2

LEMMA FingerDownTypes ==
    ASSUME TouchInv, NEW f \in Fingers, FingerDown(f)
    PROVE  TouchInv'
<1> DEFINE seen == Track(f)
           main == IF primary = None THEN f ELSE primary
           drags == touchMode = "mouseRelative" /\ doubleTap
           clicked == IF drags THEN "left" ELSE seen[main].clicked
           scrolls == Cardinality(DOMAIN seen) = 2 /\ ~seen[main].moved /\ clicked = None
           new == [clicked |-> clicked,
                   moved |-> seen[main].moved \/ (scrolls /\ touchMode = "pointAndDrag")]
<1>1. seen \in [Tracked \cup {f} -> TouchRecords] /\ main \in Tracked \cup {f}
  BY TrackFacts DEF TouchInv
<1>2. fingers' = fingers \cup {f} /\ UNCHANGED <<touchMode, taps>>
  BY DEF FingerDown
<1>3. CASE touchMode = "touch"
  <2>1. tracker' = seen /\ UNCHANGED <<primary, action, doubleTap, left>>
    BY <1>3 DEF FingerDown, gestureVars
  <2>2. DOMAIN tracker' = Tracked \cup {f} /\ tracker' \in [Tracked \cup {f} -> TouchRecords]
    BY <1>1, <2>1
  <2> HIDE DEF seen
  <2> QED
    BY <1>2, <2>1, <2>2 DEF TouchInv, Tracked
<1>4. CASE touchMode # "touch"
  <2>1. /\ primary' = main /\ left' = (left \/ drags) /\ doubleTap' = (doubleTap /\ ~drags)
        /\ tracker' = [seen EXCEPT ![main] = new]
    BY <1>4 DEF FingerDown
  <2>2. action' \in {"default", "drag", "scroll", "screenKeyboard"}
    <3>1. \/ action' \in {"scroll", "screenKeyboard", "drag", "default"}
          \/ action' = action
      BY <1>4 DEF FingerDown
    <3> QED
      BY <3>1 DEF TouchInv
  <2>3. drags \in BOOLEAN /\ left \in BOOLEAN /\ doubleTap \in BOOLEAN
    BY DEF TouchInv
  <2>4. seen[main] \in TouchRecords
    BY <1>1
  <2>5. clicked \in {None, "left"} /\ (seen[main].moved \/ (scrolls /\ touchMode = "pointAndDrag")) \in BOOLEAN
    <3> HIDE DEF seen, main
    <3> QED
      BY <2>4 DEF TouchRecords
  <2>6. new \in TouchRecords
    <3> HIDE DEF clicked, scrolls, seen, main
    <3> QED
      BY <2>5 DEF TouchRecords
  <2> HIDE DEF new, seen, main, drags
  <2>7. tracker' \in [Tracked \cup {f} -> TouchRecords] /\ DOMAIN tracker' = Tracked \cup {f}
    BY <1>1, <2>1, <2>6
  <2>8. left' \in BOOLEAN /\ doubleTap' \in BOOLEAN
    BY <2>1, <2>3
  <2> QED
    BY <1>1, <1>2, <1>4, <2>1, <2>2, <2>7, <2>8 DEF TouchInv, Tracked
<1> QED
  BY <1>3, <1>4

LEMMA FingerUpTypes ==
    ASSUME TouchInv, TouchAssumption, NEW f \in Fingers, NEW relative, FingerUp(f, relative)
    PROVE  TouchInv'
<1>1. /\ fingers' = fingers \ {f} /\ tracker' = Untrack(f) /\ UNCHANGED touchMode
  BY DEF FingerUp
<1>2. tracker' \in [Tracked \ {f} -> TouchRecords] /\ DOMAIN tracker' = Tracked \ {f}
  BY <1>1, TrackFacts
<1>3. CASE (touchMode = "touch" \/ primary # f) /\ UNCHANGED <<gestureVars, taps, left>>
  BY <1>1, <1>2, <1>3 DEF gestureVars, TouchInv, Tracked
<1>4. CASE ~(touchMode = "touch" \/ primary # f)
  <2>1. PICK near \in BOOLEAN, time \in {"quick", "short", "long"} :
          /\ primary' = None /\ UNCHANGED action /\ doubleTap' = (time = "quick")
          /\ taps' = (IF time = "quick" THEN taps + 1 ELSE taps) /\ taps' <= MaxTaps
          /\ \E pressed_, click : DoClick(pressed_, click)
    BY <1>4 DEF FingerUp
  <2>2. doubleTap' \in BOOLEAN
    BY <2>1
  <2>3. taps' \in 0..MaxTaps
    BY <2>1, TouchAssumption DEF TouchInv
  <2>4. left' \in BOOLEAN
    BY <2>1 DEF DoClick, TouchInv
  <2> QED
    BY <1>1, <1>2, <2>1, <2>2, <2>3, <2>4 DEF TouchInv, Tracked
<1> QED
  BY <1>3, <1>4 DEF FingerUp

LEMMA FingerMoveTypes ==
    ASSUME TouchInv, FingerMoves \/ FingerRests \/ \E f \in Fingers : StrayMove(f)
    PROVE  TouchInv'
<1>1. CASE FingerMoves
  <2> DEFINE new == [clicked |-> IF touchMode = "pointAndDrag" THEN "left" ELSE tracker[primary].clicked,
                     moved |-> TRUE]
  <2>1. /\ primary \in Tracked /\ tracker' = [tracker EXCEPT ![primary] = new]
        /\ UNCHANGED <<fingers, touchMode, primary, doubleTap, taps>>
        /\ (action' = "drag" /\ left' = TRUE) \/ UNCHANGED <<action, left>>
    BY <1>1 DEF FingerMoves
  <2>2. new \in TouchRecords
    <3>1. tracker[primary] \in TouchRecords
      BY <2>1 DEF TouchInv
    <3> QED
      BY <3>1 DEF TouchRecords
  <2> HIDE DEF new
  <2>3. tracker' \in [Tracked -> TouchRecords] /\ DOMAIN tracker' = Tracked
    BY <2>1, <2>2 DEF TouchInv
  <2> QED
    BY <2>1, <2>3 DEF TouchInv, Tracked
<1>2. CASE FingerRests
  <2> DEFINE new == [tracker[primary] EXCEPT !.moved = TRUE]
  <2>1. /\ primary \in Tracked /\ tracker' = [tracker EXCEPT ![primary] = new]
        /\ UNCHANGED <<fingers, touchMode, primary, action, doubleTap, taps, left>>
    BY <1>2 DEF FingerRests, gestureVars
  <2>2. new \in TouchRecords
    <3>1. tracker[primary] \in TouchRecords
      BY <2>1 DEF TouchInv
    <3> QED
      BY <3>1 DEF TouchRecords
  <2> HIDE DEF new
  <2>3. tracker' \in [Tracked -> TouchRecords] /\ DOMAIN tracker' = Tracked
    BY <2>1, <2>2 DEF TouchInv
  <2> QED
    BY <2>1, <2>3 DEF TouchInv, Tracked
<1>3. ASSUME NEW f \in Fingers, StrayMove(f) PROVE TouchInv'
  <2>1. /\ tracker' \in [Tracked \cup {f} -> TouchRecords] /\ DOMAIN tracker' = Tracked \cup {f}
        /\ UNCHANGED <<fingers, touchMode, primary, action, doubleTap, taps, left>>
    BY <1>3, TrackFacts DEF StrayMove, gestureVars
  <2> QED
    BY <2>1 DEF TouchInv, Tracked
<1> QED
  BY <1>1, <1>2, <1>3

LEMMA GestureTypes ==
    ASSUME TouchInv,
           \/ TapTimer \/ ResetGesture \/ ChooseTouchMode \/ ForgetTouches \/ NewTouches
           \/ \E f \in Fingers : FingerVanishes(f)
    PROVE  TouchInv'
<1>1. ASSUME tracker' = tracker, UNCHANGED <<touchMode, primary, action>>, fingers' \subseteq fingers,
             doubleTap' \in BOOLEAN, taps' \in 0..MaxTaps, left' \in BOOLEAN
      PROVE  TouchInv'
  BY <1>1 DEF TouchInv, Tracked
<1>2. ASSUME tracker' = <<>>, primary' = None, fingers' = fingers,
             touchMode' \in {"touch", "mouseRelative", "pointAndDrag"},
             action' \in {action, "default"}, doubleTap' \in BOOLEAN, taps' \in 0..MaxTaps,
             left' \in BOOLEAN
      PROVE  TouchInv'
  <2>1. tracker' \in [{} -> TouchRecords] /\ DOMAIN tracker' = {}
    BY <1>2
  <2> QED
    BY <1>2, <2>1 DEF TouchInv, Tracked
<1>3. ASSUME NEW f \in Fingers, FingerVanishes(f) PROVE TouchInv'
  BY <1>1, <1>3 DEF FingerVanishes, gestureVars, TouchInv
<1>4. CASE TapTimer
  <2>1. tracker' = tracker /\ UNCHANGED <<touchMode, primary, action, fingers>> /\ taps' \in 0..MaxTaps
    BY <1>4, TouchAssumption DEF TapTimer, TouchInv
  <2>2. doubleTap' \in BOOLEAN /\ left' \in BOOLEAN
    BY <1>4 DEF TapTimer, TouchInv
  <2> QED
    BY <1>1, <2>1, <2>2
<1>5. CASE ResetGesture
  BY <1>2, <1>5 DEF ResetGesture, TouchInv
<1>6. CASE ChooseTouchMode \/ ForgetTouches
  BY <1>2, <1>6 DEF ChooseTouchMode, ForgetTouches, TouchInv
<1>7. CASE NewTouches
  <2>1. 0 \in 0..MaxTaps
    BY TouchAssumption
  <2> QED
    BY <1>2, <1>7, <2>1 DEF NewTouches, TouchInv
<1> QED
  BY <1>3, <1>4, <1>5, <1>6, <1>7

-----------------------------------------------------------------------------
(* The controllers.                                                        *)

SlotRecords == [owner : Pads \cup {"virtual", "empty"}, old : BOOLEAN]
PadTypes ==
  /\ connected \in BOOLEAN /\ overlay_shown \in BOOLEAN
  /\ plugged \in [DOMAIN plugged -> BOOLEAN] /\ DOMAIN plugged \subseteq Pads
  /\ buffered \in Seq(Pads) /\ slots \in Seq(SlotRecords) /\ virtual \in {0} \cup Slots
  /\ control \in Seq({"add", "remove"} \X Nat) /\ states \in [Slots -> SUBSET BOOLEAN]
  /\ active_gamepads \subseteq Nat /\ host \subseteq Slots
\* A slot has one owner, and the overlay's is the one the input knows of.
OneSlotEach ==
  /\ \A i, j \in DOMAIN slots : slots[i].owner = slots[j].owner => i = j \/ slots[i].owner = "empty"
  /\ \A i \in DOMAIN slots : slots[i].owner = "virtual" <=> i = virtual
  /\ virtual # 0 => virtual \in DOMAIN slots /\ overlay_shown
PadInv ==
  PadTypes /\ OneSlotEach /\ host \subseteq active_gamepads /\ (~connected => slots = <<>> /\ virtual = 0)

LEMMA Least == ASSUME NEW S \in SUBSET Nat, S # {} PROVE \E i \in S : \A j \in S : i <= j
<1>1. PICK x \in S : \A y \in S : ~(<<y, x>> \in OpToRel(<, Nat))
  BY NatLessThanWellFounded, WFMin
<1>2. \A y \in S : ~(y < x)
  BY <1>1 DEF OpToRel
<1> QED
  BY <1>2

LEMMA FreeSlotFacts ==
    ASSUME NEW table \in Seq(SlotRecords)
    PROVE  /\ FreeSlot(table) \in 1..Len(table) + 1
           /\ FreeSlot(table) \in DOMAIN table => table[FreeSlot(table)].owner = "empty"
<1> DEFINE free == Owned(table, "empty")
<1>1. CASE free = {}
  BY <1>1 DEF FreeSlot
<1>2. CASE free # {}
  <2>1. free \in SUBSET Nat /\ free \subseteq 1..Len(table)
    BY DEF Owned
  <2>2. \E i \in free : \A j \in free : i <= j
    <3> HIDE DEF free
    <3> QED
      BY <1>2, <2>1, Least
  <2>3. FreeSlot(table) \in free
    BY <1>2, <2>2 DEF FreeSlot
  <2> QED
    BY <2>1, <2>3 DEF Owned
<1> QED
  BY <1>1, <1>2

\* A table that gets an owner in a free slot.
LEMMA OccupyFacts ==
    ASSUME NEW table \in Seq(SlotRecords), NEW o \in Pads \cup {"virtual", "empty"},
           NEW n \in 1..Len(table) + 1
    PROVE  /\ Occupy(table, n, o) \in Seq(SlotRecords) /\ n \in DOMAIN Occupy(table, n, o)
           /\ DOMAIN Occupy(table, n, o) = DOMAIN table \cup {n}
           /\ Occupy(table, n, o)[n].owner = o
           /\ \A i \in DOMAIN table : i # n => Occupy(table, n, o)[i] = table[i]
<1> DEFINE s == Slot(o, FALSE)
<1>1. s \in SlotRecords /\ s.owner = o
  BY DEF Slot, SlotRecords
<1> HIDE DEF s
<1>2. Occupy(table, n, o) = (IF n \in DOMAIN table THEN [table EXCEPT ![n] = s] ELSE Append(table, s))
  BY DEF Occupy, s
<1>3. CASE n \in DOMAIN table
  <2> DEFINE new == [table EXCEPT ![n] = s]
  <2>1. Occupy(table, n, o) = new
    BY <1>2, <1>3
  <2>2. new \in Seq(SlotRecords) /\ DOMAIN new = DOMAIN table
    BY <1>1, <1>3
  <2>3. new[n] = s /\ \A i \in DOMAIN table : i # n => new[i] = table[i]
    BY <1>3
  <2> HIDE DEF new
  <2> QED
    BY <1>1, <1>3, <2>1, <2>2, <2>3
<1>4. CASE n \notin DOMAIN table
  <2>1. Occupy(table, n, o) = Append(table, s) /\ n = Len(table) + 1
    BY <1>2, <1>4
  <2> QED
    BY <1>1, <2>1
<1> QED
  BY <1>3, <1>4

LEMMA Announced ==
    ASSUME PadInv, NEW op \in {"add", "remove"}, NEW i \in Nat, Announce(op, i)
    PROVE  control' \in Seq({"add", "remove"} \X Nat)
  BY DEF Announce, PadInv, PadTypes

\* A slot that is freed, whoever's it was.
LEMMA FreeFacts ==
    ASSUME NEW table \in Seq(SlotRecords), NEW n \in DOMAIN table
    PROVE  /\ [table EXCEPT ![n] = Empty] \in Seq(SlotRecords)
           /\ DOMAIN [table EXCEPT ![n] = Empty] = DOMAIN table
           /\ [table EXCEPT ![n] = Empty][n].owner = "empty"
           /\ \A i \in DOMAIN table : i # n => [table EXCEPT ![n] = Empty][i] = table[i]
<1> DEFINE e == Empty
<1>1. e \in SlotRecords /\ e.owner = "empty"
  BY DEF Empty, Slot, SlotRecords
<1> HIDE DEF e
<1>2. [table EXCEPT ![n] = e] \in Seq(SlotRecords) /\ DOMAIN [table EXCEPT ![n] = e] = DOMAIN table
  BY <1>1
<1>3. [table EXCEPT ![n] = e][n] = e /\ \A i \in DOMAIN table : i # n => [table EXCEPT ![n] = e][i] = table[i]
  OBVIOUS
<1>4. [table EXCEPT ![n] = e][n].owner = "empty"
  BY <1>1, <1>3
<1> QED
  BY <1>2, <1>3, <1>4 DEF e

LEMMA InitPads == PadInit => PadInv
<1> SUFFICES ASSUME PadInit PROVE PadInv
  OBVIOUS
<1>1. plugged \in [DOMAIN plugged -> BOOLEAN] /\ DOMAIN plugged \subseteq Pads
  BY DEF PadInit
<1>2. <<>> \in Seq(Pads) /\ <<>> \in Seq(SlotRecords) /\ <<>> \in Seq({"add", "remove"} \X Nat)
  OBVIOUS
<1>3. states \in [Slots -> SUBSET BOOLEAN] /\ active_gamepads \subseteq Nat /\ host \subseteq Slots
  BY DEF PadInit
<1>4. connected \in BOOLEAN /\ overlay_shown \in BOOLEAN
  BY DEF PadInit
<1>5. PadTypes
  BY <1>1, <1>2, <1>3, <1>4 DEF PadInit, PadTypes
<1>6. OneSlotEach /\ host \subseteq active_gamepads /\ (~connected => slots = <<>> /\ virtual = 0)
  BY DEF PadInit, OneSlotEach
<1> QED
  BY <1>5, <1>6 DEF PadInv

\* A pad or the overlay takes a free slot.
LEMMA OccupyStep ==
    ASSUME PadInv, NEW o \in Pads \cup {"virtual"}, Owned(slots, o) = {},
           NEW n, n = FreeSlot(slots), slots' = Occupy(slots, n, o),
           \/ o # "virtual" /\ UNCHANGED <<virtual, overlay_shown>>
           \/ o = "virtual" /\ virtual = 0 /\ virtual' = n /\ overlay_shown'
    PROVE  slots' \in Seq(SlotRecords) /\ OneSlotEach' /\ n \in DOMAIN slots' /\ n \in Nat \ {0}
<1> slots \in Seq(SlotRecords) /\ OneSlotEach
  BY DEF PadInv, PadTypes
<1>1. n \in 1..Len(slots) + 1 /\ (n \in DOMAIN slots => slots[n].owner = "empty")
  BY FreeSlotFacts
<1>2. /\ slots' \in Seq(SlotRecords) /\ n \in DOMAIN slots' /\ DOMAIN slots' = DOMAIN slots \cup {n}
      /\ slots'[n].owner = o /\ \A i \in DOMAIN slots : i # n => slots'[i] = slots[i]
  <2>1. o \in Pads \cup {"virtual", "empty"}
    OBVIOUS
  <2> DEFINE new == Occupy(slots, n, o)
  <2>2. /\ new \in Seq(SlotRecords) /\ n \in DOMAIN new /\ DOMAIN new = DOMAIN slots \cup {n}
        /\ new[n].owner = o /\ \A i \in DOMAIN slots : i # n => new[i] = slots[i]
    BY <1>1, <2>1, OccupyFacts
  <2>3. slots' = new
    OBVIOUS
  <2> HIDE DEF new
  <2> QED
    BY <2>2, <2>3
<1>3. \A i \in DOMAIN slots : slots[i].owner # o
  BY DEF Owned
<1>4. n # 0 /\ o # "empty" /\ \A i \in DOMAIN slots : slots[i].owner \in Pads \cup {"virtual", "empty"}
  <2>1. n # 0
    BY <1>1
  <2>2. o # "empty"
    BY PadsAssumption
  <2>3. \A i \in DOMAIN slots : slots[i] \in SlotRecords
    OBVIOUS
  <2> QED
    BY <2>1, <2>2, <2>3 DEF SlotRecords
<1>5. ASSUME NEW i \in DOMAIN slots', NEW j \in DOMAIN slots', slots'[i].owner = slots'[j].owner
      PROVE  i = j \/ slots'[i].owner = "empty"
  BY <1>2, <1>3, <1>4, <1>5 DEF OneSlotEach
<1>6. ASSUME NEW i \in DOMAIN slots' PROVE slots'[i].owner = "virtual" <=> i = virtual'
  <2>1. CASE o = "virtual"
    BY <1>2, <1>3, <1>4, <2>1 DEF OneSlotEach
  <2>2. CASE o # "virtual"
    <3>1. n # virtual
      <4>1. CASE virtual = 0
        BY <1>4, <4>1
      <4>2. CASE virtual # 0
        BY <1>1, <4>2 DEF OneSlotEach
      <4> QED
        BY <4>1, <4>2
    <3> QED
      BY <1>2, <2>2, <3>1 DEF OneSlotEach
  <2> QED
    BY <2>1, <2>2
<1>7. virtual' # 0 => virtual' \in DOMAIN slots' /\ overlay_shown'
  BY <1>2 DEF OneSlotEach
<1> QED
  BY <1>1, <1>2, <1>5, <1>6, <1>7 DEF OneSlotEach

\* The slot of a pad or of the overlay is freed.
LEMMA FreeStep ==
    ASSUME PadInv, NEW n \in DOMAIN slots, slots' = [slots EXCEPT ![n] = Empty],
           \/ n # virtual /\ UNCHANGED <<virtual, overlay_shown>>
           \/ n = virtual /\ virtual' = 0
    PROVE  slots' \in Seq(SlotRecords) /\ OneSlotEach'
<1> slots \in Seq(SlotRecords) /\ OneSlotEach
  BY DEF PadInv, PadTypes
<1>1. /\ slots' \in Seq(SlotRecords) /\ DOMAIN slots' = DOMAIN slots
      /\ slots'[n].owner = "empty" /\ \A i \in DOMAIN slots : i # n => slots'[i] = slots[i]
  BY FreeFacts
<1>2. 0 \notin DOMAIN slots
  OBVIOUS
<1>3. ASSUME NEW i \in DOMAIN slots', NEW j \in DOMAIN slots', slots'[i].owner = slots'[j].owner
      PROVE  i = j \/ slots'[i].owner = "empty"
  BY <1>1, <1>3 DEF OneSlotEach
<1>4. ASSUME NEW i \in DOMAIN slots' PROVE slots'[i].owner = "virtual" <=> i = virtual'
  BY <1>1, <1>2, <1>4 DEF OneSlotEach
<1>5. virtual' # 0 => virtual' \in DOMAIN slots' /\ overlay_shown'
  BY <1>1 DEF OneSlotEach
<1> QED
  BY <1>1, <1>3, <1>4, <1>5 DEF OneSlotEach

LEMMA PadConnectsStep ==
    ASSUME PadInv, NEW p \in Pads, PadConnects(p)
    PROVE  PadInv'
<1>1. plugged' \in [DOMAIN plugged' -> BOOLEAN] /\ DOMAIN plugged' \subseteq Pads
  BY DEF PadConnects, PadInv, PadTypes
<1>2. UNCHANGED <<connected, virtual, overlay_shown, states, active_gamepads, host>>
  BY DEF PadConnects, hostPadVars
<1>3. CASE ~connected
  <2>1. buffered' = Append(buffered, p) /\ UNCHANGED <<slots, control>>
    BY <1>3 DEF PadConnects
  <2>2. buffered' \in Seq(Pads)
    BY <2>1 DEF PadInv, PadTypes
  <2> QED
    BY <1>1, <1>2, <2>1, <2>2 DEF PadInv, PadTypes, OneSlotEach
<1>4. CASE connected /\ Owned(slots, p) # {}
  <2>1. UNCHANGED <<slots, control, buffered>>
    BY <1>4 DEF PadConnects, Register
  <2> QED
    BY <1>1, <1>2, <2>1 DEF PadInv, PadTypes, OneSlotEach
<1>5. CASE connected /\ Owned(slots, p) = {}
  <2> DEFINE n == FreeSlot(slots)
  <2>1. slots' = Occupy(slots, n, p) /\ Announce("add", Len(slots')) /\ UNCHANGED buffered
    BY <1>5 DEF PadConnects, Register
  <2>2. p # "virtual"
    BY PadsAssumption
  <2>3. slots' \in Seq(SlotRecords) /\ OneSlotEach'
    BY <1>2, <1>5, <2>1, <2>2, OccupyStep
  <2>4. control' \in Seq({"add", "remove"} \X Nat)
    BY <2>1, <2>3, Announced
  <2> QED
    BY <1>1, <1>2, <1>5, <2>1, <2>3, <2>4 DEF PadInv, PadTypes
<1> QED
  BY <1>3, <1>4, <1>5 DEF PadInv, PadTypes

LEMMA PadDisconnectsStep ==
    ASSUME PadInv, NEW p \in Pads, PadDisconnects(p)
    PROVE  PadInv'
<1>1. plugged' \in [DOMAIN plugged' -> BOOLEAN] /\ DOMAIN plugged' \subseteq Pads
  BY DEF PadDisconnects, PadInv, PadTypes
<1>2. UNCHANGED <<connected, buffered, virtual, overlay_shown, states, active_gamepads, host>>
  BY DEF PadDisconnects, hostPadVars
<1>3. CASE UNCHANGED <<slots, control>>
  BY <1>1, <1>2, <1>3 DEF PadInv, PadTypes, OneSlotEach
<1>4. ASSUME NEW i \in Owned(slots, p), slots' = [slots EXCEPT ![i] = Empty], Announce("remove", i)
      PROVE  PadInv'
  <2>1. i \in DOMAIN slots /\ i \in Nat /\ slots[i].owner = p /\ p # "virtual" /\ slots # <<>>
    BY PadsAssumption DEF Owned, PadInv, PadTypes
  <2>2. i # virtual
    BY <2>1 DEF PadInv, OneSlotEach
  <2>3. slots' \in Seq(SlotRecords) /\ OneSlotEach'
    BY <1>2, <1>4, <2>1, <2>2, FreeStep
  <2>4. control' \in Seq({"add", "remove"} \X Nat)
    BY <1>4, <2>1, Announced
  <2> QED
    BY <1>1, <1>2, <2>1, <2>3, <2>4 DEF PadInv, PadTypes
<1> QED
  BY <1>3, <1>4 DEF PadDisconnects

LEMMA StreamConnectsStep ==
    ASSUME PadInv, StreamConnects
    PROVE  PadInv'
<1>1. PICK order \in [1..Cardinality(Waiting) -> Waiting] :
        /\ InOrder(order)
        /\ slots' = [i \in DOMAIN order |-> Slot(order[i], FALSE)]
        /\ control' = [i \in DOMAIN order |-> <<"add", i>>]
  BY DEF StreamConnects
<1>2. /\ connected' = TRUE /\ buffered' = <<>> /\ virtual = 0
      /\ UNCHANGED <<plugged, virtual, overlay_shown, states, active_gamepads, host>>
  BY DEF StreamConnects, hostPadVars, PadInv
<1>3. Waiting \subseteq Pads /\ Cardinality(Waiting) \in Nat
  BY PadsAssumption, FS_Subset, FS_CardinalityType DEF Waiting, PadInv, PadTypes
<1>4. \A i, j \in DOMAIN order : i < j => order[i] # order[j]
  BY <1>1 DEF InOrder, PadInv, PadTypes
<1>5. \A i \in DOMAIN slots' : slots'[i] \in SlotRecords /\ slots'[i].owner = order[i]
                               /\ order[i] \in Pads
  BY <1>1, <1>3 DEF Slot, SlotRecords
<1>6. DOMAIN slots' = 1..Cardinality(Waiting) /\ slots' \in Seq(SlotRecords)
  <2>1. slots' \in [1..Cardinality(Waiting) -> SlotRecords]
    BY <1>1, <1>5
  <2> QED
    BY <1>3, <2>1
<1>7. control' \in Seq({"add", "remove"} \X Nat)
  <2>1. control' \in [1..Cardinality(Waiting) -> {"add", "remove"} \X Nat]
    BY <1>1
  <2> QED
    BY <1>3, <2>1
<1>8. OneSlotEach'
  <2>1. \A i, j \in DOMAIN slots' : slots'[i].owner = slots'[j].owner => i = j
    <3>1. ASSUME NEW i \in DOMAIN slots', NEW j \in DOMAIN slots', slots'[i].owner = slots'[j].owner
          PROVE  i = j
      <4>1. i \in Nat /\ j \in Nat /\ i \in DOMAIN order /\ j \in DOMAIN order
        BY <1>1, <1>3, <1>6
      <4>2. order[i] = order[j]
        BY <1>5, <3>1
      <4> QED
        BY <1>4, <4>1, <4>2
    <3> QED
      BY <3>1
  <2>2. \A i \in DOMAIN slots' : slots'[i].owner # "virtual" /\ i # 0
    BY <1>5, <1>6, PadsAssumption
  <2> QED
    BY <1>2, <2>1, <2>2 DEF OneSlotEach
<1>9. <<>> \in Seq(Pads)
  OBVIOUS
<1> QED
  BY <1>2, <1>6, <1>7, <1>8, <1>9 DEF PadInv, PadTypes

LEMMA SendTypes ==
    ASSUME PadInv, NEW i, NEW down \in BOOLEAN, SendState(i, down)
    PROVE  states' \in [Slots -> SUBSET BOOLEAN]
<1>1. CASE UNCHANGED states
  BY <1>1 DEF PadInv, PadTypes
<1>2. CASE states' = [states EXCEPT ![i] = @ \cup {down}]
  BY <1>2 DEF PadInv, PadTypes
<1> QED
  BY <1>1, <1>2 DEF SendState

LEMMA SlotUpdatesStep ==
    ASSUME PadInv, NEW n \in DOMAIN slots, SlotUpdates(n)
    PROVE  PadInv'
<1>1. /\ slots' = [slots EXCEPT ![n].old = ~@] /\ SendState(n, ~slots[n].old)
      /\ UNCHANGED <<plugged, connected, buffered, virtual, overlay_shown, control,
                     active_gamepads, host>>
  BY DEF SlotUpdates, hostPadVars
<1>2. slots \in Seq(SlotRecords) /\ slots[n] \in SlotRecords
  BY DEF PadInv, PadTypes
<1> DEFINE s == [slots[n] EXCEPT !.old = ~@]
<1>3. s \in SlotRecords /\ s.owner = slots[n].owner
  BY <1>2 DEF SlotRecords
<1>4. slots' = [slots EXCEPT ![n] = s]
  BY <1>1
<1> HIDE DEF s
<1>5. slots' \in Seq(SlotRecords) /\ DOMAIN slots' = DOMAIN slots /\ slots # <<>>
  BY <1>2, <1>3, <1>4
<1>6. \A i \in DOMAIN slots : slots'[i].owner = slots[i].owner
  BY <1>2, <1>3, <1>4
<1>7. OneSlotEach'
  BY <1>1, <1>5, <1>6 DEF OneSlotEach, PadInv
<1>8. states' \in [Slots -> SUBSET BOOLEAN]
  <2> DEFINE down == ~slots[n].old
  <2>1. down \in BOOLEAN /\ SendState(n, down)
    BY <1>1
  <2> HIDE DEF down
  <2> QED
    BY <2>1, SendTypes
<1> QED
  BY <1>1, <1>5, <1>7, <1>8 DEF PadInv, PadTypes

LEMMA ShowOverlayStep ==
    ASSUME PadInv, ShowOverlay
    PROVE  PadInv'
<1> DEFINE n == FreeSlot(slots)
<1>1. overlay_shown' = TRUE /\ UNCHANGED <<plugged, connected, buffered, states, active_gamepads, host>>
  BY DEF ShowOverlay, hostPadVars
<1>2. CASE UNCHANGED <<slots, virtual, control>>
  BY <1>1, <1>2 DEF PadInv, PadTypes, OneSlotEach
<1>3. CASE ~UNCHANGED <<slots, virtual, control>>
  <2>1. /\ connected /\ virtual = 0 /\ n <= MaxSlots /\ virtual' = n /\ Announce("add", n)
        /\ slots' = Occupy(slots, n, "virtual")
    BY <1>3 DEF ShowOverlay, slotVars
  <2>2. Owned(slots, "virtual") = {}
    BY <2>1 DEF Owned, PadInv, PadTypes, OneSlotEach
  <2>3. slots' \in Seq(SlotRecords) /\ OneSlotEach' /\ n \in Nat \ {0}
    BY <1>1, <2>1, <2>2, OccupyStep
  <2> HIDE DEF n
  <2>4. control' \in Seq({"add", "remove"} \X Nat)
    BY <2>1, <2>3, Announced
  <2>5. virtual' \in Slots
    BY <2>1, <2>3, PadsAssumption DEF Slots
  <2> QED
    BY <1>1, <2>1, <2>3, <2>4, <2>5 DEF PadInv, PadTypes
<1> QED
  BY <1>2, <1>3

LEMMA HideOverlayStep ==
    ASSUME PadInv, HideOverlay \/ ContextLost
    PROVE  PadInv'
<1>1. /\ UNCHANGED <<plugged, connected, buffered, active_gamepads, host>>
      /\ overlay_shown' \in {overlay_shown, FALSE}
  BY DEF HideOverlay, ContextLost, hostPadVars
<1>2. CASE virtual = 0
  BY <1>1, <1>2 DEF HideOverlay, ContextLost, slotVars, PadInv, PadTypes, OneSlotEach
<1>3. CASE virtual # 0
  <2>1. virtual \in DOMAIN slots /\ virtual \in Nat /\ virtual \in Slots /\ slots # <<>>
    BY <1>3 DEF PadInv, PadTypes, OneSlotEach, Slots
  <2>2. slots' = [slots EXCEPT ![virtual] = Empty] /\ virtual' = 0
    BY <1>3 DEF HideOverlay, ContextLost
  <2>3. slots' \in Seq(SlotRecords) /\ OneSlotEach'
    BY <2>1, <2>2, FreeStep
  <2>4. control' \in Seq({"add", "remove"} \X Nat)
    BY <1>3, <2>1, Announced DEF HideOverlay, ContextLost, PadInv, PadTypes
  <2>5. states' \in [Slots -> SUBSET BOOLEAN]
    <3>1. UNCHANGED states \/ SendState(virtual, FALSE)
      BY <1>3 DEF HideOverlay, ContextLost
    <3> QED
      BY <3>1, SendTypes DEF PadInv, PadTypes
  <2>6. overlay_shown' \in BOOLEAN
    BY <1>1 DEF PadInv, PadTypes
  <2> QED
    BY <1>1, <2>1, <2>2, <2>3, <2>4, <2>5, <2>6 DEF PadInv, PadTypes
<1> QED
  BY <1>2, <1>3

LEMMA StreamerSteps ==
    ASSUME PadInv,
           \/ StreamerControls
           \/ \E i \in Slots : StateLost(i) \/ \E down \in BOOLEAN : StreamerState(i, down)
    PROVE  PadInv'
<1>1. CASE StreamerControls
  <2>1. /\ control # <<>> /\ control' = Tail(control)
        /\ UNCHANGED <<plugged, connected, buffered, slots, virtual, overlay_shown, states>>
    BY <1>1 DEF StreamerControls, slotVars
  <2>2. Head(control) \in {"add", "remove"} \X Nat /\ control' \in Seq({"add", "remove"} \X Nat)
    BY <2>1 DEF PadInv, PadTypes
  <2>3. /\ active_gamepads' \subseteq Nat /\ host' \subseteq Slots /\ host' \subseteq active_gamepads'
    BY <1>1, <2>2 DEF StreamerControls, PadInv, PadTypes
  <2> QED
    BY <2>1, <2>2, <2>3 DEF PadInv, PadTypes, OneSlotEach
<1>2. ASSUME NEW i \in Slots, NEW down \in BOOLEAN, StreamerState(i, down) PROVE PadInv'
  <2>1. /\ states' = [states EXCEPT ![i] = @ \ {down}]
        /\ host' \in {host, host \cup {i}, host \ {i}} /\ (i \in active_gamepads \/ host' = host)
        /\ UNCHANGED <<plugged, connected, buffered, slots, virtual, overlay_shown, control,
                       active_gamepads>>
    BY <1>2 DEF StreamerState, slotVars
  <2>2. states' \in [Slots -> SUBSET BOOLEAN]
    BY <2>1 DEF PadInv, PadTypes
  <2>3. host' \subseteq Slots /\ host' \subseteq active_gamepads
    BY <2>1 DEF PadInv, PadTypes
  <2> QED
    BY <2>1, <2>2, <2>3 DEF PadInv, PadTypes, OneSlotEach
<1>3. ASSUME NEW i \in Slots, StateLost(i) PROVE PadInv'
  <2>1. /\ states' = [states EXCEPT ![i] = {}]
        /\ UNCHANGED <<plugged, connected, buffered, slots, virtual, overlay_shown, control,
                       active_gamepads, host>>
    BY <1>3 DEF StateLost, slotVars, hostPadVars
  <2>2. states' \in [Slots -> SUBSET BOOLEAN]
    BY <2>1 DEF PadInv, PadTypes
  <2> QED
    BY <2>1, <2>2 DEF PadInv, PadTypes, OneSlotEach
<1> QED
  BY <1>1, <1>2, <1>3

LEMMA PadStep ==
    ASSUME PadInv, PadNext \/ NewPads \/ UNCHANGED padVars
    PROVE  PadInv'
<1>1. CASE UNCHANGED padVars
  BY <1>1 DEF padVars, PadInv, PadTypes, OneSlotEach
<1>2. CASE NewPads
  <2>1. <<>> \in Seq(Pads) /\ <<>> \in Seq(SlotRecords) /\ <<>> \in Seq({"add", "remove"} \X Nat)
    OBVIOUS
  <2>2. states' \in [Slots -> SUBSET BOOLEAN]
    BY <1>2 DEF NewPads
  <2>3. connected' \in BOOLEAN
    BY <1>2 DEF NewPads
  <2>4. PadTypes'
    BY <1>2, <2>1, <2>2, <2>3 DEF NewPads, PadInv, PadTypes
  <2> QED
    BY <1>2, <2>4 DEF NewPads, PadInv, OneSlotEach
<1>3. ASSUME NEW p \in Pads, PadChanges(p) PROVE PadInv'
  <2>1. plugged' \in [DOMAIN plugged -> BOOLEAN] /\ DOMAIN plugged' = DOMAIN plugged
    BY <1>3 DEF PadChanges, PadInv, PadTypes
  <2>2. UNCHANGED <<connected, buffered, slots, virtual, overlay_shown, control, states,
                    active_gamepads, host>>
    BY <1>3 DEF PadChanges, slotVars, hostPadVars
  <2> QED
    BY <2>1, <2>2 DEF PadInv, PadTypes, OneSlotEach
<1>4. ASSUME NEW i \in DOMAIN slots, RumbleArrives(i) PROVE PadInv'
  <2>1. UNCHANGED <<plugged, connected, buffered, slots, virtual, overlay_shown, control, states,
                    active_gamepads, host>>
    BY <1>4 DEF RumbleArrives, slotVars, hostPadVars
  <2> QED
    BY <2>1 DEF PadInv, PadTypes, OneSlotEach
<1> QED
  BY <1>1, <1>2, <1>3, <1>4, PadConnectsStep, PadDisconnectsStep, StreamConnectsStep, SlotUpdatesStep,
     ShowOverlayStep, HideOverlayStep, StreamerSteps
  DEF PadNext

RumbleInv == interval \in BOOLEAN /\ rumble \in {"none", "still", "strong"} /\ RumblesPlay

\* No slot comes to a pad.
LEMMA RumbleKept ==
    ASSUME RumbleInv,
           \A i \in DOMAIN slots' : slots'[i].owner \in Pads =>
             i \in DOMAIN slots /\ slots[i].owner \in Pads,
           rumble' = rumble, interval' \in BOOLEAN,
           interval /\ (\E i \in DOMAIN slots' : slots'[i].owner \in Pads) => interval'
    PROVE  RumbleInv'
  BY DEF RumbleInv, RumblesPlay

LEMMA RumbleFreed ==
    ASSUME PadInv, NEW n \in DOMAIN slots, slots' = [slots EXCEPT ![n] = Empty]
    PROVE  \A i \in DOMAIN slots' : slots'[i].owner \in Pads =>
             i \in DOMAIN slots /\ slots[i].owner \in Pads
<1> slots \in Seq(SlotRecords)
  BY DEF PadInv, PadTypes
<1>1. /\ DOMAIN slots' = DOMAIN slots /\ slots'[n].owner = "empty"
      /\ \A i \in DOMAIN slots : i # n => slots'[i] = slots[i]
  BY FreeFacts
<1> QED
  BY <1>1, PadsAssumption

LEMMA RumbleOverlay ==
    ASSUME PadInv, RumbleInv, ShowOverlay \/ HideOverlay \/ ContextLost
    PROVE  RumbleInv'
<1>1. CASE UNCHANGED <<slots, interval, rumble>>
  BY <1>1 DEF RumbleInv, RumblesPlay
<1>2. CASE ShowOverlay /\ ~UNCHANGED slots
  <2> DEFINE n == FreeSlot(slots)
  <2>1. slots' = Occupy(slots, n, "virtual") /\ interval' = TRUE /\ rumble' = rumble
    BY <1>2 DEF ShowOverlay, slotVars
  <2>2. slots \in Seq(SlotRecords)
    BY DEF PadInv, PadTypes
  <2>3. n \in 1..Len(slots) + 1
    BY <2>2, FreeSlotFacts
  <2>4. /\ DOMAIN slots' = DOMAIN slots \cup {n} /\ slots'[n].owner = "virtual"
        /\ \A i \in DOMAIN slots : i # n => slots'[i] = slots[i]
    <3> DEFINE new == Occupy(slots, n, "virtual")
    <3>1. "virtual" \in Pads \cup {"virtual", "empty"}
      OBVIOUS
    <3>2. /\ DOMAIN new = DOMAIN slots \cup {n} /\ new[n].owner = "virtual"
          /\ \A i \in DOMAIN slots : i # n => new[i] = slots[i]
      BY <2>2, <2>3, <3>1, OccupyFacts
    <3>3. slots' = new
      BY <2>1
    <3> HIDE DEF new, n
    <3> QED
      BY <3>2, <3>3
  <2> HIDE DEF n
  <2>5. \A i \in DOMAIN slots' : slots'[i].owner \in Pads =>
          i \in DOMAIN slots /\ slots[i].owner \in Pads
    BY <2>4, PadsAssumption
  <2> QED
    BY <2>1, <2>5, RumbleKept
<1>3. CASE virtual # 0 /\ (HideOverlay \/ ContextLost)
  <2>1. virtual \in DOMAIN slots
    BY <1>3 DEF PadInv, OneSlotEach
  <2>2. slots' = [slots EXCEPT ![virtual] = Empty] /\ MayEndInterval
    BY <1>3 DEF HideOverlay, ContextLost
  <2>3. \A i \in DOMAIN slots' : slots'[i].owner \in Pads =>
          i \in DOMAIN slots /\ slots[i].owner \in Pads
    BY <2>1, <2>2, RumbleFreed
  <2>4. Empty.owner = "empty" /\ "empty" \notin Pads
    BY PadsAssumption DEF Empty, Slot
  <2>5. \A i \in DOMAIN slots' : slots'[i].owner \in Pads => slots'[i] # Empty
    BY <2>4
  <2>6. rumble' = rumble /\ interval' = (interval /\ \E i \in DOMAIN slots' : slots'[i] # Empty)
    BY <2>2 DEF MayEndInterval
  <2>7. interval' \in BOOLEAN
    BY <2>6
  <2>8. interval /\ (\E i \in DOMAIN slots' : slots'[i].owner \in Pads) => interval'
    BY <2>5, <2>6
  <2> QED
    BY <2>3, <2>6, <2>7, <2>8, RumbleKept
<1>4. CASE virtual = 0 /\ HideOverlay
  BY <1>1, <1>4 DEF HideOverlay, slotVars, rumbleVars
<1>5. CASE ShowOverlay /\ UNCHANGED slots
  <2>1. rumble' = rumble /\ interval' \in {interval, TRUE}
    BY <1>5 DEF ShowOverlay
  <2>2. interval' \in BOOLEAN /\ (interval => interval')
    BY <2>1 DEF RumbleInv
  <2> QED
    BY <1>5, <2>1, <2>2 DEF RumbleInv, RumblesPlay
<1> QED
  BY <1>2, <1>3, <1>4, <1>5 DEF ContextLost

LEMMA RumbleStep ==
    ASSUME PadInv, RumbleInv, PadNext \/ NewPads \/ UNCHANGED padVars
    PROVE  RumbleInv'
<1>1. CASE UNCHANGED <<slots, interval, rumble>>
  BY <1>1 DEF RumbleInv, RumblesPlay
<1>2. CASE ResetRumble
  BY <1>2 DEF ResetRumble, RumbleInv, RumblesPlay
<1>3. ASSUME NEW p \in Pads, PadConnects(p) PROVE RumbleInv'
  <2>1. ResetRumble \/ UNCHANGED <<slots, interval, rumble>>
    BY <1>3 DEF PadConnects, Register, rumbleVars
  <2> QED
    BY <1>1, <1>2, <2>1
<1>4. ASSUME NEW p \in Pads, PadDisconnects(p) PROVE RumbleInv'
  <2>1. UNCHANGED <<interval, rumble>>
    BY <1>4 DEF PadDisconnects, rumbleVars
  <2>2. ASSUME NEW i \in Owned(slots, p), slots' = [slots EXCEPT ![i] = Empty] PROVE RumbleInv'
    <3>1. i \in DOMAIN slots
      BY DEF Owned
    <3> QED
      BY <2>1, <2>2, <3>1, RumbleFreed, RumbleKept DEF RumbleInv
  <2> QED
    BY <1>1, <1>4, <2>1, <2>2 DEF PadDisconnects
<1>5. CASE StreamConnects
  <2>1. CASE Waiting = {}
    <3>1. Cardinality(Waiting) = 0 /\ UNCHANGED <<interval, rumble>>
      BY <1>5, <2>1, FS_EmptySet DEF StreamConnects, rumbleVars
    <3>2. DOMAIN slots' = {}
      <4>1. PICK order \in [1..Cardinality(Waiting) -> Waiting] :
              slots' = [i \in DOMAIN order |-> Slot(order[i], FALSE)]
        BY <1>5 DEF StreamConnects
      <4> QED
        BY <3>1, <4>1
    <3> QED
      BY <3>1, <3>2 DEF RumbleInv, RumblesPlay
  <2>2. CASE Waiting # {}
    BY <1>2, <1>5, <2>2 DEF StreamConnects
  <2> QED
    BY <2>1, <2>2
<1>6. ASSUME NEW n \in DOMAIN slots, SlotUpdates(n) PROVE RumbleInv'
  <2>1. slots' = [slots EXCEPT ![n].old = ~@] /\ UNCHANGED <<interval, rumble>>
    BY <1>6 DEF SlotUpdates, rumbleVars
  <2>2. slots \in Seq(SlotRecords) /\ slots[n] \in SlotRecords
    BY DEF PadInv, PadTypes
  <2> DEFINE s == [slots[n] EXCEPT !.old = ~@]
  <2>3. s.owner = slots[n].owner
    BY <2>2 DEF SlotRecords
  <2>4. slots' = [slots EXCEPT ![n] = s]
    BY <2>1
  <2> HIDE DEF s
  <2>5. DOMAIN slots' = DOMAIN slots /\ \A i \in DOMAIN slots : slots'[i].owner = slots[i].owner
    BY <2>2, <2>3, <2>4
  <2> QED
    BY <2>1, <2>5 DEF RumbleInv, RumblesPlay
<1>7. ASSUME NEW i \in DOMAIN slots, RumbleArrives(i) PROVE RumbleInv'
  BY <1>7 DEF RumbleArrives, slotVars, RumbleInv, RumblesPlay
<1>8. CASE NewPads
  <2>1. DOMAIN slots' = {}
    BY <1>8 DEF NewPads
  <2> QED
    BY <1>8, <2>1 DEF NewPads, RumbleInv, RumblesPlay
<1>9. CASE \E p \in Pads : PadChanges(p)
  BY <1>1, <1>9 DEF PadChanges, slotVars, rumbleVars
<1>10. CASE \/ StreamerControls
            \/ \E i \in Slots : StateLost(i) \/ \E down \in BOOLEAN : StreamerState(i, down)
  BY <1>1, <1>10 DEF StreamerControls, StateLost, StreamerState, slotVars, rumbleVars
<1>11. CASE UNCHANGED padVars
  BY <1>1, <1>11 DEF padVars
<1> QED
  BY <1>3, <1>4, <1>5, <1>6, <1>7, <1>8, <1>9, <1>10, <1>11, RumbleOverlay DEF PadNext

LEMMA AtMostOne ==
    ASSUME NEW S, \A x, y \in S : x = y
    PROVE  Cardinality(S) <= 1
<1>1. CASE S = {}
  BY <1>1, FS_EmptySet
<1>2. ASSUME NEW x \in S PROVE Cardinality(S) <= 1
  <2>1. S = {x}
    OBVIOUS
  <2> QED
    BY <2>1, FS_Singleton
<1> QED
  BY <1>1, <1>2

LEMMA PadsHold == PadInv /\ RumbleInv => PadTypeOK /\ ControllersAgree
<1> SUFFICES ASSUME PadInv, RumbleInv PROVE PadTypeOK /\ ControllersAgree
  OBVIOUS
<1>1. PadTypeOK
  BY DEF PadInv, RumbleInv, PadTypes, PadTypeOK, SlotRecords
<1>2. ASSUME NEW p \in Pads \cup {"virtual"} PROVE Cardinality(Owned(slots, p)) <= 1
  <2>1. \A i, j \in Owned(slots, p) : i = j
    BY PadsAssumption DEF Owned, PadInv, OneSlotEach
  <2> QED
    BY <2>1, AtMostOne
<1>3. Owned(slots, "virtual") = IF virtual = 0 THEN {} ELSE {virtual}
  <2>1. 0 \notin DOMAIN slots
    BY DEF PadInv, PadTypes
  <2> QED
    BY <2>1 DEF Owned, PadInv, OneSlotEach
<1> QED
  BY <1>1, <1>2, <1>3 DEF PadInv, OneSlotEach, RumbleInv, ControllersAgree

-----------------------------------------------------------------------------
(* The side bar and the on-screen keyboard.                                *)

SidebarStep == (\E open \in BOOLEAN : Extend(open)) \/ OpeningEnds \/ UNCHANGED sidebarVars
KeyboardStep ==
  \/ HideKeyboard \/ ShowKeyboard \/ TakeOut \/ UNCHANGED keyboardVars
  \/ ModeKey \/ PressBackspace \/ DelayEnds \/ LiftBackspace \/ ForceStop

SidebarInv == extended \in BOOLEAN /\ listening \in BOOLEAN /\ opening \in 0..MaxTimers /\ SidebarCloses

LEMMA SidebarSteps ==
    ASSUME SidebarInv, SidebarStep
    PROVE  SidebarInv'
<1> USE SidebarAssumption DEF SidebarInv, SidebarCloses
<1>1. CASE UNCHANGED sidebarVars
  BY <1>1 DEF sidebarVars
<1>2. CASE OpeningEnds
  BY <1>2 DEF OpeningEnds
<1>3. ASSUME NEW open \in BOOLEAN, Extend(open), open # extended PROVE SidebarInv'
  <2>1. extended' = open /\ listening' = FALSE
    BY <1>3 DEF Extend
  <2>2. CASE open = TRUE
    <3>1. opening < MaxTimers /\ opening' = opening + 1
      BY <1>3, <2>2 DEF Extend
    <3>2. opening' \in 0..MaxTimers /\ opening' > 0
      BY <3>1
    <3>3. extended' = TRUE
      BY <2>1, <2>2
    <3> QED
      BY <2>1, <3>2, <3>3
  <2>3. CASE open = FALSE
    <3>1. opening' = opening
      BY <1>3, <2>3 DEF Extend
    <3> QED
      BY <2>1, <2>3, <3>1
  <2> QED
    BY <2>2, <2>3
<1>4. ASSUME NEW open \in BOOLEAN, Extend(open), open = extended PROVE UNCHANGED sidebarVars
  BY <1>4 DEF Extend
<1> QED
  BY <1>1, <1>2, <1>3, <1>4 DEF SidebarStep

KeyboardInv ==
  /\ visible \in BOOLEAN /\ in_page \in BOOLEAN /\ symbolMode \in BOOLEAN
  /\ symbol_rows \in BOOLEAN /\ orphan \in BOOLEAN
  /\ backspace \in {"up", "down", "gone"} /\ repeat \in {"none", "delay", "on"}
  /\ RepeatEnds

LEMMA KeyboardSteps ==
    ASSUME KeyboardInv, KeyboardStep
    PROVE  KeyboardInv'
<1> USE DEF KeyboardInv, RepeatEnds, repeatVars
<1>1. CASE UNCHANGED keyboardVars
  BY <1>1 DEF keyboardVars
<1>2. CASE HideKeyboard
  BY <1>2 DEF HideKeyboard, Hide
<1>3. CASE ShowKeyboard
  BY <1>3 DEF ShowKeyboard
<1>4. CASE TakeOut \/ ModeKey
  BY <1>4 DEF TakeOut, ModeKey, LoseKey
<1>5. CASE PressBackspace \/ DelayEnds
  BY <1>5 DEF PressBackspace, DelayEnds, Shown
<1>6. CASE LiftBackspace
  <2>1. CASE repeat' = "none" /\ orphan' = FALSE
    BY <1>6, <2>1 DEF LiftBackspace
  <2>2. CASE backspace = "gone" /\ UNCHANGED <<repeat, orphan>>
    BY <1>6, <2>2 DEF LiftBackspace
  <2> QED
    BY <1>6, <2>1, <2>2 DEF LiftBackspace
<1>7. CASE ForceStop
  BY <1>7 DEF ForceStop
<1> QED
  BY <1>1, <1>2, <1>3, <1>4, <1>5, <1>6, <1>7 DEF KeyboardStep

-----------------------------------------------------------------------------
(* The buttons.                                                            *)

PressTypes ==
  /\ pressed \in [Pointers -> Buttons \cup {"none"}]
  /\ due \in [Pointers -> Buttons \cup {"none"}]
  /\ holder \in [Buttons -> Pointers \cup {"none"}]
  /\ dragged \in [Buttons -> BOOLEAN] /\ quiet \in [Buttons -> BOOLEAN]
  /\ moved \in [Pointers -> BOOLEAN] /\ began \in [Pointers -> BOOLEAN]
  /\ toggled \in [Pointers -> 0..2]

\* While a pointer is on its button nothing is toggled, and one that moved it still holds it;
\* a click that is owed finds its button quiet if the press toggled or moved it.
PressState(p) ==
  /\ pressed[p] # "none" => due[p] = "none" /\ toggled[p] = 0
  /\ pressed[p] # "none" /\ moved[p] => holder[pressed[p]] = p /\ dragged[pressed[p]]
  /\ due[p] # "none" /\ (moved[p] \/ toggled[p] # 0) => quiet[due[p]]
  /\ toggled[p] <= 1 /\ (moved[p] => toggled[p] = 0)
PressInv == PressTypes /\ \A p \in Pointers : PressState(p)

LEMMA ButtonFacts == "none" \notin Buttons /\ Floating \subseteq Buttons
  BY DEF Buttons, Floating

LEMMA DownStep ==
    ASSUME PressInv, extended \in BOOLEAN, visible \in BOOLEAN,
           NEW p \in Pointers, NEW b \in Buttons, Down(p, b)
    PROVE  PressInv'
<1> DEFINE ignored == b = "tray" /\ holder[b] # "none"
           Fresh(q) == q = p \/ (q = holder[b] /\ ~ignored)
           b0 == IF b = "keyboard" THEN visible ELSE extended
<1>1. /\ pressed[p] = "none" /\ due[p] = "none"
      /\ pressed' = [pressed EXCEPT ![p] = b]
      /\ holder' = (IF ignored THEN holder ELSE [holder EXCEPT ![b] = p])
      /\ dragged' = (IF ignored THEN dragged ELSE [dragged EXCEPT ![b] = FALSE])
      /\ moved' = [q \in Pointers |-> moved[q] /\ ~Fresh(q)]
      /\ toggled' = [toggled EXCEPT ![p] = 0]
      /\ UNCHANGED <<due, quiet>>
  BY DEF Down
<1>2. began' = [began EXCEPT ![p] = b0] /\ b0 \in BOOLEAN
  BY DEF Down
<1> HIDE DEF b0
<1>3. PressTypes'
  <2>1. pressed' \in [Pointers -> Buttons \cup {"none"}] /\ due' \in [Pointers -> Buttons \cup {"none"}]
    BY <1>1 DEF PressInv, PressTypes
  <2>2. holder' \in [Buttons -> Pointers \cup {"none"}]
    BY <1>1 DEF PressInv, PressTypes
  <2>3. dragged' \in [Buttons -> BOOLEAN] /\ quiet' \in [Buttons -> BOOLEAN]
    BY <1>1 DEF PressInv, PressTypes
  <2>4. moved' \in [Pointers -> BOOLEAN]
    <3>1. \A q \in Pointers : (moved[q] /\ ~Fresh(q)) \in BOOLEAN
      OBVIOUS
    <3> HIDE DEF Fresh
    <3> QED
      BY <1>1, <3>1
  <2>5. began' \in [Pointers -> BOOLEAN]
    BY <1>2 DEF PressInv, PressTypes
  <2>6. toggled' \in [Pointers -> 0..2]
    BY <1>1 DEF PressInv, PressTypes
  <2> QED
    BY <2>1, <2>2, <2>3, <2>4, <2>5, <2>6 DEF PressTypes
<1>4. ASSUME NEW q \in Pointers PROVE PressState(q)'
  <2> PressState(q) /\ (moved'[q] <=> moved[q] /\ ~Fresh(q))
    BY <1>1 DEF PressInv
  <2>1. CASE q = p
    BY <1>1, <2>1 DEF PressState, PressInv, PressTypes
  <2>2. CASE q # p
    <3>1. pressed'[q] = pressed[q] /\ due'[q] = due[q] /\ toggled'[q] = toggled[q]
      BY <1>1, <2>2 DEF PressInv, PressTypes
    <3>2. ASSUME pressed[q] # "none", moved'[q]
          PROVE  holder'[pressed[q]] = q /\ dragged'[pressed[q]]
      <4>1. pressed[q] \in Buttons /\ holder[pressed[q]] = q /\ dragged[pressed[q]]
        BY <3>2 DEF PressState, PressInv, PressTypes
      <4>2. CASE pressed[q] = b
        BY <1>1, <3>2, <4>1, <4>2
      <4>3. CASE pressed[q] # b
        BY <1>1, <4>1, <4>3 DEF PressInv, PressTypes
      <4> QED
        BY <4>2, <4>3
    <3> QED
      BY <1>1, <3>1, <3>2 DEF PressState
  <2> QED
    BY <2>1, <2>2
<1> QED
  BY <1>3, <1>4 DEF PressInv

LEMMA DragStep ==
    ASSUME PressInv, NEW p \in Pointers, Drag(p)
    PROVE  PressInv'
<1>1. /\ pressed[p] \in Buttons /\ holder[pressed[p]] = p
      /\ moved' = [moved EXCEPT ![p] = TRUE] /\ dragged' = [dragged EXCEPT ![pressed[p]] = TRUE]
      /\ UNCHANGED <<pressed, due, holder, quiet, toggled, began>>
  BY DEF Drag, PressInv, PressTypes
<1>2. PressTypes'
  BY <1>1 DEF PressInv, PressTypes
<1>3. ASSUME NEW q \in Pointers PROVE PressState(q)'
  <2>1. CASE q = p
    BY <1>1, <2>1, ButtonFacts DEF PressState, PressInv, PressTypes
  <2>2. CASE q # p
    BY <1>1, <2>2 DEF PressState, PressInv, PressTypes
  <2> QED
    BY <2>1, <2>2
<1> QED
  BY <1>2, <1>3 DEF PressInv

\* What the end of a press does to the history.
LEMMA EndFacts ==
    ASSUME PressInv, NEW p \in Pointers, NEW b \in Buttons, pressed[p] = b, End(p, b)
    PROVE  /\ holder' \in [Buttons -> Pointers \cup {"none"}]
           /\ dragged' \in [Buttons -> BOOLEAN] /\ quiet' \in [Buttons -> BOOLEAN]
           /\ toggled' \in [Pointers -> 0..2]
           /\ \A c \in Buttons : quiet[c] => quiet'[c]
           /\ \A q \in Pointers : q # p => toggled'[q] = toggled[q]
           /\ toggled'[p] \in {0, 1} /\ (moved[p] => toggled'[p] = 0)
           /\ moved[p] \/ toggled'[p] # 0 => quiet'[b]
           /\ \A c \in Buttons : holder[c] # p => holder'[c] = holder[c] /\ dragged'[c] = dragged[c]
<1>0. /\ toggled[p] = 0 /\ (moved[p] => holder[b] = p /\ dragged[b]) /\ PressTypes
  BY ButtonFacts DEF PressInv, PressState
<1>1. CASE holder[b] # p
  <2>1. UNCHANGED <<holder, dragged, quiet, toggled>>
    BY <1>1 DEF End
  <2> QED
    BY <1>0, <1>1, <2>1 DEF PressTypes
<1>2. CASE holder[b] = p
  <2>1. /\ holder' = [holder EXCEPT ![b] = "none"]
        /\ dragged' = [dragged EXCEPT ![b] = FALSE]
        /\ quiet' = [quiet EXCEPT ![b] = @ \/ b \in Floating \/ dragged[b]]
    BY <1>2 DEF End
  <2>2. \/ b \in Floating /\ ~dragged[b] /\ Counts(p)
        \/ ~(b \in Floating /\ ~dragged[b]) /\ UNCHANGED toggled
    BY <1>2 DEF End
  <2>3. /\ holder' \in [Buttons -> Pointers \cup {"none"}]
        /\ dragged' \in [Buttons -> BOOLEAN]
        /\ \A c \in Buttons : c # b => holder'[c] = holder[c] /\ dragged'[c] = dragged[c]
    BY <1>0, <2>1 DEF PressTypes
  <2>4. /\ quiet' \in [Buttons -> BOOLEAN] /\ \A c \in Buttons : quiet[c] => quiet'[c]
        /\ quiet'[b] <=> quiet[b] \/ b \in Floating \/ dragged[b]
    BY <1>0, <2>1 DEF PressTypes
  <2>5. CASE b \in Floating /\ ~dragged[b] /\ Counts(p)
    BY <1>0, <1>2, <2>3, <2>4, <2>5 DEF Counts, PressTypes
  <2>6. CASE ~(b \in Floating /\ ~dragged[b]) /\ UNCHANGED toggled
    BY <1>0, <1>2, <2>3, <2>4, <2>6 DEF PressTypes
  <2> QED
    BY <2>2, <2>5, <2>6
<1> QED
  BY <1>1, <1>2

LEMMA EndSteps ==
    ASSUME PressInv, NEW p \in Pointers, Up(p) \/ Cancel(p)
    PROVE  PressInv'
<1> DEFINE b == pressed[p]
<1>1. /\ b \in Buttons /\ End(p, b) /\ pressed' = [pressed EXCEPT ![p] = "none"]
      /\ due' = [due EXCEPT ![p] = b] \/ UNCHANGED due
      /\ UNCHANGED <<moved, began>>
  BY DEF Up, Cancel, PressInv, PressTypes
<1>2. due[p] = "none" /\ PressTypes /\ b # "none"
  BY <1>1, ButtonFacts DEF PressInv, PressState
<1>3. /\ holder' \in [Buttons -> Pointers \cup {"none"}]
      /\ dragged' \in [Buttons -> BOOLEAN] /\ quiet' \in [Buttons -> BOOLEAN]
      /\ toggled' \in [Pointers -> 0..2]
      /\ \A c \in Buttons : quiet[c] => quiet'[c]
      /\ \A q \in Pointers : q # p => toggled'[q] = toggled[q]
      /\ toggled'[p] \in {0, 1} /\ (moved[p] => toggled'[p] = 0)
      /\ moved[p] \/ toggled'[p] # 0 => quiet'[b]
      /\ \A c \in Buttons : holder[c] # p => holder'[c] = holder[c] /\ dragged'[c] = dragged[c]
  BY <1>1, EndFacts
<1> HIDE DEF b
<1>4. PressTypes'
  BY <1>1, <1>2, <1>3 DEF PressTypes
<1>5. ASSUME NEW q \in Pointers PROVE PressState(q)'
  <2>1. CASE q = p
    <3>1. pressed'[p] = "none" /\ due'[p] \in {b, "none"}
      BY <1>1, <1>2 DEF PressTypes
    <3> QED
      BY <1>1, <1>3, <2>1, <3>1 DEF PressState
  <2>2. CASE q # p
    <3>1. /\ pressed'[q] = pressed[q] /\ due'[q] = due[q] /\ toggled'[q] = toggled[q]
          /\ moved'[q] = moved[q] /\ pressed[q] \in Buttons \cup {"none"}
          /\ due[q] \in Buttons \cup {"none"} /\ PressState(q)
      BY <1>1, <1>2, <1>3, <2>2 DEF PressTypes, PressInv
    <3> QED
      BY <1>3, <2>2, <3>1, PointersAssumption DEF PressState
  <2> QED
    BY <2>1, <2>2
<1> QED
  BY <1>4, <1>5 DEF PressInv

LEMMA ClickSteps ==
    ASSUME PressInv, NEW p \in Pointers, UpLost(p) \/ Click(p)
    PROVE  PressInv'
<1>1. CASE UpLost(p)
  <2>1. /\ pressed[p] \in Buttons /\ ~moved[p] /\ pressed' = [pressed EXCEPT ![p] = "none"]
        /\ due' = [due EXCEPT ![p] = pressed[p]]
        /\ UNCHANGED <<holder, dragged, quiet, moved, toggled, began>>
    BY <1>1 DEF UpLost, PressInv, PressTypes
  <2>2. PressTypes'
    BY <2>1 DEF PressInv, PressTypes
  <2>3. ASSUME NEW q \in Pointers PROVE PressState(q)'
    BY <2>1, ButtonFacts DEF PressState, PressInv, PressTypes
  <2> QED
    BY <2>2, <2>3 DEF PressInv
<1>2. CASE Click(p)
  <2>1. /\ due[p] \in Buttons /\ due' = [due EXCEPT ![p] = "none"]
        /\ UNCHANGED <<pressed, holder, dragged, quiet, moved, began>>
        /\ UNCHANGED toggled \/ (~quiet[due[p]] /\ Counts(p))
    BY <1>2 DEF Click, PressInv, PressTypes
  <2>2. PressTypes'
    <3>1. toggled' \in [Pointers -> 0..2]
      BY <2>1 DEF Counts, PressInv, PressTypes
    <3> QED
      BY <2>1, <3>1 DEF PressInv, PressTypes
  <2>3. ASSUME NEW q \in Pointers PROVE PressState(q)'
    BY <2>1, ButtonFacts DEF Counts, PressState, PressInv, PressTypes
  <2> QED
    BY <2>2, <2>3 DEF PressInv
<1> QED
  BY <1>1, <1>2

LEMMA QuietStep ==
    ASSUME PressInv, NEW b \in Buttons, QuietEnds(b)
    PROVE  PressInv'
<1>1. /\ quiet' = [quiet EXCEPT ![b] = FALSE] /\ \A p \in Pointers : due[p] # b
      /\ UNCHANGED <<pressed, due, holder, dragged, moved, toggled, began>>
  BY DEF QuietEnds
<1>2. PressTypes'
  BY <1>1 DEF PressInv, PressTypes
<1>3. ASSUME NEW q \in Pointers PROVE PressState(q)'
  BY <1>1 DEF PressState, PressInv, PressTypes
<1> QED
  BY <1>2, <1>3 DEF PressInv

LEMMA InitControls == ControlsInit => SidebarInv /\ KeyboardInv /\ PressInv
<1> SUFFICES ASSUME ControlsInit PROVE SidebarInv /\ KeyboardInv /\ PressInv
  OBVIOUS
<1>1. SidebarInv
  <2>1. opening \in 0..MaxTimers
    BY SidebarAssumption DEF ControlsInit, SidebarInit
  <2> QED
    BY <2>1 DEF ControlsInit, SidebarInit, SidebarInv, SidebarCloses
<1>2. KeyboardInv
  BY DEF ControlsInit, KeyboardInit, KeyboardInv, RepeatEnds
<1>3. PressInv
  BY DEF ControlsInit, PressInv, PressTypes, PressState
<1> QED
  BY <1>1, <1>2, <1>3

\* A step of the page moves each of the three in a way of its own.
PressStep ==
  \/ \E p \in Pointers : Drag(p) \/ Up(p) \/ Cancel(p) \/ UpLost(p) \/ Click(p)
  \/ \E p \in Pointers, b \in Buttons : Down(p, b)
  \/ (\E b \in Buttons : QuietEnds(b)) \/ UNCHANGED pressVars

LEMMA ToggleSteps ==
    ASSUME SidebarInv, NEW b, Toggle(b) \/ Nothing
    PROVE  SidebarStep /\ KeyboardStep
  BY DEF Toggle, Nothing, SidebarStep, KeyboardStep, SidebarInv

LEMMA ElsewhereSteps ==
    ASSUME NEW p, Elsewhere(p)
    PROVE  SidebarStep /\ KeyboardStep
  BY DEF Elsewhere, PressOutside, SidebarStep, KeyboardStep

LEMMA ButtonSteps ==
    ASSUME SidebarInv, ButtonNext
    PROVE  SidebarStep /\ KeyboardStep /\ PressStep /\ UNCHANGED <<phone, full_screen>>
<1>1. ASSUME NEW p \in Pointers, Up(p) \/ Cancel(p) \/ UpLost(p) \/ Click(p) \/ Drag(p)
      PROVE  SidebarStep /\ KeyboardStep /\ PressStep /\ UNCHANGED <<phone, full_screen>>
  <2>1. PressStep /\ UNCHANGED <<phone, full_screen>>
    BY <1>1 DEF PressStep, Up, Cancel, UpLost, Click, Drag
  <2>2. Nothing \/ \E b : Toggle(b)
    BY <1>1 DEF Up, Cancel, UpLost, Click, Drag, End
  <2> QED
    BY <2>1, <2>2, ToggleSteps
<1>2. ASSUME NEW p \in Pointers, NEW b \in Buttons, Down(p, b)
      PROVE  SidebarStep /\ KeyboardStep /\ PressStep /\ UNCHANGED <<phone, full_screen>>
  <2>1. Elsewhere(p) /\ UNCHANGED <<phone, full_screen>>
    BY <1>2 DEF Down
  <2> QED
    BY <1>2, <2>1, ElsewhereSteps DEF PressStep
<1>3. ASSUME NEW p \in Pointers, TapPress(p)
      PROVE  SidebarStep /\ KeyboardStep /\ PressStep /\ UNCHANGED <<phone, full_screen>>
  BY <1>3 DEF TapPress, PressOutside, SidebarStep, KeyboardStep, PressStep
<1>4. ASSUME NEW p \in Pointers, PressPage(p)
      PROVE  SidebarStep /\ KeyboardStep /\ PressStep /\ UNCHANGED <<phone, full_screen>>
  BY <1>4, ElsewhereSteps DEF PressPage, PressStep
<1>5. ASSUME NEW b \in Buttons, QuietEnds(b)
      PROVE  SidebarStep /\ KeyboardStep /\ PressStep /\ UNCHANGED <<phone, full_screen>>
  BY <1>5, ToggleSteps DEF QuietEnds, PressStep
<1>6. ASSUME NEW b \in Buttons, KeyToggles(b)
      PROVE  SidebarStep /\ KeyboardStep /\ PressStep /\ UNCHANGED <<phone, full_screen>>
  BY <1>6, ToggleSteps DEF KeyToggles, PressStep
<1>7. CASE ChooseController
  BY <1>7 DEF ChooseController, SidebarStep, KeyboardStep, PressStep
<1> QED
  BY <1>1, <1>2, <1>3, <1>4, <1>5, <1>6, <1>7 DEF ButtonNext

LEMMA KeysSteps ==
    ASSUME KeysNext \/ EitherNext
    PROVE  SidebarStep /\ KeyboardStep /\ UNCHANGED <<phone, full_screen, pressVars>>
<1>1. CASE KeysNext
  BY <1>1 DEF KeysNext, Gesture, SidebarStep, KeyboardStep
<1>2. CASE ChooseKeyboard \/ (OpeningEnds /\ UNCHANGED <<phone, full_screen, pressVars, keyboardVars>>)
  BY <1>2 DEF ChooseKeyboard, SidebarStep, KeyboardStep
<1> QED
  BY <1>1, <1>2 DEF EitherNext

ControlsInv == phone \in BOOLEAN /\ full_screen \in BOOLEAN /\ SidebarInv /\ KeyboardInv /\ PressInv

\* Only the browser changes what is full screen.
LEMMA ControlsMoves ==
    ASSUME ControlsInv, UseControls \/ UseModals \/ UNCHANGED controlVars
    PROVE  SidebarStep /\ KeyboardStep /\ PressStep /\ UNCHANGED <<phone, full_screen>>
<1>1. CASE ButtonNext \/ KeysNext \/ EitherNext
  BY <1>1, ButtonSteps, KeysSteps DEF ControlsInv, PressStep
<1>2. CASE \E p \in Pointers : PressPage(p)
  BY <1>2, ElsewhereSteps DEF PressPage, PressStep
<1>3. CASE KeyToggles("settings")
  BY <1>3, ToggleSteps DEF KeyToggles, PressStep, ControlsInv
<1>4. CASE ModalChanges
  BY <1>4 DEF ModalChanges, SidebarStep, KeyboardStep, PressStep
<1>5. CASE UNCHANGED controlVars
  BY <1>5 DEF controlVars, SidebarStep, KeyboardStep, PressStep
<1> QED
  BY <1>1, <1>2, <1>3, <1>4, <1>5 DEF UseControls, UseModals

LEMMA ControlsSteps ==
    ASSUME ControlsInv, UseControls \/ UseModals \/ ScreenChanges \/ UNCHANGED controlVars
    PROVE  ControlsInv'
<1>1. /\ SidebarStep /\ KeyboardStep /\ PressStep /\ phone' = phone
      /\ full_screen' \in BOOLEAN \cup {full_screen}
  <2>1. ASSUME NEW full \in BOOLEAN, Remount(full)
        PROVE  /\ SidebarStep /\ KeyboardStep /\ PressStep /\ phone' = phone
               /\ full_screen' \in BOOLEAN
    BY <2>1 DEF Remount, SidebarStep, KeyboardStep, PressStep
  <2> QED
    BY <2>1, ControlsMoves DEF ScreenChanges
<1>2. SidebarInv' /\ KeyboardInv'
  BY <1>1, SidebarSteps, KeyboardSteps DEF ControlsInv
<1>3. PressInv'
  <2>1. CASE UNCHANGED pressVars
    BY <2>1 DEF pressVars, ControlsInv, PressInv, PressTypes, PressState
  <2>2. ASSUME NEW p \in Pointers, NEW b \in Buttons, Down(p, b) PROVE PressInv'
    BY <2>2, DownStep DEF ControlsInv, SidebarInv, KeyboardInv
  <2> QED
    BY <1>1, <2>1, <2>2, DragStep, EndSteps, ClickSteps, QuietStep DEF PressStep, ControlsInv
<1>4. phone' \in BOOLEAN /\ full_screen' \in BOOLEAN
  BY <1>1 DEF ControlsInv
<1> QED
  BY <1>2, <1>3, <1>4 DEF ControlsInv

LEMMA ControlsHold == ControlsInv => ControlsTypeOK /\ PressesToggleOnce /\ ControlsAgree
<1> SUFFICES ASSUME ControlsInv PROVE ControlsTypeOK /\ PressesToggleOnce /\ ControlsAgree
  OBVIOUS
<1>1. SidebarTypeOK /\ SidebarCloses
  BY DEF ControlsInv, SidebarInv, SidebarTypeOK
<1>2. KeyboardTypeOK /\ RepeatEnds
  BY DEF ControlsInv, KeyboardInv, KeyboardTypeOK
<1>3. PressTypes /\ PressesToggleOnce
  BY DEF ControlsInv, PressInv, PressState, PressesToggleOnce
<1>4. {phone, full_screen} \subseteq BOOLEAN
  BY DEF ControlsInv
<1> QED
  BY <1>1, <1>2, <1>3, <1>4 DEF PressTypes, ControlsTypeOK, ControlsAgree

-----------------------------------------------------------------------------
(* The key that leaves the full screen.                                    *)

HoldTypes ==
  /\ exiting \in BOOLEAN /\ circle \in BOOLEAN
  /\ frames \in 0..MaxFlickers /\ flickers \in 0..MaxFlickers
HoldInv == HoldTypes /\ HoldRuns /\ (exiting => full_screen)

\* A loop that runs is that of the hold, for the last one of a cancelled hold is cancelled too.
LEMMA HoldNextSteps ==
    ASSUME HoldInv, HoldNext(full_screen)
    PROVE  HoldTypes' /\ HoldRuns' /\ (exiting' => full_screen)
<1>0. /\ exiting \in BOOLEAN /\ (exiting => full_screen /\ circle /\ frames = 1 /\ flickers > 0)
      /\ ~exiting => ~circle /\ frames = 0
  BY DEF HoldInv, HoldTypes, HoldRuns
<1>1. flickers \in 0..MaxFlickers /\ MaxFlickers \in Nat
  BY HoldAssumption DEF HoldInv, HoldTypes
<1>2. ASSUME exiting' = TRUE, circle' = TRUE, frames' = 1, flickers' \in 1..MaxFlickers, full_screen
      PROVE  HoldTypes' /\ HoldRuns' /\ (exiting' => full_screen)
  <2>1. frames' \in 0..MaxFlickers /\ flickers' \in 0..MaxFlickers /\ flickers' > 0
    BY <1>1, <1>2
  <2> QED
    BY <1>2, <2>1 DEF HoldTypes, HoldRuns
<1>3. ASSUME exiting' = FALSE, circle' = FALSE, frames' = 0, flickers' \in 0..MaxFlickers
      PROVE  HoldTypes' /\ HoldRuns' /\ (exiting' => full_screen)
  <2>1. frames' \in 0..MaxFlickers
    BY <1>1, <1>3
  <2> QED
    BY <1>3, <2>1 DEF HoldTypes, HoldRuns
<1>4. CASE EscapeDown(full_screen)
  <2>1. exiting' = TRUE /\ circle' = TRUE /\ full_screen /\ ~exiting
    BY <1>4 DEF EscapeDown
  <2>2. frames' = 1
    BY <1>0, <1>4, <2>1 DEF EscapeDown
  <2>3. flickers' \in 1..MaxFlickers
    BY <1>1, <1>4 DEF EscapeDown
  <2> QED
    BY <1>2, <2>1, <2>2, <2>3
<1>5. CASE CancelHold
  <2>1. frames' = 0
    BY <1>0, <1>5 DEF CancelHold
  <2> QED
    BY <1>1, <1>3, <1>5, <2>1 DEF CancelHold
<1>6. CASE Animate(full_screen)
  <2>1. CASE UNCHANGED holdVars
    BY <2>1 DEF holdVars, HoldInv, HoldTypes, HoldRuns
  <2>2. CASE LoopEnds(full_screen)
    <3>1. exiting
      BY <1>0, <1>6 DEF Animate
    <3>2. exiting' = FALSE /\ circle' = FALSE
      BY <1>0, <2>2, <3>1 DEF LoopEnds
    <3>3. frames' = 0
      BY <1>0, <2>2, <3>1 DEF LoopEnds
    <3>4. flickers' \in 0..MaxFlickers
      <4>1. flickers > 0 /\ flickers' = flickers - 1
        BY <1>6, <2>2 DEF Animate, LoopEnds
      <4> QED
        BY <1>1, <4>1
    <3> QED
      BY <1>3, <3>2, <3>3, <3>4
  <2> QED
    BY <1>6, <2>1, <2>2 DEF Animate
<1>7. CASE Flicker
  <2>1. flickers' \in 0..MaxFlickers
    <3>1. flickers > 0 /\ flickers' = flickers - 1
      BY <1>7 DEF Flicker
    <3> QED
      BY <1>1, <3>1
  <2>2. exiting' = FALSE /\ circle' = FALSE
    BY <1>0, <1>7 DEF Flicker, HoldInv, HoldTypes
  <2>3. frames' = 0
    BY <1>0, <1>7 DEF Flicker
  <2> QED
    BY <1>3, <2>1, <2>2, <2>3
<1> QED
  BY <1>4, <1>5, <1>6, <1>7 DEF HoldNext

LEMMA HoldSteps ==
    ASSUME HoldInv, ControlsInv,
           \/ UseEscape \/ ScreenChanges
           \/ UNCHANGED holdVars /\ (UseControls \/ UseModals \/ UNCHANGED controlVars)
    PROVE  HoldInv'
<1>1. CASE UseEscape
  <2>1. HoldNext(full_screen) /\ full_screen' = full_screen
    BY <1>1 DEF UseEscape, controlVars
  <2> QED
    BY <2>1, HoldNextSteps DEF HoldInv
<1>2. ASSUME UNCHANGED holdVars, exiting => full_screen' PROVE HoldInv'
  BY <1>2 DEF holdVars, HoldInv, HoldTypes, HoldRuns
<1>3. CASE ScreenChanges
  <2>1. PICK full \in BOOLEAN : full_screen' = full /\ IF full THEN UNCHANGED holdVars ELSE CancelHold
    BY <1>3 DEF ScreenChanges, Remount
  <2>2. CASE full
    BY <1>2, <2>1, <2>2
  <2>3. CASE ~full
    <3>1. HoldNext(full_screen) /\ exiting' = FALSE
      BY <2>1, <2>3 DEF HoldNext, CancelHold
    <3> QED
      BY <3>1, HoldNextSteps DEF HoldInv
  <2> QED
    BY <2>2, <2>3
<1>4. CASE UNCHANGED holdVars /\ (UseControls \/ UseModals \/ UNCHANGED controlVars)
  BY <1>2, <1>4, ControlsMoves DEF HoldInv
<1> QED
  BY <1>1, <1>3, <1>4

LEMMA HoldHolds == HoldInv => HoldTypeOK /\ HoldRuns /\ (exiting => full_screen)
  BY DEF HoldInv, HoldTypes, HoldTypeOK

-----------------------------------------------------------------------------
(* The modals.                                                             *)

\* A call that goes on was answered, or was replaced by the modal that is on, or was
\* replaced by one whose controller it then took.
Goes(c) ==
  /\ c \in Calls /\ c <= shown /\ promise[c] = "resolved"
  /\ \/ c = current
     \/ current # 0 /\ promise[current] = "open" /\ current \in took
     \/ current = 0 /\ c = shown /\ c \in took
ModalsShape ==
  /\ current \in {0, shown}
  /\ \/ jobs = <<>> /\ (current # 0 => promise[current] = "open")
     \/ \E c \in Calls : jobs = <<c>> /\ Goes(c)
ModalsTypes ==
  /\ shown \in 0..MaxModals /\ current \in 0..MaxModals /\ enabled \in BOOLEAN
  /\ kind \in [Calls -> Kinds \cup {"none"}]
  /\ promise \in [Calls -> {"none", "open", "resolved", "returned", "threw"}]
  /\ took \subseteq Calls
ModalsInv == ModalsTypes /\ ModalsShape /\ ModalsAgree

LEMMA InitModals == ModalsInit => ModalsInv
<1> SUFFICES ASSUME ModalsInit PROVE ModalsInv
  OBVIOUS
<1>1. ModalsTypes
  <2>1. /\ kind \in [Calls -> Kinds \cup {"none"}]
        /\ promise \in [Calls -> {"none", "open", "resolved", "returned", "threw"}]
    BY DEF ModalsInit
  <2>2. shown \in 0..MaxModals /\ current \in 0..MaxModals
    BY ModalsAssumption DEF ModalsInit
  <2>3. enabled \in BOOLEAN /\ took \subseteq Calls
    BY DEF ModalsInit
  <2> QED
    BY <2>1, <2>2, <2>3 DEF ModalsTypes
<1>2. ModalsShape
  BY DEF ModalsInit, ModalsShape
<1>3. ModalsAgree
  BY DEF ModalsInit, ModalsAgree, Resolves
<1> QED
  BY <1>1, <1>2, <1>3 DEF ModalsInv

LEMMA ShowStep ==
    ASSUME ModalsInv, NEW k \in Kinds, Show(k)
    PROVE  ModalsInv'
<1> DEFINE new == shown + 1
           replaces == current # 0 /\ Resolves(current)
<1>1. /\ new \in Calls /\ shown' = new /\ current' = new /\ enabled' = TRUE
      /\ jobs = <<>> /\ new # current /\ new # 0 /\ current < new
  BY ModalsAssumption DEF Show, ModalsInv, ModalsTypes, ModalsShape, Calls
<1>2. /\ kind' = [kind EXCEPT ![new] = k]
      /\ promise' = [c \in Calls |-> IF c = new THEN "open"
                                 ELSE IF replaces /\ c = current THEN "resolved" ELSE promise[c]]
      /\ jobs' = (IF replaces THEN <<current>> ELSE <<>>)
      /\ took' = (IF replaces THEN took \cup {new} ELSE took)
  BY <1>1 DEF Show
<1> HIDE DEF new, replaces
<1>3. ModalsTypes'
  BY <1>1, <1>2, ModalsAssumption DEF ModalsInv, ModalsTypes, Calls
<1>4. ModalsShape'
  <2>1. CASE replaces
    <3>1. current \in Calls /\ current # 0 /\ promise'[current] = "resolved" /\ promise'[new] = "open"
      BY <1>1, <1>2, <2>1 DEF replaces, ModalsInv, ModalsTypes, Calls
    <3> DEFINE old == current
    <3>2. /\ old \in Calls /\ old <= shown' /\ promise'[old] = "resolved"
          /\ current' # 0 /\ promise'[current'] = "open" /\ current' \in took'
          /\ jobs' = <<old>> /\ current' = shown'
      BY <1>1, <1>2, <2>1, <3>1 DEF ModalsInv, ModalsTypes, Calls
    <3> HIDE DEF old
    <3> QED
      BY <3>2 DEF ModalsShape, Goes
  <2>2. CASE ~replaces
    BY <1>1, <1>2, <2>2 DEF ModalsShape
  <2> QED
    BY <2>1, <2>2
<1>5. ModalsAgree'
  <2>1. promise'[new] = "open"
    BY <1>1, <1>2
  <2>2. ASSUME NEW c \in Calls, Resolves(c)' PROVE c = new
    BY <1>1, <1>2, <2>2 DEF Resolves, replaces, ModalsInv, ModalsAgree, ModalsTypes
  <2>3. ASSUME NEW c \in Calls, promise'[c] = "threw" PROVE c \in took'
    BY <1>1, <1>2, <2>3 DEF ModalsInv, ModalsAgree
  <2> QED
    BY <1>1, <2>1, <2>2, <2>3 DEF ModalsAgree
<1> QED
  BY <1>3, <1>4, <1>5 DEF ModalsInv

LEMMA AnswerStep ==
    ASSUME ModalsInv, NEW c \in Calls, jobs = <<>>, promise[c] = "open", current = c, enabled,
           promise' = [promise EXCEPT ![c] = "resolved"], jobs' = <<c>>,
           UNCHANGED <<shown, kind, current, enabled, took>>
    PROVE  ModalsInv'
<1>1. ModalsTypes'
  BY DEF ModalsInv, ModalsTypes
<1>2. promise'[c] = "resolved" /\ c = shown /\ \A d \in Calls \ {c} : promise'[d] = promise[d]
  BY ModalsAssumption DEF ModalsInv, ModalsTypes, ModalsShape, Calls
<1>3. Goes(c)'
  BY <1>2, ModalsAssumption DEF Goes, Calls, ModalsInv, ModalsTypes
<1>4. ModalsShape'
  BY <1>2, <1>3 DEF ModalsShape, ModalsInv
<1>5. ModalsAgree'
  BY <1>2 DEF ModalsAgree, ModalsInv, Resolves
<1> QED
  BY <1>1, <1>4, <1>5 DEF ModalsInv

LEMMA ContinueStep ==
    ASSUME ModalsInv, Continue
    PROVE  ModalsInv'
<1>1. PICK c \in Calls : jobs = <<c>> /\ Goes(c)
  BY DEF Continue, ModalsInv, ModalsShape
<1>2. Head(jobs) = c /\ Tail(jobs) = <<>>
  BY <1>1
<1> DEFINE aborts == current # 0 /\ Resolves(current)
<1>3. /\ enabled' = FALSE /\ current' = 0 /\ UNCHANGED <<shown, kind, took>>
      /\ promise' = [d \in Calls |->
           IF d = c THEN (IF current = 0 THEN "threw" ELSE "returned")
           ELSE IF aborts /\ d = current THEN "resolved" ELSE promise[d]]
      /\ jobs' = (IF aborts THEN <<current>> ELSE <<>>)
  <2>1. Append(<<>>, current) = <<current>>
    OBVIOUS
  <2> QED
    BY <1>2, <2>1 DEF Continue
<1> HIDE DEF aborts
<1>4. ModalsTypes'
  <2>1. promise' \in [Calls -> {"none", "open", "resolved", "returned", "threw"}]
    BY <1>3 DEF ModalsInv, ModalsTypes
  <2>2. 0 \in 0..MaxModals
    BY ModalsAssumption
  <2>3. enabled' \in BOOLEAN
    BY <1>3
  <2> QED
    BY <1>3, <2>1, <2>2, <2>3 DEF ModalsInv, ModalsTypes
<1>5. ModalsShape'
  <2>1. CASE aborts
    <3>1. current \in Calls /\ current # c /\ current = shown /\ current \in took
      BY <1>1, <2>1, ModalsAssumption
      DEF aborts, Goes, Resolves, ModalsInv, ModalsTypes, ModalsShape, Calls
    <3> DEFINE old == current
    <3>2. /\ old \in Calls /\ old = shown' /\ promise'[old] = "resolved" /\ old \in took'
          /\ current' = 0 /\ jobs' = <<old>> /\ old <= shown'
      BY <1>3, <2>1, <3>1, ModalsAssumption DEF ModalsInv, ModalsTypes, Calls
    <3> HIDE DEF old
    <3> QED
      BY <3>2 DEF ModalsShape, Goes
  <2>2. CASE ~aborts
    BY <1>3, <2>2 DEF ModalsShape
  <2> QED
    BY <2>1, <2>2
<1>6. ModalsAgree'
  <2>1. shown # 0 => shown \in Calls
    BY ModalsAssumption DEF ModalsInv, ModalsTypes, Calls
  <2>2. shown' # 0 /\ promise'[shown'] = "open" => shown' \in took'
    BY <1>1, <1>3, <2>1 DEF Goes, ModalsInv, ModalsAgree, ModalsShape
  <2>3. ASSUME NEW d \in Calls PROVE ~Resolves(d)'
    BY <1>3, <2>3 DEF Resolves, aborts, ModalsInv, ModalsAgree
  <2>4. ASSUME NEW d \in Calls, promise'[d] = "threw" PROVE d \in took'
    BY <1>1, <1>3, <2>4 DEF Goes, ModalsInv, ModalsAgree
  <2> QED
    BY <1>3, <2>2, <2>3, <2>4 DEF ModalsAgree
<1> QED
  BY <1>4, <1>5, <1>6 DEF ModalsInv

LEMMA ModalsSteps ==
    ASSUME ModalsInv, UseModals \/ UNCHANGED modalVars
    PROVE  ModalsInv'
<1>1. CASE UNCHANGED modalVars
  BY <1>1 DEF modalVars, ModalsInv, ModalsTypes, ModalsShape, ModalsAgree, Goes, Resolves
<1>2. CASE Answer
  <2>1. shown \in Calls /\ current = shown
    BY <1>2, ModalsAssumption DEF Answer, ModalsInv, ModalsTypes, ModalsShape, ModalsAgree, Calls
  <2> QED
    BY <1>2, <2>1, AnswerStep DEF Answer
<1>3. ASSUME NEW c \in Calls, PairingEnds(c) PROVE ModalsInv'
  <2>1. enabled
    BY <1>3, ModalsAssumption DEF PairingEnds, ModalsInv, ModalsAgree, Calls
  <2> QED
    BY <1>3, <2>1, AnswerStep DEF PairingEnds
<1>4. CASE ModalChanges
  BY <1>4, ShowStep, ContinueStep DEF ModalChanges, StreamModals, HostModals, Kinds
<1> QED
  BY <1>1, <1>2, <1>3, <1>4 DEF UseModals

LEMMA ModalsHold == ModalsInv => ModalsTypeOK /\ ModalsAgree
<1> SUFFICES ASSUME ModalsInv PROVE jobs \in Seq(Calls)
  BY DEF ModalsInv, ModalsTypes, ModalsTypeOK
<1>1. <<>> \in Seq(Calls) /\ \A c \in Calls : <<c>> \in Seq(Calls)
  OBVIOUS
<1> QED
  BY <1>1 DEF ModalsInv, ModalsShape

-----------------------------------------------------------------------------
(* The renderers.                                                          *)

\* The element has no track before it listens.
NoneBefore == hears \/ oldTrack = "none"
CurrentIsOpen == currentFrame = "none" \/ currentFrame \in open_frames
RenderersFlags ==
  {drawOnSubmit, looping, intact, sizeChanged, textures, errored, paused,
   playRetryTimer, hears} \subseteq BOOLEAN
RenderersRest ==
  /\ open_frames \subseteq Frames /\ currentFrame \in Frames \cup {"none"}
  /\ {picture, buffer, allocated} \subseteq Sizes \cup {0}
  /\ in_stream \subseteq Tracks /\ oldTrack \in Tracks \cup {"none"}
  /\ held \in Tracks \cup {"none"}
  /\ FramesClose /\ TexturesFit /\ TrackReaches /\ CurrentIsOpen /\ NoneBefore
ElementInv ==
  /\ TrackReaches /\ NoneBefore
  /\ in_stream \subseteq Tracks /\ {oldTrack, held} \subseteq Tracks \cup {"none"}
  /\ {hears, paused, playRetryTimer} \subseteq BOOLEAN
RenderersInv == RenderersFlags /\ RenderersRest

LEMMA InitRenderers == RenderersInit => RenderersInv
<1>1. RenderersInit => RenderersFlags
  BY DEF RenderersInit, RenderersFlags
<1>2. RenderersInit => RenderersRest
  BY RenderersAssumption
  DEF RenderersInit, RenderersRest, FramesClose, TexturesFit, TrackReaches, CurrentIsOpen,
     NoneBefore
<1> QED
  BY <1>1, <1>2 DEF RenderersInv

LEMMA SubmitFrameSteps ==
    ASSUME RenderersInv, NEW f \in Frames, SubmitFrame(f)
    PROVE  RenderersInv'
<1>1. open_frames' = {f} /\ currentFrame' = f /\ intact' = TRUE
  BY DEF RenderersInv, RenderersFlags, RenderersRest, FramesClose, SubmitFrame, DrawsFrame
<1>2. UNCHANGED <<drawOnSubmit, looping, planeVars, elementVars>>
  BY DEF SubmitFrame
<1> QED
  BY <1>1, <1>2 DEF RenderersInv, RenderersFlags, RenderersRest, FramesClose, TexturesFit, CurrentIsOpen,
     planeVars, glVars, elementVars, holderVars, TrackReaches, NoneBefore

LEMMA PlaneSteps ==
    ASSUME RenderersInv, NEW changed \in BOOLEAN, DrawsPlanes(changed),
           picture' \in Sizes \cup {0}, buffer' \in Sizes \cup {0}, picture' <= buffer',
           changed = (sizeChanged \/ picture' # picture)
    PROVE  /\ TexturesFit' /\ {sizeChanged', textures', errored'} \subseteq BOOLEAN
           /\ allocated' \in Sizes \cup {0}
<1> USE DEF RenderersInv, RenderersFlags, RenderersRest, TexturesFit
<1>1. CASE sizeChanged' = changed /\ UNCHANGED <<textures, allocated, errored>>
  BY <1>1
<1>2. CASE Uploads(changed)
  BY <1>2 DEF Uploads
<1>3. CASE GlFails(changed)
  BY <1>3 DEF GlFails
<1> QED
  BY <1>1, <1>2, <1>3 DEF DrawsPlanes

LEMMA SubmitPlanesSteps ==
    ASSUME RenderersInv, NEW s \in Sizes, SubmitPlanes(s)
    PROVE  RenderersInv'
<1>1. /\ picture' = s /\ buffer' = (IF buffer < s THEN s ELSE buffer)
      /\ UNCHANGED <<drawOnSubmit, looping, frameVars, elementVars>>
  BY DEF SubmitPlanes
<1>2. picture' <= buffer' /\ {picture', buffer'} \subseteq Sizes \cup {0}
  BY <1>1, RenderersAssumption DEF RenderersInv, RenderersFlags, RenderersRest
<1>3. /\ TexturesFit' /\ {sizeChanged', textures', errored'} \subseteq BOOLEAN
      /\ allocated' \in Sizes \cup {0}
  <2>1. CASE drawOnSubmit
    <3>1. DrawsPlanes(sizeChanged \/ s # picture)
      BY <2>1 DEF SubmitPlanes
    <3>2. (sizeChanged \/ s # picture) \in BOOLEAN
      OBVIOUS
    <3> QED
      BY <1>1, <1>2, <3>1, <3>2, PlaneSteps
  <2>2. CASE ~drawOnSubmit
    BY <1>1, <1>2, <2>2 DEF SubmitPlanes, RenderersInv, RenderersFlags, RenderersRest, TexturesFit
  <2> QED
    BY <2>1, <2>2
<1> QED
  BY <1>1, <1>2, <1>3 DEF RenderersInv, RenderersFlags, RenderersRest, FramesClose, CurrentIsOpen, frameVars,
     elementVars, holderVars, TrackReaches, NoneBefore

LEMMA AnimationSteps ==
    ASSUME RenderersInv, AnimationFrame
    PROVE  RenderersInv'
<1>1. UNCHANGED <<drawOnSubmit, looping, open_frames, currentFrame, picture, buffer, elementVars>>
  BY DEF AnimationFrame
<1>2. CASE currentFrame # "none" /\ DrawsFrame /\ UNCHANGED glVars
  BY <1>1, <1>2 DEF RenderersInv, RenderersFlags, RenderersRest, FramesClose, TexturesFit, CurrentIsOpen,
     DrawsFrame, glVars, elementVars, holderVars, TrackReaches, NoneBefore
<1>3. CASE DrawsPlanes(sizeChanged) /\ UNCHANGED intact
  <2>1. /\ TexturesFit' /\ {sizeChanged', textures', errored'} \subseteq BOOLEAN
        /\ allocated' \in Sizes \cup {0}
    BY <1>1, <1>3, PlaneSteps DEF RenderersInv, RenderersFlags, RenderersRest, TexturesFit
  <2> QED
    BY <1>1, <1>3, <2>1 DEF RenderersInv, RenderersFlags, RenderersRest, FramesClose, CurrentIsOpen,
       elementVars, holderVars, TrackReaches, NoneBefore
<1> QED
  BY <1>2, <1>3 DEF AnimationFrame

LEMMA TrackSteps ==
    ASSUME ElementInv, NEW t \in Tracks, SetTrack(t), held' = t, hears' = TRUE
    PROVE  ElementInv'
<1>1. in_stream' = (in_stream \ {oldTrack}) \cup {t} /\ oldTrack' = t /\ UNCHANGED playRetryTimer
  BY DEF SetTrack
<1>2. in_stream' \subseteq {t} /\ TrackReaches' /\ NoneBefore'
  BY <1>1 DEF ElementInv, TrackReaches, NoneBefore
<1>3. paused' \in BOOLEAN /\ playRetryTimer' \in BOOLEAN
  BY DEF ElementInv, SetTrack, Kick
<1> QED
  BY <1>1, <1>2, <1>3 DEF ElementInv

LEMMA ElementNextSteps ==
    ASSUME ElementInv, ElementNext
    PROVE  ElementInv'
<1>1. ASSUME NEW t \in Tracks, OnTrack(t) PROVE ElementInv'
  <2>1. held' = t /\ hears' = hears /\ hears \in BOOLEAN
    BY <1>1 DEF OnTrack, ElementInv
  <2>2. CASE hears
    BY <1>1, <2>1, <2>2, TrackSteps DEF OnTrack
  <2>3. CASE ~hears
    <3>1. UNCHANGED <<hears, in_stream, oldTrack, paused, playRetryTimer>>
      BY <1>1, <2>3 DEF OnTrack
    <3> QED
      BY <2>1, <2>3, <3>1 DEF ElementInv, TrackReaches, NoneBefore
  <2> QED
    BY <2>2, <2>3
<1>2. CASE AddTrackListener
  <2>1. hears' = TRUE /\ held' = held /\ held \in Tracks \cup {"none"} /\ ~hears
    BY <1>2 DEF AddTrackListener, ElementInv
  <2>2. CASE held # "none"
    BY <1>2, <2>1, <2>2, TrackSteps DEF AddTrackListener
  <2>3. CASE held = "none"
    <3>1. UNCHANGED <<in_stream, oldTrack, paused, playRetryTimer>>
      BY <1>2, <2>3 DEF AddTrackListener
    <3> QED
      BY <2>1, <2>3, <3>1 DEF ElementInv, TrackReaches, NoneBefore
  <2> QED
    BY <2>2, <2>3
<1>3. CASE TrackChanges \/ RetryFires \/ PlayOrPause \/ CleanupElement
  <2>1. UNCHANGED <<held, hears, oldTrack>> /\ in_stream' \subseteq in_stream
    BY <1>3 DEF TrackChanges, RetryFires, PlayOrPause, CleanupElement, holderVars
  <2>2. paused' \in BOOLEAN /\ playRetryTimer' \in BOOLEAN
    BY <1>3 DEF TrackChanges, RetryFires, PlayOrPause, CleanupElement, Kick, ElementInv
  <2> QED
    BY <2>1, <2>2 DEF ElementInv, TrackReaches, NoneBefore
<1> QED
  BY <1>1, <1>2, <1>3 DEF ElementNext

LEMMA ElementSteps ==
    ASSUME RenderersInv, ElementNext \/ SetupCanvas \/ CleanupPlanes
    PROVE  RenderersInv'
<1>1. ElementInv
  BY DEF RenderersInv, RenderersFlags, RenderersRest, ElementInv
<1>2. CASE ElementNext
  <2>1. ElementInv'
    BY <1>1, <1>2, ElementNextSteps
  <2>2. UNCHANGED <<drawOnSubmit, looping, open_frames, currentFrame, intact, picture, buffer,
                    sizeChanged, textures, allocated, errored>>
    BY <1>2 DEF ElementNext, OnTrack, AddTrackListener, TrackChanges, RetryFires, PlayOrPause,
       CleanupElement, frameVars, planeVars, glVars
  <2>3. RenderersFlags'
    BY <2>1, <2>2 DEF RenderersInv, RenderersFlags, ElementInv
  <2>4. RenderersRest'
    BY <2>1, <2>2 DEF RenderersInv, RenderersRest, ElementInv, FramesClose, TexturesFit, CurrentIsOpen
  <2> QED
    BY <2>3, <2>4 DEF RenderersInv
<1>3. CASE SetupCanvas \/ CleanupPlanes
  <2> USE DEF frameVars, planeVars, glVars, elementVars, holderVars
  <2>1. /\ UNCHANGED <<drawOnSubmit, open_frames, currentFrame, intact, picture, buffer,
                        sizeChanged, errored, held, hears, in_stream, oldTrack, paused,
                        playRetryTimer>>
        /\ UNCHANGED <<textures, allocated>> \/ (textures' = FALSE /\ allocated' = 0)
    BY <1>3 DEF SetupCanvas, CleanupPlanes
  <2>2. looping' \in {looping, TRUE}
    BY <1>3 DEF SetupCanvas, CleanupPlanes
  <2>3. RenderersFlags'
    BY <2>1, <2>2 DEF RenderersInv, RenderersFlags
  <2>4. RenderersRest'
    BY <2>1 DEF RenderersInv, RenderersFlags, RenderersRest, FramesClose, TexturesFit, TrackReaches,
       CurrentIsOpen, NoneBefore
  <2> QED
    BY <2>3, <2>4 DEF RenderersInv
<1> QED
  BY <1>2, <1>3

LEMMA RenderersSteps ==
    ASSUME RenderersInv, UsePictures \/ UNCHANGED rendererVars
    PROVE  RenderersInv'
<1>1. CASE UNCHANGED rendererVars
  <2> USE DEF rendererVars, frameVars, planeVars, glVars, elementVars, holderVars
  <2>1. RenderersFlags'
    <3>1. UNCHANGED <<drawOnSubmit, looping, intact, sizeChanged, textures, errored, paused,
                      playRetryTimer, hears>>
      BY <1>1
    <3> QED
      BY <3>1 DEF RenderersInv, RenderersFlags
  <2>2. RenderersRest'
    BY <1>1 DEF RenderersInv, RenderersRest, FramesClose, TexturesFit, TrackReaches, CurrentIsOpen,
       NoneBefore
  <2> QED
    BY <2>1, <2>2 DEF RenderersInv
<1> QED
  BY <1>1, SubmitFrameSteps, SubmitPlanesSteps, AnimationSteps, ElementSteps
  DEF UsePictures, CanvasNext

LEMMA RenderersHold == RenderersInv => RenderersTypeOK /\ RenderersAgree
  BY DEF RenderersInv, RenderersFlags, RenderersRest, RenderersTypeOK, RenderersAgree

-----------------------------------------------------------------------------
(* The bitrate control.                                                    *)

BitrateFlags == {editing, disabled, busy, apply_shown, dismissing, astray} \subseteq BOOLEAN
BitrateRates == {stored, tier, committed, pending, snapshot, applying} \subseteq Rates /\ tier \in Tiers
\* While an apply is under way and nothing came in between, it applies what is stored.
AppliesStored == busy /\ ~astray => applying = stored
BitrateInv == BitrateFlags /\ BitrateRates /\ BitrateAgrees /\ AppliesStored

LEMMA SnapType == \A rate \in Rates, max \in Tiers : Snap(rate, max) \in Rates
  BY RatesAssumption DEF Snap

LEMMA InitBitrate == BitrateInit => BitrateInv
<1> SUFFICES ASSUME BitrateInit PROVE BitrateInv
  OBVIOUS
<1>1. BitrateFlags
  BY DEF BitrateInit, BitrateFlags
<1>2. BitrateRates
  BY SnapType, RatesAssumption DEF BitrateInit, BitrateRates
<1>3. BitrateAgrees /\ AppliesStored
  BY DEF BitrateInit, BitrateAgrees, AppliesStored
<1> QED
  BY <1>1, <1>2, <1>3 DEF BitrateInv

LEMMA BitrateFlagsStep ==
    ASSUME BitrateFlags, BitrateNext
    PROVE  BitrateFlags'
  BY DEF BitrateFlags, BitrateNext, Choose, OpenEditor, CloseEditor, Dismiss, Apply, Applied,
     ApplyFails, Refresh, SettingsChange, ChannelReady, Disable, Visuals, editorVars, applyVars

LEMMA BitrateRatesStep ==
    ASSUME BitrateRates, BitrateNext
    PROVE  BitrateRates'
<1> USE SnapType DEF BitrateRates, editorVars, applyVars, Visuals
<1>1. CASE \E rate \in Rates : Choose(rate) \/ CloseEditor(Snap(rate, tier))
  BY <1>1 DEF Choose, CloseEditor
<1>2. CASE OpenEditor \/ CloseEditor(snapshot) \/ CloseEditor(pending) \/ Dismiss
  BY <1>2 DEF OpenEditor, CloseEditor, Dismiss
<1>3. CASE Apply \/ Applied \/ ApplyFails \/ Disable
  BY <1>3 DEF Apply, Applied, ApplyFails, Disable
<1>4. CASE ChannelReady
  BY <1>4 DEF ChannelReady, Refresh
<1>5. ASSUME NEW rate \in Rates, NEW max \in Tiers, SettingsChange(rate, max)
      PROVE  BitrateRates'
  <2>1. committed' \in Rates /\ max \in Rates
    BY <1>5, RatesAssumption DEF SettingsChange, Refresh
  <2> QED
    BY <1>5, <2>1 DEF SettingsChange, Refresh
<1> QED
  BY <1>1, <1>2, <1>3, <1>4, <1>5 DEF BitrateNext

LEMMA VisualsAgree ==
    ASSUME NEW rate, Visuals(rate)
    PROVE  /\ dismissing' = apply_shown' /\ apply_shown' \in BOOLEAN
           /\ apply_shown' <=> pending' # committed'
<1>1. pending' = rate /\ apply_shown' = (rate # committed') /\ dismissing' = apply_shown'
  BY DEF Visuals
<1>2. CASE rate = committed'
  BY <1>1, <1>2
<1>3. CASE rate # committed'
  BY <1>1, <1>3
<1> QED
  BY <1>2, <1>3

LEMMA BitrateAgreesStep ==
    ASSUME BitrateFlags, BitrateAgrees, AppliesStored, BitrateNext
    PROVE  BitrateAgrees' /\ AppliesStored'
<1>0. /\ busy \in BOOLEAN /\ astray \in BOOLEAN /\ apply_shown \in BOOLEAN
      /\ dismissing \in BOOLEAN
  BY DEF BitrateFlags
<1> USE <1>0, VisualsAgree DEF BitrateAgrees, AppliesStored, editorVars, applyVars
<1>1. ASSUME NEW rate, Visuals(rate), UNCHANGED <<stored, tier, committed, busy, applying, astray>>
      PROVE  BitrateAgrees' /\ AppliesStored'
  BY <1>1
<1>2. CASE \E rate \in Rates : Choose(rate) \/ CloseEditor(Snap(rate, tier))
  BY <1>1, <1>2 DEF Choose, CloseEditor
<1>3. CASE CloseEditor(snapshot) \/ CloseEditor(pending) \/ Dismiss
  BY <1>1, <1>3 DEF CloseEditor, Dismiss
<1>4. CASE OpenEditor
  BY <1>4 DEF OpenEditor
<1>5. CASE Apply
  BY <1>5 DEF Apply
<1>6. CASE Applied
  BY <1>6 DEF Applied
<1>7. CASE ApplyFails
  BY <1>7 DEF ApplyFails
<1>8. CASE Disable
  BY <1>1, <1>8 DEF Disable
<1>9. CASE ChannelReady
  BY <1>9 DEF ChannelReady, Refresh
<1>10. ASSUME NEW rate \in Rates, NEW max \in Tiers, SettingsChange(rate, max)
       PROVE  BitrateAgrees' /\ AppliesStored'
  BY <1>10 DEF SettingsChange, Refresh
<1> QED
  BY <1>2, <1>3, <1>4, <1>5, <1>6, <1>7, <1>8, <1>9, <1>10 DEF BitrateNext

LEMMA BitrateSteps ==
    ASSUME BitrateInv, UseBitrate \/ UNCHANGED bitrateVars
    PROVE  BitrateInv'
<1>1. CASE UNCHANGED bitrateVars
  BY <1>1 DEF bitrateVars, BitrateInv, BitrateFlags, BitrateRates, BitrateAgrees, AppliesStored,
     editorVars, applyVars
<1>2. CASE UseBitrate
  BY <1>2, BitrateFlagsStep, BitrateRatesStep, BitrateAgreesStep DEF UseBitrate, BitrateInv
<1> QED
  BY <1>1, <1>2

LEMMA BitrateHolds == BitrateInv => BitrateTypeOK /\ BitrateAgrees
  BY DEF BitrateInv, BitrateFlags, BitrateRates, BitrateTypeOK

-----------------------------------------------------------------------------
(* The page.                                                               *)

\* How the steps of the page look to its parts.
LEMMA StepsOfParts ==
    ASSUME [Next]_vars
    PROVE  /\ in_use' = in_use
           /\ LockMoves \/ UNCHANGED lockVars
           /\ PadNext \/ NewPads \/ UNCHANGED padVars
           /\ UseControls \/ UseModals \/ ScreenChanges \/ UNCHANGED controlVars
           /\ \/ UseEscape \/ ScreenChanges
              \/ UNCHANGED holdVars /\ (UseControls \/ UseModals \/ UNCHANGED controlVars)
           /\ UseModals \/ UNCHANGED modalVars
           /\ UseBitrate \/ UNCHANGED bitrateVars
           /\ UsePictures \/ UNCHANGED rendererVars
<1>1. CASE UseInput
  <2>1. InputNext /\ UNCHANGED <<controlVars, holdVars, modalVars, bitrateVars, rendererVars>>
    BY <1>1 DEF UseInput
  <2>2. in_use' = in_use
    BY <2>1 DEF InputNext
  <2>3. LockMoves \/ UNCHANGED lockVars
    BY <2>1 DEF InputNext, Configures, LockOnly, TouchOnly, PadsOnly, Restart, LockMoves
  <2>4. PadNext \/ NewPads \/ UNCHANGED padVars
    BY <2>1 DEF InputNext, Configures, LockOnly, TouchOnly, PadsOnly, Restart
  <2> QED
    BY <2>1, <2>2, <2>3, <2>4
<1>2. CASE UNCHANGED inputVars
  <2>1. in_use' = in_use /\ UNCHANGED lockVars /\ UNCHANGED padVars
    BY <1>2 DEF inputVars
  <2> QED
    BY <2>1 DEF Next, UseInput, UseControls, UseEscape, ScreenChanges, UseModals, UseBitrate,
       UsePictures, vars
<1> QED
  BY <1>1, <1>2 DEF Next, UseInput, UseControls, UseEscape, ScreenChanges, UseModals, UseBitrate,
     UsePictures, vars

LEMMA TouchParts ==
    ASSUME [Next]_vars
    PROVE  TouchOnly \/ ForgetTouches \/ NewTouches \/ UNCHANGED touchVars
<1>1. CASE UNCHANGED inputVars
  BY <1>1 DEF inputVars
<1>2. CASE InputNext
  BY <1>2 DEF InputNext, Configures, LockOnly, PadsOnly, Restart
<1> QED
  BY <1>1, <1>2 DEF Next, UseInput, UseControls, UseEscape, ScreenChanges, UseModals, UseBitrate,
     UsePictures, vars

LockInv == LockFlags /\ LockNames /\ LockAgrees

LEMMA NextLock == LockInv /\ [Next]_vars => LockInv'
<1> SUFFICES ASSUME LockInv, [Next]_vars PROVE LockInv'
  OBVIOUS
<1>1. CASE UNCHANGED lockVars
  <2> USE DEF lockVars, hostVars, adaptiveVars, modeVars
  <2>1. LockFlags'
    BY <1>1 DEF LockInv, LockFlags
  <2>2. LockNames'
    BY <1>1 DEF LockInv, LockNames
  <2>3. LockAgrees'
    BY <1>1 DEF LockInv, Drawn, LockAgrees, ReleaseIsDue, OverlayIsDue, CursorIsDrawn
  <2> QED
    BY <2>1, <2>2, <2>3 DEF LockInv
<1>2. CASE LockMoves
  <2>1. LockAgrees'
    BY <1>2, CursorSteps, ConfigureSteps, ExitSteps, OverlaySteps, AnswerSteps
    DEF LockMoves, LockInv
  <2> QED
    BY <1>2, <2>1, LockFlagSteps, LockNameSteps DEF LockInv
<1> QED
  BY <1>1, <1>2, StepsOfParts

LEMMA NextTouch == TouchInv /\ DragHolds /\ [Next]_vars => TouchInv' /\ DragHolds'
<1> SUFFICES ASSUME TouchInv, DragHolds, [Next]_vars PROVE TouchInv' /\ DragHolds'
  OBVIOUS
<1>1. CASE UNCHANGED touchVars
  BY <1>1 DEF touchVars, gestureVars, TouchInv, Tracked, DragHolds
<1>2. CASE ForgetTouches \/ NewTouches
  BY <1>2, OtherTouchSteps, GestureTypes
<1>3. ASSUME NEW f \in Fingers, FingerDown(f) PROVE TouchInv' /\ DragHolds'
  BY <1>3, FingerSteps, FingerDownTypes
<1>4. ASSUME NEW f \in Fingers, FingerUp(f, mode = "relative") PROVE TouchInv' /\ DragHolds'
  BY <1>4, FingerSteps, FingerUpTypes, TouchAssumption
<1>5. CASE FingerMoves \/ FingerRests \/ \E f \in Fingers : StrayMove(f)
  BY <1>5, OtherTouchSteps, FingerMoveTypes
<1>6. CASE TapTimer \/ ResetGesture \/ ChooseTouchMode \/ \E f \in Fingers : FingerVanishes(f)
  BY <1>6, OtherTouchSteps, GestureTypes
<1> QED
  BY <1>1, <1>2, <1>3, <1>4, <1>5, <1>6, TouchParts DEF TouchOnly

PageInv ==
  /\ in_use \in Uses /\ LockInv /\ TouchInv /\ DragHolds /\ PadInv /\ RumbleInv
  /\ ControlsInv /\ HoldInv /\ ModalsInv /\ BitrateInv /\ RenderersInv

LEMMA InitPage == Init => PageInv
<1> SUFFICES ASSUME Init PROVE PageInv
  OBVIOUS
<1>1. in_use \in Uses /\ LockInit /\ TouchInit /\ PadInit
  BY DEF Init, InputInit
<1>2. LockInv
  <2>1. LockFlags
    BY <1>1 DEF LockInit, LockFlags
  <2>2. LockNames
    BY <1>1 DEF LockInit, LockNames
  <2>3. LockAgrees
    BY <1>1 DEF LockInit, LockAgrees, ReleaseIsDue, OverlayIsDue, CursorIsDrawn
  <2> QED
    BY <2>1, <2>2, <2>3 DEF LockInv
<1>3. TouchInv
  <2>1. tracker \in [{} -> TouchRecords] /\ Tracked = {}
    BY <1>1 DEF TouchInit, Tracked
  <2>2. taps \in 0..MaxTaps
    BY <1>1, TouchAssumption DEF TouchInit
  <2>3. left \in BOOLEAN /\ doubleTap \in BOOLEAN
    BY <1>1 DEF TouchInit
  <2> QED
    BY <1>1, <2>1, <2>2, <2>3 DEF TouchInit, TouchInv
<1>4. DragHolds
  BY <1>1 DEF TouchInit, DragHolds
<1>5. phone \in BOOLEAN /\ full_screen \in BOOLEAN
  BY DEF Init, ControlsInit
<1>6. HoldInv
  <2>1. 0 \in 0..MaxFlickers
    BY HoldAssumption
  <2>2. exiting = FALSE /\ circle = FALSE
    BY DEF Init, HoldInit
  <2>3. frames = 0 /\ flickers = 0
    BY DEF Init, HoldInit
  <2> QED
    BY <2>1, <2>2, <2>3 DEF HoldInv, HoldTypes, HoldRuns
<1>7. RumbleInv
  <2>1. DOMAIN slots = {} /\ rumble = "none"
    BY <1>1 DEF PadInit
  <2>2. interval \in BOOLEAN
    BY <1>1 DEF PadInit
  <2> QED
    BY <2>1, <2>2 DEF RumbleInv, RumblesPlay
<1> QED
  BY <1>1, <1>2, <1>3, <1>4, <1>5, <1>6, <1>7, InitPads, InitControls, InitModals, InitBitrate,
     InitRenderers
  DEF Init, PageInv, ControlsInv

LEMMA NextPage == PageInv /\ [Next]_vars => PageInv'
  BY StepsOfParts, NextLock, NextTouch, PadStep, RumbleStep, ControlsSteps, HoldSteps, ModalsSteps,
     BitrateSteps, RenderersSteps
  DEF PageInv

LEMMA PageHolds ==
    ASSUME PageInv
    PROVE  /\ TypeOK /\ LockAgrees /\ DragHolds /\ ControllersAgree
           /\ PressesToggleOnce /\ WidgetsAgree /\ ModalsAgree /\ BitrateAgrees /\ RenderersAgree
<1>1. LockTypeOK
  <2>1. {mode, previous} \subseteq Modes
    BY DEF PageInv, LockInv, LockNames
  <2> QED
    BY <2>1 DEF PageInv, LockInv, LockFlags, LockNames, LockTypeOK
<1>2. TouchTypeOK
  BY DEF PageInv, TouchInv, TouchTypeOK, TouchRecords
<1>3. InputTypeOK /\ ControllersAgree
  BY <1>1, <1>2, PadsHold DEF PageInv, InputTypeOK
<1>4. WidgetsAgree /\ HoldTypeOK
  BY ControlsHold, HoldHolds DEF PageInv, WidgetsAgree
<1> QED
  BY <1>3, <1>4, ControlsHold, ModalsHold, BitrateHolds, RenderersHold DEF PageInv, LockInv, TypeOK

LEMMA PageAlways == Spec => []PageInv
  BY InitPage, NextPage, PTL DEF Spec

(* Every part of the page keeps its state within its type, whatever the    *)
(* devices, the users and the stream do.                                   *)
THEOREM TypesAlwaysOK == Spec => []TypeOK
  BY PageAlways, PageHolds, PTL

(* The timer of a release, the overlay and the drawn cursor agree with the *)
(* lock and with the host, whatever order messages, answers and exits come *)
(* in (attemptAdaptivePointerRelock, onPointerLockChange, applyHostCursor). *)
THEOREM LockAlwaysAgrees == Spec => []LockAgrees
  BY PageAlways, PageHolds, PTL

(* While a gesture drags, the host's left button stays down: neither the   *)
(* timer of an earlier tap nor another finger lets go of it (onTouchStart,  *)
(* onTouchEnd).                                                            *)
THEOREM DragAlwaysHolds == Spec => []DragHolds
  BY PageAlways, PageHolds, PTL

(* No controller ever has two slots, the overlay's slot is its own, the    *)
(* host has no button down of a controller that is gone, and its rumbles   *)
(* are kept and played while a pad has a slot, however many pads come and  *)
(* go before and after the connection (onGamepadConnect,                   *)
(* enableVirtualController, refreshGamepadRumble, the streamer's  *)
(* active gamepads).                                                       *)
THEOREM ControllersAlwaysAgree == Spec => []ControllersAgree
  BY PageAlways, PageHolds, PTL

(* No press of a floating button toggles twice, with its end and with its  *)
(* click, and none that dragged the button toggles, with any number of     *)
(* pointers on any of the buttons (onDocumentPointerEnd, suppressClick).   *)
THEOREM PressesAlwaysToggleOnce == Spec => []PressesToggleOnce
  BY PageAlways, PageHolds, PTL

(* An extended side bar has a listener or a timer that will install one,   *)
(* backspace repeats only under a finger or when its key was replaced, and *)
(* one loop runs exactly while Escape is held in the full screen           *)
(* (setSidebarExtended, hide and buildKeys of the on-screen keyboard,      *)
(* startFullscreenExitEscHold).                                            *)
THEOREM WidgetsAlwaysAgree == Spec => []WidgetsAgree
  BY PageAlways, PageHolds, PTL

(* The modal shown last keeps the screen and its controller until it is    *)
(* done, unless it replaced a settings panel, however many modals follow   *)
(* each other and whatever resolves in between (showModal).                *)
THEOREM ModalsAlwaysAgree == Spec => []ModalsAgree
  BY PageAlways, PageHolds, PTL

(* The bitrate that is shown is the stored one, a pending one has its      *)
(* button and the button its timer, whatever interrupts the user           *)
(* (applyOverlayBitrate, syncOverlayBitrateRangeFromSettings).             *)
THEOREM BitrateAlwaysAgrees == Spec => []BitrateAgrees
  BY PageAlways, PageHolds, PTL

(* At most one VideoFrame is open, no closed one is drawn, planes go into  *)
(* textures of their size, and the element plays the track that came last  *)
(* and no other, whether it or the element was there first (submitFrame,   *)
(* submitRawFrame, setTrack, addTrackListener).                            *)
THEOREM RenderersAlwaysAgree == Spec => []RenderersAgree
  BY PageAlways, PageHolds, PTL
=============================================================================
