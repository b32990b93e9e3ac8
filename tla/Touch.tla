-------------------------------- MODULE Touch --------------------------------
(***************************************************************************)
(* How StreamInput (src/web/stream/input.ts) turns fingers on the stream   *)
(* into the left and right button of the host's mouse.  The first finger   *)
(* is the primary one and its move, its time and the fingers beside it     *)
(* decide whether it points, drags, scrolls or pulls up the keyboard; a    *)
(* short tap waits for a second one before it is a click.  Distances and   *)
(* times are chosen freely.  In the mode "touch" the host gets the fingers *)
(* themselves.                                                             *)
(***************************************************************************)
EXTENDS Naturals, FiniteSets

CONSTANTS
  Fingers,
  MaxTaps       \* bound on the taps that wait for a second one
ASSUME TouchAssumption == IsFiniteSet(Fingers) /\ MaxTaps \in Nat

VARIABLES
  fingers,      \* fingers that are on the stream
  touchMode,    \* config.touchMode
  tracker,      \* touchTracker: mouseClicked and mouseMoved of each touch
  primary,      \* primaryTouch
  action,       \* touchMouseAction
  doubleTap,    \* nextTouchDoubleTap
  taps,         \* clicks that wait for the timer of a double tap
  left          \* the host's left button

gestureVars == <<primary, action, doubleTap>>
touchVars == <<fingers, touchMode, tracker, gestureVars, taps, left>>

None == "none"
NewTouch == [clicked |-> None, moved |-> FALSE]
Primary == tracker[primary]
Tracked == DOMAIN tracker
Track(f) == IF f \in Tracked THEN tracker
            ELSE [g \in Tracked \cup {f} |-> IF g = f THEN NewTouch ELSE tracker[g]]
Untrack(f) == [g \in Tracked \ {f} |-> tracker[g]]

TouchInit ==
  /\ fingers = {} /\ touchMode \in {"mouseRelative", "pointAndDrag"}
  /\ tracker = <<>> /\ primary = None /\ action = "default" /\ doubleTap = FALSE
  /\ taps = 0 /\ left = FALSE

\* Mutant: the primary touch outlives its record.
ForgetTracker ==
  tracker' = <<>> /\ UNCHANGED <<fingers, touchMode, gestureVars, taps, left>>

\* setConfig forgets the touches, whatever they hold down.
ForgetTouches ==
  /\ primary' = None /\ tracker' = <<>>
  /\ UNCHANGED <<fingers, touchMode, action, doubleTap, taps, left>>

\* What a new finger makes of the gesture, once it is tracked and one is primary: a
\* second tap drags, two fingers scroll, three pull up the keyboard.
FingerDown(f) ==
  LET seen == Track(f)
      main == IF primary = None THEN f ELSE primary
      before == IF primary = None THEN "default" ELSE action
      drags == touchMode = "mouseRelative" /\ doubleTap
      clicked == IF drags THEN "left" ELSE seen[main].clicked
      scrolls == Cardinality(DOMAIN seen) = 2 /\ ~seen[main].moved /\ clicked = None IN
  /\ f \notin fingers /\ fingers' = fingers \cup {f}
  /\ IF touchMode = "touch"
       THEN tracker' = seen /\ UNCHANGED <<gestureVars, left>>
       ELSE /\ primary' = main
            /\ left' = (left \/ drags) /\ doubleTap' = (doubleTap /\ ~drags)
            /\ action' = (CASE scrolls -> "scroll"
                            [] Cardinality(DOMAIN seen) = 3 -> "screenKeyboard"
                            [] OTHER -> IF drags THEN "drag" ELSE before)
            /\ tracker' = [seen EXCEPT ![main] =
                 [clicked |-> clicked,
                  moved |-> @.moved \/ (scrolls /\ touchMode = "pointAndDrag")]]
  /\ UNCHANGED <<touchMode, taps>>

\* The primary finger moves further than a click may.
FingerMoves ==
  /\ primary \in fingers \cap Tracked /\ touchMode # "touch" /\ action = "default"
  /\ tracker' = [tracker EXCEPT ![primary] =
       [clicked |-> IF touchMode = "pointAndDrag" THEN "left" ELSE @.clicked, moved |-> TRUE]]
  /\ IF touchMode = "pointAndDrag" THEN action' = "drag" /\ left' = TRUE
                                   ELSE UNCHANGED <<action, left>>
  /\ UNCHANGED <<fingers, touchMode, primary, doubleTap, taps>>

\* onTouchUpdate: a finger that rests has the host's pointer under it.
FingerRests ==
  /\ touchMode = "pointAndDrag" /\ primary \in Tracked /\ action = "default" /\ ~Primary.moved
  /\ tracker' = [tracker EXCEPT ![primary].moved = TRUE]
  /\ UNCHANGED <<fingers, touchMode, gestureVars, taps, left>>

\* A touch that moved before its config was changed is tracked again.
StrayMove(f) ==
  /\ f \in fingers \ Tracked /\ tracker' = Track(f)
  /\ UNCHANGED <<fingers, touchMode, gestureVars, taps, left>>

\* doClick: the click, if it is one, replaces the button that the gesture pressed, and
\* that button is released.
DoClick(pressed, click) ==
  left' = (left /\ "left" \notin {IF click = None THEN pressed ELSE click})

\* The end of a touch: near its start or not, quick or long.
FingerUp(f, relative) ==
  /\ f \in fingers /\ fingers' = fingers \ {f} /\ tracker' = Untrack(f)
  /\ IF touchMode = "touch" \/ primary # f
       THEN UNCHANGED <<gestureVars, taps, left>>
       ELSE \E near \in BOOLEAN, time \in {"quick", "short", "long"} :
            /\ primary' = None /\ UNCHANGED action
            /\ doubleTap' = (time = "quick")
            /\ taps' = (IF time = "quick" THEN taps + 1 ELSE taps) /\ taps' <= MaxTaps
            /\ DoClick(Primary.clicked,
                 IF near /\ time # "quick" /\ ~(relative /\ ~Primary.moved)
                   THEN IF time = "long" THEN "right" ELSE "left" ELSE None)
  /\ UNCHANGED touchMode

\* A finger that ends on another element: the stream never sees its end.
FingerVanishes(f) ==
  /\ f \in fingers /\ fingers' = fingers \ {f}
  /\ UNCHANGED <<touchMode, tracker, gestureVars, taps, left>>

\* Mutant: the click is due whatever came meanwhile.
TapTimerAnyway ==
  /\ taps > 0 /\ taps' = taps - 1
  /\ doubleTap' = FALSE /\ (left' = FALSE \/ UNCHANGED left)
  /\ UNCHANGED <<fingers, touchMode, tracker, primary, action>>

\* The timer of a quick tap: if no other finger came, the click, unless the tap was none.
TapTimer ==
  /\ taps > 0 /\ taps' = taps - 1
  /\ IF primary = None THEN doubleTap' = FALSE /\ (left' = FALSE \/ UNCHANGED left)
                       ELSE UNCHANGED <<doubleTap, left>>
  /\ UNCHANGED <<fingers, touchMode, tracker, primary, action>>

\* resetTouchGestureState, which the overlays call when they are toggled.
ResetGesture ==
  /\ left' = (left /\ ~(touchMode # "touch" /\ action = "drag"))
  /\ tracker' = <<>> /\ primary' = None /\ action' = "default" /\ doubleTap' = FALSE
  /\ UNCHANGED <<fingers, touchMode, taps>>

\* onTouchModeChange, onCapabilitiesChange.
ChooseTouchMode ==
  /\ touchMode' \in {"touch", "mouseRelative", "pointAndDrag"}
  /\ primary' = None /\ tracker' = <<>>
  /\ UNCHANGED <<fingers, action, doubleTap, taps, left>>

\* The input of a new stream; the old one's host session ends.
NewTouches ==
  /\ primary' = None /\ tracker' = <<>> /\ action' = "default" /\ doubleTap' = FALSE
  /\ taps' = 0 /\ left' = FALSE /\ UNCHANGED <<fingers, touchMode>>

TouchTypeOK ==
  /\ fingers \subseteq Fingers /\ touchMode \in {"touch", "mouseRelative", "pointAndDrag"}
  /\ Tracked \subseteq Fingers
  /\ \A f \in Tracked : tracker[f] \in [clicked : {None, "left"}, moved : BOOLEAN]
  /\ primary \in Tracked \cup {None}
  /\ action \in {"default", "drag", "scroll", "screenKeyboard"}
  /\ doubleTap \in BOOLEAN /\ taps \in 0..MaxTaps /\ left \in BOOLEAN
=============================================================================
