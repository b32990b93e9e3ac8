----------------------------- MODULE EscapeHold -----------------------------
(***************************************************************************)
(* Escape held for 750 ms leaves the full screen (src/web/stream.ts): a    *)
(* circle fills up in a loop of animation frames while its logo flickers   *)
(* in an interval.  The key may be lifted without a word to the page.      *)
(***************************************************************************)
EXTENDS Naturals

CONSTANT MaxFlickers   \* bound on the intervals that run at once
ASSUME HoldAssumption == MaxFlickers \in Nat

VARIABLES
  exiting,   \* fullscreenExitEscActive
  frames,    \* animation frames that were requested; the last one may be cancelled
  circle,    \* fullscreenExitCircle is displayed
  flickers   \* flicker intervals

holdVars == <<exiting, frames, circle, flickers>>

HoldInit == exiting = FALSE /\ frames = 0 /\ circle = FALSE /\ flickers = 0

\* startFullscreenExitEscHold; a key that repeats finds the hold under way.
EscapeDown(full) ==
  /\ full /\ ~exiting /\ flickers < MaxFlickers
  /\ exiting' = TRUE /\ circle' = TRUE /\ frames' = frames + 1 /\ flickers' = flickers + 1

\* cancelFullscreenExitEscHold; the interval ends itself later.
CancelHold ==
  /\ exiting' = FALSE /\ circle' = FALSE
  /\ frames' = (IF frames = 0 THEN 0 ELSE frames - 1) /\ UNCHANGED flickers

\* animate after its 750 ms: the lock of the pointer and the full screen are to end.  So
\* ends, earlier, a loop that finds its hold cancelled or the full screen left.
LoopEnds(full) ==
  /\ frames' = frames - 1 /\ flickers' = flickers - 1 /\ circle' = FALSE
  /\ exiting' = (exiting /\ ~full)

Animate(full) ==
  /\ frames > 0 /\ flickers > 0
  /\ LoopEnds(full) \/ (exiting /\ full /\ UNCHANGED holdVars)

\* An interval that finds no hold ends.
Flicker == flickers > 0 /\ ~exiting /\ flickers' = flickers - 1 /\ UNCHANGED <<exiting, frames, circle>>

HoldNext(full) == EscapeDown(full) \/ CancelHold \/ Animate(full) \/ Flicker

HoldTypeOK == {exiting, circle} \subseteq BOOLEAN /\ {frames, flickers} \subseteq 0..MaxFlickers

-----------------------------------------------------------------------------
\* The circle is shown, and one loop runs, exactly while a hold is under way: a hold that was
\* cancelled never leaves the full screen of a later one.
HoldRuns ==
  /\ circle = exiting /\ frames = (IF exiting THEN 1 ELSE 0)
  /\ exiting => flickers > 0
=============================================================================
