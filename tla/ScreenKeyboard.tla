--------------------------- MODULE ScreenKeyboard ---------------------------
(***************************************************************************)
(* The on-screen keyboard (src/web/screen_keyboard.ts): whether it is      *)
(* shown, which keys its rows hold, and the backspace key, which repeats   *)
(* while it is held: after a delay, at an interval, until the element the  *)
(* finger went down on hears of its end.  The keyboard listens for presses *)
(* outside of it exactly while it is visible.  Which letter is typed and   *)
(* where the keyboard was dragged to change nothing else and are left out. *)
(***************************************************************************)

VARIABLES
  visible,      \* visible, and with it the listener onOutsidePointer
  in_page,      \* its root is in the document
  symbolMode,
  symbol_rows,  \* the rows that were built last are those of the symbols
  backspace,    \* a finger on ⌫: "up", "down", or "gone" with the key it was on
  repeat,       \* backspaceRepeatDelayTimer, backspaceRepeatInterval: "none", "delay", "on"
  orphan        \* history: the key was replaced under a finger since the repeat began

repeatVars == <<backspace, repeat, orphan>>
keyboardVars == <<visible, in_page, symbolMode, symbol_rows, repeatVars>>

KeyboardInit ==
  /\ visible = FALSE /\ in_page = TRUE /\ symbolMode = FALSE /\ symbol_rows = FALSE
  /\ backspace = "up" /\ repeat = "none" /\ orphan = FALSE

\* What the user can see and touch (isActuallyVisible).
Shown == visible /\ in_page

\* hide(): the rows stay as they are.
Hide == visible' = FALSE /\ symbolMode' = FALSE /\ repeat' = "none" /\ orphan' = FALSE

HideKeyboard ==
  /\ Hide /\ backspace' = (IF backspace = "down" THEN "gone" ELSE backspace)
  /\ UNCHANGED <<in_page, symbol_rows>>

\* show(), which brings the root back into the document.
ShowKeyboard ==
  /\ visible' = TRUE /\ in_page' = TRUE /\ UNCHANGED <<symbolMode, symbol_rows, repeatVars>>

\* The element under the finger goes: its pointerup is for another one.
LoseKey ==
  /\ backspace' = (IF backspace = "down" THEN "gone" ELSE backspace)
  /\ orphan' = (orphan \/ (backspace = "down" /\ repeat # "none"))
  /\ UNCHANGED repeat

\* The key "123" or "ABC".
ModeKey ==
  /\ Shown /\ symbolMode' = ~symbolMode /\ symbol_rows' = symbolMode' /\ LoseKey
  /\ UNCHANGED <<visible, in_page>>

\* pointerdown on ⌫ types once and begins anew.
PressBackspace ==
  /\ Shown /\ backspace' = "down" /\ repeat' = "delay" /\ orphan' = FALSE
  /\ UNCHANGED <<visible, in_page, symbolMode, symbol_rows>>

DelayEnds ==
  /\ repeat = "delay" /\ repeat' = "on"
  /\ UNCHANGED <<visible, in_page, symbolMode, symbol_rows, backspace, orphan>>

\* pointerup, pointercancel, pointerleave: of a key that is gone they may reach the new
\* one, which may be in its place.
LiftBackspace ==
  /\ backspace # "up" /\ backspace' = "up"
  /\ \/ repeat' = "none" /\ orphan' = FALSE
     \/ backspace = "gone" /\ UNCHANGED <<repeat, orphan>>
  /\ UNCHANGED <<visible, in_page, symbolMode, symbol_rows>>

\* blur, visibilitychange: forceStopInteractions.
ForceStop ==
  /\ repeat' = "none" /\ orphan' = FALSE
  /\ UNCHANGED <<visible, in_page, symbolMode, symbol_rows, backspace>>

\* The side bar is mounted again: its unmount takes the root out of the document and
\* says nothing to the keyboard.
TakeOut == in_page' = FALSE /\ LoseKey /\ UNCHANGED <<visible, symbolMode, symbol_rows>>

KeyboardTypeOK ==
  /\ {visible, in_page, symbolMode, symbol_rows, orphan} \subseteq BOOLEAN
  /\ backspace \in {"up", "down", "gone"} /\ repeat \in {"none", "delay", "on"}
=============================================================================
