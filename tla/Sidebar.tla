------------------------------- MODULE Sidebar -------------------------------
(***************************************************************************)
(* The side bar (src/web/component/sidebar/index.ts).  While it is         *)
(* extended a press outside of it closes it; the listener of those presses *)
(* is installed by a timer, lest the press that opens the side bar closes  *)
(* it.  Its own button is not displayed on any page.                       *)
(***************************************************************************)
EXTENDS Naturals

CONSTANT MaxTimers   \* bound on the timers of setSidebarExtended that are under way
ASSUME SidebarAssumption == MaxTimers \in Nat

VARIABLES
  extended,   \* sidebarExtended and the class sidebar-show
  listening,  \* outsideClickHandler is installed
  opening     \* timers that will install the handler there is then

sidebarVars == <<extended, listening, opening>>

SidebarInit == extended = FALSE /\ listening = FALSE /\ opening = 0

\* Mutant: a side bar that closes forgets its listener.
ForgetListener(open) ==
  IF open = extended THEN UNCHANGED sidebarVars
  ELSE /\ open => opening < MaxTimers
       /\ extended' = open /\ UNCHANGED listening
       /\ opening' = (IF open THEN opening + 1 ELSE opening)

\* setSidebarExtended: the handler that goes is removed, a new one is not yet installed.
Extend(open) ==
  IF open = extended THEN UNCHANGED sidebarVars
  ELSE /\ open => opening < MaxTimers
       /\ extended' = open /\ listening' = FALSE
       /\ opening' = (IF open THEN opening + 1 ELSE opening)

\* There is a handler while the side bar is extended.
OpeningEnds ==
  /\ opening > 0 /\ opening' = opening - 1 /\ listening' = (listening \/ extended)
  /\ UNCHANGED extended

\* mousedown outside.
PressOutside == IF listening THEN Extend(FALSE) ELSE UNCHANGED sidebarVars

SidebarTypeOK == {extended, listening} \subseteq BOOLEAN /\ opening \in 0..MaxTimers
=============================================================================
