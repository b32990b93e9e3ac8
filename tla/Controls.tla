------------------------------ MODULE Controls ------------------------------
(***************************************************************************)
(* The buttons that float over the stream (src/web/stream.ts).  A press    *)
(* that moves drags its button, one that does not toggles what the button  *)
(* stands for; the click that follows is not to toggle it again.  On a     *)
(* phone there are buttons for the on-screen keyboard and the virtual      *)
(* controller, else one for the side bar and one for the full screen in    *)
(* the tray of the HUD.                                                    *)
(*                                                                         *)
(* A mouse sends pointerdown, mousedown, pointerup and click; a finger     *)
(* sends pointerdown and pointerup and, when that was a tap, mousedown and *)
(* click a little later, and may lose its pointerup or have it replaced by *)
(* pointercancel.                                                          *)
(***************************************************************************)
EXTENDS Sidebar, ScreenKeyboard

CONSTANTS Pointers   \* "mouse" and fingers
ASSUME PointersAssumption == "none" \notin Pointers

VARIABLES
  phone,       \* isPhoneLikeDevice
  full_screen,
  pressed,     \* the button a pointer is on, or "none"
  due,         \* the button whose click a finger's tap still owes, or "none"
  holder,      \* dragPointerId, hudTrayDragPointerId of every button
  dragged,     \* dragged, hudTrayDragWasDragging of every button
  quiet,       \* less than 500 ms since suppressClickUntilMs was set
  moved,       \* history: the press moved its button
  toggled,     \* history: what the press toggled, counted to 2
  began        \* history: what the press is to toggle was shown when it began

pressVars == <<pressed, due, holder, dragged, quiet, moved, toggled, began>>
controlVars == <<phone, full_screen, pressVars, sidebarVars, keyboardVars>>

Buttons == {"keyboard", "controller", "settings", "tray"}
\* Buttons that toggle on pointerup; the tray's toggles on click only.
Floating == Buttons \ {"tray"}

\* syncSettingsQuickButtonVisibility, syncKeyboardFallbackButtonVisibility.
Displayed(b) == IF phone THEN b \in {"keyboard", "controller"}
                ELSE b = "tray" \/ (b = "settings" /\ ~full_screen)

ControlsInit ==
  /\ phone \in BOOLEAN /\ full_screen = FALSE
  /\ pressed = [p \in Pointers |-> "none"] /\ due = pressed
  /\ holder = [b \in Buttons |-> "none"]
  /\ dragged = [b \in Buttons |-> FALSE] /\ quiet = dragged
  /\ moved = [p \in Pointers |-> FALSE] /\ toggled = [p \in Pointers |-> 0]
  /\ began = [p \in Pointers |-> FALSE]
  /\ SidebarInit /\ KeyboardInit

\* What a button does.  Whether the controller is shown, which closes the side bar, or
\* hidden is up to its overlay; the tray's button asks for a change of the full screen,
\* which the browser makes or not.
Toggle(b) ==
  \/ b = "keyboard" /\ visible /\ HideKeyboard /\ UNCHANGED sidebarVars
  \/ b = "keyboard" /\ ~visible /\ ShowKeyboard /\ Extend(FALSE)
  \/ b = "controller" /\ (Extend(FALSE) \/ UNCHANGED sidebarVars) /\ UNCHANGED keyboardVars
  \/ b = "settings" /\ Extend(~extended) /\ UNCHANGED keyboardVars
  \/ b = "tray" /\ UNCHANGED <<sidebarVars, keyboardVars>>
Nothing == UNCHANGED <<sidebarVars, keyboardVars>>

\* The press of p toggles its button.
Counts(p) == toggled' = [toggled EXCEPT ![p] = IF @ < 2 THEN @ + 1 ELSE @]

\* A press anywhere but on the keyboard hides it; the mouse's closes the side bar too.
Elsewhere(p) ==
  /\ IF visible THEN HideKeyboard ELSE UNCHANGED keyboardVars
  /\ IF p = "mouse" THEN PressOutside ELSE UNCHANGED sidebarVars

\* A press of the tray that is being dragged is ignored; any other takes its button over.
Down(p, b) ==
  LET ignored == b = "tray" /\ holder[b] # "none"
      Fresh(q) == q = p \/ (q = holder[b] /\ ~ignored) IN
  /\ pressed[p] = "none" /\ due[p] = "none" /\ Displayed(b)
  /\ pressed' = [pressed EXCEPT ![p] = b]
  /\ holder' = (IF ignored THEN holder ELSE [holder EXCEPT ![b] = p])
  /\ dragged' = (IF ignored THEN dragged ELSE [dragged EXCEPT ![b] = FALSE])
  /\ moved' = [q \in Pointers |-> moved[q] /\ ~Fresh(q)]
  /\ toggled' = [toggled EXCEPT ![p] = 0]
  /\ began' = [began EXCEPT ![p] = IF b = "keyboard" THEN visible ELSE extended]
  /\ Elsewhere(p)
  /\ UNCHANGED <<phone, full_screen, due, quiet>>

\* onDocumentPointerMove: farther than the threshold.
Drag(p) ==
  LET b == pressed[p] IN
  /\ b # "none" /\ holder[b] = p /\ ~moved[p]
  /\ moved' = [moved EXCEPT ![p] = TRUE] /\ dragged' = [dragged EXCEPT ![b] = TRUE]
  /\ Nothing
  /\ UNCHANGED <<phone, full_screen, pressed, due, holder, quiet, toggled, began>>

\* Mutant: pointerup does not keep the click from toggling again.
EndAloud(p, b) ==
  IF holder[b] # p THEN UNCHANGED <<holder, dragged, quiet, toggled>> /\ Nothing
  ELSE /\ holder' = [holder EXCEPT ![b] = "none"]
       /\ dragged' = [dragged EXCEPT ![b] = FALSE] /\ UNCHANGED quiet
       /\ IF b \in Floating /\ ~dragged[b] THEN Toggle(b) /\ Counts(p)
          ELSE Nothing /\ UNCHANGED toggled

\* onDocumentPointerEnd, onHudTrayDragPointerEnd.
End(p, b) ==
  IF holder[b] # p THEN UNCHANGED <<holder, dragged, quiet, toggled>> /\ Nothing
  ELSE /\ holder' = [holder EXCEPT ![b] = "none"]
       /\ dragged' = [dragged EXCEPT ![b] = FALSE]
       /\ quiet' = [quiet EXCEPT ![b] = @ \/ b \in Floating \/ dragged[b]]
       /\ IF b \in Floating /\ ~dragged[b] THEN Toggle(b) /\ Counts(p)
          ELSE Nothing /\ UNCHANGED toggled

\* A finger's click comes if it was a tap; one that moved a little may still be one.
Up(p) ==
  LET b == pressed[p] IN
  /\ b # "none" /\ pressed' = [pressed EXCEPT ![p] = "none"] /\ End(p, b)
  /\ \/ due' = [due EXCEPT ![p] = b]
     \/ p # "mouse" /\ moved[p] /\ UNCHANGED due
  /\ UNCHANGED <<phone, full_screen, moved, began>>

\* pointercancel: no click follows.
Cancel(p) ==
  LET b == pressed[p] IN
  /\ p # "mouse" /\ b # "none" /\ pressed' = [pressed EXCEPT ![p] = "none"] /\ End(p, b)
  /\ UNCHANGED <<phone, full_screen, due, moved, began>>

\* The pointerup of a finger is lost, and its click is not.
UpLost(p) ==
  LET b == pressed[p] IN
  /\ p # "mouse" /\ b # "none" /\ ~moved[p]
  /\ pressed' = [pressed EXCEPT ![p] = "none"] /\ due' = [due EXCEPT ![p] = b]
  /\ Nothing /\ UNCHANGED <<phone, full_screen, holder, dragged, quiet, moved, toggled, began>>

\* The mousedown of a tap, before its click.
TapPress(p) ==
  /\ p # "mouse" /\ due[p] # "none" /\ listening /\ PressOutside
  /\ UNCHANGED <<phone, full_screen, pressVars, keyboardVars>>

\* The click, of the mouse or of a tap.
Click(p) ==
  LET b == due[p] IN
  /\ b # "none" /\ due' = [due EXCEPT ![p] = "none"]
  /\ IF dragged[b] \/ quiet[b] THEN Nothing /\ UNCHANGED toggled ELSE Toggle(b) /\ Counts(p)
  /\ UNCHANGED <<phone, full_screen, pressed, holder, dragged, quiet, moved, began>>

\* The click of a tap comes within the 500 ms.
QuietEnds(b) ==
  /\ quiet[b] /\ \A p \in Pointers : due[p] # b
  /\ quiet' = [quiet EXCEPT ![b] = FALSE] /\ Nothing
  /\ UNCHANGED <<phone, full_screen, pressed, due, holder, dragged, moved, toggled, began>>

\* Enter or the space bar on a button.
KeyToggles(b) ==
  /\ Displayed(b) /\ b \in Floating /\ Toggle(b) /\ UNCHANGED <<phone, full_screen, pressVars>>

\* A press of the page itself.
PressPage(p) == Elsewhere(p) /\ UNCHANGED <<phone, full_screen, pressVars>>

-----------------------------------------------------------------------------
(* What else moves the side bar and the keyboard.                          *)

\* fullscreenchange and pointerlockchange: checkFullyImmersed mounts the side bar again.
Remount(full) ==
  /\ full_screen' = full /\ Extend(FALSE) /\ TakeOut
  /\ UNCHANGED <<phone, pressVars>>

\* "Keyboard" and "Controller" of the side bar; the press on it hid the keyboard.
ChooseKeyboard ==
  /\ extended /\ ~visible /\ Extend(FALSE) /\ ShowKeyboard
  /\ UNCHANGED <<phone, full_screen, pressVars>>
ChooseController ==
  /\ extended /\ ~visible /\ Extend(FALSE)
  /\ UNCHANGED <<phone, full_screen, pressVars, keyboardVars>>

\* onScreenKeyboardSetVisible, of the gesture with three fingers.
Gesture(show) ==
  /\ show # visible /\ IF show THEN ShowKeyboard ELSE HideKeyboard
  /\ UNCHANGED <<phone, full_screen, pressVars, sidebarVars>>

ButtonNext ==
  \/ \E p \in Pointers :
       \/ Drag(p) \/ Up(p) \/ Cancel(p) \/ UpLost(p) \/ TapPress(p) \/ Click(p) \/ PressPage(p)
       \/ \E b \in Buttons : Down(p, b)
  \/ \E b \in Buttons : QuietEnds(b) \/ KeyToggles(b)
  \/ ChooseController

KeysNext ==
  \/ (ModeKey \/ PressBackspace \/ DelayEnds \/ LiftBackspace \/ ForceStop)
     /\ UNCHANGED <<phone, full_screen, pressVars, sidebarVars>>
  \/ \E show \in BOOLEAN : Gesture(show)

EitherNext ==
  \/ ChooseKeyboard
  \/ OpeningEnds /\ UNCHANGED <<phone, full_screen, pressVars, keyboardVars>>

ControlsTypeOK ==
  /\ {phone, full_screen} \subseteq BOOLEAN
  /\ pressed \in [Pointers -> Buttons \cup {"none"}]
  /\ due \in [Pointers -> Buttons \cup {"none"}]
  /\ holder \in [Buttons -> Pointers \cup {"none"}]
  /\ dragged \in [Buttons -> BOOLEAN] /\ quiet \in [Buttons -> BOOLEAN]
  /\ moved \in [Pointers -> BOOLEAN] /\ began \in [Pointers -> BOOLEAN]
  /\ toggled \in [Pointers -> 0..2]
  /\ SidebarTypeOK /\ KeyboardTypeOK

-----------------------------------------------------------------------------
\* A press toggles its button at most once, with its end or with its click, and not at all
\* once it moved the button, unless another pointer then took the button over.
PressesToggleOnce ==
  \A p \in Pointers : toggled[p] <= 1 /\ (moved[p] => toggled[p] = 0)

\* A press outside of the extended side bar closes it as soon as the timers are through,
\* and none is listened for while it is closed.
SidebarCloses == IF extended THEN listening \/ opening > 0 ELSE ~listening

\* Backspace repeats only under a finger, or when its key was replaced under the finger;
\* hiding the keyboard always ends it.
RepeatEnds == repeat # "none" => visible /\ (backspace = "down" \/ orphan)

ControlsAgree == SidebarCloses /\ RepeatEnds
=============================================================================
