-------------------------------- MODULE Page --------------------------------
(***************************************************************************)
(* A page of the browser: the pointing devices and controllers of Input,   *)
(* the floating buttons, the side bar and the on-screen keyboard of        *)
(* Controls, the key that leaves the full screen, the modals, the bitrate  *)
(* control and the renderers of the pictures.  They meet in the page: a    *)
(* modal that opens or closes closes the side bar, buttons and side bar    *)
(* show the keyboard, the end of the full screen cancels a hold, a restart *)
(* gives all devices a new input.  A behaviour exercises the parts that    *)
(* are in use; "hosts" are the modals of the page that lists the hosts.    *)
(***************************************************************************)
EXTENDS Input, Controls, EscapeHold, Modals, BitrateHud, Renderers

ASSUME UsesAssumption ==
  Uses \subseteq SUBSET {"mouse", "touch", "pads", "buttons", "keys", "escape", "modals",
                         "hosts", "bitrate", "canvas", "video"}

vars == <<inputVars, controlVars, holdVars, modalVars, bitrateVars, rendererVars>>

\* A part that is not in use starts in one state.
Init ==
  /\ InputInit /\ ControlsInit /\ HoldInit /\ ModalsInit /\ BitrateInit /\ RenderersInit
  /\ in_use \cap {"mouse", "touch"} = {} => mode = "relative" /\ touchMode = "pointAndDrag"
  /\ "buttons" \notin in_use => ~phone
  /\ "bitrate" \notin in_use => \A rate \in Tiers : stored = tier /\ tier <= rate
  /\ "canvas" \notin in_use => drawOnSubmit

UseInput == InputNext /\ UNCHANGED <<controlVars, holdVars, modalVars, bitrateVars, rendererVars>>

UseControls ==
  /\ UNCHANGED <<inputVars, holdVars, modalVars, bitrateVars, rendererVars>>
  /\ \/ "buttons" \in in_use /\ (ButtonNext \/ EitherNext)
     \/ "keys" \in in_use /\ (KeysNext \/ EitherNext \/ \E p \in Pointers : PressPage(p))

\* onKeyDown, onKeyUp and the loop of the hold.
UseEscape ==
  /\ "escape" \in in_use /\ HoldNext(full_screen)
  /\ UNCHANGED <<inputVars, controlVars, modalVars, bitrateVars, rendererVars>>

\* fullscreenchange and pointerlockchange.
ScreenChanges ==
  /\ in_use \cap {"buttons", "keys", "escape", "modals"} # {}
  /\ \E full \in BOOLEAN : /\ Remount(full)
                           /\ IF full THEN UNCHANGED holdVars ELSE CancelHold
  /\ UNCHANGED <<inputVars, modalVars, bitrateVars, rendererVars>>

\* The modals of the stream's page and of the others.
StreamModals == {"settings", "form", "message"}
HostModals == {"form", "message", "pairing"}

\* "ml-modal-visibility" closes the side bar.
ModalChanges ==
  /\ \/ "modals" \in in_use /\ \E k \in StreamModals : Show(k)
     \/ "hosts" \in in_use /\ \E k \in HostModals : Show(k)
     \/ Continue
  /\ Extend(FALSE) /\ UNCHANGED <<phone, full_screen, pressVars, keyboardVars>>

UseModals ==
  /\ in_use \cap {"modals", "hosts"} # {} /\ UNCHANGED <<inputVars, holdVars, bitrateVars, rendererVars>>
  /\ \/ ModalChanges
     \/ (Answer \/ \E c \in Calls : PairingEnds(c)) /\ UNCHANGED controlVars
     \/ "modals" \in in_use /\ (KeyToggles("settings") \/ EitherNext) /\ UNCHANGED modalVars

UseBitrate ==
  /\ "bitrate" \in in_use /\ BitrateNext
  /\ UNCHANGED <<inputVars, controlVars, holdVars, modalVars, rendererVars>>

UsePictures ==
  /\ ("canvas" \in in_use /\ CanvasNext) \/ ("video" \in in_use /\ ElementNext)
  /\ UNCHANGED <<inputVars, controlVars, holdVars, modalVars, bitrateVars>>

Next ==
  UseInput \/ UseControls \/ UseEscape \/ ScreenChanges \/ UseModals \/ UseBitrate \/ UsePictures

Spec == Init /\ [][Next]_vars

TypeOK ==
  /\ InputTypeOK /\ ControlsTypeOK /\ HoldTypeOK /\ ModalsTypeOK /\ BitrateTypeOK /\ RenderersTypeOK

\* Listener of the side bar, repeating key and circle of the full screen agree with what is
\* shown and pressed, and only a full screen is being left.
WidgetsAgree == ControlsAgree /\ HoldRuns /\ (exiting => full_screen)
=============================================================================
