-------------------------------- MODULE Input --------------------------------
(***************************************************************************)
(* The pointing devices and controllers of a stream page: the adaptive     *)
(* pointer lock of PointerLock, the touches of Touch and the controllers   *)
(* of Gamepads.  They share one StreamInput: whoever sets the mouse mode   *)
(* makes it forget its touches, and a restart of the stream replaces it.   *)
(* The user has some of a mouse, a touch screen and gamepads; without a    *)
(* mouse there is no pointer to lock.  Page composes them with the rest.   *)
(***************************************************************************)
EXTENDS PointerLock, Touch, Gamepads

CONSTANT Uses   \* what of the page the user is at, device by device and part by part

VARIABLE in_use
inputVars == <<in_use, lockVars, touchVars, padVars>>

InputInit == in_use \in Uses /\ LockInit /\ TouchInit /\ PadInit

\* setInputConfig reaches StreamInput.setConfig.
Configures ==
  /\ ForgetTouches /\ UNCHANGED padVars
  /\ \/ "mouse" \in in_use /\ (ClickRelocks \/ OverlayRelocks \/ RequestByUser \/ LockExits)
     \/ in_use \cap {"mouse", "touch"} # {} /\ ChooseMode

LockOnly ==
  /\ "mouse" \in in_use /\ UNCHANGED <<touchVars, padVars>>
  /\ \/ \E h \in BOOLEAN : HostCursor(h)
     \/ ReleaseFires \/ OverlayDismissed \/ EscWhileLocked
     \/ \E k \in Requests : Granted(k) \/ NotSupported(k) \/ Refused(k)

TouchOnly ==
  /\ "touch" \in in_use /\ UNCHANGED <<lockVars, padVars>>
  /\ \/ \E f \in Fingers :
         FingerDown(f) \/ FingerUp(f, mode = "relative") \/ FingerVanishes(f) \/ StrayMove(f)
     \/ FingerMoves \/ FingerRests \/ TapTimer \/ ResetGesture \/ ChooseTouchMode

PadsOnly == "pads" \in in_use /\ PadNext /\ UNCHANGED <<lockVars, touchVars>>

\* restartStreamWithNewSettings and the input of the new stream.
Restart ==
  /\ in_use \cap {"mouse", "touch", "pads"} # {} /\ RestartLock /\ NewTouches /\ NewPads

InputNext ==
  (Configures \/ LockOnly \/ TouchOnly \/ PadsOnly \/ Restart) /\ UNCHANGED in_use

-----------------------------------------------------------------------------
InputTypeOK == in_use \in Uses /\ LockTypeOK /\ TouchTypeOK /\ PadTypeOK

\* "host cursor visible": the 250 ms of the release run exactly while an automatic capture
\* is held with the cursor visible, unless it was granted only after the cursor had come
\* back; no capture the user took, and no hidden cursor, is ended by them.
ReleaseIsDue ==
  /\ timer => active /\ locked /\ ~hidden
  /\ (active /\ locked /\ ~hidden) => (timer \/ late)

\* The overlay offers a capture only while the host hides its cursor.
OverlayIsDue == overlay => hidden /\ prompt

\* The cursor over the stream is that of the host's last message and of the lock.
CursorIsDrawn == emitted # "none" => cursor = Drawn(emitted = "hidden", locked)

\* Timer, overlay and cursor stay in step with the lock and the host, whatever order the
\* cursor messages, the answers to requests and the exits of the lock come in.
LockAgrees == ReleaseIsDue /\ OverlayIsDue /\ CursorIsDrawn

\* The timer of an earlier tap never lets go of what a second tap drags.
DragHolds == (action = "drag" /\ primary # None) => left

\* While a pad of the browser has a slot, the rumbles of the host are kept and played.
RumblesPlay == (\E i \in DOMAIN slots : slots[i].owner \in Pads) => interval /\ rumble # "none"

\* No pad has two slots, the overlay's slot is its own and only while it is shown, the
\* host holds nothing down for a controller that is gone, and no controller that leaves
\* ends the rumbles of another.
ControllersAgree ==
  /\ \A p \in Pads \cup {"virtual"} : Cardinality(Owned(slots, p)) <= 1
  /\ Owned(slots, "virtual") = (IF virtual = 0 THEN {} ELSE {virtual})
  /\ virtual # 0 => overlay_shown
  /\ host \subseteq active_gamepads
  /\ RumblesPlay
=============================================================================
