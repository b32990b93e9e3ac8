----------------------------- MODULE PointerLock -----------------------------
(***************************************************************************)
(* The adaptive pointer lock of the stream page (src/web/stream.ts): while *)
(* the host hides its cursor the next click captures the pointer; when the *)
(* cursor is back the capture is released after 250 ms; a capture that the *)
(* user leaves while the cursor is hidden brings up an overlay to take it  *)
(* again.  Requests are asynchronous and may be refused, answered late, or *)
(* repeated without options by two fallbacks that nobody awaits.           *)
(***************************************************************************)
EXTENDS Naturals

VARIABLES
  hidden,     \* latestHostCursorHidden
  emitted,    \* lastEmittedHostCursorHidden of the stream
  cursor,     \* the cursor drawn over the stream
  armed,      \* adaptivePointerLockArmed
  active,     \* adaptivePointerLockActive
  prompt,     \* pendingEscRelockPrompt
  overlay,    \* the relock overlay is shown
  timer,      \* adaptivePointerLockReleaseTimer is set
  mode,       \* inputConfig.mouseMode
  previous,   \* previousMouseMode
  locked,     \* document.pointerLockElement
  leaving,    \* exitPointerLock was called
  requests,   \* requests for the lock that have no answer yet
  toggling,   \* isTogglingFullscreenWithKeybind
  late        \* history: the capture was granted with the cursor visible again

adaptiveVars == <<armed, active, prompt, overlay, timer>>
modeVars == <<mode, previous>>
hostVars == <<hidden, emitted, cursor>>
lockVars == <<hostVars, adaptiveVars, modeVars, locked, leaving, requests, toggling, late>>

Modes == {"relative", "follow", "pointAndDrag"}
\* Who waits for the answer; nobody waits for "plain".
Requests == {"adaptive", "manual", "keybind", "plain"}

LockInit ==
  /\ hidden = FALSE /\ emitted = "none" /\ cursor = "default"
  /\ armed = FALSE /\ active = FALSE /\ prompt = FALSE /\ overlay = FALSE /\ timer = FALSE
  /\ mode \in Modes /\ previous = mode
  /\ locked = FALSE /\ leaving = FALSE /\ requests = {} /\ toggling = FALSE /\ late = FALSE

\* What the stream draws; a hidden cursor leaves the browser's while unlocked.
Drawn(isHidden, isLocked) ==
  IF isHidden THEN IF isLocked THEN "none" ELSE "auto" ELSE "shape"

\* applyHostCursorShape, and onInfo when the visibility changed.
HostCursor(h) ==
  LET next == IF h THEN "hidden" ELSE "shown"
      changed == emitted # next IN
  /\ emitted' = next /\ cursor' = Drawn(h, locked)
  /\ hidden' = (IF changed THEN h ELSE hidden)
  /\ armed' = (IF changed THEN h ELSE armed)
  /\ IF changed /\ ~h
       THEN /\ prompt' = FALSE /\ overlay' = FALSE
            /\ timer' = (timer \/ (active /\ locked)) /\ active' = (active /\ locked)
       ELSE /\ timer' = (timer /\ ~changed) /\ UNCHANGED <<prompt, overlay, active>>
  /\ late' = (late /\ ~changed)
  /\ UNCHANGED <<modeVars, locked, leaving, requests, toggling>>

\* The debounced release.
ReleaseFires ==
  /\ timer /\ timer' = FALSE
  /\ leaving' = (leaving \/ active) /\ active' = FALSE
  /\ UNCHANGED <<hostVars, armed, prompt, overlay, modeVars, locked, requests, toggling, late>>

\* requestPointerLock: the mode is relative before anything is granted.
Request(k) ==
  /\ requests' = requests \cup {k}
  /\ previous' = mode /\ mode' = "relative"

CanRelock == armed /\ mode \notin {"relative", "pointAndDrag"} /\ ~locked

\* A mouse button goes down over the stream; otherwise the host gets it.
ClickRelocks ==
  /\ CanRelock /\ Request("adaptive")
  /\ UNCHANGED <<hostVars, adaptiveVars, locked, leaving, toggling, late>>

OverlayRelocks ==
  /\ overlay /\ overlay' = FALSE /\ Request("adaptive")
  /\ UNCHANGED <<hostVars, armed, active, prompt, timer, locked, leaving, toggling, late>>

OverlayDismissed ==
  /\ overlay /\ overlay' = FALSE /\ prompt' = FALSE
  /\ UNCHANGED <<hostVars, armed, active, timer, modeVars, locked, leaving, requests, toggling, late>>

\* The check box of the sidebar, and Ctrl+Shift+I, which works once at a time.
RequestByUser ==
  /\ ~locked
  /\ \/ Request("manual") /\ UNCHANGED toggling
     \/ ~toggling /\ toggling' = TRUE /\ Request("keybind")
  /\ UNCHANGED <<hostVars, adaptiveVars, locked, leaving, late>>

\* Mutant: the time-out of a capture survives it.
KeepTimer == UNCHANGED timer
ClearTimer == timer' = FALSE

\* onPointerLockChange, with an element.
Entered ==
  /\ locked' = TRUE /\ cursor' = (IF emitted = "hidden" THEN "none" ELSE cursor)

\* The rest of attemptAdaptivePointerRelock after its await, and of the key binding.
Acquired(k) ==
  /\ IF k = "adaptive" THEN armed' = FALSE /\ active' = TRUE ELSE UNCHANGED <<armed, active>>
  /\ toggling' = (toggling /\ k # "keybind") /\ late' = (late \/ ~hidden)

Granted(k) ==
  /\ k \in requests /\ requests' = requests \ {k}
  /\ IF locked THEN UNCHANGED <<locked, cursor>> ELSE Entered
  /\ prompt' = (prompt /\ locked /\ k # "adaptive")
  /\ overlay' = (overlay /\ locked /\ k # "adaptive")
  /\ Acquired(k)
  /\ UNCHANGED <<hidden, emitted, timer, modeVars, leaving>>

\* No promise, or no unadjusted movement: a plain request, and the await is over.
NotSupported(k) ==
  /\ k \in requests \ {"plain"} /\ requests' = (requests \ {k}) \cup {"plain"}
  /\ prompt' = (prompt /\ k # "adaptive") /\ overlay' = (overlay /\ k # "adaptive")
  /\ Acquired(k)
  /\ UNCHANGED <<hostVars, timer, modeVars, locked, leaving>>

\* pointerlockerror requests again; the await is rejected all the same.
Refused(k) ==
  /\ k \in requests
  /\ \/ requests' = requests \ {k}
     \/ k # "plain" /\ requests' = (requests \ {k}) \cup {"plain"}
  /\ IF k = "adaptive"
       THEN armed' = hidden /\ overlay' = (overlay \/ (hidden /\ prompt))
       ELSE UNCHANGED <<armed, overlay>>
  /\ UNCHANGED <<hostVars, active, prompt, timer, modeVars, locked, leaving, toggling, late>>

EscWhileLocked ==
  /\ locked /\ prompt' = TRUE
  /\ UNCHANGED <<hostVars, armed, active, overlay, timer, modeVars, locked, leaving, requests, toggling, late>>

\* onPointerLockChange, without an element: Escape, the page, or the browser.
LockExits ==
  /\ locked /\ locked' = FALSE /\ leaving' = FALSE /\ late' = FALSE
  /\ cursor' = (IF emitted = "hidden" THEN "auto" ELSE cursor)
  /\ mode' = previous /\ UNCHANGED previous
  /\ active' = FALSE /\ ClearTimer
  /\ IF hidden /\ previous \notin {"relative", "pointAndDrag"}
       THEN armed' = TRUE /\ prompt' = TRUE /\ overlay' = TRUE
       ELSE prompt' = FALSE /\ overlay' = FALSE /\ UNCHANGED armed
  /\ UNCHANGED <<hidden, emitted, requests, toggling>>

\* onMouseModeChange of the sidebar.
ChooseMode ==
  /\ ~locked /\ mode' \in Modes
  /\ UNCHANGED <<hostVars, adaptiveVars, previous, locked, leaving, requests, toggling, late>>

\* restartStreamWithNewSettings and the new stream.
RestartLock ==
  /\ hidden' = FALSE /\ emitted' = "none" /\ cursor' = "default"
  /\ armed' = FALSE /\ active' = FALSE /\ prompt' = FALSE /\ overlay' = FALSE /\ timer' = FALSE
  /\ UNCHANGED <<modeVars, locked, leaving, requests, toggling, late>>

LockTypeOK ==
  /\ {hidden, armed, active, prompt, overlay, timer, locked, leaving, toggling, late} \subseteq BOOLEAN
  /\ emitted \in {"none", "hidden", "shown"} /\ cursor \in {"default", "none", "auto", "shape"}
  /\ {mode, previous} \subseteq Modes /\ requests \subseteq Requests
=============================================================================
