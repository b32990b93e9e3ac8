------------------------------ MODULE Renderers ------------------------------
(***************************************************************************)
(* What shows the pictures of a stream (src/web/stream/video): the pipes   *)
(* that draw decoded frames on a canvas, either at once or in the next     *)
(* animation frame (canvas_frame.ts, canvas.ts), and the video element     *)
(* that plays a track (video_element.ts) of the peer connection            *)
(* (src/web/stream/transport/webrtc.ts), which may come before or after    *)
(* the element is there.                                                   *)
(*                                                                         *)
(* A VideoFrame has to be closed.  A picture in planes is copied into a    *)
(* buffer and uploaded into textures that are allocated for its size; its  *)
(* size is a number here, that of its area.  The loop of animation frames  *)
(* outlives the cleanup, and what is submitted or drawn after it allocates *)
(* anew.                                                                   *)
(***************************************************************************)
EXTENDS Naturals

CONSTANTS
  Frames,  \* VideoFrames
  Sizes,   \* sizes of pictures
  Tracks   \* media tracks
ASSUME RenderersAssumption ==
  "none" \notin Frames \cup Tracks /\ Sizes \subseteq Nat \ {0}

VARIABLES
  drawOnSubmit,
  looping,       \* animationFrameRequest
  open_frames,   \* the VideoFrames that were submitted and not closed
  currentFrame,
  intact,        \* history: the frame drawn last was open
  picture,       \* width and height, 0 at first
  buffer,        \* size of the buffer of the planes
  sizeChanged,
  textures,      \* there are textures and the program
  allocated,     \* the size the textures are allocated for, or 0
  errored,
  held,          \* the track of the videoTrackHolder
  hears,         \* the element has its listener among the trackListeners
  in_stream,     \* tracks of the MediaStream
  oldTrack,
  paused, playRetryTimer

frameVars == <<open_frames, currentFrame, intact>>
glVars == <<sizeChanged, textures, allocated, errored>>
planeVars == <<picture, buffer, glVars>>
holderVars == <<held, hears>>
elementVars == <<holderVars, in_stream, oldTrack, paused, playRetryTimer>>
rendererVars == <<drawOnSubmit, looping, frameVars, planeVars, elementVars>>

RenderersInit ==
  /\ drawOnSubmit \in BOOLEAN /\ looping = FALSE
  /\ open_frames = {} /\ currentFrame = "none" /\ intact = TRUE
  /\ picture = 0 /\ buffer = 0 /\ sizeChanged = FALSE
  /\ textures = FALSE /\ allocated = 0 /\ errored = FALSE
  /\ held = "none" /\ hears = FALSE /\ in_stream = {} /\ oldTrack = "none" /\ paused = TRUE /\ playRetryTimer = FALSE

\* The first setup starts the loop.
SetupCanvas == ~looping /\ looping' = TRUE /\ UNCHANGED <<drawOnSubmit, frameVars, planeVars, elementVars>>

\* drawCurrentFrameIfReady of a VideoFrame; there may be no context.
DrawsFrame == intact' \in {intact, currentFrame' \in open_frames'}

\* Mutant: the frame that is replaced is not closed.
SubmitLeaves(f) ==
  /\ f \notin open_frames /\ open_frames' = open_frames \cup {f} /\ currentFrame' = f
  /\ IF drawOnSubmit THEN DrawsFrame ELSE UNCHANGED intact
  /\ UNCHANGED <<drawOnSubmit, looping, planeVars, elementVars>>

\* submitFrame.
SubmitFrame(f) ==
  /\ f \notin open_frames
  /\ open_frames' = (open_frames \ {currentFrame}) \cup {f} /\ currentFrame' = f
  /\ IF drawOnSubmit THEN DrawsFrame ELSE UNCHANGED intact
  /\ UNCHANGED <<drawOnSubmit, looping, planeVars, elementVars>>

\* The picture is uploaded, into new textures if there are none or its size changed.
Uploads(changed) ==
  /\ sizeChanged' = FALSE /\ textures' = TRUE /\ UNCHANGED errored
  /\ allocated' = (IF changed \/ ~textures THEN picture' ELSE allocated)

\* The program or the textures cannot be made; some textures may be.
GlFails(changed) ==
  /\ ~textures /\ textures' \in BOOLEAN /\ allocated' = 0 /\ errored' = TRUE
  /\ sizeChanged' = (changed \/ textures')

\* drawCurrentFrameIfReady of the planes; without a context nothing changes.
DrawsPlanes(changed) ==
  \/ sizeChanged' = changed /\ UNCHANGED <<textures, allocated, errored>>
  \/ ~errored /\ buffer' # 0 /\ (Uploads(changed) \/ GlFails(changed))

\* submitRawFrame.
SubmitPlanes(s) ==
  /\ ~errored /\ picture' = s /\ buffer' = (IF buffer < s THEN s ELSE buffer)
  /\ IF drawOnSubmit THEN DrawsPlanes(sizeChanged \/ s # picture)
     ELSE sizeChanged' = (sizeChanged \/ s # picture) /\ UNCHANGED <<textures, allocated, errored>>
  /\ UNCHANGED <<drawOnSubmit, looping, frameVars, elementVars>>

\* onAnimationFrame.
AnimationFrame ==
  /\ looping /\ ~drawOnSubmit
  /\ UNCHANGED <<drawOnSubmit, looping, open_frames, currentFrame, picture, buffer, elementVars>>
  /\ \/ currentFrame # "none" /\ DrawsFrame /\ UNCHANGED glVars
     \/ DrawsPlanes(sizeChanged) /\ UNCHANGED intact

\* cleanup of the planes; the other pipes clean nothing up.
CleanupPlanes ==
  /\ textures' = FALSE /\ allocated' = 0
  /\ UNCHANGED <<drawOnSubmit, looping, frameVars, picture, buffer, sizeChanged, errored, elementVars>>

-----------------------------------------------------------------------------
(* The video element.                                                      *)

\* ensurePlayback; play() may be refused.
Kick == paused' \in {paused, FALSE}

SetTrack(t) ==
  /\ in_stream' = (in_stream \ {oldTrack}) \cup {t} /\ oldTrack' = t /\ Kick
  /\ UNCHANGED playRetryTimer

\* onTrack of the transport and of its channel; a peer may bring more than one.
OnTrack(t) ==
  /\ held' = t /\ UNCHANGED hears
  /\ IF hears THEN SetTrack(t) ELSE UNCHANGED <<in_stream, oldTrack, paused, playRetryTimer>>
  /\ UNCHANGED <<drawOnSubmit, looping, frameVars, planeVars>>

\* addTrackListener, with the track that is there.
AddTrackListener ==
  /\ ~hears /\ hears' = TRUE /\ UNCHANGED held
  /\ IF held # "none" THEN SetTrack(held)
     ELSE UNCHANGED <<in_stream, oldTrack, paused, playRetryTimer>>
  /\ UNCHANGED <<drawOnSubmit, looping, frameVars, planeVars>>

\* A track is unmuted or ends: schedulePlayRetry, also for one that was replaced.
TrackChanges ==
  /\ oldTrack # "none" /\ playRetryTimer' = TRUE
  /\ UNCHANGED <<drawOnSubmit, looping, frameVars, planeVars, holderVars, in_stream, oldTrack, paused>>

RetryFires ==
  /\ playRetryTimer /\ playRetryTimer' = FALSE /\ Kick
  /\ UNCHANGED <<drawOnSubmit, looping, frameVars, planeVars, holderVars, in_stream, oldTrack>>

\* onUserInteraction; or the browser pauses the element.
PlayOrPause ==
  /\ Kick \/ paused' = TRUE
  /\ UNCHANGED <<drawOnSubmit, looping, frameVars, planeVars, holderVars, in_stream, oldTrack, playRetryTimer>>

CleanupElement ==
  /\ playRetryTimer' = FALSE /\ in_stream' = in_stream \ {oldTrack}
  /\ UNCHANGED <<drawOnSubmit, looping, frameVars, planeVars, holderVars, oldTrack, paused>>

CanvasNext ==
  \/ SetupCanvas \/ AnimationFrame \/ CleanupPlanes
  \/ \E f \in Frames : SubmitFrame(f)
  \/ \E s \in Sizes : SubmitPlanes(s)
ElementNext ==
  \/ TrackChanges \/ RetryFires \/ PlayOrPause \/ CleanupElement
  \/ AddTrackListener
  \/ \E t \in Tracks : OnTrack(t)

RenderersTypeOK ==
  /\ {drawOnSubmit, looping, intact, sizeChanged, textures, errored, paused,
      playRetryTimer, hears} \subseteq BOOLEAN
  /\ open_frames \subseteq Frames /\ currentFrame \in Frames \cup {"none"}
  /\ {picture, buffer, allocated} \subseteq Sizes \cup {0}
  /\ in_stream \subseteq Tracks /\ {oldTrack, held} \subseteq Tracks \cup {"none"}

-----------------------------------------------------------------------------
\* Every VideoFrame but the one that is current is closed, and none is drawn after that.
FramesClose == intact /\ open_frames \subseteq {currentFrame}

\* Planes fit into their buffer and are uploaded into textures of their size only.
TexturesFit == picture <= buffer /\ (textures /\ ~sizeChanged => allocated = picture)

\* The element plays the track that came last, whichever of the two was there first, and
\* none beside it.
TrackReaches == (hears => oldTrack = held) /\ in_stream \subseteq {oldTrack}

RenderersAgree == FramesClose /\ TexturesFit /\ TrackReaches
=============================================================================
