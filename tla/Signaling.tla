----------------------------- MODULE Signaling ------------------------------
(***************************************************************************)
(* Offer/answer negotiation between the browser's WebRTCTransport          *)
(* (web/stream/transport/webrtc.ts, driven by web/stream/index.ts) and the *)
(* streamer's WebRtcInner (streamer/src/transport/webrtc/mod.rs), over the *)
(* two directions of the web socket, which the server relays in order.     *)
(*                                                                         *)
(* The streamer never answers: a remote offer makes it send an offer of    *)
(* its own.  The browser is polite and rolls back.  Its handlers are async *)
(* functions that nobody awaits, so several run interleaved, each parked   *)
(* on an entry of the RTCPeerConnection's operations chain; the chain runs *)
(* one operation at a time and the handler goes on when its own is done.   *)
(*                                                                         *)
(* Descriptions are abstracted to what they negotiate: the number of media *)
(* tracks the streamer had added.  ICE candidates are in no message here;  *)
(* of them only the drain of buffered candidates inside                    *)
(* handleRemoteDescription is kept, because it can fail before the answer. *)
(***************************************************************************)
EXTENDS Integers, Sequences

CONSTANTS
    Attempts,       \* attempts of the browser on one streamer peer
    MaxTracks,      \* tracks a stream adds (video and audio)
    MaxRestarts     \* maxRestartAttempts

ASSUME BoundsAssumption ==
    /\ Attempts \in 1..3
    /\ MaxTracks \in Nat
    /\ MaxRestarts \in Nat

VARIABLES
    \* browser: the current attempt's WebRTCTransport and its peer
    attempt, sig, chain, isNegotiating, syncStarted, connectedOnce,
    negotiationNeeded,  \* the peer will fire negotiationneeded when idle
    remoteTracks,       \* tracks of the last applied remote offer, or NoOffer
    ice, restartAttempts, restartTimer,
    \* web socket, one FIFO per direction
    toStreamer, toBrowser,
    \* streamer
    streamerSig, tracks, answeredBy, started,
    failed              \* some peer refused a candidate or a local offer

browserVars == <<attempt, sig, chain, isNegotiating, syncStarted, connectedOnce,
                 negotiationNeeded, remoteTracks, ice, restartAttempts,
                 restartTimer>>
streamerVars == <<streamerSig, tracks, answeredBy, started>>
vars == <<browserVars, toStreamer, toBrowser, streamerVars, failed>>

\* What the description handlers leave alone in the browser.
iceVars == <<attempt, syncStarted, connectedOnce, ice, restartAttempts,
             restartTimer>>

NoOffer == 0 - 1

\* Messages of the browser; an offer's content is never looked at.
Offer == [type |-> "offer"]
Answer(a) == [type |-> "answer", attempt |-> a]
StartStream == [type |-> "start"]
\* The streamer's only signaling message here, with the tracks it offers.
TrackOffer(n) == [type |-> "offer", tracks |-> n]

\* Entries of the operations chain, by the handler that waits for them.
Negotiate == [op |-> "negotiate"]
Rollback(n) == [op |-> "rollback", tracks |-> n]
SetRemote(n) == [op |-> "remote", tracks |-> n]
Dequeue == [op |-> "dequeue"]
SetAnswer == [op |-> "answer"]

\* The third attempt is relay-only and does not wait for the sync start.
PreferDirect == attempt < 3

Init ==
    /\ attempt = 1
    /\ sig = "stable"
    /\ chain = <<>>
    /\ isNegotiating = FALSE
    /\ syncStarted = FALSE
    /\ connectedOnce = FALSE
    /\ negotiationNeeded = TRUE
    /\ remoteTracks = NoOffer
    /\ ice = "new"
    /\ restartAttempts = 0
    /\ restartTimer = FALSE
    /\ toStreamer = <<>>
    /\ toBrowser = <<>>
    /\ streamerSig = "stable"
    /\ tracks = 0
    /\ answeredBy = 0
    /\ started = FALSE
    /\ failed = FALSE

-----------------------------------------------------------------------------
(* Browser: starting a negotiation.                                        *)

\* onNegotiationNeeded up to its await, for a caller that may have set
\* syncStarted to `synced`.
MayNegotiate(synced) ==
    /\ ~connectedOnce
    /\ synced \/ ~PreferDirect
    /\ ~isNegotiating /\ sig = "stable"

OnNegotiationNeeded(synced) ==
    IF MayNegotiate(synced)
        THEN isNegotiating' = TRUE /\ chain' = Append(chain, Negotiate)
        ELSE UNCHANGED <<isNegotiating, chain>>

\* The peer's negotiationneeded event: a channel was created and the peer is
\* idle; the event is gone even when its handler returns early.
NegotiationNeededEvent ==
    /\ negotiationNeeded /\ sig = "stable" /\ chain = <<>>
    /\ negotiationNeeded' = FALSE
    /\ OnNegotiationNeeded(syncStarted)
    /\ UNCHANGED <<sig, remoteTracks, iceVars, toStreamer, toBrowser,
                   streamerVars, failed>>

\* The 260 ms timer of initPeer: startSynchronizedNegotiation.
SyncTimeout ==
    /\ ~syncStarted
    /\ syncStarted' = TRUE
    /\ OnNegotiationNeeded(TRUE)
    /\ UNCHANGED <<attempt, sig, connectedOnce, negotiationNeeded, remoteTracks,
                   ice, restartAttempts, restartTimer, toStreamer, toBrowser,
                   streamerVars, failed>>

\* handleRemoteDescription up to its first await.
ReceiveOffer ==
    /\ toBrowser # <<>>
    /\ LET offer == Head(toBrowser)
       IN chain' = Append(chain, IF sig # "stable"
                                     THEN Rollback(offer.tracks)
                                     ELSE SetRemote(offer.tracks))
    /\ toBrowser' = Tail(toBrowser)
    /\ isNegotiating' = TRUE
    /\ UNCHANGED <<sig, negotiationNeeded, remoteTracks, iceVars, toStreamer,
                   streamerVars, failed>>

-----------------------------------------------------------------------------
(* Browser: the head of the operations chain completes.                    *)

NextOp(name) == chain # <<>> /\ Head(chain).op = name

\* Mutant: onSignalingStateChange does not reset isNegotiating.
KeepNegotiating ==
    IF sig = "have-remote-offer"
        THEN /\ sig' = "stable"
             /\ negotiationNeeded' = FALSE
             /\ toStreamer' = Append(toStreamer, Answer(attempt))
             /\ UNCHANGED isNegotiating
        ELSE /\ sig' = "have-local-offer"
             /\ toStreamer' = Append(toStreamer, Offer)
             /\ UNCHANGED <<isNegotiating, negotiationNeeded>>

\* setLocalDescription without an argument, as both handlers call it: an
\* answer to a pending remote offer, otherwise an offer.  The state change
\* event runs onSignalingStateChange before the caller sends the result.
SetLocalDescription ==
    IF sig = "have-remote-offer"
        THEN /\ sig' = "stable"
             /\ isNegotiating' = FALSE
             /\ negotiationNeeded' = FALSE
             /\ toStreamer' = Append(toStreamer, Answer(attempt))
        ELSE /\ sig' = "have-local-offer"
             /\ toStreamer' = Append(toStreamer, Offer)
             /\ UNCHANGED <<isNegotiating, negotiationNeeded>>

\* onNegotiationNeeded goes on: send the local description.
NegotiateDone ==
    /\ NextOp("negotiate")
    /\ chain' = Tail(chain)
    /\ SetLocalDescription
    /\ UNCHANGED <<remoteTracks, iceVars, toBrowser, streamerVars, failed>>

\* handleRemoteDescription goes on after its rollback, or catches the error
\* of a rollback in the stable state, and then the offer is dropped.
RollbackDone ==
    /\ NextOp("rollback")
    /\ isNegotiating' = FALSE
    /\ IF sig = "stable"
         THEN chain' = Tail(chain) /\ UNCHANGED <<sig, negotiationNeeded>>
         ELSE /\ chain' = Append(Tail(chain), SetRemote(Head(chain).tracks))
              /\ sig' = "stable"
              /\ negotiationNeeded' = TRUE
    /\ UNCHANGED <<remoteTracks, iceVars, toStreamer, toBrowser, streamerVars,
                   failed>>

\* setRemoteDescription(offer); a pending local offer is rolled back by it.
SetRemoteDone ==
    /\ NextOp("remote")
    /\ sig' = "have-remote-offer"
    /\ remoteTracks' = Head(chain).tracks
    /\ chain' = Append(Tail(chain), Dequeue)
    /\ UNCHANGED <<isNegotiating, negotiationNeeded, iceVars, toStreamer,
                   toBrowser, streamerVars, failed>>

\* tryDequeueIceCandidates: a refused candidate throws past the answer.
DequeueDone ==
    /\ NextOp("dequeue")
    /\ chain' = Append(Tail(chain), SetAnswer)
    /\ UNCHANGED <<sig, isNegotiating, negotiationNeeded, remoteTracks, iceVars,
                   toStreamer, toBrowser, streamerVars, failed>>

DequeueFails ==
    /\ NextOp("dequeue")
    /\ chain' = Tail(chain)
    /\ isNegotiating' = FALSE
    /\ failed' = TRUE
    /\ UNCHANGED <<sig, negotiationNeeded, remoteTracks, iceVars, toStreamer,
                   toBrowser, streamerVars>>

AnswerDone ==
    /\ NextOp("answer")
    /\ chain' = Tail(chain)
    /\ SetLocalDescription
    /\ UNCHANGED <<remoteTracks, iceVars, toBrowser, streamerVars, failed>>

-----------------------------------------------------------------------------
(* Browser: connection state, restarts and attempts.                       *)

\* Both sides hold the other's description of this attempt and ICE succeeds:
\* onConnectionStateChange, onIceConnectionStateChange, then startStream.
Connect ==
    /\ ice \in {"new", "disconnected", "failed"}
    /\ remoteTracks # NoOffer /\ answeredBy = attempt
    /\ ice' = "connected"
    /\ connectedOnce' = TRUE
    /\ restartAttempts' = 0
    /\ restartTimer' = FALSE
    /\ toStreamer' = IF connectedOnce THEN toStreamer
                                      ELSE Append(toStreamer, StartStream)
    /\ UNCHANGED <<attempt, sig, chain, isNegotiating, syncStarted,
                   negotiationNeeded, remoteTracks, toBrowser, streamerVars,
                   failed>>

\* Mutant: scheduleIceRestart does not look at maxRestartAttempts.
IceTroubleUnlimited ==
    /\ \/ ice = "connected" /\ ice' = "disconnected"
       \/ ice = "new" /\ remoteTracks # NoOffer /\ ice' = "failed"
       \/ ice = "disconnected" /\ ice' = "failed"
    /\ restartAttempts <= MaxRestarts
    /\ restartTimer' = TRUE /\ restartAttempts' = restartAttempts + 1
    /\ UNCHANGED <<attempt, sig, chain, isNegotiating, syncStarted,
                   connectedOnce, negotiationNeeded, remoteTracks, toStreamer,
                   toBrowser, streamerVars, failed>>

\* iceConnectionState becomes disconnected or failed: scheduleIceRestart.
IceTrouble ==
    /\ \/ ice = "connected" /\ ice' = "disconnected"
       \/ ice = "new" /\ remoteTracks # NoOffer /\ ice' = "failed"
       \/ ice = "disconnected" /\ ice' = "failed"
    /\ IF restartAttempts < MaxRestarts /\ ~restartTimer
         THEN restartTimer' = TRUE /\ restartAttempts' = restartAttempts + 1
         ELSE UNCHANGED <<restartTimer, restartAttempts>>
    /\ UNCHANGED <<attempt, sig, chain, isNegotiating, syncStarted,
                   connectedOnce, negotiationNeeded, remoteTracks, toStreamer,
                   toBrowser, streamerVars, failed>>

\* The restart timer fires: restartIce, then onNegotiationNeeded.
RestartFires ==
    /\ restartTimer
    /\ restartTimer' = FALSE
    /\ negotiationNeeded' = TRUE
    /\ OnNegotiationNeeded(syncStarted)
    /\ UNCHANGED <<attempt, sig, syncStarted, connectedOnce, remoteTracks, ice,
                   restartAttempts, toStreamer, toBrowser, streamerVars,
                   failed>>

\* connectWebRTCWithMode gives up (time-out or failed peer): the transport is
\* closed and a new one takes over the same web socket and streamer peer.
NextAttempt ==
    /\ ~connectedOnce /\ attempt < Attempts
    /\ attempt' = attempt + 1
    /\ sig' = "stable"
    /\ chain' = <<>>
    /\ isNegotiating' = FALSE
    /\ syncStarted' = FALSE
    /\ negotiationNeeded' = TRUE
    /\ remoteTracks' = NoOffer
    /\ ice' = "new"
    /\ restartAttempts' = 0
    /\ restartTimer' = FALSE
    /\ UNCHANGED <<connectedOnce, toStreamer, toBrowser, streamerVars, failed>>

-----------------------------------------------------------------------------
(* Streamer; the transport_sender mutex makes each handler atomic.         *)

\* Mutant: no new offer while one is unanswered.
SendFirstOffer(n) ==
    /\ UNCHANGED failed
    /\ IF streamerSig = "stable"
         THEN /\ streamerSig' = "have-local-offer"
              /\ toBrowser' = Append(toBrowser, TrackOffer(n))
         ELSE UNCHANGED <<streamerSig, toBrowser>>

\* send_offer: create_offer, set_local_description, send; an error is logged.
SendOffer(n) ==
    \/ /\ streamerSig' = "have-local-offer"
       /\ toBrowser' = Append(toBrowser, TrackOffer(n))
       /\ UNCHANGED failed
    \/ failed' = TRUE /\ UNCHANGED <<streamerSig, toBrowser>>

Received(type) == toStreamer # <<>> /\ Head(toStreamer).type = type

\* on_ws_message, Description(offer): the offer is discarded.
StreamerOffer ==
    /\ Received("offer")
    /\ toStreamer' = Tail(toStreamer)
    /\ SendOffer(tracks)
    /\ UNCHANGED <<browserVars, tracks, answeredBy, started>>

\* Mutant: every remote description is met with an offer.
OfferOnAnswer ==
    /\ Received("answer")
    /\ toStreamer' = Tail(toStreamer)
    /\ answeredBy' = Head(toStreamer).attempt
    /\ SendOffer(tracks)
    /\ UNCHANGED <<browserVars, tracks, started>>

\* on_ws_message, Description(answer): an error in the stable state is logged.
StreamerAnswer ==
    /\ Received("answer")
    /\ toStreamer' = Tail(toStreamer)
    /\ IF streamerSig = "have-local-offer"
         THEN streamerSig' = "stable" /\ answeredBy' = Head(toStreamer).attempt
         ELSE UNCHANGED <<streamerSig, answeredBy>>
    /\ UNCHANGED <<browserVars, toBrowser, tracks, started, failed>>

StreamerStart ==
    /\ Received("start")
    /\ toStreamer' = Tail(toStreamer)
    /\ started' = TRUE
    /\ UNCHANGED <<browserVars, toBrowser, streamerSig, tracks, answeredBy,
                   failed>>

\* setup_video and setup_audio: add a track, then renegotiate.
SetupTrack ==
    /\ started /\ tracks < MaxTracks
    /\ tracks' = tracks + 1
    /\ SendOffer(tracks + 1)
    /\ UNCHANGED <<browserVars, toStreamer, answeredBy, started>>

-----------------------------------------------------------------------------
ChainStep ==
    \/ NegotiateDone \/ RollbackDone \/ SetRemoteDone
    \/ DequeueDone \/ DequeueFails \/ AnswerDone
Browser ==
    \/ NegotiationNeededEvent \/ SyncTimeout \/ ReceiveOffer \/ ChainStep
    \/ Connect \/ IceTrouble \/ RestartFires \/ NextAttempt
Streamer == StreamerOffer \/ StreamerAnswer \/ StreamerStart \/ SetupTrack

Next == Browser \/ Streamer

Spec == Init /\ [][Next]_vars

(* Timers fire, messages are delivered, the peers finish their operations. *)
(* Nothing is said of the network (Connect, IceTrouble, NextAttempt).      *)
Fairness ==
    /\ WF_vars(NegotiationNeededEvent) /\ WF_vars(SyncTimeout)
    /\ WF_vars(ReceiveOffer) /\ WF_vars(ChainStep) /\ WF_vars(RestartFires)
    /\ WF_vars(Streamer)

FairSpec == Spec /\ Fairness

-----------------------------------------------------------------------------
Ops == [op : {"negotiate", "dequeue", "answer"}]
            \cup [op : {"rollback", "remote"}, tracks : 0..MaxTracks]
ToStreamer == [type : {"offer", "start"}]
                 \cup [type : {"answer"}, attempt : 1..Attempts]
ToBrowser == [type : {"offer"}, tracks : 0..MaxTracks]

TypeOK ==
    /\ attempt \in 1..Attempts
    /\ sig \in {"stable", "have-local-offer", "have-remote-offer"}
    /\ chain \in Seq(Ops)
    /\ isNegotiating \in BOOLEAN /\ syncStarted \in BOOLEAN
    /\ connectedOnce \in BOOLEAN /\ negotiationNeeded \in BOOLEAN
    /\ remoteTracks \in 0..MaxTracks \cup {NoOffer}
    /\ ice \in {"new", "connected", "disconnected", "failed"}
    /\ restartAttempts \in 0..MaxRestarts /\ restartTimer \in BOOLEAN
    /\ toStreamer \in Seq(ToStreamer) /\ toBrowser \in Seq(ToBrowser)
    /\ streamerSig \in {"stable", "have-local-offer"}
    /\ tracks \in 0..MaxTracks
    /\ answeredBy \in 0..Attempts
    /\ started \in BOOLEAN /\ failed \in BOOLEAN

Quiet == syncStarted /\ chain = <<>> /\ toStreamer = <<>> /\ toBrowser = <<>>

(* isNegotiating blocks every later negotiation, so it must not survive    *)
(* the negotiation it guards, whichever handler ended it and however.      *)
FlagReleased == chain = <<>> /\ sig = "stable" => ~isNegotiating

(* Whenever nothing is in flight and no call failed, both peers are        *)
(* stable: no order of offers, rollbacks, retries and renegotiations leaves*)
(* one of them waiting for a description that nobody will send.            *)
NoHalfOpen == Quiet /\ ~failed => sig = "stable" /\ streamerSig = "stable"

(* However the offers cross, the exchange of descriptions comes to rest if *)
(* the browser makes one attempt and the stream adds no track.             *)
ComesToRest == [](attempt = 1 /\ tracks = 0) => <>[]Quiet

(* "On disconnected/failed, browser schedules ICE restart (limited         *)
(* retries)" (docs/webrtc-connection-establishment.md:64): a restart that  *)
(* fires while the peers are at rest starts a negotiation.                 *)
RestartNegotiates ==
    [][RestartFires /\ sig = "stable" /\ syncStarted /\ ~isNegotiating
            => chain' # chain]_vars
=============================================================================
