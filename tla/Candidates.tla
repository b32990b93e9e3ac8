------------------------------ MODULE Candidates ------------------------------
(***************************************************************************)
(* The ICE candidates of the browser's WebRTCTransport (src/web/stream/    *)
(* transport/webrtc.ts): the browser's own, which wait for the start of    *)
(* the negotiation, and the streamer's, which wait for its description.    *)
(* Relayed ones of both wait for a window in which a direct path is        *)
(* tried, and for more of it when the score of the path says so.  The      *)
(* negotiation itself is in Signaling: here it starts, and describes.      *)
(* The browser is asked to take the streamer's candidates one by one, with *)
(* an await each: several calls may walk over the same buffer at once, and *)
(* each candidate may be refused.                                          *)
(***************************************************************************)
EXTENDS Integers, SequencesExt

CONSTANTS
  Hosts, Srflxs, Relays,              \* the candidates the browser may gather
  FarHosts, FarSrflxs, FarRelays,     \* those of the streamer
  Descriptions,                       \* descriptions that may be handled at once
  NoCandidate,
  MaxHostCandidatesBeforeSrflx, MaxLocalIceCandidates,      \* 8 and 18
  MaxDelayedRelayCandidates, MaxBufferedRemoteCandidates,   \* 32 and 64
  PoorRelaySamplesRequired,           \* 3
  MaxSuppressions,                    \* of 1200 ms, in a budget of 8000 ms
  MaxTroubles                         \* bound on how often the connection is lost
ASSUME CandidatesAssumption ==
  /\ {MaxHostCandidatesBeforeSrflx, MaxLocalIceCandidates, MaxDelayedRelayCandidates,
      MaxBufferedRemoteCandidates, PoorRelaySamplesRequired, MaxSuppressions, MaxTroubles} \subseteq Nat
  /\ MaxDelayedRelayCandidates > 0 /\ MaxBufferedRemoteCandidates > 0
  /\ (Hosts \cup Srflxs \cup Relays) \cap (FarHosts \cup FarSrflxs \cup FarRelays) = {}
  /\ (Descriptions \cup {NoCandidate}) \cap (FarHosts \cup FarSrflxs \cup FarRelays) = {}

NearCandidates == Hosts \cup Srflxs \cup Relays
FarCandidates == FarHosts \cup FarSrflxs \cup FarRelays
\* The calls that run tryDequeueIceCandidates: addIceCandidate, one for each candidate,
\* and handleRemoteDescription.
Callers == FarCandidates \cup Descriptions

VARIABLES
  iceMode, connection, troubles,
  syncStarted,    \* startSynchronizedNegotiation ran
  described,      \* the peer has a remote description
  blocked,        \* it is before relayBlockUntilMs
  unblockTimer,   \* "off", or its window: "first" or "extended"
  srflxSeen, remoteSrflxSeen,
  emitted,        \* emittedIceCandidateCount
  gathered, bufferedLocal, delayedLocal,
  sent,           \* how often each was sent
  received, iceCandidates, delayedRemote,
  at,             \* the place in iceCandidates each call has reached, 0 if in no loop
  awaited,        \* the candidate each call waits for the browser to take
  flushing,       \* those a flush has still to apply, the first of them awaited
  applied, refused,         \* history: what the browser took, and what it refused
  repeated,       \* history: what it was given again after it took it
  failed,         \* history: candidates whose call threw before they were given to it
  overlapped,     \* history: a call began a loop while another was in one
  dropped,        \* history: candidates left out on purpose
  pair,           \* the selected pair of the last sample: "none", "direct" or "relay"
  poorSamples, suppressions, biasApplied

pathVars == <<pair, poorSamples, suppressions, biasApplied>>
localVars == <<srflxSeen, emitted, gathered, bufferedLocal, delayedLocal, sent>>
outcomeVars == <<applied, refused, repeated, failed>>
loopVars == <<at, awaited, overlapped>>
remoteVars == <<remoteSrflxSeen, received, iceCandidates, delayedRemote, flushing, loopVars,
                outcomeVars>>
windowVars == <<blocked, unblockTimer>>
peerVars == <<iceMode, connection, troubles, syncStarted, described>>
candidatesVars == <<peerVars, windowVars, localVars, remoteVars, dropped, pathVars>>

PreferDirect == iceMode = "prefer-direct"

\* initPeer.
CandidatesInit ==
  /\ iceMode \in {"prefer-direct", "relay-only"} /\ connection = "new" /\ troubles = 0
  /\ syncStarted = FALSE /\ described = FALSE /\ blocked = FALSE /\ unblockTimer = "off"
  /\ srflxSeen = FALSE /\ remoteSrflxSeen = FALSE /\ emitted = 0
  /\ gathered = {} /\ bufferedLocal = <<>> /\ delayedLocal = <<>> /\ sent = [c \in NearCandidates |-> 0]
  /\ received = {} /\ iceCandidates = <<>> /\ delayedRemote = <<>> /\ flushing = <<>>
  /\ at = [x \in Callers |-> 0] /\ awaited = [x \in Callers |-> NoCandidate]
  /\ overlapped = FALSE
  /\ applied = {} /\ refused = {} /\ repeated = {} /\ failed = {}
  /\ dropped = {} /\ pair = "none" /\ poorSamples = 0 /\ suppressions = 0 /\ biasApplied = FALSE

-----------------------------------------------------------------------------
(* The buffers.                                                            *)

\* queueDelayedRelayCandidate and queueBufferedRemoteCandidate, for each of cs: the oldest
\* make room.
AddAll(queue, cs, limit) ==
  LET all == queue \o cs
      over == IF Len(all) > limit THEN Len(all) - limit ELSE 0 IN
  [queue |-> SubSeq(all, over + 1, Len(all)), lost |-> ToSet(SubSeq(all, 1, over))]
Add(queue, c, limit) == AddAll(queue, <<c>>, limit)

-----------------------------------------------------------------------------
(* The browser's candidates.                                               *)

\* sendIceCandidateToPeer, for each of a queue.
Times(c, queue) == Cardinality({i \in DOMAIN queue : queue[i] = c})
Sends(queue) == [c \in NearCandidates |-> sent[c] + Times(c, queue)]

\* shouldDropLocalCandidate and the caps of onIceCandidate.
Unwanted(c) ==
  \/ ~PreferDirect /\ c \notin Relays
  \/ c \in Hosts /\ (emitted >= MaxLocalIceCandidates
                     \/ (~srflxSeen /\ emitted >= MaxHostCandidatesBeforeSrflx))

\* onIceCandidate.  Gathering begins with a local description.
Gather(c) ==
  /\ connection # "closed" /\ (~PreferDirect \/ syncStarted \/ described)
  /\ c \in NearCandidates \ gathered /\ gathered' = gathered \cup {c}
  /\ IF Unwanted(c)
       THEN dropped' = dropped \cup {c}
            /\ UNCHANGED <<srflxSeen, emitted, bufferedLocal, delayedLocal, sent>>
       ELSE /\ emitted' = emitted + 1 /\ srflxSeen' = (srflxSeen \/ c \in Srflxs)
            /\ \/ /\ PreferDirect /\ c \in Relays /\ blocked
                  /\ LET a == Add(delayedLocal, c, MaxDelayedRelayCandidates) IN
                     delayedLocal' = a.queue /\ dropped' = dropped \cup a.lost
                  /\ UNCHANGED <<bufferedLocal, sent>>
               \/ /\ ~(PreferDirect /\ c \in Relays /\ blocked)
                  /\ IF PreferDirect /\ ~syncStarted
                       THEN bufferedLocal' = Append(bufferedLocal, c) /\ UNCHANGED sent
                       ELSE sent' = Sends(<<c>>) /\ UNCHANGED bufferedLocal
                  /\ UNCHANGED <<delayedLocal, dropped>>
  /\ UNCHANGED <<peerVars, windowVars, remoteVars, pathVars>>

\* startSynchronizedNegotiation, from its timer, until it awaits the negotiation ...
SyncStart ==
  /\ ~syncStarted /\ connection # "closed" /\ syncStarted' = TRUE
  /\ IF PreferDirect THEN blocked' = TRUE /\ unblockTimer' = "first" ELSE UNCHANGED windowVars
  /\ UNCHANGED <<iceMode, connection, troubles, described, localVars, remoteVars, dropped, pathVars>>

\* ... and after that.
SendBuffered ==
  /\ syncStarted /\ bufferedLocal # <<>>
  /\ sent' = Sends(bufferedLocal) /\ bufferedLocal' = <<>>
  /\ UNCHANGED <<peerVars, windowVars, srflxSeen, emitted, gathered, delayedLocal, remoteVars,
                 dropped, pathVars>>

-----------------------------------------------------------------------------
(* The window.                                                             *)

WindowEnds ==
  /\ blocked /\ blocked' = FALSE
  /\ UNCHANGED <<peerVars, unblockTimer, localVars, remoteVars, dropped, pathVars>>

\* flushDelayedRelayCandidates, up to its first await: before there is a description only
\* the streamer's move on.
Flush ==
  IF connection = "connected"
    THEN /\ delayedLocal' = <<>> /\ delayedRemote' = <<>>
         /\ dropped' = dropped \cup ToSet(delayedLocal) \cup ToSet(delayedRemote)
         /\ UNCHANGED <<sent, iceCandidates, flushing>>
  ELSE IF ~described
    THEN LET a == AddAll(iceCandidates, delayedRemote, MaxBufferedRemoteCandidates) IN
         /\ iceCandidates' = a.queue /\ dropped' = dropped \cup a.lost
         /\ delayedRemote' = <<>> /\ UNCHANGED <<delayedLocal, sent, flushing>>
  ELSE /\ sent' = Sends(delayedLocal) /\ delayedLocal' = <<>>
       /\ flushing' = flushing \o delayedRemote /\ delayedRemote' = <<>>
       /\ UNCHANGED <<iceCandidates, dropped>>

\* The timer of scheduleRelayUnblock, not before the window's end: a first window is
\* extended while nothing tells of a direct path.
UnblockTimerFires ==
  /\ unblockTimer # "off" /\ ~blocked
  /\ IF /\ unblockTimer = "first" /\ ~srflxSeen /\ ~remoteSrflxSeen
        /\ connection \in {"new", "connecting"}
       THEN /\ blocked' = TRUE /\ unblockTimer' = "extended"
            /\ UNCHANGED <<delayedLocal, sent, iceCandidates, delayedRemote, flushing, dropped>>
       ELSE unblockTimer' = "off" /\ UNCHANGED blocked /\ Flush
  /\ UNCHANGED <<peerVars, srflxSeen, emitted, gathered, bufferedLocal, remoteSrflxSeen, received,
                 loopVars, outcomeVars, pathVars>>

-----------------------------------------------------------------------------
(* The streamer's candidates.                                              *)

\* on_ice_candidate of the streamer.
FarSends(c) == c \in FarCandidates \ received /\ received' = received \cup {c}

\* tryDequeueIceCandidates of a call, up to its first await; with nothing buffered the
\* call goes on to its own candidate.
Own(x) == IF x \in FarCandidates THEN x ELSE NoCandidate
BeginDequeue(x) ==
  /\ at' = [at EXCEPT ![x] = IF iceCandidates = <<>> THEN 0 ELSE 1]
  /\ awaited' = [awaited EXCEPT ![x] = IF iceCandidates = <<>> THEN Own(x) ELSE iceCandidates[1]]
  /\ overlapped' = (overlapped \/ (iceCandidates # <<>> /\ \E y \in Callers : at[y] > 0))

\* addIceCandidate, up to its first await.
AddIceCandidate(c) ==
  /\ connection # "closed" /\ FarSends(c)
  /\ LET delay == PreferDirect /\ c \in FarRelays /\ blocked
         a == IF delay THEN Add(delayedRemote, c, MaxDelayedRelayCandidates)
              ELSE Add(iceCandidates, c, MaxBufferedRemoteCandidates) IN
     /\ remoteSrflxSeen' = (remoteSrflxSeen \/ c \in FarSrflxs)
     /\ \/ delay /\ delayedRemote' = a.queue /\ dropped' = dropped \cup a.lost
           /\ UNCHANGED <<iceCandidates, loopVars>>
        \/ ~delay /\ ~described /\ iceCandidates' = a.queue /\ dropped' = dropped \cup a.lost
           /\ UNCHANGED <<delayedRemote, loopVars>>
        \/ ~delay /\ described /\ BeginDequeue(c)
           /\ UNCHANGED <<iceCandidates, delayedRemote, dropped>>
  /\ UNCHANGED <<peerVars, windowVars, localVars, flushing, outcomeVars, pathVars>>

\* handleRemoteDescription, when the description is set: the first, or one of a later
\* negotiation.
Describe(d) ==
  /\ connection # "closed" /\ awaited[d] = NoCandidate /\ described' = TRUE
  /\ BeginDequeue(d)
  /\ UNCHANGED <<iceMode, connection, troubles, syncStarted, windowVars, localVars, remoteSrflxSeen,
                 received, iceCandidates, delayedRemote, flushing, outcomeVars, dropped, pathVars>>

Takes(c) ==
  /\ connection # "closed" /\ applied' = applied \cup {c}
  /\ repeated' = repeated \cup ({c} \cap applied)

\* The browser takes what a call awaits.  The loop goes on over what the buffer holds now,
\* empties it at its end, and the call awaits its own candidate.
BrowserTakes(x) ==
  /\ awaited[x] # NoCandidate /\ Takes(awaited[x])
  /\ \/ /\ at[x] > 0 /\ at[x] < Len(iceCandidates)
        /\ at' = [at EXCEPT ![x] = @ + 1]
        /\ awaited' = [awaited EXCEPT ![x] = iceCandidates[at[x] + 1]]
        /\ UNCHANGED iceCandidates
     \/ /\ at[x] > 0 /\ at[x] >= Len(iceCandidates) /\ iceCandidates' = <<>>
        /\ at' = [at EXCEPT ![x] = 0] /\ awaited' = [awaited EXCEPT ![x] = Own(x)]
     \/ /\ at[x] = 0 /\ awaited' = [awaited EXCEPT ![x] = NoCandidate]
        /\ UNCHANGED <<at, iceCandidates>>
  /\ UNCHANGED <<peerVars, windowVars, localVars, remoteSrflxSeen, received, delayedRemote,
                 flushing, refused, failed, overlapped, dropped, pathVars>>

\* Mutant: a loop that ends early empties the buffer, too.
RefusalClears(x) ==
  /\ awaited[x] # NoCandidate /\ refused' = refused \cup {awaited[x]}
  /\ failed' = failed \cup (IF at[x] > 0 THEN {x} \cap FarCandidates ELSE {})
  /\ at' = [at EXCEPT ![x] = 0] /\ awaited' = [awaited EXCEPT ![x] = NoCandidate]
  /\ iceCandidates' = (IF at[x] > 0 THEN <<>> ELSE iceCandidates)
  /\ UNCHANGED <<peerVars, windowVars, localVars, remoteSrflxSeen, received, delayedRemote,
                 flushing, applied, repeated, overlapped, dropped, pathVars>>

\* It refuses it: the call throws, and a loop leaves the buffer as it was.
BrowserRefuses(x) ==
  /\ awaited[x] # NoCandidate /\ refused' = refused \cup {awaited[x]}
  /\ failed' = failed \cup (IF at[x] > 0 THEN {x} \cap FarCandidates ELSE {})
  /\ at' = [at EXCEPT ![x] = 0] /\ awaited' = [awaited EXCEPT ![x] = NoCandidate]
  /\ UNCHANGED <<peerVars, windowVars, localVars, remoteSrflxSeen, received, iceCandidates,
                 delayedRemote, flushing, applied, repeated, overlapped, dropped, pathVars>>

\* A flush goes on whether the browser takes its candidate or not.
FlushGoesOn ==
  /\ flushing # <<>> /\ flushing' = Tail(flushing)
  /\ \/ Takes(Head(flushing)) /\ UNCHANGED refused
     \/ refused' = refused \cup {Head(flushing)} /\ UNCHANGED <<applied, repeated>>
  /\ UNCHANGED <<peerVars, windowVars, localVars, remoteSrflxSeen, received, iceCandidates,
                 delayedRemote, loopVars, failed, dropped, pathVars>>

-----------------------------------------------------------------------------
(* The connection and the score of its path.                               *)

Connecting ==
  /\ connection = "new" /\ described /\ connection' = "connecting"
  /\ UNCHANGED <<iceMode, troubles, syncStarted, described, windowVars, localVars, remoteVars,
                 dropped, pathVars>>

\* onConnectionStateChange: what is delayed is not needed any more.
Connect ==
  /\ connection = "connecting" /\ connection' = "connected"
  /\ delayedLocal' = <<>> /\ delayedRemote' = <<>>
  /\ dropped' = dropped \cup ToSet(delayedLocal) \cup ToSet(delayedRemote)
  /\ UNCHANGED <<iceMode, troubles, syncStarted, described, windowVars, srflxSeen, emitted, gathered,
                 bufferedLocal, sent, remoteSrflxSeen, received, iceCandidates, flushing, loopVars,
                 outcomeVars, pathVars>>

Trouble ==
  /\ connection = "connected" /\ troubles < MaxTroubles
  /\ connection' = "connecting" /\ troubles' = troubles + 1
  /\ UNCHANGED <<iceMode, syncStarted, described, windowVars, localVars, remoteVars, dropped, pathVars>>

\* close.
Close ==
  /\ connection # "closed" /\ connection' = "closed" /\ unblockTimer' = "off"
  /\ delayedLocal' = <<>> /\ delayedRemote' = <<>>
  /\ dropped' = dropped \cup ToSet(delayedLocal) \cup ToSet(delayedRemote)
  /\ UNCHANGED <<iceMode, troubles, syncStarted, described, blocked, srflxSeen, emitted, gathered,
                 bufferedLocal, sent, remoteSrflxSeen, received, iceCandidates, flushing, loopVars,
                 outcomeVars, pathVars>>

\* computePathScore: the pair, whether it is another one, a hard failure, and whether it is
\* settled (the waits of the race, the switch and the survival are over), stable and poor.
Scores == [pair : {"direct", "relay"}, changed : BOOLEAN, hard : BOOLEAN, settled : BOOLEAN,
           stable : BOOLEAN, poor : BOOLEAN]
Possible(score) == (score.pair # pair => score.changed) /\ (score.settled => ~score.changed)

\* maybeEscapeHatchRelayUnblock.
Escapes(score) == blocked /\ (score.hard \/ suppressions >= MaxSuppressions)

\* Mutant: the budget is not used up.
BiasFree(score, poor) ==
  LET same == [poorSamples |-> poor, suppress |-> FALSE, spend |-> 0]
      reset == [same EXCEPT !.poorSamples = 0] IN
  IF score.hard THEN reset
  ELSE IF suppressions >= MaxSuppressions \/ biasApplied THEN same
  ELSE IF score.pair # "relay" \/ ~remoteSrflxSeen THEN reset
  ELSE IF ~score.settled THEN same
  ELSE IF ~score.stable \/ ~score.poor THEN reset
  ELSE IF poor + 1 < PoorRelaySamplesRequired THEN [same EXCEPT !.poorSamples = poor + 1]
  ELSE [poorSamples |-> 0, suppress |-> TRUE, spend |-> 0]

\* maybeApplyRelaySuppressionBias, after "poor" poor samples of the pair.
Bias(score, poor) ==
  LET same == [poorSamples |-> poor, suppress |-> FALSE, spend |-> 0]
      reset == [same EXCEPT !.poorSamples = 0] IN
  IF score.hard THEN reset
  ELSE IF suppressions >= MaxSuppressions \/ biasApplied THEN same
  ELSE IF score.pair # "relay" \/ ~remoteSrflxSeen THEN reset
  ELSE IF ~score.settled THEN same
  ELSE IF ~score.stable \/ ~score.poor THEN reset
  ELSE IF poor + 1 < PoorRelaySamplesRequired THEN [same EXCEPT !.poorSamples = poor + 1]
  ELSE [poorSamples |-> 0, suppress |-> TRUE, spend |-> 1]

\* logSelectedCandidatePairDetails.
Sample(score) ==
  /\ PreferDirect /\ connection \in {"connecting", "connected"}
  /\ Possible(score)
  /\ LET bias == Bias(score, IF score.changed THEN 0 ELSE poorSamples) IN
     /\ pair' = score.pair /\ poorSamples' = bias.poorSamples
     /\ suppressions' = suppressions + bias.spend
     /\ blocked' = ((blocked /\ ~Escapes(score)) \/ bias.suppress)
     /\ biasApplied' = (biasApplied \/ (blocked /\ suppressions >= MaxSuppressions)
                        \/ suppressions' >= MaxSuppressions)
  /\ UNCHANGED <<peerVars, unblockTimer, localVars, remoteVars, dropped>>

-----------------------------------------------------------------------------
CandidatesNext ==
  \/ SyncStart \/ SendBuffered \/ WindowEnds \/ UnblockTimerFires \/ FlushGoesOn
  \/ Connecting \/ Connect \/ Trouble \/ Close
  \/ \E c \in NearCandidates : Gather(c)
  \/ \E c \in FarCandidates : AddIceCandidate(c)
  \/ \E d \in Descriptions : Describe(d)
  \/ \E x \in Callers : BrowserTakes(x) \/ BrowserRefuses(x)
  \/ \E score \in Scores : Sample(score)

\* Time passes, timers fire and promises continue; the network and the path owe nothing.
CandidatesFairness ==
  /\ WF_candidatesVars(SyncStart) /\ WF_candidatesVars(SendBuffered)
  /\ WF_candidatesVars(WindowEnds) /\ WF_candidatesVars(UnblockTimerFires)
CandidatesSpec == CandidatesInit /\ [][CandidatesNext]_candidatesVars /\ CandidatesFairness

-----------------------------------------------------------------------------
CandidatesTypeOK ==
  /\ iceMode \in {"prefer-direct", "relay-only"} /\ troubles \in 0..MaxTroubles
  /\ connection \in {"new", "connecting", "connected", "closed"}
  /\ {syncStarted, described, blocked, srflxSeen, remoteSrflxSeen, biasApplied} \subseteq BOOLEAN
  /\ unblockTimer \in {"off", "first", "extended"} /\ emitted \in 0..Cardinality(gathered)
  /\ gathered \subseteq NearCandidates /\ received \subseteq FarCandidates
  /\ applied \cup refused \cup failed \subseteq received /\ repeated \subseteq applied
  /\ flushing \in Seq(received) /\ overlapped \in BOOLEAN
  /\ at \in [Callers -> Nat] /\ awaited \in [Callers -> received \cup {NoCandidate}]
  /\ {bufferedLocal, delayedLocal} \subseteq Seq(gathered) /\ sent \in [NearCandidates -> Nat]
  /\ Len(delayedLocal) <= MaxDelayedRelayCandidates /\ Len(delayedRemote) <= MaxDelayedRelayCandidates
  /\ Len(iceCandidates) <= MaxBufferedRemoteCandidates
  /\ pair \in {"none", "direct", "relay"} /\ poorSamples \in 0..PoorRelaySamplesRequired
  /\ suppressions \in 0..MaxSuppressions

\* The streamer's candidates that wait: in a buffer, in a flush, or in their own call.
Places(c) == Times(c, iceCandidates) + Times(c, delayedRemote) + Times(c, flushing)
             + (IF awaited[c] = NoCandidate THEN 0 ELSE 1)
InLoop == {x \in Callers : at[x] > 0}

\* Through every buffer, window and flush, each candidate of the browser is sent once, or
\* waits in one place, or was left out on purpose; and each of the streamer's waits in one
\* place, or the browser took or refused it, or it was left out, or its call failed.  Only
\* one that is still buffered may be both, while a loop runs or after a refusal.  A call
\* fails, and its candidate is lost, only after a refusal; and a candidate is given to the
\* browser twice only after a refusal, or when the loops of two calls overlapped.
Conserved ==
  /\ \A c \in gathered :
       sent[c] + Times(c, bufferedLocal) + Times(c, delayedLocal) = IF c \in dropped THEN 0 ELSE 1
  /\ \A c \in received :
       /\ Places(c) <= 1
       /\ Places(c) = 0 => c \in applied \cup refused \cup dropped \cup failed
       /\ c \in dropped \cup failed => Places(c) = 0 /\ c \notin applied \cup refused
       /\ c \in applied \cup refused /\ Places(c) = 1
            => Times(c, iceCandidates) = 1 /\ (InLoop # {} \/ refused # {})
  /\ failed # {} => refused # {}
  /\ repeated # {} => refused # {} \/ overlapped

\* "Buffering local ICE candidate until synchronized start": a candidate of the browser
\* that is not relayed and not left out is sent; and whatever the scores, the window of the
\* relayed ones, its extension and the suppressions end (what a flush before the streamer's
\* description left delayed has no timer any more, and may wait for ever).
WaitingEnds ==
  /\ \A c \in Hosts \cup Srflxs :
       (c \in gathered) ~> (c \in dropped \/ connection = "closed" \/ sent[c] > 0)
  /\ <>[]~blocked
=============================================================================
