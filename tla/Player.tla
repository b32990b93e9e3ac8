-------------------------------- MODULE Player --------------------------------
(***************************************************************************)
(* The video of a stream over the web socket, from the streamer's units to *)
(* the browser's decoder (src/web/stream/video/).  The pipeline is the     *)
(* first one the browser supports; it ends in a VideoDecoder, on the page  *)
(* or in a worker, configured by the units themselves or by a translator,  *)
(* in OpenH264, or in a MediaSource.  Units arrive before the decoder is   *)
(* set up; a decoder that falls behind is reset and asks for a key frame.  *)
(* The decoders and the host's encoder are the environment.                *)
(***************************************************************************)
EXTENDS VideoWire

CONSTANTS
  Browsers,     \* the sets of features that are tried
  MaxBacklog,   \* units a decoder may have waiting: 200 ms, and more than two
  MaxDrops,     \* units a MediaSource drops before it asks for a key frame: 60
  MaxUnits,     \* bound on the units on their way and in the decoder
  Stamps        \* stamps of segments are counted modulo this
ASSUME PlayerAssumption ==
  /\ {MaxBacklog, MaxDrops, MaxUnits, Stamps} \subseteq Nat
  /\ MaxBacklog < MaxUnits /\ Stamps > 1

VARIABLES
  browser,       \* its features
  host,          \* the encoder: "new", a key frame is "due", or "fine"
  needs_idr,     \* the streamer's flag
  wire,          \* units on their way to the browser
  asking,        \* requests for a key frame on their way to the streamer
  setup,         \* setup(): "before", "running", "done"
  ready,         \* the codec's support is known, the module loaded, the source open
  bufferedUnits, \* units that came before it was done
  decoder,       \* the VideoDecoder or OpenH264 and the state of its pipe
  media,         \* the MediaSource and the state of its pipe
  errored,
  decodable,     \* history: no decoder was given what it cannot decode
  missed         \* history: OpenH264 dropped a key frame, as its module was not loaded

hostVars == <<browser, host>>
sourceVars == <<hostVars, needs_idr>>
pipeVars == <<bufferedUnits, decoder, media, errored, decodable, missed>>
playerVars == <<sourceVars, wire, asking, setup, ready, pipeVars>>

-----------------------------------------------------------------------------
(* buildVideoPipeline.                                                     *)

Pipeline(needs, decodes) == [needs |-> needs, decodes |-> decodes]
PIPELINES ==
  << Pipeline({"Worker", "VideoDecoder", "VideoTrackGenerator"}, "worker"),
     Pipeline({"VideoDecoder", "MediaStreamTrackGenerator"}, "page"),
     Pipeline({"VideoDecoder", "2d"}, "page"),
     Pipeline({"Worker", "WebAssembly", "OffscreenCanvas", "webgl"}, "openh264"),
     Pipeline({"WebAssembly", "webgl"}, "openh264"),
     Pipeline({"WebAssembly", "2d"}, "openh264"),
     Pipeline({"MediaSource"}, "media") >>
Supported == {i \in DOMAIN PIPELINES : PIPELINES[i].needs \subseteq browser}
Decodes == PIPELINES[CHOOSE i \in Supported : \A j \in Supported : i <= j].decodes
\* trySetConfig of the codec that takes its parameters in band; else there is a translator.
InBand == "avc3" \in browser
UsesVideoDecoder == Decodes \in {"worker", "page"}

PlayerInit ==
  /\ browser \in Browsers /\ Supported # {}
  /\ host = "new" /\ needs_idr = FALSE
  /\ wire = <<>> /\ asking = 0 /\ setup = "before" /\ ready = FALSE /\ bufferedUnits = <<>>
  /\ decoder = [needsKeyFrame |-> TRUE, requestedIdr |-> FALSE, hasDescription |-> FALSE,
                queue |-> 0, chained |-> FALSE]
  /\ media = [hasDescription |-> FALSE, needIdr |-> TRUE, droppedFrames |-> 0,
              last |-> 0, source |-> "none", buffers |-> <<>>, appending |-> <<>>, played |-> 0]
  /\ errored = FALSE /\ decodable = TRUE /\ missed = FALSE

-----------------------------------------------------------------------------
(* The host and the streamer.                                              *)

\* What counts for the bound.
Waiting ==
  IF errored THEN 0
  ELSE (IF setup = "done" THEN decoder.queue ELSE Len(bufferedUnits)) + Len(media.buffers)

\* send_video_unit: the host encodes a key frame when it likes, and after NeedIdr.
SendUnit(isKey) ==
  /\ asking + Len(wire) + Waiting < MaxUnits
  /\ isKey \/ host # "new"
  /\ wire' = Append(wire, IF isKey THEN KeyUnit ELSE DeltaUnit)
  /\ host' = (IF needs_idr \/ (host = "due" /\ ~isKey) THEN "due" ELSE "fine")
  /\ needs_idr' = FALSE
  /\ UNCHANGED <<browser, asking, setup, ready, pipeVars>>

\* on_ipc_message.
RequestArrives ==
  /\ asking > 0 /\ asking' = asking - 1 /\ needs_idr' = TRUE
  /\ UNCHANGED <<hostVars, wire, setup, ready, pipeVars>>

-----------------------------------------------------------------------------
(* VideoDecoderPipe and OpenH264DecoderPipe.  "chained": the unit before   *)
(* was given to the decoder, which was not reset since.                    *)

Given(d, isKey) ==
  [d EXCEPT !.decoder.queue = @ + 1, !.decoder.chained = TRUE,
            !.ok = @ /\ (isKey \/ d.decoder.chained)]
Skipped(d) == [d EXCEPT !.decoder.chained = FALSE]

Decode(d, unit) ==
  IF unit.key \/ ~d.decoder.needsKeyFrame
    THEN Given([d EXCEPT !.decoder.needsKeyFrame = FALSE, !.decoder.requestedIdr = FALSE], unit.key)
    ELSE Skipped(d)

DecodeTranslated(d, unit) ==
  LET configured == [d EXCEPT !.decoder.hasDescription = TRUE, !.decoder.requestedIdr = FALSE,
                              !.decoder.queue = 0]
      next == Given(IF Configures(unit.nals) THEN configured ELSE d, unit.key) IN
  IF unit.key \/ d.decoder.hasDescription
    THEN [next EXCEPT !.ok = @ /\ Chunk(unit.nals) = (IF unit.key THEN << <<Idr>> >> ELSE << <<Slice>> >>)]
    ELSE Skipped(d)

\* submitDecodeUnit: one unit after the other.
Take(d, unit) == IF InBand THEN Decode(d, unit) ELSE DecodeTranslated(d, unit)
SubmitAll(units) ==
  LET run[n \in 0..Len(units)] ==
        IF n = 0 THEN [decoder |-> decoder, ok |-> decodable, waiting |-> <<>>]
        ELSE Take(run[n - 1], units[n]) IN
  run[Len(units)]
\* The units that waited for the set-up go first.
Submit(unit) ==
  IF setup # "done"
    THEN [decoder |-> decoder, ok |-> decodable, waiting |-> Append(bufferedUnits, unit)]
    ELSE SubmitAll(Append(bufferedUnits, unit))

\* Mutant: the decoder is reset, and nobody is asked for a key frame.
PollNothing(d) ==
  LET behind == d.queue > MaxBacklog /\ ~d.requestedIdr IN
  IF ~behind THEN [decoder |-> d, request |-> FALSE]
  ELSE [request |-> FALSE,
        decoder |-> IF InBand THEN [d EXCEPT !.requestedIdr = TRUE, !.needsKeyFrame = TRUE,
                                             !.queue = 0, !.chained = FALSE]
                              ELSE [d EXCEPT !.requestedIdr = TRUE]]

\* Mutant: the decoder is emptied, and takes the next unit.
PollKeepsChain(d) ==
  LET behind == d.queue > MaxBacklog /\ ~d.requestedIdr IN
  IF ~behind THEN [decoder |-> d, request |-> FALSE]
  ELSE [request |-> TRUE,
        decoder |-> IF InBand THEN [d EXCEPT !.requestedIdr = TRUE, !.queue = 0, !.chained = FALSE]
                              ELSE [d EXCEPT !.requestedIdr = TRUE]]

\* pollRequestIdr: the decoder is reset, unless a translator will configure it again.
Poll(d) ==
  LET behind == d.queue > MaxBacklog /\ ~d.requestedIdr IN
  IF ~behind THEN [decoder |-> d, request |-> FALSE]
  ELSE [request |-> TRUE,
        decoder |-> IF InBand THEN [d EXCEPT !.requestedIdr = TRUE, !.needsKeyFrame = TRUE,
                                             !.queue = 0, !.chained = FALSE]
                              ELSE [d EXCEPT !.requestedIdr = TRUE]]

-----------------------------------------------------------------------------
(* MediaSourceDecoder.                                                     *)

InitSegment == [init |-> TRUE, time |-> 0]
FrameSegment(time) == [init |-> FALSE, time |-> time]

\* tryAppendDecodeUnit.
TryAppend(m) ==
  IF m.source = "none" \/ m.appending # <<>> \/ m.buffers = <<>> THEN m
  ELSE [m EXCEPT !.appending = <<Head(m.buffers)>>, !.buffers = Tail(m.buffers)]

\* submitDecodeUnit: a stamp that does not grow, as those of the wire, is replaced (those
\* before the first source buffer, which sets it to 0, are left out); a source buffer is
\* created on each key frame, which throws unless the source is open.
SubmitToMedia(m, unit) ==
  LET configure == unit.key /\ Configures(unit.nals)
      time == (m.last + 1) % Stamps IN
  IF ~unit.key /\ ~m.hasDescription THEN m
  ELSE IF configure /\ ~ready THEN [m EXCEPT !.hasDescription = TRUE]
  ELSE IF configure
    THEN TryAppend([m EXCEPT !.hasDescription = TRUE, !.needIdr = FALSE, !.droppedFrames = 0,
                             !.last = 0, !.source = "created", !.appending = <<>>,
                             !.buffers = @ \o <<InitSegment, FrameSegment(0)>>])
  ELSE IF m.needIdr THEN [m EXCEPT !.droppedFrames = @ + 1]
  ELSE TryAppend([m EXCEPT !.last = time, !.buffers = Append(@, FrameSegment(time))])

\* pollRequestIdr.
PollMedia(m) ==
  [request |-> m.droppedFrames > MaxDrops,
   media |-> IF m.droppedFrames > MaxDrops THEN [m EXCEPT !.droppedFrames = 0] ELSE m]

\* The source buffer ends an append: onError without an init segment, after which nothing
\* that waits is appended, else onUpdateEnd.
AppendEnds ==
  /\ media.appending # <<>> /\ ~errored
  /\ LET segment == Head(media.appending) IN
     /\ errored' = (media.source = "created" /\ ~segment.init)
     /\ media' = (IF errored' THEN [media EXCEPT !.appending = <<>>, !.buffers = <<>>]
                  ELSE TryAppend([media EXCEPT !.appending = <<>>, !.source = "started",
                                  !.played = IF segment.init THEN -1 ELSE segment.time]))
     /\ decodable' = (decodable /\ (errored' \/ segment.init \/ segment.time = (media.played + 1) % Stamps))
  /\ UNCHANGED <<sourceVars, wire, asking, setup, ready, bufferedUnits, decoder, missed>>

-----------------------------------------------------------------------------
\* setup, on ConnectionComplete, tells the video element of a MediaSource.
SetupBegins ==
  /\ setup = "before" /\ setup' = "running"
  /\ UNCHANGED <<sourceVars, wire, asking, ready, pipeVars>>

BecomesReady ==
  /\ ~ready /\ ready' = TRUE /\ (Decodes = "media" => setup = "running")
  /\ UNCHANGED <<sourceVars, wire, asking, setup, pipeVars>>

SetupEnds ==
  /\ setup = "running" /\ ready /\ setup' = "done"
  /\ UNCHANGED <<sourceVars, wire, asking, ready, pipeVars>>

-----------------------------------------------------------------------------
(* The receive listener of the channel: submitPacket, then pollRequestIdr. *)

Arrives == wire # <<>> /\ wire' = Tail(wire) /\ UNCHANGED <<sourceVars, setup, ready>>
\* What is left of a unit after packet, depacketizer and translator.
Received ==
  [nals \in {KeyUnit, DeltaUnit} |->
     LET unit == Depacketize(Packet(nals)) IN [key |-> unit.key, nals |-> Nals(unit.data)]]
\* The wire and the translator keep what a decoder needs: the frame and whether it is a key.
ASSUME UnitsArrive ==
  \A nals \in {KeyUnit, DeltaUnit} :
    /\ Received[nals].key = (nals = KeyUnit)
    /\ Chunk(Received[nals].nals) = (IF nals = KeyUnit THEN << <<Idr>> >> ELSE << <<Slice>> >>)
Unit == Received[Head(wire)]

\* A worker is not polled.
ReceiveForDecoder ==
  /\ UsesVideoDecoder /\ ~errored /\ Arrives
  /\ LET d == Submit(Unit)
         polled == IF Decodes = "page" THEN Poll(d.decoder)
                   ELSE [decoder |-> d.decoder, request |-> FALSE] IN
     /\ decoder' = polled.decoder /\ decodable' = d.ok /\ bufferedUnits' = d.waiting
     /\ asking' = asking + (IF polled.request THEN 1 ELSE 0)
  /\ UNCHANGED <<media, errored, missed>>

\* OpenH264 decodes in the call.  It drops what comes before its module is loaded, asks
\* for nothing and takes what comes then: a unit whose key frame was dropped throws, or
\* shows nothing.
ReceiveForOpenH264 ==
  /\ Decodes = "openh264" /\ ~errored /\ Arrives
  /\ decoder' = [decoder EXCEPT !.chained = @ \/ (ready /\ Unit.key)]
  /\ decodable' = (decodable /\ (~ready \/ decoder'.chained))
  /\ missed' = (missed \/ (~ready /\ Unit.key))
  /\ errored' \in (IF ready /\ ~decoder'.chained THEN BOOLEAN ELSE {FALSE})
  /\ UNCHANGED <<asking, bufferedUnits, media>>

ReceiveForMedia ==
  /\ Decodes = "media" /\ ~errored /\ Arrives
  /\ LET polled == PollMedia(SubmitToMedia(media, Unit)) IN
     /\ media' = polled.media
     /\ asking' = asking + (IF polled.request THEN 1 ELSE 0)
  /\ UNCHANGED <<bufferedUnits, decoder, errored, decodable, missed>>

ReceiveInVain ==
  errored /\ Arrives /\ UNCHANGED <<asking, pipeVars>>

DecoderOutputs ==
  /\ decoder.queue > 0 /\ decoder' = [decoder EXCEPT !.queue = @ - 1]
  /\ UNCHANGED <<sourceVars, wire, asking, setup, ready, bufferedUnits, media, errored, decodable, missed>>

DecoderFails ==
  /\ decoder.queue > 0 /\ errored' = TRUE /\ decoder' = [decoder EXCEPT !.queue = 0]
  /\ UNCHANGED <<sourceVars, wire, asking, setup, ready, bufferedUnits, media, decodable, missed>>

PlayerNext ==
  \/ \E isKey \in BOOLEAN : SendUnit(isKey)
  \/ RequestArrives \/ SetupBegins \/ BecomesReady \/ SetupEnds
  \/ ReceiveForDecoder \/ ReceiveForOpenH264 \/ ReceiveForMedia \/ ReceiveInVain
  \/ DecoderOutputs \/ DecoderFails \/ AppendEnds

\* The host goes on and answers, the sockets deliver, the browser's promises resolve and
\* its decoders decode.
PlayerFairness ==
  /\ SF_playerVars(host # "fine" /\ SendUnit(TRUE)) /\ WF_playerVars(SendUnit(FALSE))
  /\ WF_playerVars(RequestArrives) /\ WF_playerVars(SetupBegins) /\ WF_playerVars(BecomesReady) /\ WF_playerVars(SetupEnds)
  /\ WF_playerVars(ReceiveForDecoder \/ ReceiveForOpenH264 \/ ReceiveForMedia \/ ReceiveInVain)
  /\ WF_playerVars(DecoderOutputs) /\ WF_playerVars(AppendEnds)

PlayerSpec == PlayerInit /\ [][PlayerNext]_playerVars /\ PlayerFairness

-----------------------------------------------------------------------------
Units == {Received[KeyUnit], Received[DeltaUnit]}
Decoders ==
  [needsKeyFrame : BOOLEAN, requestedIdr : BOOLEAN, hasDescription : BOOLEAN, queue : Nat,
   chained : BOOLEAN]
Segments == [init : BOOLEAN, time : 0..Stamps - 1]
MediaSources ==
  [hasDescription : BOOLEAN, needIdr : BOOLEAN, droppedFrames : Nat, last : 0..Stamps - 1,
   source : {"none", "created", "started"}, buffers : Seq(Segments), appending : Seq(Segments),
   played : -1..Stamps - 1]
PlayerTypeOK ==
  /\ browser \in Browsers /\ host \in {"new", "due", "fine"}
  /\ wire \in Seq({KeyUnit, DeltaUnit}) /\ asking \in Nat
  /\ setup \in {"before", "running", "done"} /\ {needs_idr, ready, errored, decodable, missed} \subseteq BOOLEAN
  /\ bufferedUnits \in Seq(Units) /\ decoder \in Decoders /\ media \in MediaSources

\* Whatever comes before the set-up, and however often the decoder is reset, it is given a
\* unit only after the one it refers to, with the NAL units the streamer sent; a media
\* source plays its frames in the order of their times.  Not so OpenH264 once a key frame
\* came before its module was loaded: it is given the units that refer to the frame it
\* never had, until the host happens to send another.
Decodable == decodable \/ (Decodes = "openh264" /\ missed)

\* "Requesting idr": a decoder without the key frame it needs gets one, whatever of it was
\* lost before the pipeline was set up or reset.
PictureReturns ==
  []<>(errored \/ Decodes = "openh264"
       \/ IF Decodes = "media" THEN ~media.needIdr
          ELSE IF InBand THEN ~decoder.needsKeyFrame ELSE decoder.hasDescription)
=============================================================================
