------------------------------ MODULE VideoWire ------------------------------
(***************************************************************************)
(* A video unit on its way over the web socket: the streamer's packet      *)
(* (transport/web_socket/mod.rs), the browser's channel and depacketizer,  *)
(* and the translator from start codes to the chunk and the configuration  *)
(* of a decoder (annex_b_translator.ts).  A unit of H.264 is a sequence of *)
(* NAL units of one byte, their header, so that the bytes between count.   *)
(***************************************************************************)
EXTENDS Integers, SequencesExt

Sps == 103
Pps == 104
Idr == 101
Slice == 65
NalType(header) == header % 32
KeyUnit == <<Sps, Pps, Idr>>
DeltaUnit == <<Slice>>

-----------------------------------------------------------------------------
(* The streamer.                                                           *)

\* ByteBuffer::put_u8_array: what does not fit is not written at all.
Put(written, capacity, bytes) ==
  IF Len(written) + Len(bytes) > capacity THEN written ELSE written \o bytes

HeaderSize == 5

\* send_video_unit: the channel, the frame type, a zero and the time stamp.
Header(isKey) ==
  LET fields == << <<2>>, <<IF isKey THEN 1 ELSE 0>>, <<0>>, <<9, 9, 9, 9>> >>
      put == FoldLeft(LAMBDA w, f : Put(w, HeaderSize, f), <<>>, fields) IN
  put \o [i \in 1..HeaderSize - Len(put) |-> 0]
AnnexB(nals) == FoldLeft(LAMBDA d, n : d \o <<0, 0, 0, 1, n>>, <<>>, nals)
Packet(nals) == Header(nals = KeyUnit) \o AnnexB(nals)

-----------------------------------------------------------------------------
(* The browser.                                                            *)

\* The channel takes the first byte, submitPacket the next five: a type and a stamp.
Depacketize(packet) ==
  [key |-> packet[2] = 1, stamp |-> SubSeq(packet, 3, 6), data |-> SubSeq(packet, 7, Len(packet))]

StartsWith(data, i, code) ==
  i >= 1 /\ i + Len(code) - 1 <= Len(data) /\ SubSeq(data, i, i + Len(code) - 1) = code
Long(data, i) == StartsWith(data, i, <<0, 0, 0, 1>>)
\* Where the start codes begin and what follows them begins.
StartCodes(data) ==
  {<<i, i + 4>> : i \in {j \in DOMAIN data : Long(data, j)}} \cup
  {<<i, i + 3>> : i \in {j \in DOMAIN data : StartsWith(data, j, <<0, 0, 1>>) /\ ~Long(data, j - 1)}}

\* submitDecodeUnit of the translator: what is before, between and after the start codes.
Nals(data) ==
  LET codes == SetToSortSeq(StartCodes(data), LAMBDA c, d : c[1] < d[1])
      End(k) == IF k = Len(codes) THEN Len(data) ELSE codes[k + 1][1] - 1
      parts == [k \in 1..Len(codes) |-> SubSeq(data, codes[k][2], End(k))] IN
  IF codes = <<>> THEN <<data>>
  ELSE IF codes[1][1] = 1 THEN parts ELSE <<SubSeq(data, 1, codes[1][1] - 1)>> \o parts

IsParameter(nal) == NalType(nal[1]) \in {7, 8}
\* endChunk: a configuration needs both parameter sets; the chunk is the rest.
Configures(nals) == \A t \in {7, 8} : \E n \in ToSet(nals) : NalType(n[1]) = t
Chunk(nals) == SelectSeq(nals, LAMBDA n : ~IsParameter(n))
=============================================================================
