--------------------------- MODULE ScrcpyDemuxer ---------------------------
(***************************************************************************)
(* ScrcpyProtocolDemuxer of app/scrcpy_demuxer.py: what the video socket   *)
(* delivers, in pieces cut anywhere, is cut into packets.                  *)
(*                                                                         *)
(* A unit stands for some bytes of one field of the stream; a payload has  *)
(* as many as its size.  What a header says that is not one - the parser   *)
(* has lost its place - is open.                                           *)
(***************************************************************************)
EXTENDS Naturals, Sequences

CONSTANTS
  NameSize, MetaSize, HeadSize, \* DEVICE_NAME_SIZE, CODEC_META_SIZE, FRAME_HEADER_SIZE
  PacketMax,                    \* max_packet_size
  PieceMax,                     \* bound: the size of a piece
  PacketCount                   \* bound: the packets of a stream

\* A field fits what the parser keeps: 64 and 12 bytes, and packets of 16 MB.
ASSUME DemuxAssumption ==
  /\ {NameSize, MetaSize, HeadSize, PacketMax, PieceMax, PacketCount} \subseteq Nat \ {0}
  /\ \A size \in {NameSize, MetaSize, HeadSize} : size <= 2 * PacketMax

VARIABLES
  device_stream, \* what the device sends
  fed,        \* how much of it has come
  demux_state, demux_buffer, demux_expected,
  demux_size, \* of _current_header
  packets,    \* the payloads so far
  in_feed,    \* feed is in its loop
  demux_lost  \* history: reset was called

demuxVars == <<device_stream, fed, demux_state, demux_buffer, demux_expected, demux_size, packets, in_feed, demux_lost>>

Units(field, packet, n) == [i \in 1..n |-> [field |-> field, packet |-> packet, at |-> i]]

\* The server's stream: a dummy byte unless the connection has taken it, the
\* name of the device, the codec, and packets of these sizes.  Or Annex B, if
\* the server was asked for the raw stream.
StreamUpTo(dummy, sizes) ==
  LET upTo[p \in 0..Len(sizes)] ==
        IF p = 0
        THEN Units("dummy", 0, dummy) \o Units("name", 0, NameSize) \o Units("meta", 0, MetaSize)
        ELSE upTo[p - 1] \o Units("head", p, HeadSize) \o Units("payload", p, sizes[p])
  IN  upTo
Framed(dummy, sizes) ==
  [sizes |-> sizes, units |-> StreamUpTo(dummy, sizes)[Len(sizes)]]
AnnexB == [sizes |-> <<>>, units |-> Units("annexb", 0, 2 * PacketMax + 2)]

Min2(a, b) == IF a <= b THEN a ELSE b
Valid(size) == size \in 1..PacketMax

DemuxInit ==
  /\ device_stream \in {Framed(dummy, sizes) : dummy \in {0, 1}, sizes \in [1..PacketCount -> 0..(PacketMax + 1)]}
               \cup {AnnexB}
  /\ fed = 0 /\ demux_state = "maybe_dummy" /\ demux_buffer = <<>> /\ demux_expected = 1
  /\ demux_size = 0 /\ packets = <<>> /\ in_feed = FALSE /\ demux_lost = FALSE

Feed(n) ==
  /\ ~in_feed /\ fed + n <= Len(device_stream.units)
  /\ in_feed' = TRUE /\ fed' = fed + n
  /\ demux_buffer' = demux_buffer \o SubSeq(device_stream.units, fed + 1, fed + n)
  /\ UNCHANGED <<device_stream, demux_state, demux_expected, demux_size, packets, demux_lost>>

Take(n) == demux_buffer' = SubSeq(demux_buffer, n + 1, Len(demux_buffer))
Awaits(state, n) == demux_state' = state /\ demux_expected' = n
Reset == demux_buffer' = <<>> /\ Awaits("maybe_dummy", 1) /\ demux_size' = 0 /\ demux_lost' = TRUE

\* The loop waits for more; a buffer that has grown too far is dropped.
Break ==
  /\ in_feed' = FALSE
  /\ IF Len(demux_buffer) > 2 * PacketMax THEN Reset
     ELSE UNCHANGED <<demux_buffer, demux_state, demux_expected, demux_size, demux_lost>>
  /\ UNCHANGED <<device_stream, fed, packets>>

Enough == demux_state # "raw" /\ Len(demux_buffer) >= demux_expected
Loop(state) == in_feed /\ demux_state = state /\ Enough /\ UNCHANGED <<device_stream, fed>>

Wait == in_feed /\ ~Enough /\ Break

\* A start code of two units; one of them alone looks like the dummy byte.
IsAnnexB == Len(demux_buffer) >= 2 /\ demux_buffer[1].field = "annexb"
MaybeDummy ==
  /\ Loop("maybe_dummy") /\ ~IsAnnexB
  /\ IF demux_buffer[1].field \in {"dummy", "annexb"} THEN Take(1)
     ELSE IF demux_lost /\ demux_buffer[1].field # "name" THEN Take(1) \/ Take(0)
     ELSE Take(0)
  /\ Awaits("device_meta", NameSize) /\ UNCHANGED <<demux_size, packets, in_feed, demux_lost>>
RawStream ==
  /\ in_feed /\ demux_state = "maybe_dummy" /\ IsAnnexB
  /\ Awaits("raw", 0)
  /\ UNCHANGED <<device_stream, fed, demux_buffer, demux_size, packets, in_feed, demux_lost>>

Meta ==
  \/ Loop("device_meta") /\ Take(NameSize) /\ Awaits("codec_meta", MetaSize)
     /\ UNCHANGED <<demux_size, packets, in_feed, demux_lost>>
  \/ Loop("codec_meta") /\ Take(MetaSize) /\ Awaits("frame_header", HeadSize)
     /\ UNCHANGED <<demux_size, packets, in_feed, demux_lost>>

\* The size the header says.
Says(head) ==
  IF \E p \in DOMAIN device_stream.sizes : head = Units("head", p, HeadSize)
  THEN {device_stream.sizes[head[1].packet]} ELSE 0..(PacketMax + 1)

FrameHeader ==
  /\ Loop("frame_header") /\ UNCHANGED packets
  /\ \E size \in Says(SubSeq(demux_buffer, 1, HeadSize)) :
       IF Valid(size)
       THEN /\ Take(HeadSize) /\ Awaits("packet", size) /\ demux_size' = size
            /\ UNCHANGED <<in_feed, demux_lost>>
       ELSE Reset /\ in_feed' = FALSE

\* Variant: what has come is taken for the whole packet.
PacketShort ==
  /\ in_feed /\ demux_state = "packet" /\ demux_buffer # <<>>
  /\ packets' = Append(packets, demux_buffer)
  /\ Take(Len(demux_buffer)) /\ Awaits("frame_header", HeadSize) /\ demux_size' = 0
  /\ UNCHANGED <<device_stream, fed, in_feed, demux_lost>>
Packet ==
  /\ Loop("packet")
  /\ packets' = Append(packets, SubSeq(demux_buffer, 1, demux_expected))
  /\ Take(demux_expected) /\ Awaits("frame_header", HeadSize) /\ demux_size' = 0
  /\ UNCHANGED <<in_feed, demux_lost>>

DemuxNext ==
  \/ \E n \in 1..PieceMax : Feed(n)
  \/ Wait \/ MaybeDummy \/ RawStream \/ Meta \/ FrameHeader \/ Packet

DemuxSpec == DemuxInit /\ [][DemuxNext]_demuxVars

-----------------------------------------------------------------------------
(* Properties. *)

\* However the stream is cut, its packets come out whole and in order, and
\* all of them have come out once it has all come, up to the first that is
\* invalid; the parser gives up its place for no other reason, and keeps at
\* most two packets.
DemuxerExact ==
  LET sizes == device_stream.sizes
      bad == {p \in DOMAIN sizes : ~Valid(sizes[p])}
      good == IF bad = {} THEN Len(sizes) ELSE (CHOOSE p \in bad : \A q \in bad : p <= q) - 1
  IN /\ device_stream # AnnexB =>
          /\ \A p \in 1..Min2(good, Len(packets)) : packets[p] = Units("payload", p, sizes[p])
          /\ bad = {} => ~demux_lost /\ Len(packets) <= good
          /\ ~in_feed /\ fed = Len(device_stream.units) => Len(packets) >= good
     /\ ~in_feed => Len(demux_buffer) <= 2 * PacketMax
=============================================================================
