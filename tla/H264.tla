--------------------------------- MODULE H264 ---------------------------------
(***************************************************************************)
(* app/h264.py: start codes, and the parser that cuts an Annex-B byte      *)
(* stream, arriving in pieces of any size, into NAL units.  A byte string  *)
(* is a sequence of naturals; positions count from 0 as in the code, and   *)
(* -1 means "not found".                                                   *)
(***************************************************************************)
EXTENDS Integers, Sequences

CONSTANTS
  StreamBytes,   \* the bytes that occur in the parsed stream
  MaxStream,     \* bound on the length of the stream
  MaxPiece,      \* bound on the bytes of one feed
  MaxNal         \* max_buffer_size of the parser

\* RAW_MAX_NAL_BYTES is at least 64 KiB.  A smaller limit stands for it as long as
\* the stream is not longer than the 128 bytes that an oversized unit is searched in.
ASSUME H264Assumption ==
  /\ StreamBytes \subseteq Nat
  /\ MaxStream \in Nat /\ MaxPiece \in Nat /\ MaxNal \in Nat \ {0}
  /\ MaxNal >= 65536 \/ MaxStream <= 128

VARIABLES fed, parser, nals

h264Vars == <<fed, parser, nals>>

\* data[i:j] and data[i:]
Slice(s, i, j) == SubSeq(s, i + 1, IF j > Len(s) THEN Len(s) ELSE j)
Drop(s, n) == Slice(s, n, Len(s))
StartCode4 == <<0, 0, 0, 1>>
StartCode3 == <<0, 0, 1>>
Lowest(S) == CHOOSE x \in S : \A y \in S : x <= y

-----------------------------------------------------------------------------
\* A match of the short code right after a zero is the end of a long one,
\* unless that zero lies before the place to search from.
find_start_code(data, start) ==
  LET hits == {i \in start .. Len(data) - 3 : Slice(data, i, i + 3) = StartCode3}
      hit == Lowest(hits)
  IN  IF hits = {} THEN -1
      ELSE IF hit > start /\ data[hit] = 0 THEN hit - 1
      ELSE hit

start_code_length(data, i) ==
  IF Slice(data, i, i + 3) = StartCode3 THEN 3
  ELSE IF Slice(data, i, i + 4) = StartCode4 THEN 4
  ELSE 0

\* A turn of the loop over the units of a payload that is complete: the start code it
\* has come to, and the units found.
NextUnit(raw, s) ==
  LET n == start_code_length(raw, s.pos)
      next == find_start_code(raw, s.pos + n)
      unit == Slice(raw, s.pos, IF next < 0 THEN Len(raw) ELSE next)
  IN  IF s.pos < 0 THEN s
      ELSE [pos |-> next, out |-> IF Len(unit) > n THEN Append(s.out, unit) ELSE s.out]

Scan(raw) ==
  LET turn[k \in Nat] ==
        IF k = 0 THEN [pos |-> find_start_code(raw, 0), out |-> <<>>]
        ELSE NextUnit(raw, turn[k - 1])
  IN  turn

\* There are not more start codes than bytes.
annexb_nal_units(raw) == Scan(raw)[Len(raw)].out

-----------------------------------------------------------------------------
(***************************************************************************)
(* H264AnnexBParser                                                        *)
(***************************************************************************)
NewParser == [buffer |-> <<>>, resyncs |-> 0, discarded |-> 0]

H264Init == fed = <<>> /\ parser = NewParser /\ nals = <<>>

Forget(p, n) ==
  [buffer |-> Drop(p.buffer, n), resyncs |-> p.resyncs + 1, discarded |-> p.discarded + n]

\* Noise before the first start code; the last bytes may begin one.
trim_without_start_code(p) ==
  IF Len(p.buffer) > MaxNal /\ Len(p.buffer) > 4 THEN Forget(p, Len(p.buffer) - 4) ELSE p

\* Faulty: what is too long is cut short.
trim_the_end(p) ==
  IF Len(p.buffer) <= MaxNal THEN p ELSE [p EXCEPT !.buffer = Slice(@, 0, MaxNal)]
\* A unit that grows without end.
trim_oversized_partial_nal(p) ==
  LET from == IF Len(p.buffer) > 128 THEN Len(p.buffer) - 128 ELSE 0
      last == find_start_code(p.buffer, from)
  IN  IF Len(p.buffer) <= MaxNal THEN p
      ELSE Forget(p, IF last > 0 THEN last ELSE Len(p.buffer))

\* A turn of the loop that cuts units off the buffer, which begins with a start code;
\* what ends the loop is in Cut.
CutUnit(s) ==
  LET n == start_code_length(s.buffer, 0)
      next == find_start_code(s.buffer, n)
  IN  IF n = 0 \/ next < 0 THEN s
      ELSE [buffer |-> Drop(s.buffer, next),
            out |-> IF next > n THEN Append(s.out, Slice(s.buffer, 0, next)) ELSE s.out]

CutTurns(p) ==
  LET turn[k \in Nat] ==
        IF k = 0 THEN [buffer |-> p.buffer, out |-> <<>>] ELSE CutUnit(turn[k - 1])
  IN  turn

Cut(p) ==
  LET end == CutTurns(p)[Len(p.buffer)]
      rest == [p EXCEPT !.buffer = end.buffer]
  IN  [out |-> end.out,
       p |-> IF start_code_length(end.buffer, 0) = 0 THEN [p EXCEPT !.buffer = <<>>]
             ELSE trim_oversized_partial_nal(rest)]

feed(data) ==
  LET p == [parser EXCEPT !.buffer = @ \o data]
      first == find_start_code(p.buffer, 0)
      cut == Cut(IF first > 0 THEN Forget(p, first) ELSE p)
  IN  IF first < 0
      THEN parser' = trim_without_start_code(p) /\ UNCHANGED nals
      ELSE parser' = cut.p /\ nals' = nals \o cut.out

Feed ==
  \E n \in 1 .. MaxPiece : \E data \in [1 .. n -> StreamBytes] :
    /\ Len(fed) + n <= MaxStream
    /\ fed' = fed \o data
    /\ feed(data)

\* At the end of the stream the last unit is complete.
flush ==
  LET n == start_code_length(parser.buffer, 0)
  IN  IF n = 0 \/ Len(parser.buffer) <= n THEN <<>> ELSE <<parser.buffer>>

\* The next stream has a parser of its own.
NextStream == fed # <<>> /\ fed' = <<>> /\ parser' = NewParser /\ nals' = <<>>

H264Next == Feed \/ NextStream
H264Spec == H264Init /\ [][H264Next]_h264Vars

-----------------------------------------------------------------------------
(***************************************************************************)
(* Properties                                                              *)
(***************************************************************************)
\* In whatever pieces a stream arrives, start codes torn apart included: as long as
\* the parser has thrown away nothing but the noise before the first start code, it
\* has cut the stream where annexb_nal_units cuts the whole of it.
CutsAsWhole ==
  LET first == find_start_code(fed, 0)
  IN  first < 0 \/ parser.discarded <= first => nals \o flush = annexb_nal_units(fed)

\* A unit without its start code.
Payload(unit) == Drop(unit, start_code_length(unit, 0))

\* The first units are some of the others, in their order, up to their start codes.
SomeOf(some, units) ==
  \E at \in [1 .. Len(some) -> 1 .. Len(units)] :
    /\ \A i, j \in 1 .. Len(some) : i < j => at[i] < at[j]
    /\ \A i \in 1 .. Len(some) : Payload(some[i]) = Payload(units[at[i]])

\* Whatever is thrown away, no unit is delivered torn, twice or out of order: each is
\* one of the units of the whole stream.  Only a start code may have lost its first
\* zero, with the end of a unit that was too long.
UnitsNeverTorn == SomeOf(nals \o flush, annexb_nal_units(fed))

\* A decoder's buffer is bounded between two feeds.
BufferBounded == Len(parser.buffer) <= (IF MaxNal > 4 THEN MaxNal ELSE 4)

\* The units of the parser are those of the stream, and it never holds more than one
\* unit may have.
UnitsExact == CutsAsWhole /\ UnitsNeverTorn /\ BufferBounded
=============================================================================
