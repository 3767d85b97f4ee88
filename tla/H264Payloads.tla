----------------------------- MODULE H264Payloads -----------------------------
(***************************************************************************)
(* app/h264.py: the functions that classify and convert payloads, over the *)
(* byte strings that the stream of H264 gives.  A loop is a function of    *)
(* the number of its turns.                                                *)
(***************************************************************************)
EXTENDS H264

is_annexb(data) == Slice(data, 0, 4) = StartCode4 \/ Slice(data, 0, 3) = StartCode3

\* -1 for what is no NAL unit
nal_type(nal) ==
  LET n == start_code_length(nal, 0)
  IN  IF n = 0 \/ n >= Len(nal) THEN -1 ELSE nal[n + 1] % 32

\* The types of its first eight units; what follows the header byte is searched.
NextType(raw, s) ==
  LET at == s.pos + start_code_length(raw, s.pos)
  IN  IF s.pos < 0 \/ at >= Len(raw) THEN [s EXCEPT !.pos = -1]
      ELSE [pos |-> find_start_code(raw, at + 1), types |-> Append(s.types, raw[at + 1] % 32)]

annexb_nal_types(raw) ==
  LET turn[k \in 0 .. 8] ==
        IF k = 0 THEN [pos |-> find_start_code(raw, 0), types |-> <<>>] ELSE NextType(raw, turn[k - 1])
  IN  turn[8].types

-----------------------------------------------------------------------------
\* int.from_bytes, and bits read one after the other
Number(s, base) ==
  LET value[k \in 0 .. Len(s)] == IF k = 0 THEN 0 ELSE base * value[k - 1] + s[k]
  IN  value[Len(s)]

BigEndian(s) == Number(s, 256)

\* A unit with its length before it in w bytes; -1 when it is empty or too long.
TakeUnit(raw, w, s) ==
  LET from == s.at + w
      n == BigEndian(Slice(raw, s.at, from))
  IN  IF s.at >= 0 /\ from <= Len(raw) /\ n > 0 /\ from + n <= Len(raw)
      THEN [at |-> from + n, out |-> s.out \o StartCode4 \o Slice(raw, from, from + n)]
      ELSE [s EXCEPT !.at = -1]

\* As long as there is room for a length.
TakePrefixed(raw, w, s) == IF s.at + w > Len(raw) THEN s ELSE TakeUnit(raw, w, s)

Prefixed(raw, w) ==
  LET turn[k \in 0 .. Len(raw)] ==
        IF k = 0 THEN [at |-> 0, out |-> <<>>] ELSE TakePrefixed(raw, w, turn[k - 1])
  IN  turn[Len(raw)]

length_prefixed_to_annexb(raw, w) ==
  LET end == Prefixed(raw, w)
  IN  IF is_annexb(raw) \/ end.at # Len(raw) \/ end.out = <<>> THEN raw ELSE end.out

\* count units from offset on
Counted(raw, offset, count) ==
  LET turn[k \in 0 .. count] ==
        IF k = 0 THEN [at |-> offset, out |-> <<>>] ELSE TakeUnit(raw, 2, turn[k - 1])
  IN  turn[count]

avcc_config_to_annexb(raw) ==
  LET sps == Counted(raw, 6, raw[6] % 32)
      pps == Counted(raw, sps.at + 1, raw[sps.at + 1])
      out == sps.out \o pps.out
  IN  IF Len(raw) < 7 \/ raw[1] # 1 THEN raw
      ELSE IF sps.at < 0 \/ sps.at >= Len(raw) THEN raw
      ELSE IF pps.at # Len(raw) \/ out = <<>> THEN raw
      ELSE out

\* AVCC configuration, then four and two length bytes, then a bare NAL unit.
normalize_h264_payload(raw) ==
  LET avcc == avcc_config_to_annexb(raw)
      four == length_prefixed_to_annexb(raw, 4)
      two == length_prefixed_to_annexb(raw, 2)
  IN  IF raw = <<>> \/ is_annexb(raw) THEN raw
      ELSE IF avcc # raw THEN avcc
      ELSE IF four # raw THEN four
      ELSE IF two # raw THEN two
      ELSE IF raw[1] % 32 \in {1, 5, 6, 7, 8, 9} THEN StartCode4 \o raw
      ELSE raw

-----------------------------------------------------------------------------
\* x >> k, and the last n bits of x
Halves(x) ==
  LET half[k \in Nat] == IF k = 0 THEN x ELSE half[k - 1] \div 2
  IN  half

Digits(x, n) == [i \in 1 .. n |-> Halves(x)[n - i] % 2]

\* Faulty: emulation prevention bytes are read like all others.
ReadEveryByte(b, s) ==
  [zeros |-> IF b = 0 THEN s.zeros + 1 ELSE 0, bits |-> s.bits \o Digits(b, 8)]
\* The bits of a slice without its emulation prevention bytes.  The count of
\* zeros survives such a byte.
ReadByte(b, s) ==
  IF s.zeros >= 2 /\ b = 3 THEN s
  ELSE [zeros |-> IF b = 0 THEN s.zeros + 1 ELSE 0, bits |-> s.bits \o Digits(b, 8)]

Unescaped(bytes) ==
  LET turn[k \in 0 .. Len(bytes)] ==
        IF k = 0 THEN [zeros |-> 0, bits |-> <<>>] ELSE ReadByte(bytes[k], turn[k - 1])
  IN  turn[Len(bytes)].bits

FirstMbScanBytes == 4096

\* The first Exp-Golomb number after the header of a slice, -1 for none: as many
\* bits as there were zeros follow the first one.
first_mb_in_slice(nal) ==
  LET n == start_code_length(nal, 0)
      bits == Unescaped(Slice(nal, n + 1, n + 1 + FirstMbScanBytes))
      zeros == Lowest({i \in 0 .. Len(bits) - 1 : bits[i + 1] = 1})
  IN  IF nal_type(nal) \notin {1, 5} \/ n + 1 >= Len(nal) THEN -1
      ELSE IF \A i \in DOMAIN bits : bits[i] = 0 THEN -1
      ELSE IF Len(bits) < 2 * zeros + 1 THEN -1
      ELSE Number(SubSeq(bits, zeros + 1, 2 * zeros + 1), 2) - 1

is_first_vcl_nal(nal) == first_mb_in_slice(nal) = 0

-----------------------------------------------------------------------------
(***************************************************************************)
(* Properties                                                              *)
(***************************************************************************)
\* What is normalised is Annex-B or left alone, and normalising again does
\* nothing more.
NormalizeStable ==
  LET once == normalize_h264_payload(fed)
  IN  normalize_h264_payload(once) = once /\ (once # fed => is_annexb(once))

\* A NAL unit of a slice that begins with a given number, as the standard has
\* it: zeros, the number plus one in binary, padding; 00 00 never before a
\* byte below 4.
FirstMbLimit == 3 * 2097152 - 1

Width(x) == Lowest({k \in 0 .. 23 : Halves(x)[k] = 0})

SliceBits(v) ==
  LET n == Width(v + 1)
  IN  [i \in 1 .. n - 1 |-> 0] \o Digits(v + 1, n) \o [i \in 1 .. 8 |-> 0]

SliceBytes(v) ==
  LET bits == SliceBits(v)
  IN  [i \in 1 .. Len(bits) \div 8 |-> Number(SubSeq(bits, 8 * i - 7, 8 * i), 2)]

WriteByte(b, s) ==
  LET due == s.zeros = 2 /\ b <= 3
  IN  [zeros |-> IF b # 0 THEN 0 ELSE IF due THEN 1 ELSE s.zeros + 1,
       out |-> s.out \o (IF due THEN <<3, b>> ELSE <<b>>)]

Escaped(bytes) ==
  LET turn[k \in 0 .. Len(bytes)] ==
        IF k = 0 THEN [zeros |-> 0, out |-> <<>>] ELSE WriteByte(bytes[k], turn[k - 1])
  IN  turn[Len(bytes)].out

\* Pictures are told apart by the number their slices begin with, which
\* first_mb_in_slice reads through the emulation prevention bytes: here the
\* numbers that the bytes of the stream spell, and 64 times these.  A frame has
\* 139264 macroblocks at most; from FirstMbLimit on a 3 may follow the zeros,
\* and first_mb_in_slice would take it for a prevention byte as well.
FirstMbDecodes ==
  Len(fed) \in 1 .. 3 => \A v \in {BigEndian(fed), 64 * BigEndian(fed)} :
    v < FirstMbLimit => first_mb_in_slice(StartCode3 \o <<5>> \o Escaped(SliceBytes(v))) = v

\* A length before each unit becomes a start code, for units of 2 bytes or
\* more (the lengths 1 and 256 to 511 look like start codes themselves).
LengthsBecomeStartCodes ==
  Len(fed) > 1 =>
    /\ normalize_h264_payload(<<0, 0, 0, Len(fed)>> \o fed \o <<0, 0, 0, 2, 7, 7>>)
         = StartCode4 \o fed \o StartCode4 \o <<7, 7>>
    /\ avcc_config_to_annexb(<<1, 0, 0, 0, 0, 225, 0, Len(fed)>> \o fed \o <<1, 0, 2, 7, 7>>)
         = StartCode4 \o fed \o StartCode4 \o <<7, 7>>

\* The functions on payloads agree with what the formats say.
PayloadsExact == NormalizeStable /\ FirstMbDecodes /\ LengthsBecomeStartCodes
=============================================================================
