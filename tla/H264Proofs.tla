----------------------------- MODULE H264Proofs -----------------------------
(***************************************************************************)
(* Proofs about app/h264.py, for every byte string.  The parser of the     *)
(* stream: in whatever pieces the bytes come, its units are those of the   *)
(* whole.  The functions on payloads: what they convert is Annex-B and     *)
(* stays as it is, lengths become start codes, and the number at the       *)
(* beginning of a slice is read through emulation prevention.              *)
(***************************************************************************)
EXTENDS H264Payloads, FiniteSetTheorems, SequenceTheorems, WellFoundedInduction, TLAPS

(* Induction without an operator parameter: over a set of naturals. *)

\* A set of naturals that has an element has a least one.
LEMMA LeastNatural ==
  ASSUME NEW T, T \subseteq Nat, T # {}
  PROVE  \E m \in T : \A k \in T : m <= k
<1>1. IsWellFoundedOn(OpToRel(<, Nat), Nat)
  BY NatLessThanWellFounded
<1>2. PICK m \in T : \A k \in T : ~ (<<k, m>> \in OpToRel(<, Nat))
  BY <1>1, WFMin
<1>3. \A k \in T : ~(k < m)
  BY <1>2 DEF OpToRel
<1> QED BY <1>3

\* What holds of 0 and of the successors of what it holds of holds of every natural.
LEMMA NaturalInduction ==
  ASSUME NEW T, 0 \in T, \A n \in Nat : n \in T => n + 1 \in T
  PROVE  \A n \in Nat : n \in T
<1> DEFINE Out == Nat \ T
<1> SUFFICES ASSUME Out # {} PROVE FALSE OBVIOUS
<1>1. PICK m \in Out : \A k \in Out : m <= k BY LeastNatural
<1>2. m \in Nat /\ m # 0 /\ m - 1 \in Nat OBVIOUS
<1>3. m - 1 \in T BY <1>1, <1>2
<1>4. (m - 1) + 1 \in T BY <1>2, <1>3
<1> QED BY <1>2, <1>4

\* f is built from zero by n steps.
BuiltBy(f, n, zero, step) == f[0] = zero /\ \A i \in 1..n : f[i] = step[<<i, f[i - 1]>>]

\* A function that is defined by recursion over a segment of the naturals exists.
LEMMA RecursionExists ==
  ASSUME NEW S, NEW zero \in S, NEW step \in [Nat \X S -> S]
  PROVE  \A n \in Nat : \E f \in [0..n -> S] : BuiltBy(f, n, zero, step)
<1> DEFINE Good(n, f) == f[0] = zero /\ \A i \in 1..n : f[i] = step[<<i, f[i - 1]>>]
<1> DEFINE T == {n \in Nat : \E f \in [0..n -> S] : Good(n, f)}
<1>1. 0 \in T
  <2>1. [i \in 0..0 |-> zero] \in [0..0 -> S] /\ Good(0, [i \in 0..0 |-> zero]) OBVIOUS
  <2> QED BY <2>1
<1>2. ASSUME NEW n \in Nat, n \in T PROVE n + 1 \in T
  <2>1. PICK f \in [0..n -> S] : Good(n, f) BY <1>2
  <2> DEFINE g == [i \in 0..(n + 1) |-> IF i = n + 1 THEN step[<<n + 1, f[n]>>] ELSE f[i]]
  <2>2. step[<<n + 1, f[n]>>] \in S OBVIOUS
  <2>3. g \in [0..(n + 1) -> S] BY <2>2
  <2>4. g[0] = zero BY <2>1
  <2>5. ASSUME NEW i \in 1..(n + 1) PROVE g[i] = step[<<i, g[i - 1]>>]
    <3>1. i - 1 \in 0..n /\ g[i - 1] = f[i - 1] OBVIOUS
    <3>2. CASE i = n + 1
      <4>1. i - 1 = n /\ g[i] = step[<<n + 1, f[n]>>] BY <3>2
      <4> QED BY <3>1, <3>2, <4>1
    <3>3. CASE i # n + 1
      <4>1. i \in 1..n /\ g[i] = f[i] BY <3>3
      <4> QED BY <2>1, <3>1, <4>1
    <3> QED BY <3>2, <3>3
  <2>6. Good(n + 1, g) BY <2>4, <2>5
  <2> HIDE DEF g, Good
  <2> QED BY <2>3, <2>6
<1>3. \A n \in Nat : n \in T BY <1>1, <1>2, NaturalInduction
<1> QED BY <1>3 DEF BuiltBy

-----------------------------------------------------------------------------
(* The parser of the byte stream: where the start codes of a byte string are. *)

Octets == Seq(Nat)

\* The three bytes of a start code are at a position.
Hit(s, i) == i + 3 <= Len(s) /\ s[i + 1] = 0 /\ s[i + 2] = 0 /\ s[i + 3] = 1

NoHit(s, b) == \A i \in Nat : i >= b => ~Hit(s, i)
FirstHit(s, b, h) == Hit(s, h) /\ h >= b /\ \A i \in Nat : i >= b /\ i < h => ~Hit(s, i)

\* Where the start code of a hit begins, for who searches from b on.
CodeOf(s, b, h) == IF h > b /\ s[h] = 0 THEN h - 1 ELSE h

\* The start code of a hit may be read from a position on.
CodePos(s, p, h) == p \in Nat /\ h \in Nat /\ Hit(s, h) /\ (p = h \/ (p = h - 1 /\ s[h] = 0))

LEMMA SliceFacts ==
  ASSUME NEW s \in Octets, NEW i \in Nat, NEW j \in Nat, i <= j, j <= Len(s)
  PROVE  /\ Slice(s, i, j) \in Octets /\ Len(Slice(s, i, j)) = j - i
         /\ \A k \in 1..(j - i) : Slice(s, i, j)[k] = s[i + k]
<1>1. Slice(s, i, j) = SubSeq(s, i + 1, j) BY DEF Slice
<1>2. Len(s) \in Nat BY DEF Octets
<1>3. CASE i = j
  <2>1. SubSeq(s, i + 1, j) = <<>> BY <1>3 DEF Octets
  <2> QED BY <1>1, <1>3, <2>1 DEF Octets
<1>4. CASE i # j
  <2>1. i + 1 \in 1..Len(s) /\ j \in (i + 1)..Len(s) BY <1>2, <1>4
  <2>2. SubSeq(s, i + 1, j) \in Seq(Nat) /\ Len(SubSeq(s, i + 1, j)) = j - (i + 1) + 1
    BY <2>1, SubSeqProperties DEF Octets
  <2>3. \A k \in 1..(j - (i + 1) + 1) : SubSeq(s, i + 1, j)[k] = s[(i + 1) + k - 1]
    BY <2>1, SubSeqProperties DEF Octets
  <2>4. j - (i + 1) + 1 = j - i OBVIOUS
  <2>5. \A k \in 1..(j - i) : SubSeq(s, i + 1, j)[k] = s[i + k]
    <3> SUFFICES ASSUME NEW k \in 1..(j - i) PROVE SubSeq(s, i + 1, j)[k] = s[i + k] OBVIOUS
    <3>1. (i + 1) + k - 1 = i + k OBVIOUS
    <3> QED BY <2>3, <2>4, <3>1
  <2> QED BY <1>1, <2>2, <2>4, <2>5 DEF Octets
<1> QED BY <1>3, <1>4

LEMMA DropFacts ==
  ASSUME NEW s \in Octets, NEW o \in Nat, o <= Len(s)
  PROVE  /\ Drop(s, o) \in Octets /\ Len(Drop(s, o)) = Len(s) - o
         /\ \A k \in 1..(Len(s) - o) : Drop(s, o)[k] = s[o + k]
<1>1. Len(s) \in Nat /\ Len(s) <= Len(s) BY DEF Octets
<1> QED BY <1>1, SliceFacts DEF Drop

\* Two byte strings with the same bytes are the same.
LEMMA SameBytes ==
  ASSUME NEW s \in Octets, NEW t \in Octets, Len(s) = Len(t), \A k \in 1..Len(s) : s[k] = t[k]
  PROVE  s = t
BY SeqEqual DEF Octets

LEMMA IsShortCode ==
  ASSUME NEW s \in Octets, NEW i \in Nat
  PROVE  (Slice(s, i, i + 3) = StartCode3) <=> Hit(s, i)
<1>1. Len(s) \in Nat BY DEF Octets
<1>2. CASE i + 3 <= Len(s)
  <2> DEFINE u == Slice(s, i, i + 3)
  <2>1. u \in Octets /\ Len(u) = 3 /\ \A k \in 1..3 : u[k] = s[i + k]
    <3> DEFINE j == i + 3
    <3>1. j \in Nat /\ i <= j /\ j - i = 3 /\ j <= Len(s) BY <1>2
    <3> HIDE DEF j
    <3>2. /\ Slice(s, i, j) \in Octets /\ Len(Slice(s, i, j)) = j - i
          /\ \A k \in 1..(j - i) : Slice(s, i, j)[k] = s[i + k]
      BY <3>1, SliceFacts
    <3> QED BY <3>1, <3>2 DEF j
  <2>2. u[1] = s[i + 1] /\ u[2] = s[i + 2] /\ u[3] = s[i + 3] BY <2>1
  <2>3. StartCode3 \in Octets /\ Len(StartCode3) = 3 /\ StartCode3[1] = 0 /\ StartCode3[2] = 0 /\ StartCode3[3] = 1
    BY DEF StartCode3, Octets
  <2> HIDE DEF u
  <2>4. ASSUME Hit(s, i) PROVE u = StartCode3
    <3>1. u[1] = 0 /\ u[2] = 0 /\ u[3] = 1 BY <2>2, <2>4 DEF Hit
    <3>2. \A k \in 1..Len(u) : u[k] = StartCode3[k]
      <4> SUFFICES ASSUME NEW k \in 1..3 PROVE u[k] = StartCode3[k] BY <2>1
      <4>1. k = 1 \/ k = 2 \/ k = 3 OBVIOUS
      <4> QED BY <2>3, <3>1, <4>1
    <3> QED BY <2>1, <2>3, <3>2, SameBytes
  <2>5. ASSUME u = StartCode3 PROVE Hit(s, i) BY <1>2, <2>2, <2>3, <2>5 DEF Hit
  <2> QED BY <2>4, <2>5 DEF u
<1>3. CASE ~(i + 3 <= Len(s))
  <2>1. ~Hit(s, i) BY <1>3 DEF Hit
  <2>2. Slice(s, i, i + 3) = SubSeq(s, i + 1, Len(s)) BY <1>1, <1>3 DEF Slice
  <2>3. Len(StartCode3) = 3 BY DEF StartCode3
  <2> DEFINE u == SubSeq(s, i + 1, Len(s))
  <2>4. Len(SubSeq(s, i + 1, Len(s))) < 3
    <3>1. CASE i + 1 <= Len(s)
      <4>1. Len(SubSeq(s, i + 1, Len(s))) = Len(s) - (i + 1) + 1
        BY <1>1, <3>1, SubSeqProperties DEF Octets
      <4> QED BY <1>1, <1>3, <4>1
    <3>2. CASE ~(i + 1 <= Len(s))
      <4>1. SubSeq(s, i + 1, Len(s)) = <<>> BY <1>1, <3>2 DEF Octets
      <4>2. Len(<<>>) = 0 OBVIOUS
      <4>3. Len(SubSeq(s, i + 1, Len(s))) = 0 BY <4>1, <4>2
      <4> QED BY <4>3
    <3> QED BY <3>1, <3>2
  <2> HIDE DEF u
  <2>5. ASSUME Slice(s, i, i + 3) = u, u = StartCode3 PROVE FALSE
    <3>1. Len(u) < 3 BY <2>4 DEF u
    <3>2. Len(u) = 3 BY <2>3, <2>5
    <3> QED BY <3>1, <3>2
  <2> QED BY <2>1, <2>2, <2>5 DEF u
<1> QED BY <1>2, <1>3

LEMMA IsLongCode ==
  ASSUME NEW s \in Octets, NEW i \in Nat
  PROVE  (Slice(s, i, i + 4) = StartCode4) <=> (Hit(s, i + 1) /\ s[i + 1] = 0)
<1>1. Len(s) \in Nat BY DEF Octets
<1>2. CASE i + 4 <= Len(s)
  <2> DEFINE u == Slice(s, i, i + 4)
  <2>1. u \in Octets /\ Len(u) = 4 /\ \A k \in 1..4 : u[k] = s[i + k]
    <3> DEFINE j == i + 4
    <3>1. j \in Nat /\ i <= j /\ j - i = 4 /\ j <= Len(s) BY <1>2
    <3> HIDE DEF j
    <3>2. /\ Slice(s, i, j) \in Octets /\ Len(Slice(s, i, j)) = j - i
          /\ \A k \in 1..(j - i) : Slice(s, i, j)[k] = s[i + k]
      BY <3>1, SliceFacts
    <3> QED BY <3>1, <3>2 DEF j
  <2>2. u[1] = s[i + 1] /\ u[2] = s[i + 2] /\ u[3] = s[i + 3] /\ u[4] = s[i + 4] BY <2>1
  <2>3. /\ StartCode4 \in Octets /\ Len(StartCode4) = 4 /\ StartCode4[1] = 0 /\ StartCode4[2] = 0
        /\ StartCode4[3] = 0 /\ StartCode4[4] = 1
    BY DEF StartCode4, Octets
  <2> HIDE DEF u
  <2>6. Hit(s, i + 1) <=> s[i + 2] = 0 /\ s[i + 3] = 0 /\ s[i + 4] = 1
    <3>1. (i + 1) + 1 = i + 2 /\ (i + 1) + 2 = i + 3 /\ (i + 1) + 3 = i + 4 OBVIOUS
    <3> QED BY <1>2, <3>1 DEF Hit
  <2>4. ASSUME Hit(s, i + 1), s[i + 1] = 0 PROVE u = StartCode4
    <3>1. u[1] = 0 /\ u[2] = 0 /\ u[3] = 0 /\ u[4] = 1 BY <2>2, <2>4, <2>6
    <3>2. \A k \in 1..Len(u) : u[k] = StartCode4[k]
      <4> SUFFICES ASSUME NEW k \in 1..4 PROVE u[k] = StartCode4[k] BY <2>1
      <4>1. k = 1 \/ k = 2 \/ k = 3 \/ k = 4 OBVIOUS
      <4> QED BY <2>3, <3>1, <4>1
    <3> QED BY <2>1, <2>3, <3>2, SameBytes
  <2>5. ASSUME u = StartCode4 PROVE Hit(s, i + 1) /\ s[i + 1] = 0 BY <2>2, <2>3, <2>5, <2>6
  <2> QED BY <2>4, <2>5 DEF u
<1>3. CASE ~(i + 4 <= Len(s))
  <2>1. ~Hit(s, i + 1) BY <1>1, <1>3 DEF Hit
  <2>2. Slice(s, i, i + 4) = SubSeq(s, i + 1, Len(s)) BY <1>1, <1>3 DEF Slice
  <2>3. Len(StartCode4) = 4 BY DEF StartCode4
  <2> DEFINE u == SubSeq(s, i + 1, Len(s))
  <2>4. Len(SubSeq(s, i + 1, Len(s))) < 4
    <3>1. CASE i + 1 <= Len(s)
      <4>1. Len(SubSeq(s, i + 1, Len(s))) = Len(s) - (i + 1) + 1
        BY <1>1, <3>1, SubSeqProperties DEF Octets
      <4> QED BY <1>1, <1>3, <4>1
    <3>2. CASE ~(i + 1 <= Len(s))
      <4>1. SubSeq(s, i + 1, Len(s)) = <<>> BY <1>1, <3>2 DEF Octets
      <4>2. Len(<<>>) = 0 OBVIOUS
      <4>3. Len(SubSeq(s, i + 1, Len(s))) = 0 BY <4>1, <4>2
      <4> QED BY <4>3
    <3> QED BY <3>1, <3>2
  <2> HIDE DEF u
  <2>5. ASSUME Slice(s, i, i + 4) = u, u = StartCode4 PROVE FALSE
    <3>1. Len(u) < 4 BY <2>4 DEF u
    <3>2. Len(u) = 4 BY <2>3, <2>5
    <3> QED BY <3>1, <3>2
  <2> QED BY <2>1, <2>2, <2>5 DEF u
<1> QED BY <1>2, <1>3

LEMMA CodeLength ==
  ASSUME NEW s \in Octets, NEW i \in Nat
  PROVE  start_code_length(s, i) = IF Hit(s, i) THEN 3
                                   ELSE IF Hit(s, i + 1) /\ s[i + 1] = 0 THEN 4 ELSE 0
BY IsShortCode, IsLongCode DEF start_code_length

\* Hits do not overlap, and a long code is no short one.
LEMMA HitsApart ==
  ASSUME NEW s \in Octets, NEW h \in Nat, NEW i \in Nat, Hit(s, h), Hit(s, i), i > h
  PROVE  i >= h + 3
<1>1. s[h + 3] = 1 BY DEF Hit
<1>2. s[i + 1] = 0 /\ s[i + 2] = 0 BY DEF Hit
<1>3. i # h + 1
  <2>1. SUFFICES ASSUME i = h + 1 PROVE FALSE OBVIOUS
  <2>2. i + 2 = h + 3 BY <2>1
  <2> QED BY <1>1, <1>2, <2>2
<1>4. i # h + 2
  <2>1. SUFFICES ASSUME i = h + 2 PROVE FALSE OBVIOUS
  <2>2. i + 1 = h + 3 BY <2>1
  <2> QED BY <1>1, <1>2, <2>2
<1> QED BY <1>3, <1>4

LEMMA CodeThere ==
  ASSUME NEW s \in Octets, NEW p, NEW h, CodePos(s, p, h)
  PROVE  /\ p \in Nat /\ h \in Nat /\ Hit(s, h) /\ p <= h /\ h <= p + 1 /\ h + 3 <= Len(s)
         /\ start_code_length(s, p) = h + 3 - p
<1>1. p \in Nat /\ h \in Nat /\ Hit(s, h) /\ p <= h /\ h <= p + 1 /\ h + 3 <= Len(s)
  BY DEF CodePos, Hit
<1>2. CASE p = h BY <1>1, <1>2, CodeLength
<1>3. CASE p = h - 1 /\ s[h] = 0
  <2>1. ~Hit(s, p) BY <1>1, <1>3, HitsApart
  <2>2. p + 1 = h BY <1>1, <1>3
  <2>3. start_code_length(s, p) = 4 BY <1>1, <1>3, <2>1, <2>2, CodeLength
  <2> QED BY <1>1, <1>3, <2>3
<1> QED BY <1>2, <1>3 DEF CodePos

\* From a position on there is no hit, or a first one.
LEMMA SomeHit ==
  ASSUME NEW s \in Octets, NEW b \in Nat
  PROVE  NoHit(s, b) \/ \E h \in Nat : FirstHit(s, b, h)
<1> SUFFICES ASSUME ~NoHit(s, b) PROVE \E h \in Nat : FirstHit(s, b, h) OBVIOUS
<1> DEFINE T == {i \in Nat : i >= b /\ Hit(s, i)}
<1>1. T \subseteq Nat /\ T # {} BY DEF NoHit
<1>2. PICK h \in T : \A i \in T : h <= i
  <2> HIDE DEF T
  <2> QED BY <1>1, LeastNatural
<1>3. FirstHit(s, b, h) BY <1>2 DEF FirstHit
<1> QED BY <1>2, <1>3

LEMMA FindNone ==
  ASSUME NEW s \in Octets, NEW b \in Nat, NoHit(s, b)
  PROVE  find_start_code(s, b) = -1
<1>1. {i \in b .. Len(s) - 3 : Slice(s, i, i + 3) = StartCode3} = {}
  <2> SUFFICES ASSUME NEW i \in b .. Len(s) - 3, Slice(s, i, i + 3) = StartCode3 PROVE FALSE OBVIOUS
  <2>1. Len(s) \in Nat BY DEF Octets
  <2>2. i \in Nat /\ i >= b BY <2>1
  <2>3. Hit(s, i) BY <2>2, IsShortCode
  <2> QED BY <2>2, <2>3 DEF NoHit
<1> QED BY <1>1 DEF find_start_code

LEMMA FindFirst ==
  ASSUME NEW s \in Octets, NEW b \in Nat, NEW h \in Nat, FirstHit(s, b, h)
  PROVE  find_start_code(s, b) = CodeOf(s, b, h)
<1> DEFINE hits == {i \in b .. Len(s) - 3 : Slice(s, i, i + 3) = StartCode3}
<1>1. Len(s) \in Nat BY DEF Octets
<1>2. h \in hits
  <2>1. Hit(s, h) /\ h >= b BY DEF FirstHit
  <2>2. h \in b .. Len(s) - 3 BY <1>1, <2>1 DEF Hit
  <2>3. Slice(s, h, h + 3) = StartCode3 BY <2>1, IsShortCode
  <2> QED BY <2>2, <2>3
<1>3. \A i \in hits : i \in Nat /\ h <= i
  <2> SUFFICES ASSUME NEW i \in hits PROVE i \in Nat /\ h <= i OBVIOUS
  <2>1. i \in Nat /\ i >= b BY <1>1
  <2>2. Hit(s, i) BY <2>1, IsShortCode
  <2> QED BY <2>1, <2>2 DEF FirstHit
<1>4. Lowest(hits) = h
  <2> DEFINE IsLow(x) == x \in hits /\ \A y \in hits : x <= y
  <2> HIDE DEF hits
  <2>1. IsLow(h) BY <1>2, <1>3
  <2>2. \A x : IsLow(x) => x = h
    <3> SUFFICES ASSUME NEW x, IsLow(x) PROVE x = h OBVIOUS
    <3>1. x \in Nat /\ h <= x /\ x <= h BY <1>2, <1>3
    <3> QED BY <3>1
  <2>3. Lowest(hits) = CHOOSE x : IsLow(x) BY DEF Lowest
  <2> HIDE DEF IsLow
  <2> QED BY <2>1, <2>2, <2>3
<1>5. hits # {} BY <1>2
<1>6. find_start_code(s, b) =
        IF hits = {} THEN -1
        ELSE IF Lowest(hits) > b /\ s[Lowest(hits)] = 0 THEN Lowest(hits) - 1 ELSE Lowest(hits)
  BY DEF find_start_code
<1> HIDE DEF hits
<1> QED BY <1>4, <1>5, <1>6 DEF CodeOf

\* What a search finds is the start code of the first hit.
LEMMA Found ==
  ASSUME NEW s \in Octets, NEW b \in Nat, NEW h \in Nat, FirstHit(s, b, h)
  PROVE  /\ find_start_code(s, b) = CodeOf(s, b, h)
         /\ CodePos(s, CodeOf(s, b, h), h) /\ CodeOf(s, b, h) >= b /\ CodeOf(s, b, h) \in Nat
<1>1. Hit(s, h) /\ h >= b BY DEF FirstHit
<1>2. CASE h > b /\ s[h] = 0
  <2>1. CodeOf(s, b, h) = h - 1 BY <1>2 DEF CodeOf
  <2>2. h - 1 \in Nat /\ h - 1 >= b BY <1>2
  <2> QED BY <1>1, <1>2, <2>1, <2>2, FindFirst DEF CodePos
<1>3. CASE ~(h > b /\ s[h] = 0)
  <2>1. CodeOf(s, b, h) = h BY <1>3 DEF CodeOf
  <2> QED BY <1>1, <2>1, FindFirst DEF CodePos
<1> QED BY <1>2, <1>3

\* A search finds nothing exactly if there is no hit.
LEMMA FindRange ==
  ASSUME NEW s \in Octets, NEW b \in Nat
  PROVE  /\ find_start_code(s, b) \in Nat \cup {-1}
         /\ find_start_code(s, b) < 0 <=> NoHit(s, b)
         /\ find_start_code(s, b) >= 0 =>
              \E h \in Nat : FirstHit(s, b, h) /\ find_start_code(s, b) = CodeOf(s, b, h)
<1>1. CASE NoHit(s, b) BY <1>1, FindNone
<1>2. ASSUME NEW h \in Nat, FirstHit(s, b, h) PROVE
        find_start_code(s, b) \in Nat /\ find_start_code(s, b) = CodeOf(s, b, h) /\ ~NoHit(s, b)
  BY <1>2, Found DEF FirstHit, NoHit
<1> QED BY <1>1, <1>2, SomeHit

(* Parts of a byte string, and what a byte string becomes when more arrives. *)

LEMMA JoinFacts ==
  ASSUME NEW s \in Octets, NEW d \in Octets
  PROVE  /\ s \o d \in Octets /\ Len(s \o d) = Len(s) + Len(d)
         /\ \A k \in 1..Len(s) : (s \o d)[k] = s[k]
         /\ \A k \in 1..Len(d) : (s \o d)[Len(s) + k] = d[k]
<1>1. s \o d \in Seq(Nat) BY DEF Octets
<1>2. Len(s \o d) = Len(s) + Len(d) BY DEF Octets
<1>3. \A k \in 1..Len(s) : (s \o d)[k] = s[k] BY DEF Octets
<1>4. \A k \in 1..Len(d) : (s \o d)[Len(s) + k] = d[k] BY DEF Octets
<1> QED BY <1>1, <1>2, <1>3, <1>4 DEF Octets

LEMMA LenNat ==
  ASSUME NEW s \in Octets
  PROVE  Len(s) \in Nat
BY DEF Octets

LEMMA HitInDrop ==
  ASSUME NEW s \in Octets, NEW o \in Nat, o <= Len(s), NEW i \in Nat
  PROVE  Hit(Drop(s, o), i) <=> Hit(s, o + i)
<1> DEFINE t == Drop(s, o)
<1>1. Len(s) \in Nat BY LenNat
<1>2. t \in Octets /\ Len(t) = Len(s) - o /\ \A k \in 1..(Len(s) - o) : t[k] = s[o + k]
  BY DropFacts
<1> HIDE DEF t
<1>3. i + 3 <= Len(t) <=> (o + i) + 3 <= Len(s) BY <1>1, <1>2
<1>4. ASSUME i + 3 <= Len(t)
      PROVE  t[i + 1] = s[(o + i) + 1] /\ t[i + 2] = s[(o + i) + 2] /\ t[i + 3] = s[(o + i) + 3]
  <2>1. i + 1 \in 1..(Len(s) - o) /\ i + 2 \in 1..(Len(s) - o) /\ i + 3 \in 1..(Len(s) - o)
    BY <1>1, <1>2, <1>4
  <2>2. o + (i + 1) = (o + i) + 1 /\ o + (i + 2) = (o + i) + 2 /\ o + (i + 3) = (o + i) + 3 OBVIOUS
  <2> QED BY <1>2, <2>1, <2>2
<1>5. Hit(t, i) <=> Hit(s, o + i) BY <1>3, <1>4 DEF Hit
<1> QED BY <1>5 DEF t

LEMMA HitAppend ==
  ASSUME NEW s \in Octets, NEW d \in Octets, NEW i \in Nat
  PROVE  /\ Hit(s, i) => Hit(s \o d, i)
         /\ Hit(s \o d, i) /\ i + 3 <= Len(s) => Hit(s, i)
<1>1. Len(s) \in Nat /\ Len(d) \in Nat BY LenNat
<1>2. Len(s \o d) = Len(s) + Len(d) /\ \A k \in 1..Len(s) : (s \o d)[k] = s[k] BY JoinFacts
<1>3. ASSUME i + 3 <= Len(s)
      PROVE  /\ (s \o d)[i + 1] = s[i + 1] /\ (s \o d)[i + 2] = s[i + 2] /\ (s \o d)[i + 3] = s[i + 3]
             /\ i + 3 <= Len(s \o d)
  <2>1. i + 1 \in 1..Len(s) /\ i + 2 \in 1..Len(s) /\ i + 3 \in 1..Len(s) BY <1>1, <1>3
  <2> QED BY <1>1, <1>2, <1>3, <2>1
<1> QED BY <1>3 DEF Hit

LEMMA NoHitInDrop ==
  ASSUME NEW s \in Octets, NEW o \in Nat, o <= Len(s), NEW b \in Nat
  PROVE  NoHit(Drop(s, o), b) <=> NoHit(s, o + b)
<1>1. ASSUME NoHit(Drop(s, o), b), NEW i \in Nat, i >= o + b PROVE ~Hit(s, i)
  <2>1. i - o \in Nat /\ i - o >= b /\ o + (i - o) = i BY <1>1
  <2>2. ~Hit(Drop(s, o), i - o) BY <1>1, <2>1 DEF NoHit
  <2>3. Hit(Drop(s, o), i - o) <=> Hit(s, o + (i - o)) BY <2>1, HitInDrop
  <2> QED BY <2>1, <2>2, <2>3
<1>2. ASSUME NoHit(s, o + b), NEW i \in Nat, i >= b PROVE ~Hit(Drop(s, o), i)
  <2>1. o + i \in Nat /\ o + i >= o + b BY <1>2
  <2>2. ~Hit(s, o + i) BY <1>2, <2>1 DEF NoHit
  <2> QED BY <2>2, HitInDrop
<1> QED BY <1>1, <1>2 DEF NoHit

LEMMA FirstInDrop ==
  ASSUME NEW s \in Octets, NEW o \in Nat, o <= Len(s), NEW b \in Nat, NEW h \in Nat,
         FirstHit(s, o + b, h)
  PROVE  h - o \in Nat /\ FirstHit(Drop(s, o), b, h - o) /\ CodeOf(Drop(s, o), b, h - o) = CodeOf(s, o + b, h) - o
<1> DEFINE t == Drop(s, o)
<1>1. Hit(s, h) /\ h >= o + b /\ \A i \in Nat : i >= o + b /\ i < h => ~Hit(s, i) BY DEF FirstHit
<1>2. h - o \in Nat /\ h - o >= b /\ o + (h - o) = h BY <1>1
<1>3. \A i \in Nat : Hit(t, i) <=> Hit(s, o + i) BY HitInDrop
<1>4. \A k \in 1..(Len(s) - o) : t[k] = s[o + k] BY DropFacts
<1> HIDE DEF t
<1>5. Hit(t, h - o) BY <1>1, <1>2, <1>3
<1>6. ASSUME NEW i \in Nat, i >= b, i < h - o PROVE ~Hit(t, i)
  <2>1. o + i \in Nat /\ o + i >= o + b /\ o + i < h BY <1>2, <1>6
  <2> QED BY <1>1, <1>3, <2>1
<1>7. FirstHit(t, b, h - o) BY <1>2, <1>5, <1>6 DEF FirstHit
<1>8. CodeOf(t, b, h - o) = CodeOf(s, o + b, h) - o
  <2>1. h - o > b <=> h > o + b BY <1>2
  <2>2. CASE h - o > b
    <3>1. Len(s) \in Nat /\ h + 3 <= Len(s) BY <1>1, LenNat DEF Hit
    <3>2. h - o \in 1..(Len(s) - o) BY <1>2, <2>2, <3>1
    <3>3. t[h - o] = s[h] BY <1>2, <1>4, <3>2
    <3>4. CASE s[h] = 0
      <4>1. CodeOf(t, b, h - o) = (h - o) - 1 BY <2>2, <3>3, <3>4 DEF CodeOf
      <4>2. CodeOf(s, o + b, h) = h - 1 BY <2>1, <2>2, <3>4 DEF CodeOf
      <4> QED BY <4>1, <4>2
    <3>5. CASE s[h] # 0 BY <3>3, <3>5 DEF CodeOf
    <3> QED BY <3>4, <3>5
  <2>3. CASE ~(h - o > b) BY <2>1, <2>3 DEF CodeOf
  <2> QED BY <2>2, <2>3
<1> QED BY <1>2, <1>7, <1>8 DEF t

\* A search in the rest of a byte string is one in the whole from there on.
LEMMA FindInDrop ==
  ASSUME NEW s \in Octets, NEW o \in Nat, o <= Len(s), NEW b \in Nat
  PROVE  find_start_code(Drop(s, o), b) =
           IF find_start_code(s, o + b) < 0 THEN -1 ELSE find_start_code(s, o + b) - o
<1>1. Drop(s, o) \in Octets BY DropFacts
<1>2. o + b \in Nat OBVIOUS
<1>3. CASE NoHit(s, o + b)
  <2>1. NoHit(Drop(s, o), b) BY <1>3, NoHitInDrop
  <2>2. find_start_code(Drop(s, o), b) = -1 BY <1>1, <2>1, FindNone
  <2>3. find_start_code(s, o + b) = -1 BY <1>2, <1>3, FindNone
  <2> QED BY <2>2, <2>3
<1>4. ASSUME NEW h \in Nat, FirstHit(s, o + b, h)
      PROVE  find_start_code(Drop(s, o), b) =
               IF find_start_code(s, o + b) < 0 THEN -1 ELSE find_start_code(s, o + b) - o
  <2>1. /\ h - o \in Nat /\ FirstHit(Drop(s, o), b, h - o)
        /\ CodeOf(Drop(s, o), b, h - o) = CodeOf(s, o + b, h) - o
    BY <1>4, FirstInDrop
  <2>2. find_start_code(Drop(s, o), b) = CodeOf(Drop(s, o), b, h - o) BY <1>1, <2>1, Found
  <2>3. find_start_code(s, o + b) = CodeOf(s, o + b, h) /\ CodeOf(s, o + b, h) \in Nat
    BY <1>2, <1>4, Found
  <2> QED BY <2>1, <2>2, <2>3
<1> QED BY <1>2, <1>3, <1>4, SomeHit

LEMMA CodePosInDrop ==
  ASSUME NEW s \in Octets, NEW o, NEW h, CodePos(s, o, h)
  PROVE  /\ o \in Nat /\ o <= Len(s) /\ start_code_length(Drop(s, o), 0) = h + 3 - o
         /\ find_start_code(Drop(s, o), 0) = 0
<1>1. /\ o \in Nat /\ h \in Nat /\ Hit(s, h) /\ o <= h /\ h <= o + 1 /\ h + 3 <= Len(s)
      /\ start_code_length(s, o) = h + 3 - o
  BY CodeThere
<1>2. Len(s) \in Nat /\ o <= Len(s) BY <1>1, LenNat
<1> DEFINE t == Drop(s, o)
<1>3. t \in Octets /\ \A k \in 1..(Len(s) - o) : t[k] = s[o + k] BY <1>1, <1>2, DropFacts
<1>4. \A i \in Nat : Hit(t, i) <=> Hit(s, o + i) BY <1>1, <1>2, HitInDrop
<1>5. t[1] = s[o + 1]
  <2>1. 1 \in 1..(Len(s) - o) BY <1>1, <1>2
  <2> QED BY <1>3, <2>1
<1> HIDE DEF t
<1>6. (Hit(t, 0) <=> Hit(s, o)) /\ (Hit(t, 1) <=> Hit(s, o + 1))
  <2>1. 0 \in Nat /\ 1 \in Nat /\ o + 0 = o BY <1>1
  <2>2. Hit(t, 0) <=> Hit(s, o + 0) BY <1>4, <2>1
  <2> QED BY <1>4, <2>1, <2>2
<1>7. start_code_length(t, 0) = IF Hit(t, 0) THEN 3 ELSE IF Hit(t, 0 + 1) /\ t[0 + 1] = 0 THEN 4 ELSE 0
  BY <1>3, CodeLength
<1>8. start_code_length(s, o) = IF Hit(s, o) THEN 3 ELSE IF Hit(s, o + 1) /\ s[o + 1] = 0 THEN 4 ELSE 0
  BY <1>1, CodeLength
<1>9. start_code_length(t, 0) = h + 3 - o
  <2>1. 0 + 1 = 1 OBVIOUS
  <2> QED BY <1>1, <1>5, <1>6, <1>7, <1>8, <2>1
<1>10. find_start_code(t, 0) = 0
  <2>1. CASE o = h
    <3>1. FirstHit(t, 0, 0) BY <1>1, <1>6, <2>1 DEF FirstHit
    <3>2. find_start_code(t, 0) = CodeOf(t, 0, 0) BY <1>3, <3>1, FindFirst
    <3> QED BY <3>2 DEF CodeOf
  <2>2. CASE o = h - 1 /\ s[h] = 0
    <3>1. ~Hit(s, o) BY <1>1, <2>2, HitsApart
    <3>2. o + 1 = h BY <1>1, <2>2
    <3>3. Hit(t, 1) /\ ~Hit(t, 0) BY <1>1, <1>6, <3>1, <3>2
    <3>4. FirstHit(t, 0, 1)
      <4>1. \A i \in Nat : i >= 0 /\ i < 1 => i = 0 OBVIOUS
      <4> QED BY <3>3, <4>1 DEF FirstHit
    <3>5. find_start_code(t, 0) = CodeOf(t, 0, 1) BY <1>3, <3>4, FindFirst
    <3>6. t[1] = 0 BY <1>5, <2>2, <3>2
    <3>7. CodeOf(t, 0, 1) = 0 BY <3>6 DEF CodeOf
    <3> QED BY <3>5, <3>7
  <2> QED BY <1>1, <2>1, <2>2 DEF CodePos
<1> QED BY <1>1, <1>2, <1>9, <1>10 DEF t

LEMMA DropDrop ==
  ASSUME NEW s \in Octets, NEW o \in Nat, NEW n \in Nat, o + n <= Len(s)
  PROVE  Drop(Drop(s, o), n) = Drop(s, o + n)
<1>1. Len(s) \in Nat /\ o <= Len(s) /\ o + n \in Nat BY LenNat
<1> DEFINE t == Drop(s, o)
<1>2. t \in Octets /\ Len(t) = Len(s) - o /\ \A k \in 1..(Len(s) - o) : t[k] = s[o + k]
  BY <1>1, DropFacts
<1> HIDE DEF t
<1> DEFINE u == Drop(t, n)
           v == Drop(s, o + n)
<1>3. u \in Octets /\ Len(u) = Len(t) - n /\ \A k \in 1..(Len(t) - n) : u[k] = t[n + k]
  <2>1. n <= Len(t) BY <1>1, <1>2
  <2> QED BY <1>2, <2>1, DropFacts
<1>4. v \in Octets /\ Len(v) = Len(s) - (o + n) /\ \A k \in 1..(Len(s) - (o + n)) : v[k] = s[(o + n) + k]
  BY <1>1, DropFacts
<1> HIDE DEF u, v
<1>5. Len(u) = Len(v) BY <1>1, <1>2, <1>3, <1>4
<1>6. ASSUME NEW k \in 1..Len(u) PROVE u[k] = v[k]
  <2>1. n + k \in 1..(Len(s) - o) /\ k \in 1..(Len(t) - n) /\ k \in 1..(Len(s) - (o + n))
    BY <1>1, <1>2, <1>3, <1>4, <1>6
  <2>2. o + (n + k) = (o + n) + k BY <2>1
  <2>3. u[k] = t[n + k] /\ t[n + k] = s[o + (n + k)] BY <1>2, <1>3, <2>1
  <2>4. v[k] = s[(o + n) + k] BY <1>4, <2>1
  <2> QED BY <2>2, <2>3, <2>4
<1>7. u = v BY <1>3, <1>4, <1>5, <1>6, SameBytes
<1> QED BY <1>7 DEF t, u, v

LEMMA SliceOfDrop ==
  ASSUME NEW s \in Octets, NEW o \in Nat, NEW i \in Nat, NEW j \in Nat, i <= j, o + j <= Len(s)
  PROVE  Slice(Drop(s, o), i, j) = Slice(s, o + i, o + j)
<1>1. Len(s) \in Nat /\ o <= Len(s) /\ o + i \in Nat /\ o + j \in Nat /\ o + i <= o + j
      /\ (o + j) - (o + i) = j - i
  BY LenNat
<1> DEFINE t == Drop(s, o)
<1>2. t \in Octets /\ Len(t) = Len(s) - o /\ \A k \in 1..(Len(s) - o) : t[k] = s[o + k]
  BY <1>1, DropFacts
<1> HIDE DEF t
<1> DEFINE u == Slice(t, i, j)
           v == Slice(s, o + i, o + j)
<1>3. u \in Octets /\ Len(u) = j - i /\ \A k \in 1..(j - i) : u[k] = t[i + k]
  <2>1. j <= Len(t) BY <1>1, <1>2
  <2> QED BY <1>2, <2>1, SliceFacts
<1>4. v \in Octets /\ Len(v) = j - i /\ \A k \in 1..(j - i) : v[k] = s[(o + i) + k]
  <2> DEFINE a == o + i
             b == o + j
  <2>1. a \in Nat /\ b \in Nat /\ a <= b /\ b <= Len(s) /\ b - a = j - i BY <1>1
  <2> HIDE DEF a, b
  <2>2. Slice(s, a, b) \in Octets /\ Len(Slice(s, a, b)) = b - a
        /\ \A k \in 1..(b - a) : Slice(s, a, b)[k] = s[a + k]
    BY <2>1, SliceFacts
  <2> QED BY <2>1, <2>2 DEF a, b
<1> HIDE DEF u, v
<1>6. ASSUME NEW k \in 1..Len(u) PROVE u[k] = v[k]
  <2>1. i + k \in 1..(Len(s) - o) /\ k \in 1..(j - i) BY <1>1, <1>3
  <2>2. o + (i + k) = (o + i) + k BY <2>1
  <2>3. u[k] = t[i + k] /\ t[i + k] = s[o + (i + k)] BY <1>2, <1>3, <2>1
  <2>4. v[k] = s[(o + i) + k] BY <1>4, <2>1
  <2> QED BY <2>2, <2>3, <2>4
<1>7. u = v
  <2>1. Len(u) = Len(v) BY <1>3, <1>4
  <2> QED BY <1>3, <1>4, <1>6, <2>1, SameBytes
<1> QED BY <1>7 DEF t, u, v

LEMMA DropAppend ==
  ASSUME NEW s \in Octets, NEW d \in Octets, NEW o \in Nat, o <= Len(s)
  PROVE  Drop(s, o) \o d = Drop(s \o d, o)
<1>1. Len(s) \in Nat /\ Len(d) \in Nat BY LenNat
<1> DEFINE t == Drop(s, o)
           w == s \o d
<1>2. t \in Octets /\ Len(t) = Len(s) - o /\ \A k \in 1..(Len(s) - o) : t[k] = s[o + k]
  BY DropFacts
<1>3. /\ w \in Octets /\ Len(w) = Len(s) + Len(d)
      /\ \A k \in 1..Len(s) : w[k] = s[k]
      /\ \A k \in 1..Len(d) : w[Len(s) + k] = d[k]
  BY JoinFacts
<1> HIDE DEF t, w
<1> DEFINE u == t \o d
           v == Drop(w, o)
<1>4. /\ u \in Octets /\ Len(u) = Len(t) + Len(d)
      /\ \A k \in 1..Len(t) : u[k] = t[k]
      /\ \A k \in 1..Len(d) : u[Len(t) + k] = d[k]
  BY <1>2, JoinFacts
<1>5. v \in Octets /\ Len(v) = Len(w) - o /\ \A k \in 1..(Len(w) - o) : v[k] = w[o + k]
  <2>1. o <= Len(w) BY <1>1, <1>3
  <2> QED BY <1>3, <2>1, DropFacts
<1> HIDE DEF u, v
<1>6. Len(u) = Len(v) BY <1>1, <1>2, <1>3, <1>4, <1>5
<1>7. ASSUME NEW k \in 1..Len(u) PROVE u[k] = v[k]
  <2>1. k \in Nat /\ k >= 1 /\ k \in 1..(Len(w) - o) BY <1>1, <1>2, <1>3, <1>4
  <2>2. v[k] = w[o + k] BY <1>5, <2>1
  <2>3. CASE k <= Len(s) - o
    <3>1. k \in 1..Len(t) /\ k \in 1..(Len(s) - o) /\ o + k \in 1..Len(s) BY <1>1, <1>2, <2>1, <2>3
    <3>2. u[k] = t[k] /\ t[k] = s[o + k] /\ w[o + k] = s[o + k] BY <1>2, <1>3, <1>4, <3>1
    <3> QED BY <2>2, <3>2
  <2>4. CASE ~(k <= Len(s) - o)
    <3> DEFINE j == k - Len(t)
    <3>1. j \in 1..Len(d) /\ k = Len(t) + j /\ o + k = Len(s) + j
      BY <1>1, <1>2, <1>3, <1>4, <2>1, <2>4
    <3> HIDE DEF j
    <3>2. u[k] = d[j] /\ w[o + k] = d[j] BY <1>3, <1>4, <3>1
    <3> QED BY <2>2, <3>2
  <2> QED BY <2>3, <2>4
<1>8. u = v BY <1>4, <1>5, <1>6, <1>7, SameBytes
<1> QED BY <1>8 DEF t, u, v, w

LEMMA SliceAppend ==
  ASSUME NEW s \in Octets, NEW d \in Octets, NEW i \in Nat, NEW j \in Nat, i <= j, j <= Len(s)
  PROVE  Slice(s \o d, i, j) = Slice(s, i, j)
<1>1. Len(s) \in Nat /\ Len(d) \in Nat BY LenNat
<1> DEFINE w == s \o d
<1>2. w \in Octets /\ Len(w) = Len(s) + Len(d) /\ \A k \in 1..Len(s) : w[k] = s[k] BY JoinFacts
<1> HIDE DEF w
<1> DEFINE u == Slice(w, i, j)
           v == Slice(s, i, j)
<1>3. u \in Octets /\ Len(u) = j - i /\ \A k \in 1..(j - i) : u[k] = w[i + k]
  <2>1. j <= Len(w) BY <1>1, <1>2
  <2> QED BY <1>2, <2>1, SliceFacts
<1>4. v \in Octets /\ Len(v) = j - i /\ \A k \in 1..(j - i) : v[k] = s[i + k] BY SliceFacts
<1> HIDE DEF u, v
<1>5. ASSUME NEW k \in 1..Len(u) PROVE u[k] = v[k]
  <2>1. i + k \in 1..Len(s) /\ k \in 1..(j - i) BY <1>1, <1>3
  <2> QED BY <1>2, <1>3, <1>4, <2>1
<1>6. u = v
  <2>1. Len(u) = Len(v) BY <1>3, <1>4
  <2> QED BY <1>3, <1>4, <1>5, <2>1, SameBytes
<1> QED BY <1>6 DEF u, v, w

LEMMA CodePosAppend ==
  ASSUME NEW s \in Octets, NEW d \in Octets, NEW p, NEW h, CodePos(s, p, h)
  PROVE  CodePos(s \o d, p, h)
<1>1. p \in Nat /\ h \in Nat /\ Hit(s, h) /\ (p = h \/ (p = h - 1 /\ s[h] = 0)) BY DEF CodePos
<1>2. Hit(s \o d, h) BY <1>1, HitAppend
<1>3. ASSUME p = h - 1 PROVE (s \o d)[h] = s[h]
  <2>1. h \in 1..Len(s) BY <1>1, <1>3, LenNat DEF Hit
  <2> QED BY <2>1, JoinFacts
<1> QED BY <1>1, <1>2, <1>3 DEF CodePos

\* What has been found stays found.
LEMMA FindAppend ==
  ASSUME NEW s \in Octets, NEW d \in Octets, NEW b \in Nat, find_start_code(s, b) >= 0
  PROVE  find_start_code(s \o d, b) = find_start_code(s, b)
<1>1. PICK h \in Nat : FirstHit(s, b, h) /\ find_start_code(s, b) = CodeOf(s, b, h) BY FindRange
<1>2. Hit(s, h) /\ h >= b /\ \A i \in Nat : i >= b /\ i < h => ~Hit(s, i) BY <1>1 DEF FirstHit
<1>3. Len(s) \in Nat /\ h + 3 <= Len(s) BY <1>2, LenNat DEF Hit
<1>4. Hit(s \o d, h) BY <1>2, HitAppend
<1>5. ASSUME NEW i \in Nat, i >= b, i < h PROVE ~Hit(s \o d, i)
  <2>1. i + 3 <= Len(s) BY <1>3, <1>5
  <2> QED BY <1>2, <1>5, <2>1, HitAppend
<1>6. FirstHit(s \o d, b, h) BY <1>2, <1>4, <1>5 DEF FirstHit
<1>7. s \o d \in Octets BY JoinFacts
<1>8. find_start_code(s \o d, b) = CodeOf(s \o d, b, h) BY <1>6, <1>7, FindFirst
<1>9. CodeOf(s \o d, b, h) = CodeOf(s, b, h)
  <2>1. CASE h > b
    <3>1. h \in 1..Len(s) BY <1>3, <2>1
    <3>2. (s \o d)[h] = s[h] BY <3>1, JoinFacts
    <3> QED BY <3>2 DEF CodeOf
  <2>2. CASE ~(h > b) BY <2>2 DEF CodeOf
  <2> QED BY <2>1, <2>2
<1> QED BY <1>1, <1>8, <1>9

\* f is built from zero by a step to each natural.
BuiltFrom(f, zero, step) == f[0] = zero /\ \A i \in Nat : f[i + 1] = step[<<i + 1, f[i]>>]

\* A function that is defined by recursion over the naturals exists.
LEMMA RecursionOnNaturals ==
  ASSUME NEW S, NEW zero \in S, NEW step \in [Nat \X S -> S]
  PROVE  \E f \in [Nat -> S] : BuiltFrom(f, zero, step)
<1> DEFINE Good(n, f) == f[0] = zero /\ \A i \in 1..n : f[i] = step[<<i, f[i - 1]>>]
           part == [n \in Nat |-> CHOOSE f \in [0..n -> S] : Good(n, f)]
<1>1. \A n \in Nat : \E f \in [0..n -> S] : Good(n, f)
  <2>1. \A n \in Nat : \E f \in [0..n -> S] : BuiltBy(f, n, zero, step) BY RecursionExists
  <2>2. \A n, f : BuiltBy(f, n, zero, step) <=> Good(n, f) BY DEF BuiltBy
  <2> HIDE DEF Good
  <2> QED BY <2>1, <2>2
<1>2. \A n \in Nat : part[n] \in [0..n -> S] /\ Good(n, part[n])
  <2> HIDE DEF Good
  <2> SUFFICES ASSUME NEW n \in Nat PROVE part[n] \in [0..n -> S] /\ Good(n, part[n]) OBVIOUS
  <2>1. \E f \in [0..n -> S] : Good(n, f) BY <1>1
  <2>2. part[n] = CHOOSE f \in [0..n -> S] : Good(n, f) OBVIOUS
  <2> HIDE DEF part
  <2> QED BY <2>1, <2>2
<1> HIDE DEF part
<1> DEFINE T(n) == {i \in Nat : i <= n => part[n + 1][i] = part[n][i]}
<1>3. ASSUME NEW n \in Nat PROVE part[n + 1][n] = part[n][n]
  <2>0. n + 1 \in Nat OBVIOUS
  <2>1. Good(n, part[n]) /\ Good(n + 1, part[n + 1]) BY <1>2, <2>0
  <2>2. 0 \in T(n) BY <2>1
  <2>3. ASSUME NEW i \in Nat, i \in T(n) PROVE i + 1 \in T(n)
    <3> SUFFICES ASSUME i + 1 <= n PROVE part[n + 1][i + 1] = part[n][i + 1] OBVIOUS
    <3>1. i + 1 \in 1..n /\ i + 1 \in 1..(n + 1) /\ (i + 1) - 1 = i OBVIOUS
    <3>2. part[n + 1][i + 1] = step[<<i + 1, part[n + 1][i]>>] BY <2>1, <3>1
    <3>3. part[n][i + 1] = step[<<i + 1, part[n][i]>>] BY <2>1, <3>1
    <3>4. part[n + 1][i] = part[n][i] BY <2>3
    <3> QED BY <3>2, <3>3, <3>4
  <2>4. \A i \in Nat : i \in T(n)
    <3> HIDE DEF T
    <3> QED BY <2>2, <2>3, NaturalInduction
  <2> QED BY <2>4
<1> DEFINE f == [n \in Nat |-> part[n][n]]
<1>4. \A n \in Nat : part[n][n] \in S
  <2> SUFFICES ASSUME NEW n \in Nat PROVE part[n][n] \in S OBVIOUS
  <2>1. part[n] \in [0..n -> S] /\ n \in 0..n BY <1>2
  <2> QED BY <2>1
<1>5. f \in [Nat -> S] BY <1>4
<1>6. f[0] = zero
  <2>1. Good(0, part[0]) BY <1>2
  <2> QED BY <2>1
<1>7. ASSUME NEW i \in Nat PROVE f[i + 1] = step[<<i + 1, f[i]>>]
  <2>1. i + 1 \in Nat /\ i + 1 \in 1..(i + 1) /\ (i + 1) - 1 = i OBVIOUS
  <2>2. Good(i + 1, part[i + 1]) BY <1>2, <2>1
  <2>3. part[i + 1][i + 1] = step[<<i + 1, part[i + 1][i]>>] BY <2>1, <2>2
  <2>4. part[i + 1][i] = part[i][i] BY <1>3
  <2> QED BY <2>1, <2>3, <2>4
<1> HIDE DEF f
<1>8. BuiltFrom(f, zero, step) BY <1>6, <1>7 DEF BuiltFrom
<1> QED BY <1>5, <1>8

(* The loops of annexb_nal_units and of the parser. *)

ScanState == [pos : Nat \cup {-1}, out : Seq(Octets)]
CutState == [buffer : Octets, out : Seq(Octets)]

LEMMA NextUnitTyped ==
  ASSUME NEW raw \in Octets, NEW s \in ScanState
  PROVE  NextUnit(raw, s) \in ScanState
<1> DEFINE n == start_code_length(raw, s.pos)
           next == find_start_code(raw, s.pos + n)
           end == IF next < 0 THEN Len(raw) ELSE next
           nalu == Slice(raw, s.pos, end)
<1>1. s.pos \in Nat \cup {-1} /\ s.out \in Seq(Octets) BY DEF ScanState
<1>2. CASE s.pos < 0 BY <1>2 DEF NextUnit
<1>3. CASE ~(s.pos < 0)
  <2>1. s.pos \in Nat BY <1>1, <1>3
  <2>2. n \in Nat BY <2>1, CodeLength
  <2>3. s.pos + n \in Nat BY <2>1, <2>2
  <2> HIDE DEF n
  <2>4. next \in Nat \cup {-1} BY <2>3, FindRange
  <2>5. Len(raw) \in Nat BY LenNat
  <2>6. NextUnit(raw, s) = [pos |-> next, out |-> IF Len(nalu) > n THEN Append(s.out, nalu) ELSE s.out]
    BY <1>3 DEF NextUnit, n
  <2>7. nalu \in Octets
    <3>1. Slice(raw, s.pos, end) = SubSeq(raw, s.pos + 1, IF end > Len(raw) THEN Len(raw) ELSE end)
      BY DEF Slice
    <3> DEFINE j == IF end > Len(raw) THEN Len(raw) ELSE end
    <3>2. j \in Nat /\ j <= Len(raw) BY <2>4, <2>5
    <3> HIDE DEF j, next
    <3>3. SubSeq(raw, s.pos + 1, j) \in Seq(Nat)
      <4>1. CASE s.pos + 1 <= j
        <5>1. s.pos + 1 \in 1..Len(raw) /\ j \in (s.pos + 1)..Len(raw) BY <2>1, <2>5, <3>2, <4>1
        <5> QED BY <5>1, SubSeqProperties DEF Octets
      <4>2. CASE ~(s.pos + 1 <= j)
        <5>1. SubSeq(raw, s.pos + 1, j) = <<>> BY <2>1, <3>2, <4>2 DEF Octets
        <5>2. <<>> \in Seq(Nat) OBVIOUS
        <5> QED BY <5>1, <5>2
      <4> QED BY <4>1, <4>2
    <3> QED BY <3>1, <3>3 DEF Octets, j
  <2> HIDE DEF next, nalu
  <2>8. Append(s.out, nalu) \in Seq(Octets) BY <1>1, <2>7
  <2> QED BY <1>1, <2>4, <2>6, <2>8 DEF ScanState
<1> QED BY <1>2, <1>3

LEMMA ScanFunction ==
  ASSUME NEW raw \in Octets
  PROVE  /\ \A k \in Nat : Scan(raw)[k] \in ScanState
         /\ Scan(raw)[0] = [pos |-> find_start_code(raw, 0), out |-> <<>>]
         /\ \A k \in Nat : Scan(raw)[k + 1] = NextUnit(raw, Scan(raw)[k])
<1> DEFINE zero == [pos |-> find_start_code(raw, 0), out |-> <<>>]
           step == [x \in Nat \X ScanState |-> NextUnit(raw, x[2])]
           Scans(f) == f = [k \in Nat |-> IF k = 0 THEN zero ELSE NextUnit(raw, f[k - 1])]
<1>1. zero \in ScanState
  <2>1. find_start_code(raw, 0) \in Nat \cup {-1} BY FindRange
  <2> QED BY <2>1 DEF ScanState
<1>2. step \in [Nat \X ScanState -> ScanState]
  <2>1. \A x \in Nat \X ScanState : NextUnit(raw, x[2]) \in ScanState BY NextUnitTyped
  <2> QED BY <2>1
<1>0. PICK f \in [Nat -> ScanState] : BuiltFrom(f, zero, step)
  <2> HIDE DEF zero, step
  <2> QED BY <1>1, <1>2, RecursionOnNaturals
<1>3. f[0] = zero /\ \A i \in Nat : f[i + 1] = step[<<i + 1, f[i]>>] BY <1>0 DEF BuiltFrom
<1>4. \A i \in Nat : f[i + 1] = NextUnit(raw, f[i])
  <2> SUFFICES ASSUME NEW i \in Nat PROVE f[i + 1] = NextUnit(raw, f[i]) OBVIOUS
  <2>1. i + 1 \in Nat /\ f[i] \in ScanState OBVIOUS
  <2>2. step[<<i + 1, f[i]>>] = NextUnit(raw, f[i]) BY <2>1
  <2> QED BY <1>3, <2>2
<1> HIDE DEF step, zero
<1>5. Scans(f)
  <2>1. f = [k \in Nat |-> f[k]] OBVIOUS
  <2>2. \A k \in Nat : f[k] = IF k = 0 THEN zero ELSE NextUnit(raw, f[k - 1])
    <3> SUFFICES ASSUME NEW k \in Nat, k # 0 PROVE f[k] = NextUnit(raw, f[k - 1]) BY <1>3
    <3>1. k - 1 \in Nat /\ (k - 1) + 1 = k OBVIOUS
    <3> QED BY <1>4, <3>1
  <2> QED BY <2>1, <2>2
<1>6. Scan(raw) = CHOOSE g : Scans(g) BY DEF Scan, zero
<1>7. Scans(Scan(raw))
  <2> HIDE DEF Scans
  <2> QED BY <1>5, <1>6
<1> DEFINE g == Scan(raw)
<1>8. g = [k \in Nat |-> IF k = 0 THEN zero ELSE NextUnit(raw, g[k - 1])] BY <1>7
<1> HIDE DEF g
<1>9. g[0] = zero BY <1>8
<1>10. \A k \in Nat : g[k + 1] = NextUnit(raw, g[k])
  <2> SUFFICES ASSUME NEW k \in Nat PROVE g[k + 1] = NextUnit(raw, g[k]) OBVIOUS
  <2>1. k + 1 \in Nat /\ k + 1 # 0 /\ (k + 1) - 1 = k OBVIOUS
  <2> QED BY <1>8, <2>1
<1> DEFINE T == {k \in Nat : g[k] \in ScanState}
<1>11. 0 \in T BY <1>1, <1>9
<1>12. ASSUME NEW k \in Nat, k \in T PROVE k + 1 \in T
  <2>1. NextUnit(raw, g[k]) \in ScanState BY <1>12, NextUnitTyped
  <2> QED BY <1>10, <2>1
<1>13. \A k \in Nat : k \in T
  <2> HIDE DEF T
  <2> QED BY <1>11, <1>12, NaturalInduction
<1> QED BY <1>9, <1>10, <1>13 DEF g, zero

LEMMA CutUnitTyped ==
  ASSUME NEW s \in CutState
  PROVE  CutUnit(s) \in CutState
<1> DEFINE n == start_code_length(s.buffer, 0)
           next == find_start_code(s.buffer, n)
<1>1. s.buffer \in Octets /\ s.out \in Seq(Octets) BY DEF CutState
<1>2. n \in Nat BY <1>1, CodeLength
<1> HIDE DEF n
<1>3. CASE n = 0 \/ next < 0 BY <1>3 DEF CutUnit, n
<1>4. CASE ~(n = 0 \/ next < 0)
  <2>1. next >= 0 BY <1>1, <1>2, <1>4, FindRange
  <2>2. PICK h \in Nat : FirstHit(s.buffer, n, h) /\ next = CodeOf(s.buffer, n, h)
    BY <1>1, <1>2, <2>1, FindRange
  <2>3. CodePos(s.buffer, next, h) BY <1>1, <1>2, <2>2, Found
  <2>4. Len(s.buffer) \in Nat /\ next \in Nat /\ next <= Len(s.buffer)
    BY <1>1, <2>3, CodeThere, LenNat
  <2> HIDE DEF next
  <2>5. Drop(s.buffer, next) \in Octets BY <1>1, <2>4, DropFacts
  <2>6. Slice(s.buffer, 0, next) \in Octets BY <1>1, <2>4, SliceFacts
  <2>7. Append(s.out, Slice(s.buffer, 0, next)) \in Seq(Octets) BY <1>1, <2>6
  <2>8. CutUnit(s) = [buffer |-> Drop(s.buffer, next),
                      out |-> IF next > n THEN Append(s.out, Slice(s.buffer, 0, next)) ELSE s.out]
    BY <1>4 DEF CutUnit, n, next
  <2> QED BY <1>1, <2>5, <2>7, <2>8 DEF CutState
<1> QED BY <1>3, <1>4

LEMMA CutFunction ==
  ASSUME NEW p, p.buffer \in Octets
  PROVE  /\ \A k \in Nat : CutTurns(p)[k] \in CutState
         /\ CutTurns(p)[0] = [buffer |-> p.buffer, out |-> <<>>]
         /\ \A k \in Nat : CutTurns(p)[k + 1] = CutUnit(CutTurns(p)[k])
<1> DEFINE zero == [buffer |-> p.buffer, out |-> <<>>]
           step == [x \in Nat \X CutState |-> CutUnit(x[2])]
           Cuts(f) == f = [k \in Nat |-> IF k = 0 THEN zero ELSE CutUnit(f[k - 1])]
<1>1. zero \in CutState BY DEF CutState
<1>2. step \in [Nat \X CutState -> CutState]
  <2>1. \A x \in Nat \X CutState : CutUnit(x[2]) \in CutState BY CutUnitTyped
  <2> QED BY <2>1
<1>0. PICK f \in [Nat -> CutState] : BuiltFrom(f, zero, step)
  <2> HIDE DEF zero, step
  <2> QED BY <1>1, <1>2, RecursionOnNaturals
<1>3. f[0] = zero /\ \A i \in Nat : f[i + 1] = step[<<i + 1, f[i]>>] BY <1>0 DEF BuiltFrom
<1>4. \A i \in Nat : f[i + 1] = CutUnit(f[i])
  <2> SUFFICES ASSUME NEW i \in Nat PROVE f[i + 1] = CutUnit(f[i]) OBVIOUS
  <2>1. i + 1 \in Nat /\ f[i] \in CutState OBVIOUS
  <2>2. step[<<i + 1, f[i]>>] = CutUnit(f[i]) BY <2>1
  <2> QED BY <1>3, <2>2
<1> HIDE DEF step, zero
<1>5. Cuts(f)
  <2>1. f = [k \in Nat |-> f[k]] OBVIOUS
  <2>2. \A k \in Nat : f[k] = IF k = 0 THEN zero ELSE CutUnit(f[k - 1])
    <3> SUFFICES ASSUME NEW k \in Nat, k # 0 PROVE f[k] = CutUnit(f[k - 1]) BY <1>3
    <3>1. k - 1 \in Nat /\ (k - 1) + 1 = k OBVIOUS
    <3> QED BY <1>4, <3>1
  <2> QED BY <2>1, <2>2
<1>6. CutTurns(p) = CHOOSE g : Cuts(g) BY DEF CutTurns, zero
<1>7. Cuts(CutTurns(p))
  <2> HIDE DEF Cuts
  <2> QED BY <1>5, <1>6
<1> DEFINE g == CutTurns(p)
<1>8. g = [k \in Nat |-> IF k = 0 THEN zero ELSE CutUnit(g[k - 1])] BY <1>7
<1> HIDE DEF g
<1>9. g[0] = zero BY <1>8
<1>10. \A k \in Nat : g[k + 1] = CutUnit(g[k])
  <2> SUFFICES ASSUME NEW k \in Nat PROVE g[k + 1] = CutUnit(g[k]) OBVIOUS
  <2>1. k + 1 \in Nat /\ k + 1 # 0 /\ (k + 1) - 1 = k OBVIOUS
  <2> QED BY <1>8, <2>1
<1> DEFINE T == {k \in Nat : g[k] \in CutState}
<1>11. 0 \in T BY <1>1, <1>9
<1>12. ASSUME NEW k \in Nat, k \in T PROVE k + 1 \in T
  <2>1. CutUnit(g[k]) \in CutState BY <1>12, CutUnitTyped
  <2> QED BY <1>10, <2>1
<1>13. \A k \in Nat : k \in T
  <2> HIDE DEF T
  <2> QED BY <1>11, <1>12, NaturalInduction
<1> QED BY <1>9, <1>10, <1>13 DEF g, zero

\* Where what a search from a start code on finds ends the unit.
UnitEnd(raw, b) == IF find_start_code(raw, b) < 0 THEN Len(raw) ELSE find_start_code(raw, b)

LEMMA UnitEndFacts ==
  ASSUME NEW raw \in Octets, NEW b \in Nat, b <= Len(raw)
  PROVE  /\ UnitEnd(raw, b) \in Nat /\ UnitEnd(raw, b) >= b /\ UnitEnd(raw, b) <= Len(raw)
         /\ find_start_code(raw, b) \in Nat \cup {-1}
         /\ find_start_code(raw, b) >= 0 =>
              /\ UnitEnd(raw, b) = find_start_code(raw, b)
              /\ \E h \in Nat : CodePos(raw, find_start_code(raw, b), h) /\ FirstHit(raw, b, h)
<1>1. Len(raw) \in Nat BY LenNat
<1>2. find_start_code(raw, b) \in Nat \cup {-1} BY FindRange
<1>3. CASE find_start_code(raw, b) < 0 BY <1>1, <1>2, <1>3 DEF UnitEnd
<1>4. CASE find_start_code(raw, b) >= 0
  <2>1. PICK h \in Nat : FirstHit(raw, b, h) /\ find_start_code(raw, b) = CodeOf(raw, b, h)
    BY <1>4, FindRange
  <2>2. CodePos(raw, find_start_code(raw, b), h) /\ find_start_code(raw, b) >= b BY <2>1, Found
  <2>3. find_start_code(raw, b) <= Len(raw)
    <3>1. find_start_code(raw, b) <= h /\ h + 3 <= Len(raw) BY <2>2, CodeThere
    <3> QED BY <1>1, <1>2, <3>1
  <2> QED BY <1>2, <1>4, <2>1, <2>2, <2>3 DEF UnitEnd
<1> QED BY <1>2, <1>3, <1>4

\* A turn of the loop, from the start code of a hit on.
LEMMA ScanStep ==
  ASSUME NEW raw \in Octets, NEW k \in Nat, NEW h, CodePos(raw, Scan(raw)[k].pos, h)
  PROVE  Scan(raw)[k + 1] =
           [pos |-> find_start_code(raw, h + 3),
            out |-> IF UnitEnd(raw, h + 3) > h + 3
                    THEN Append(Scan(raw)[k].out, Slice(raw, Scan(raw)[k].pos, UnitEnd(raw, h + 3)))
                    ELSE Scan(raw)[k].out]
<1> DEFINE s == Scan(raw)[k]
           p == s.pos
           e == UnitEnd(raw, h + 3)
           nalu == Slice(raw, p, e)
<1>1. /\ p \in Nat /\ h \in Nat /\ Hit(raw, h) /\ p <= h /\ h <= p + 1 /\ h + 3 <= Len(raw)
      /\ start_code_length(raw, p) = h + 3 - p
  BY CodeThere
<1>2. h + 3 \in Nat /\ Len(raw) \in Nat BY <1>1, LenNat
<1>3. e \in Nat /\ e >= h + 3 /\ e <= Len(raw) BY <1>1, <1>2, UnitEndFacts
<1>4. p + start_code_length(raw, p) = h + 3 BY <1>1
<1>5. Scan(raw)[k + 1] = NextUnit(raw, s) BY ScanFunction
<1>6. ~(p < 0) BY <1>1
<1>7. NextUnit(raw, s) =
        [pos |-> find_start_code(raw, h + 3),
         out |-> IF Len(Slice(raw, p, e)) > start_code_length(raw, p) THEN Append(s.out, Slice(raw, p, e)) ELSE s.out]
  BY <1>4, <1>6 DEF NextUnit, UnitEnd
<1>8. Len(nalu) = e - p
  <2>1. p <= e BY <1>1, <1>3
  <2> HIDE DEF e, p
  <2>2. Len(Slice(raw, p, e)) = e - p BY <1>1, <1>3, <2>1, SliceFacts
  <2> QED BY <2>2
<1>9. Len(nalu) > start_code_length(raw, p) <=> e > h + 3 BY <1>1, <1>3, <1>8
<1> QED BY <1>5, <1>7, <1>9

LEMMA ScanStart ==
  ASSUME NEW raw \in Octets
  PROVE  Scan(raw)[0].pos = find_start_code(raw, 0) /\ Scan(raw)[0].out = <<>>
<1>1. Scan(raw)[0] = [pos |-> find_start_code(raw, 0), out |-> <<>>] BY ScanFunction
<1> QED BY <1>1

LEMMA ScanNext ==
  ASSUME NEW raw \in Octets, NEW k \in Nat, NEW h, CodePos(raw, Scan(raw)[k].pos, h)
  PROVE  Scan(raw)[k + 1].pos = find_start_code(raw, h + 3)
<1> DEFINE r == [pos |-> find_start_code(raw, h + 3),
                 out |-> IF UnitEnd(raw, h + 3) > h + 3
                         THEN Append(Scan(raw)[k].out, Slice(raw, Scan(raw)[k].pos, UnitEnd(raw, h + 3)))
                         ELSE Scan(raw)[k].out]
<1>1. Scan(raw)[k + 1] = r BY ScanStep
<1>2. r.pos = find_start_code(raw, h + 3) OBVIOUS
<1> HIDE DEF r
<1> QED BY <1>1, <1>2

\* The loop stands at a start code or has come to the end.
LEMMA ScanPositions ==
  ASSUME NEW raw \in Octets
  PROVE  /\ \A k \in Nat : Scan(raw)[k].pos \in Nat \cup {-1}
         /\ \A k \in Nat : Scan(raw)[k].pos >= 0 => \E h \in Nat : CodePos(raw, Scan(raw)[k].pos, h)
<1> DEFINE T == {k \in Nat : Scan(raw)[k].pos >= 0 => \E h \in Nat : CodePos(raw, Scan(raw)[k].pos, h)}
<1>1. \A k \in Nat : Scan(raw)[k].pos \in Nat \cup {-1}
  <2>1. \A k \in Nat : Scan(raw)[k] \in ScanState BY ScanFunction
  <2> QED BY <2>1 DEF ScanState
<1>2. 0 \in T
  <2>1. Scan(raw)[0].pos = find_start_code(raw, 0) BY ScanStart
  <2>2. 0 <= Len(raw) BY LenNat
  <2> QED BY <2>1, <2>2, UnitEndFacts
<1>3. ASSUME NEW k \in Nat, k \in T PROVE k + 1 \in T
  <2>1. CASE Scan(raw)[k].pos >= 0
    <3>1. PICK h \in Nat : CodePos(raw, Scan(raw)[k].pos, h) BY <1>3, <2>1
    <3>2. Scan(raw)[k + 1].pos = find_start_code(raw, h + 3) BY <3>1, ScanNext
    <3>3. h + 3 \in Nat /\ h + 3 <= Len(raw) BY <3>1, CodeThere
    <3> QED BY <3>2, <3>3, UnitEndFacts
  <2>2. CASE ~(Scan(raw)[k].pos >= 0)
    <3>1. Scan(raw)[k].pos < 0 BY <1>1, <2>2
    <3>2. Scan(raw)[k + 1] = Scan(raw)[k]
      <4>1. Scan(raw)[k + 1] = NextUnit(raw, Scan(raw)[k]) BY ScanFunction
      <4> QED BY <3>1, <4>1 DEF NextUnit
    <3> QED BY <2>2, <3>2
  <2> QED BY <2>1, <2>2
<1>4. \A k \in Nat : k \in T
  <2> HIDE DEF T
  <2> QED BY <1>2, <1>3, NaturalInduction
<1> QED BY <1>1, <1>4

LEMMA ScanStops ==
  ASSUME NEW raw \in Octets, NEW k \in Nat, Scan(raw)[k].pos < 0
  PROVE  Scan(raw)[k + 1] = Scan(raw)[k]
<1>1. Scan(raw)[k + 1] = NextUnit(raw, Scan(raw)[k]) BY ScanFunction
<1> QED BY <1>1 DEF NextUnit

\* Each turn goes on by a start code at least.
LEMMA ScanAdvances ==
  ASSUME NEW raw \in Octets, NEW k \in Nat, Scan(raw)[k + 1].pos >= 0
  PROVE  Scan(raw)[k].pos >= 0 /\ Scan(raw)[k + 1].pos >= Scan(raw)[k].pos + 3
<1>0. k + 1 \in Nat OBVIOUS
<1>1. Scan(raw)[k].pos \in Nat \cup {-1} /\ Scan(raw)[k + 1].pos \in Nat \cup {-1}
  BY <1>0, ScanPositions
<1>2. Scan(raw)[k].pos >= 0
  <2> SUFFICES ASSUME Scan(raw)[k].pos < 0 PROVE FALSE BY <1>1
  <2>1. Scan(raw)[k + 1] = Scan(raw)[k] BY ScanStops
  <2> QED BY <1>1, <2>1
<1>3. PICK h \in Nat : CodePos(raw, Scan(raw)[k].pos, h) BY <1>2, ScanPositions
<1>4. h >= Scan(raw)[k].pos /\ h + 3 \in Nat /\ h + 3 <= Len(raw) BY <1>3, CodeThere
<1>5. Scan(raw)[k + 1].pos = find_start_code(raw, h + 3) BY <1>3, ScanNext
<1>6. UnitEnd(raw, h + 3) >= h + 3 /\ UnitEnd(raw, h + 3) = find_start_code(raw, h + 3)
  BY <1>4, <1>5, UnitEndFacts
<1> QED BY <1>1, <1>2, <1>4, <1>5, <1>6

LEMMA ScanAhead ==
  ASSUME NEW raw \in Octets
  PROVE  /\ \A k \in Nat : Scan(raw)[k].pos >= 0 => Scan(raw)[k].pos >= k
         /\ \A k \in Nat : Scan(raw)[k].pos >= 0 => k < Len(raw)
<1> DEFINE T == {k \in Nat : Scan(raw)[k].pos >= 0 => Scan(raw)[k].pos >= k}
<1>0. \A k \in Nat : Scan(raw)[k].pos \in Nat \cup {-1} BY ScanPositions
<1>1. 0 \in T BY <1>0
<1>2. ASSUME NEW k \in Nat, k \in T PROVE k + 1 \in T
  <2> SUFFICES ASSUME Scan(raw)[k + 1].pos >= 0 PROVE Scan(raw)[k + 1].pos >= k + 1 OBVIOUS
  <2>1. Scan(raw)[k].pos >= 0 /\ Scan(raw)[k + 1].pos >= Scan(raw)[k].pos + 3 BY ScanAdvances
  <2>2. Scan(raw)[k].pos >= k BY <1>2, <2>1
  <2>3. k + 1 \in Nat /\ Scan(raw)[k].pos \in Nat \cup {-1} BY <1>0
  <2>4. Scan(raw)[k + 1].pos \in Nat \cup {-1} BY <1>0, <2>3
  <2> QED BY <2>1, <2>2, <2>3, <2>4
<1>3. \A k \in Nat : k \in T
  <2> HIDE DEF T
  <2> QED BY <1>1, <1>2, NaturalInduction
<1>4. ASSUME NEW k \in Nat, Scan(raw)[k].pos >= 0 PROVE k < Len(raw)
  <2>1. PICK h \in Nat : CodePos(raw, Scan(raw)[k].pos, h) BY <1>4, ScanPositions
  <2>2. h >= Scan(raw)[k].pos /\ h + 3 <= Len(raw) BY <2>1, CodeThere
  <2>3. Scan(raw)[k].pos >= k /\ Scan(raw)[k].pos \in Nat \cup {-1} /\ Len(raw) \in Nat BY <1>0, <1>3, <1>4, LenNat
  <2> QED BY <2>2, <2>3
<1> QED BY <1>3, <1>4

\* What is true of a turn and kept by each is true of the later ones.
LEMMA LaterTurns ==
  ASSUME NEW T, NEW k \in Nat, k \in T, \A j \in Nat : j >= k /\ j \in T => j + 1 \in T
  PROVE  \A j \in Nat : j >= k => j \in T
<1> DEFINE U == {i \in Nat : k + i \in T}
<1>1. 0 \in U OBVIOUS
<1>2. ASSUME NEW i \in Nat, i \in U PROVE i + 1 \in U
  <2>1. k + i \in Nat /\ k + i >= k /\ (k + i) + 1 = k + (i + 1) OBVIOUS
  <2>2. (k + i) + 1 \in T BY <1>2, <2>1
  <2> QED BY <2>1, <2>2
<1>3. \A i \in Nat : i \in U
  <2> HIDE DEF U
  <2> QED BY <1>1, <1>2, NaturalInduction
<1> SUFFICES ASSUME NEW j \in Nat, j >= k PROVE j \in T OBVIOUS
<1>4. j - k \in Nat /\ k + (j - k) = j OBVIOUS
<1>5. j - k \in U BY <1>3, <1>4
<1> QED BY <1>4, <1>5

\* The units are what the loop has found when it comes to the end.
LEMMA ScanEnd ==
  ASSUME NEW raw \in Octets, NEW k \in Nat, Scan(raw)[k].pos < 0, k <= Len(raw)
  PROVE  annexb_nal_units(raw) = Scan(raw)[k].out
<1> DEFINE T == {j \in Nat : Scan(raw)[j] = Scan(raw)[k]}
<1>1. k \in T OBVIOUS
<1>2. \A j \in Nat : j >= k /\ j \in T => j + 1 \in T
  <2> SUFFICES ASSUME NEW j \in Nat, j >= k, j \in T PROVE j + 1 \in T OBVIOUS
  <2>1. Scan(raw)[j].pos < 0 OBVIOUS
  <2>2. Scan(raw)[j + 1] = Scan(raw)[j] BY <2>1, ScanStops
  <2> QED BY <2>2
<1>3. \A j \in Nat : j >= k => j \in T
  <2> HIDE DEF T
  <2> QED BY <1>1, <1>2, LaterTurns
<1>4. Len(raw) \in T BY <1>3, LenNat
<1> QED BY <1>4 DEF annexb_nal_units

\* What the loop has found before it comes to the end does not depend on what follows.
LEMMA ScanAppend ==
  ASSUME NEW s \in Octets, NEW d \in Octets
  PROVE  \A k \in Nat : Scan(s)[k].pos >= 0 => Scan(s \o d)[k] = Scan(s)[k]
<1> DEFINE t == s \o d
<1>1. t \in Octets BY JoinFacts
<1> HIDE DEF t
<1> DEFINE T == {k \in Nat : Scan(s)[k].pos >= 0 => Scan(t)[k] = Scan(s)[k]}
<1>2. 0 \in T
  <2> SUFFICES ASSUME Scan(s)[0].pos >= 0 PROVE Scan(t)[0] = Scan(s)[0] OBVIOUS
  <2>1. Scan(s)[0] = [pos |-> find_start_code(s, 0), out |-> <<>>] BY ScanFunction
  <2>2. Scan(t)[0] = [pos |-> find_start_code(t, 0), out |-> <<>>] BY <1>1, ScanFunction
  <2>3. find_start_code(s, 0) >= 0 BY <2>1
  <2>4. find_start_code(t, 0) = find_start_code(s, 0) BY <2>3, FindAppend DEF t
  <2> QED BY <2>1, <2>2, <2>4
<1>3. ASSUME NEW k \in Nat, k \in T PROVE k + 1 \in T
  <2> SUFFICES ASSUME Scan(s)[k + 1].pos >= 0 PROVE Scan(t)[k + 1] = Scan(s)[k + 1] OBVIOUS
  <2>1. Scan(s)[k].pos >= 0 BY ScanAdvances
  <2>2. Scan(t)[k] = Scan(s)[k] BY <1>3, <2>1
  <2>3. PICK h \in Nat : CodePos(s, Scan(s)[k].pos, h) BY <2>1, ScanPositions
  <2>4. CodePos(t, Scan(t)[k].pos, h) BY <2>2, <2>3, CodePosAppend DEF t
  <2> DEFINE b == h + 3
             p == Scan(s)[k].pos
  <2>5. Scan(s)[k + 1] = [pos |-> find_start_code(s, b),
                          out |-> IF UnitEnd(s, b) > b
                                  THEN Append(Scan(s)[k].out, Slice(s, p, UnitEnd(s, b))) ELSE Scan(s)[k].out]
    BY <2>3, ScanStep
  <2>6. Scan(t)[k + 1] = [pos |-> find_start_code(t, b),
                          out |-> IF UnitEnd(t, b) > b
                                  THEN Append(Scan(t)[k].out, Slice(t, Scan(t)[k].pos, UnitEnd(t, b))) ELSE Scan(t)[k].out]
    BY <1>1, <2>4, ScanStep
  <2>7. b \in Nat /\ b <= Len(s) /\ p \in Nat /\ p <= b BY <2>3, CodeThere
  <2> HIDE DEF b
  <2>8. find_start_code(s, b) >= 0 BY <2>5
  <2>9. find_start_code(t, b) = find_start_code(s, b) BY <2>7, <2>8, FindAppend DEF t
  <2>10. /\ UnitEnd(s, b) = find_start_code(s, b) /\ UnitEnd(s, b) \in Nat
         /\ UnitEnd(s, b) >= b /\ UnitEnd(s, b) <= Len(s)
    BY <2>7, <2>8, UnitEndFacts
  <2>11. UnitEnd(t, b) = UnitEnd(s, b)
    <3>1. ~(find_start_code(t, b) < 0) BY <2>9, <2>10
    <3> QED BY <2>9, <2>10, <3>1 DEF UnitEnd
  <2>12. Slice(t, p, UnitEnd(s, b)) = Slice(s, p, UnitEnd(s, b))
    <3> DEFINE e == UnitEnd(s, b)
    <3>1. e \in Nat /\ p <= e /\ e <= Len(s) BY <2>7, <2>10
    <3> HIDE DEF e, p
    <3>2. Slice(t, p, e) = Slice(s, p, e) BY <2>7, <3>1, SliceAppend DEF t
    <3> QED BY <3>2 DEF e
  <2> QED BY <2>2, <2>5, <2>6, <2>9, <2>11, <2>12
<1>4. \A k \in Nat : k \in T
  <2> HIDE DEF T
  <2> QED BY <1>2, <1>3, NaturalInduction
<1> QED BY <1>4 DEF t

\* The loop comes to every start code.
LEMMA ScanVisits ==
  ASSUME NEW raw \in Octets, NEW h \in Nat, Hit(raw, h)
  PROVE  \E k \in Nat : CodePos(raw, Scan(raw)[k].pos, h)
<1> SUFFICES ASSUME \A k \in Nat : ~CodePos(raw, Scan(raw)[k].pos, h) PROVE FALSE OBVIOUS
<1> DEFINE Before(k) == \E g \in Nat : CodePos(raw, Scan(raw)[k].pos, g) /\ g < h
           T == {k \in Nat : Before(k)}
<1>1. ASSUME NEW k \in Nat, NEW b \in Nat, b <= Len(raw), b <= h, Scan(raw)[k].pos = find_start_code(raw, b)
      PROVE  k \in T
  <2>1. ~NoHit(raw, b) BY <1>1 DEF NoHit
  <2>2. find_start_code(raw, b) >= 0
    <3>1. find_start_code(raw, b) \in Nat \cup {-1} BY FindRange
    <3>2. ~(find_start_code(raw, b) < 0) BY <2>1, FindRange
    <3> QED BY <3>1, <3>2
  <2>3. PICK g \in Nat : CodePos(raw, find_start_code(raw, b), g) /\ FirstHit(raw, b, g)
    BY <1>1, <2>2, UnitEndFacts
  <2>4. g <= h BY <1>1, <2>3 DEF FirstHit
  <2>5. g # h BY <1>1, <2>3
  <2> QED BY <1>1, <2>3, <2>4, <2>5
<1>2. 0 \in T
  <2>1. Scan(raw)[0].pos = find_start_code(raw, 0) BY ScanStart
  <2>2. 0 <= Len(raw) /\ 0 <= h BY LenNat
  <2> HIDE DEF T
  <2> QED BY <1>1, <2>1, <2>2
<1>3. ASSUME NEW k \in Nat, k \in T PROVE k + 1 \in T
  <2>1. PICK g \in Nat : CodePos(raw, Scan(raw)[k].pos, g) /\ g < h BY <1>3
  <2>2. Scan(raw)[k + 1].pos = find_start_code(raw, g + 3) BY <2>1, ScanNext
  <2>3. g + 3 \in Nat /\ g + 3 <= Len(raw) /\ Hit(raw, g) BY <2>1, CodeThere
  <2>4. g + 3 <= h BY <2>1, <2>3, HitsApart
  <2> HIDE DEF T
  <2> QED BY <1>1, <2>2, <2>3, <2>4
<1>4. \A k \in Nat : k \in T
  <2> HIDE DEF T
  <2> QED BY <1>2, <1>3, NaturalInduction
<1>5. Len(raw) \in Nat BY LenNat
<1>6. PICK g \in Nat : CodePos(raw, Scan(raw)[Len(raw)].pos, g) BY <1>4, <1>5
<1>7. Scan(raw)[Len(raw)].pos >= 0 BY <1>6 DEF CodePos
<1> QED BY <1>5, <1>7, ScanAhead

\* Later turns are at later start codes.
LEMMA ScanOrder ==
  ASSUME NEW raw \in Octets, NEW k \in Nat, NEW j \in Nat, k < j, Scan(raw)[j].pos >= 0
  PROVE  Scan(raw)[k].pos >= 0 /\ Scan(raw)[k].pos < Scan(raw)[j].pos
<1> DEFINE T == {i \in Nat : Scan(raw)[i].pos >= 0 => Scan(raw)[k].pos >= 0 /\ Scan(raw)[k].pos < Scan(raw)[i].pos}
<1>0. \A i \in Nat : Scan(raw)[i].pos \in Nat \cup {-1} BY ScanPositions
<1>1. k + 1 \in T
  <2> SUFFICES ASSUME Scan(raw)[k + 1].pos >= 0
               PROVE  Scan(raw)[k].pos >= 0 /\ Scan(raw)[k].pos < Scan(raw)[k + 1].pos
    OBVIOUS
  <2>1. Scan(raw)[k].pos >= 0 /\ Scan(raw)[k + 1].pos >= Scan(raw)[k].pos + 3 BY ScanAdvances
  <2>2. k + 1 \in Nat OBVIOUS
  <2>3. Scan(raw)[k + 1].pos \in Nat \cup {-1} /\ Scan(raw)[k].pos \in Nat \cup {-1} BY <1>0, <2>2
  <2> QED BY <2>1, <2>3
<1>2. ASSUME NEW i \in Nat, i >= k + 1, i \in T PROVE i + 1 \in T
  <2>1. ASSUME Scan(raw)[i + 1].pos >= 0
        PROVE  Scan(raw)[k].pos >= 0 /\ Scan(raw)[k].pos < Scan(raw)[i + 1].pos
    <3>1. Scan(raw)[i].pos >= 0 /\ Scan(raw)[i + 1].pos >= Scan(raw)[i].pos + 3 BY <2>1, ScanAdvances
    <3>2. Scan(raw)[k].pos >= 0 /\ Scan(raw)[k].pos < Scan(raw)[i].pos BY <1>2, <3>1
    <3>3. i + 1 \in Nat OBVIOUS
    <3>4. /\ Scan(raw)[i].pos \in Nat \cup {-1} /\ Scan(raw)[i + 1].pos \in Nat \cup {-1}
          /\ Scan(raw)[k].pos \in Nat \cup {-1}
      BY <1>0, <3>3
    <3> HIDE DEF T
    <3> QED BY <3>1, <3>2, <3>4
  <2>2. i + 1 \in Nat OBVIOUS
  <2> QED BY <2>1, <2>2
<1>3. \A i \in Nat : i >= k + 1 => i \in T
  <2> HIDE DEF T
  <2>1. k + 1 \in Nat OBVIOUS
  <2> QED BY <1>1, <1>2, <2>1, LaterTurns
<1>4. j \in T BY <1>3
<1> QED BY <1>4

(* Some units of others, and units without their start codes. *)

LEMMA SomeOfNothing ==
  ASSUME NEW t \in Seq(Octets)
  PROVE  SomeOf(<<>>, t)
<1> DEFINE at == [i \in 1..0 |-> 1]
<1>1. at \in [1..Len(<<>>) -> 1..Len(t)] OBVIOUS
<1>2. \A i, j \in 1..Len(<<>>) : i < j => at[i] < at[j] OBVIOUS
<1>3. \A i \in 1..Len(<<>>) : Payload(<<>>[i]) = Payload(t[at[i]]) OBVIOUS
<1> HIDE DEF at
<1> QED BY <1>1, <1>2, <1>3 DEF SomeOf

LEMMA SomeOfItself ==
  ASSUME NEW t \in Seq(Octets)
  PROVE  SomeOf(t, t)
<1> DEFINE at == [i \in 1..Len(t) |-> i]
<1>1. at \in [1..Len(t) -> 1..Len(t)] OBVIOUS
<1>2. \A i, j \in 1..Len(t) : i < j => at[i] < at[j] OBVIOUS
<1>3. \A i \in 1..Len(t) : Payload(t[i]) = Payload(t[at[i]]) OBVIOUS
<1> HIDE DEF at
<1> QED BY <1>1, <1>2, <1>3 DEF SomeOf

LEMMA SomeOfMore ==
  ASSUME NEW s \in Seq(Octets), NEW t \in Seq(Octets), NEW y \in Octets, SomeOf(s, t)
  PROVE  SomeOf(s, Append(t, y))
<1> DEFINE w == Append(t, y)
<1>1. Len(s) \in Nat /\ Len(t) \in Nat OBVIOUS
<1>2. Len(w) = Len(t) + 1 /\ \A i \in 1..Len(t) : w[i] = t[i] OBVIOUS
<1> HIDE DEF w
<1>3. PICK at \in [1..Len(s) -> 1..Len(t)] :
        /\ \A i, j \in 1..Len(s) : i < j => at[i] < at[j]
        /\ \A i \in 1..Len(s) : Payload(s[i]) = Payload(t[at[i]])
  BY DEF SomeOf
<1>4. at \in [1..Len(s) -> 1..Len(w)]
  <2>1. 1..Len(t) \subseteq 1..Len(w) BY <1>1, <1>2
  <2> QED BY <2>1
<1>5. \A i \in 1..Len(s) : Payload(s[i]) = Payload(w[at[i]])
  <2> SUFFICES ASSUME NEW i \in 1..Len(s) PROVE Payload(s[i]) = Payload(w[at[i]]) OBVIOUS
  <2>1. at[i] \in 1..Len(t) OBVIOUS
  <2>2. w[at[i]] = t[at[i]] BY <1>2, <2>1
  <2> QED BY <1>3, <2>2
<1>6. SomeOf(s, w) BY <1>3, <1>4, <1>5 DEF SomeOf
<1> QED BY <1>6 DEF w

LEMMA SomeOfBoth ==
  ASSUME NEW s \in Seq(Octets), NEW t \in Seq(Octets), NEW x \in Octets, NEW y \in Octets,
         SomeOf(s, t), Payload(x) = Payload(y)
  PROVE  SomeOf(Append(s, x), Append(t, y))
<1> DEFINE v == Append(s, x)
           w == Append(t, y)
<1>1. Len(s) \in Nat /\ Len(t) \in Nat OBVIOUS
<1>2. Len(w) = Len(t) + 1 /\ w[Len(t) + 1] = y /\ \A i \in 1..Len(t) : w[i] = t[i] OBVIOUS
<1>3. Len(v) = Len(s) + 1 /\ v[Len(s) + 1] = x /\ \A i \in 1..Len(s) : v[i] = s[i] OBVIOUS
<1> HIDE DEF v, w
<1>4. PICK at \in [1..Len(s) -> 1..Len(t)] :
        /\ \A i, j \in 1..Len(s) : i < j => at[i] < at[j]
        /\ \A i \in 1..Len(s) : Payload(s[i]) = Payload(t[at[i]])
  BY DEF SomeOf
<1> DEFINE bt == [i \in 1..Len(v) |-> IF i = Len(v) THEN Len(w) ELSE at[i]]
<1>5. \A i \in 1..Len(v) : i # Len(v) => i \in 1..Len(s) /\ at[i] \in 1..Len(t) /\ bt[i] = at[i]
  <2> SUFFICES ASSUME NEW i \in 1..Len(v), i # Len(v)
               PROVE  i \in 1..Len(s) /\ at[i] \in 1..Len(t) /\ bt[i] = at[i]
    OBVIOUS
  <2>1. i \in 1..Len(s) BY <1>1, <1>3
  <2> QED BY <2>1
<1>6. bt[Len(v)] = Len(w)
  <2>1. Len(v) \in 1..Len(v) BY <1>1, <1>3
  <2> QED BY <2>1
<1>7. bt \in [1..Len(v) -> 1..Len(w)]
  <2>1. \A i \in 1..Len(v) : bt[i] \in 1..Len(w)
    <3> SUFFICES ASSUME NEW i \in 1..Len(v) PROVE bt[i] \in 1..Len(w) OBVIOUS
    <3>1. Len(w) \in 1..Len(w) /\ 1..Len(t) \subseteq 1..Len(w) BY <1>1, <1>2
    <3> HIDE DEF bt
    <3> QED BY <1>5, <1>6, <3>1
  <2> QED BY <2>1
<1> HIDE DEF bt
<1>8. \A i, j \in 1..Len(v) : i < j => bt[i] < bt[j]
  <2> SUFFICES ASSUME NEW i \in 1..Len(v), NEW j \in 1..Len(v), i < j PROVE bt[i] < bt[j] OBVIOUS
  <2>1. i # Len(v) BY <1>1, <1>3
  <2>2. i \in 1..Len(s) /\ at[i] \in 1..Len(t) /\ bt[i] = at[i] BY <1>5, <2>1
  <2>3. CASE j = Len(v) BY <1>1, <1>2, <1>6, <2>2, <2>3
  <2>4. CASE j # Len(v)
    <3>1. j \in 1..Len(s) /\ bt[j] = at[j] BY <1>5, <2>4
    <3> QED BY <1>4, <2>2, <3>1
  <2> QED BY <2>3, <2>4
<1>9. \A i \in 1..Len(v) : Payload(v[i]) = Payload(w[bt[i]])
  <2> SUFFICES ASSUME NEW i \in 1..Len(v) PROVE Payload(v[i]) = Payload(w[bt[i]]) OBVIOUS
  <2>1. CASE i = Len(v)
    <3>1. v[i] = x /\ w[bt[i]] = y BY <1>2, <1>3, <1>6, <2>1
    <3> QED BY <3>1
  <2>2. CASE i # Len(v)
    <3>1. i \in 1..Len(s) /\ at[i] \in 1..Len(t) /\ bt[i] = at[i] BY <1>5, <2>2
    <3>2. v[i] = s[i] /\ w[bt[i]] = t[at[i]] BY <1>2, <1>3, <3>1
    <3> QED BY <1>4, <3>1, <3>2
  <2> QED BY <2>1, <2>2
<1>10. SomeOf(v, w) BY <1>7, <1>8, <1>9 DEF SomeOf
<1> QED BY <1>10 DEF v, w

LEMMA DropOfSlice ==
  ASSUME NEW s \in Octets, NEW i \in Nat, NEW j \in Nat, NEW n \in Nat, i + n <= j, j <= Len(s)
  PROVE  Drop(Slice(s, i, j), n) = Slice(s, i + n, j)
<1>1. Len(s) \in Nat /\ i <= j /\ i + n \in Nat /\ j - i \in Nat /\ j - (i + n) \in Nat BY LenNat
<1> DEFINE t == Slice(s, i, j)
<1>2. t \in Octets /\ Len(t) = j - i /\ \A k \in 1..(j - i) : t[k] = s[i + k] BY <1>1, SliceFacts
<1> HIDE DEF t
<1> DEFINE u == Drop(t, n)
           v == Slice(s, i + n, j)
<1>3. u \in Octets /\ Len(u) = Len(t) - n /\ \A k \in 1..(Len(t) - n) : u[k] = t[n + k]
  <2>1. n <= Len(t) BY <1>1, <1>2
  <2> QED BY <1>2, <2>1, DropFacts
<1>4. v \in Octets /\ Len(v) = j - (i + n) /\ \A k \in 1..(j - (i + n)) : v[k] = s[(i + n) + k]
  BY <1>1, SliceFacts
<1> HIDE DEF u, v
<1>5. Len(u) = Len(v) BY <1>1, <1>2, <1>3, <1>4
<1>6. ASSUME NEW k \in 1..Len(u) PROVE u[k] = v[k]
  <2>1. n + k \in 1..(j - i) /\ k \in 1..(Len(t) - n) /\ k \in 1..(j - (i + n))
    BY <1>1, <1>2, <1>3, <1>4, <1>6
  <2>2. i + (n + k) = (i + n) + k BY <2>1
  <2>3. u[k] = t[n + k] /\ t[n + k] = s[i + (n + k)] BY <1>2, <1>3, <2>1
  <2>4. v[k] = s[(i + n) + k] BY <1>4, <2>1
  <2> QED BY <2>2, <2>3, <2>4
<1>7. u = v BY <1>3, <1>4, <1>5, <1>6, SameBytes
<1> QED BY <1>7 DEF t, u, v

\* A unit is its start code and what comes up to its end.
LEMMA PayloadOf ==
  ASSUME NEW raw \in Octets, NEW p, NEW h, NEW e \in Nat, CodePos(raw, p, h), h + 3 <= e, e <= Len(raw)
  PROVE  Slice(raw, p, e) \in Octets /\ Payload(Slice(raw, p, e)) = Slice(raw, h + 3, e)
<1>1. p \in Nat /\ h \in Nat /\ Hit(raw, h) /\ p <= h /\ h <= p + 1 BY CodeThere
<1>2. p <= e /\ Len(raw) \in Nat BY <1>1, LenNat
<1> DEFINE u == Slice(raw, p, e)
<1>3. u \in Octets /\ Len(u) = e - p /\ \A k \in 1..(e - p) : u[k] = raw[p + k]
  BY <1>1, <1>2, SliceFacts
<1> HIDE DEF u
<1> DEFINE g == h - p
<1>4. g \in Nat /\ p + g = h /\ g <= 1 BY <1>1
<1>5. Hit(u, g)
  <2>1. g + 1 \in 1..(e - p) /\ g + 2 \in 1..(e - p) /\ g + 3 \in 1..(e - p) BY <1>1, <1>2, <1>4
  <2>2. p + (g + 1) = h + 1 /\ p + (g + 2) = h + 2 /\ p + (g + 3) = h + 3 BY <1>1
  <2> HIDE DEF g
  <2>3. u[g + 1] = raw[h + 1] /\ u[g + 2] = raw[h + 2] /\ u[g + 3] = raw[h + 3] BY <1>3, <2>1, <2>2
  <2>4. g + 3 <= Len(u) BY <1>3, <2>1
  <2> QED BY <1>1, <2>3, <2>4 DEF Hit
<1>6. CodePos(u, 0, g)
  <2>1. CASE p = h BY <1>4, <1>5, <2>1 DEF CodePos
  <2>2. CASE p = h - 1 /\ raw[h] = 0
    <3>1. g = 1 /\ p + 1 = h /\ 1 \in 1..(e - p) BY <1>1, <1>2, <2>2
    <3>2. u[1] = 0 BY <1>3, <2>2, <3>1
    <3> QED BY <1>4, <1>5, <3>1, <3>2 DEF CodePos
  <2> QED BY <2>1, <2>2 DEF CodePos
<1>7. start_code_length(u, 0) = g + 3
  <2> HIDE DEF g
  <2>1. start_code_length(u, 0) = g + 3 - 0 BY <1>3, <1>6, CodeThere
  <2> QED BY <1>4, <2>1
<1>8. Drop(u, g + 3) = Slice(raw, h + 3, e)
  <2>1. p + (g + 3) = h + 3 /\ g + 3 \in Nat BY <1>1
  <2> HIDE DEF g
  <2>2. p + (g + 3) <= e BY <2>1
  <2>3. Drop(Slice(raw, p, e), g + 3) = Slice(raw, p + (g + 3), e) BY <1>1, <2>1, <2>2, DropOfSlice
  <2> QED BY <2>1, <2>3 DEF u
<1>9. Payload(u) = Slice(raw, h + 3, e) BY <1>7, <1>8 DEF Payload
<1> QED BY <1>3, <1>9 DEF u

(* The parser while it has a place in the stream. *)

\* The buffer is the rest of the stream from a start code on, at which the loop over the
\* whole has come by; units of what that has found by then were cut, and exactly these
\* unless something was thrown away.
At(raw, b, out, exact, k, o, h) ==
  /\ b = Drop(raw, o)
  /\ CodePos(raw, o, h) /\ CodePos(raw, Scan(raw)[k].pos, h)
  /\ SomeOf(out, Scan(raw)[k].out)
  /\ exact => Scan(raw)[k] = [pos |-> o, out |-> out]

Synced(raw, b, out, exact) == \E k, o, h \in Nat : At(raw, b, out, exact, k, o, h)

LEMMA AtFacts ==
  ASSUME NEW raw \in Octets, NEW b, NEW out, NEW exact, NEW k \in Nat, NEW o \in Nat, NEW h \in Nat,
         At(raw, b, out, exact, k, o, h)
  PROVE  /\ o <= h /\ h <= o + 1 /\ h + 3 <= Len(raw) /\ Len(raw) \in Nat
         /\ b \in Octets /\ Len(b) = Len(raw) - o
         /\ start_code_length(b, 0) = h + 3 - o
         /\ find_start_code(b, start_code_length(b, 0)) =
              IF find_start_code(raw, h + 3) < 0 THEN -1 ELSE find_start_code(raw, h + 3) - o
<1>1. b = Drop(raw, o) /\ CodePos(raw, o, h) BY DEF At
<1>2. o <= h /\ h <= o + 1 /\ h + 3 <= Len(raw) BY <1>1, CodeThere
<1>3. o <= Len(raw) /\ start_code_length(b, 0) = h + 3 - o BY <1>1, CodePosInDrop
<1>4. b \in Octets /\ Len(b) = Len(raw) - o BY <1>1, <1>3, DropFacts
<1> DEFINE n == h + 3 - o
<1>5. n \in Nat /\ o + n = h + 3 BY <1>2
<1> HIDE DEF n
<1>6. find_start_code(Drop(raw, o), n) =
        IF find_start_code(raw, o + n) < 0 THEN -1 ELSE find_start_code(raw, o + n) - o
  BY <1>3, <1>5, FindInDrop
<1>7. start_code_length(b, 0) = n BY <1>3 DEF n
<1> QED BY <1>1, <1>2, <1>3, <1>4, <1>5, <1>6, <1>7, LenNat

\* A turn of the parser's loop does what the loop over the whole does.
LEMMA CutKeepsPlace ==
  ASSUME NEW raw \in Octets, NEW s \in CutState, NEW done \in Seq(Octets), NEW exact \in BOOLEAN,
         NEW k \in Nat, NEW o \in Nat, NEW h \in Nat,
         At(raw, s.buffer, done \o s.out, exact, k, o, h),
         find_start_code(raw, h + 3) >= 0
  PROVE  /\ \E g \in Nat : /\ find_start_code(raw, h + 3) \in Nat
                           /\ At(raw, CutUnit(s).buffer, done \o CutUnit(s).out, exact, k + 1,
                                 find_start_code(raw, h + 3), g)
         /\ Len(CutUnit(s).buffer) < Len(s.buffer)
<1> DEFINE b == s.buffer
           w == find_start_code(raw, h + 3)
           p == Scan(raw)[k].pos
           found == Scan(raw)[k].out
           mine == Slice(raw, o, w)
           whole == Slice(raw, p, w)
<1>1. b = Drop(raw, o) /\ CodePos(raw, o, h) /\ CodePos(raw, p, h) /\ SomeOf(done \o s.out, found)
      /\ (exact => Scan(raw)[k] = [pos |-> o, out |-> done \o s.out])
  BY DEF At
<1>2. /\ o <= h /\ h <= o + 1 /\ h + 3 <= Len(raw) /\ Len(raw) \in Nat
      /\ b \in Octets /\ Len(b) = Len(raw) - o
      /\ start_code_length(b, 0) = h + 3 - o
      /\ find_start_code(b, start_code_length(b, 0)) = IF w < 0 THEN -1 ELSE w - o
  BY AtFacts
<1>3. s.out \in Seq(Octets) /\ found \in Seq(Octets)
  <2>1. Scan(raw)[k] \in ScanState BY ScanFunction
  <2> QED BY <2>1 DEF CutState, ScanState
<1>4. h + 3 \in Nat OBVIOUS
<1>5. w \in Nat /\ w >= h + 3 /\ w <= Len(raw) /\ UnitEnd(raw, h + 3) = w
      /\ \E g \in Nat : CodePos(raw, w, g) /\ FirstHit(raw, h + 3, g)
  BY <1>2, <1>4, UnitEndFacts
<1>6. PICK g \in Nat : CodePos(raw, w, g) BY <1>5
<1>7. Scan(raw)[k + 1] = [pos |-> w, out |-> IF w > h + 3 THEN Append(found, whole) ELSE found]
  <2>1. Scan(raw)[k + 1] =
           [pos |-> w,
            out |-> IF UnitEnd(raw, h + 3) > h + 3
                    THEN Append(found, Slice(raw, p, UnitEnd(raw, h + 3))) ELSE found]
    BY <1>1, ScanStep
  <2> HIDE DEF w
  <2> QED BY <1>5, <2>1
<1> HIDE DEF w, p, found
<1>8. CutUnit(s) = [buffer |-> Drop(b, w - o),
                    out |-> IF w - o > h + 3 - o THEN Append(s.out, Slice(b, 0, w - o)) ELSE s.out]
  <2>1. start_code_length(b, 0) # 0 BY <1>2
  <2>2. find_start_code(b, start_code_length(b, 0)) = w - o /\ ~(w - o < 0) BY <1>2, <1>5
  <2>3. find_start_code(s.buffer, h + 3 - o) = w - o /\ start_code_length(s.buffer, 0) = h + 3 - o
    BY <1>2, <2>2
  <2> QED BY <2>1, <2>2, <2>3 DEF CutUnit
<1>9. Drop(b, w - o) = Drop(raw, w)
  <2> DEFINE n == w - o
  <2>1. n \in Nat /\ o + n = w BY <1>2, <1>5
  <2> HIDE DEF n
  <2>2. Drop(Drop(raw, o), n) = Drop(raw, o + n) BY <1>5, <2>1, DropDrop
  <2> QED BY <1>1, <2>1, <2>2 DEF n
<1>10. Slice(b, 0, w - o) = mine
  <2> DEFINE n == w - o
  <2>1. n \in Nat /\ o + n = w /\ 0 <= n /\ o + 0 = o BY <1>2, <1>5
  <2> HIDE DEF n
  <2>2. Slice(Drop(raw, o), 0, n) = Slice(raw, o + 0, o + n) BY <1>5, <2>1, SliceOfDrop
  <2> QED BY <1>1, <2>1, <2>2 DEF n
<1>11. w - o > h + 3 - o <=> w > h + 3 BY <1>2, <1>5
<1>12. CutUnit(s) = [buffer |-> Drop(raw, w), out |-> IF w > h + 3 THEN Append(s.out, mine) ELSE s.out]
  BY <1>8, <1>9, <1>10, <1>11
<1>13. mine \in Octets /\ whole \in Octets /\ Payload(mine) = Payload(whole)
  <2>1. mine \in Octets /\ Payload(mine) = Slice(raw, h + 3, w) BY <1>1, <1>5, PayloadOf
  <2>2. whole \in Octets /\ Payload(whole) = Slice(raw, h + 3, w) BY <1>1, <1>5, PayloadOf
  <2> QED BY <2>1, <2>2
<1>14. CutUnit(s).buffer = Drop(raw, w) BY <1>12
<1>15. Len(CutUnit(s).buffer) < Len(b)
  <2>1. Len(Drop(raw, w)) = Len(raw) - w BY <1>5, DropFacts
  <2> QED BY <1>2, <1>5, <1>14, <2>1
<1> HIDE DEF mine, whole
<1>16. /\ CodePos(raw, Scan(raw)[k + 1].pos, g)
       /\ SomeOf(done \o CutUnit(s).out, Scan(raw)[k + 1].out)
       /\ exact => Scan(raw)[k + 1] = [pos |-> w, out |-> done \o CutUnit(s).out]
  <2>1. CASE w > h + 3
    <3>1. CutUnit(s).out = Append(s.out, mine) BY <1>12, <2>1
    <3>2. Scan(raw)[k + 1] = [pos |-> w, out |-> Append(found, whole)] BY <1>7, <2>1
    <3>3. Scan(raw)[k + 1].pos = w /\ Scan(raw)[k + 1].out = Append(found, whole) BY <3>2
    <3>4. done \o Append(s.out, mine) = Append(done \o s.out, mine) BY <1>3, <1>13
    <3>5. done \o s.out \in Seq(Octets) BY <1>3
    <3>6. SomeOf(Append(done \o s.out, mine), Append(found, whole)) BY <1>1, <1>3, <1>13, <3>5, SomeOfBoth
    <3>7. ASSUME exact PROVE Append(found, whole) = Append(done \o s.out, mine)
      <4>1. Scan(raw)[k].pos = o /\ Scan(raw)[k].out = done \o s.out BY <1>1, <3>7
      <4>2. p = o /\ found = done \o s.out BY <4>1 DEF p, found
      <4>3. mine = whole BY <4>2 DEF mine, whole
      <4> QED BY <4>2, <4>3
    <3> QED BY <1>6, <3>1, <3>2, <3>3, <3>4, <3>6, <3>7
  <2>2. CASE ~(w > h + 3)
    <3>1. CutUnit(s).out = s.out BY <1>12, <2>2
    <3>2. Scan(raw)[k + 1] = [pos |-> w, out |-> found] BY <1>7, <2>2
    <3>3. Scan(raw)[k + 1].pos = w /\ Scan(raw)[k + 1].out = found BY <3>2
    <3>4. ASSUME exact PROVE found = done \o s.out
      <4>1. Scan(raw)[k].out = done \o s.out BY <1>1, <3>4
      <4> QED BY <4>1 DEF found
    <3> QED BY <1>1, <1>6, <3>1, <3>2, <3>3, <3>4
  <2> QED BY <2>1, <2>2
<1>17. At(raw, CutUnit(s).buffer, done \o CutUnit(s).out, exact, k + 1, w, g)
  BY <1>6, <1>14, <1>16 DEF At
<1> QED BY <1>5, <1>15, <1>17 DEF w

\* With nothing that follows, what is left is the last unit of the whole.
LEMMA LastUnit ==
  ASSUME NEW raw \in Octets, NEW b, NEW out \in Seq(Octets), NEW exact \in BOOLEAN,
         NEW k \in Nat, NEW o \in Nat, NEW h \in Nat, At(raw, b, out, exact, k, o, h),
         find_start_code(raw, h + 3) < 0
  PROVE  LET n == start_code_length(b, 0)
             last == IF n = 0 \/ Len(b) <= n THEN <<>> ELSE <<b>>
         IN  /\ SomeOf(out \o last, annexb_nal_units(raw))
             /\ exact => out \o last = annexb_nal_units(raw)
<1> DEFINE n == start_code_length(b, 0)
           last == IF n = 0 \/ Len(b) <= n THEN <<>> ELSE <<b>>
           p == Scan(raw)[k].pos
           found == Scan(raw)[k].out
           e == Len(raw)
           mine == Slice(raw, o, e)
           whole == Slice(raw, p, e)
<1>1. b = Drop(raw, o) /\ CodePos(raw, o, h) /\ CodePos(raw, p, h) /\ SomeOf(out, found)
      /\ (exact => Scan(raw)[k] = [pos |-> o, out |-> out])
  BY DEF At
<1>2. /\ o <= h /\ h <= o + 1 /\ h + 3 <= e /\ e \in Nat
      /\ b \in Octets /\ Len(b) = e - o /\ n = h + 3 - o
  BY AtFacts
<1>3. found \in Seq(Octets)
  <2>1. Scan(raw)[k] \in ScanState BY ScanFunction
  <2> QED BY <2>1 DEF ScanState
<1>4. UnitEnd(raw, h + 3) = e BY DEF UnitEnd
<1>5. find_start_code(raw, h + 3) = -1
  <2>1. h + 3 \in Nat OBVIOUS
  <2>2. find_start_code(raw, h + 3) \in Nat \cup {-1} BY <2>1, FindRange
  <2> QED BY <2>2
<1>6. Scan(raw)[k + 1] = [pos |-> -1, out |-> IF e > h + 3 THEN Append(found, whole) ELSE found]
  <2>1. Scan(raw)[k + 1] =
           [pos |-> find_start_code(raw, h + 3),
            out |-> IF UnitEnd(raw, h + 3) > h + 3
                    THEN Append(found, Slice(raw, p, UnitEnd(raw, h + 3))) ELSE found]
    BY <1>1, ScanStep
  <2> HIDE DEF e
  <2> QED BY <1>4, <1>5, <2>1
<1>7. annexb_nal_units(raw) = IF e > h + 3 THEN Append(found, whole) ELSE found
  <2>1. k < Len(raw)
    <3>1. Scan(raw)[k].pos >= 0 BY <1>1 DEF CodePos
    <3> QED BY <3>1, ScanAhead
  <2>2. k + 1 \in Nat /\ k + 1 <= Len(raw) BY <1>2, <2>1
  <2>3. Scan(raw)[k + 1].pos < 0
    <3>1. Scan(raw)[k + 1].pos = -1 BY <1>6
    <3> QED BY <3>1
  <2>4. annexb_nal_units(raw) = Scan(raw)[k + 1].out BY <2>2, <2>3, ScanEnd
  <2>5. Scan(raw)[k + 1].out = IF e > h + 3 THEN Append(found, whole) ELSE found BY <1>6
  <2> QED BY <2>4, <2>5
<1>8. b = mine BY <1>1 DEF Drop
<1>9. mine \in Octets /\ whole \in Octets /\ Payload(mine) = Payload(whole)
  <2>1. mine \in Octets /\ Payload(mine) = Slice(raw, h + 3, e) BY <1>1, <1>2, PayloadOf
  <2>2. whole \in Octets /\ Payload(whole) = Slice(raw, h + 3, e) BY <1>1, <1>2, PayloadOf
  <2> QED BY <2>1, <2>2
<1>10. last = IF e > h + 3 THEN <<b>> ELSE <<>>
  <2>1. n # 0 /\ (Len(b) <= n <=> ~(e > h + 3)) BY <1>2
  <2> HIDE DEF n, e
  <2> QED BY <2>1
<1> HIDE DEF last, mine, whole, p, found, e
<1>11. SomeOf(out \o last, annexb_nal_units(raw)) /\ (exact => out \o last = annexb_nal_units(raw))
  <2>1. CASE e > h + 3
    <3>1. last = <<b>> /\ annexb_nal_units(raw) = Append(found, whole) BY <1>7, <1>10, <2>1
    <3>2. out \o <<b>> = Append(out, b) BY <1>2
    <3>3. SomeOf(Append(out, b), Append(found, whole)) BY <1>1, <1>2, <1>3, <1>8, <1>9, SomeOfBoth
    <3>4. ASSUME exact PROVE Append(found, whole) = Append(out, b)
      <4>1. Scan(raw)[k].pos = o /\ Scan(raw)[k].out = out BY <1>1, <3>4
      <4>2. p = o /\ found = out BY <4>1 DEF p, found
      <4>3. mine = whole BY <4>2 DEF mine, whole
      <4> QED BY <1>8, <4>2, <4>3
    <3> QED BY <3>1, <3>2, <3>3, <3>4
  <2>2. CASE ~(e > h + 3)
    <3>1. last = <<>> /\ annexb_nal_units(raw) = found BY <1>7, <1>10, <2>2
    <3>2. out \o <<>> = out OBVIOUS
    <3>3. ASSUME exact PROVE found = out
      <4>1. Scan(raw)[k].out = out BY <1>1, <3>3
      <4> QED BY <4>1 DEF found
    <3> QED BY <1>1, <3>1, <3>2, <3>3
  <2> QED BY <2>1, <2>2
<1> QED BY <1>11 DEF last, n

\* The parser's loop, from a place in the stream on, comes to the last start code.
LEMMA CutComesToTheLast ==
  ASSUME NEW raw \in Octets, NEW p, p.buffer \in Octets, NEW done \in Seq(Octets), NEW exact \in BOOLEAN,
         Synced(raw, p.buffer, done, exact)
  PROVE  LET end == CutTurns(p)[Len(p.buffer)]
         IN  /\ end \in CutState
             /\ \E k, o, h \in Nat : /\ At(raw, end.buffer, done \o end.out, exact, k, o, h)
                                     /\ find_start_code(raw, h + 3) < 0
<1> DEFINE g == CutTurns(p)
<1>1. /\ \A j \in Nat : g[j] \in CutState
      /\ g[0] = [buffer |-> p.buffer, out |-> <<>>]
      /\ \A j \in Nat : g[j + 1] = CutUnit(g[j])
  BY CutFunction
<1> HIDE DEF g
<1> DEFINE Place(s, k, o, h) == At(raw, s.buffer, done \o s.out, exact, k, o, h)
           Ended(s) == \E k, o, h \in Nat : Place(s, k, o, h) /\ find_start_code(raw, h + 3) < 0
           Going(s, j) == (\E k, o, h \in Nat : Place(s, k, o, h)) /\ Len(s.buffer) + j <= Len(p.buffer)
           T == {j \in Nat : Ended(g[j]) \/ Going(g[j], j)}
<1>2. 0 \in T
  <2>1. g[0].buffer = p.buffer /\ g[0].out = <<>> BY <1>1
  <2>2. done \o g[0].out = done BY <2>1
  <2>3. PICK k, o, h \in Nat : At(raw, p.buffer, done, exact, k, o, h) BY DEF Synced
  <2>4. Place(g[0], k, o, h) BY <2>1, <2>2, <2>3
  <2>5. Len(g[0].buffer) + 0 <= Len(p.buffer) BY <2>1, LenNat
  <2> HIDE DEF Place
  <2> QED BY <2>4, <2>5
<1>3. ASSUME NEW j \in Nat, j \in T PROVE j + 1 \in T
  <2> HIDE DEF Place
  <2>1. PICK k, o, h \in Nat :
          Place(g[j], k, o, h) /\ (find_start_code(raw, h + 3) < 0 \/ Len(g[j].buffer) + j <= Len(p.buffer))
    BY <1>3
  <2>2. g[j] \in CutState /\ g[j + 1] = CutUnit(g[j]) BY <1>1
  <2>3. At(raw, g[j].buffer, done \o g[j].out, exact, k, o, h) BY <2>1 DEF Place
  <2>0. find_start_code(raw, h + 3) \in Nat \cup {-1}
    <3>1. h + 3 \in Nat OBVIOUS
    <3> QED BY <3>1, FindRange
  <2>4. CASE find_start_code(raw, h + 3) < 0
    <3>1. find_start_code(g[j].buffer, start_code_length(g[j].buffer, 0)) = -1
      BY <2>3, <2>4, AtFacts
    <3>2. CutUnit(g[j]) = g[j] BY <3>1 DEF CutUnit
    <3>3. Ended(g[j + 1]) BY <2>1, <2>2, <2>4, <3>2
    <3> QED BY <3>3
  <2>5. CASE find_start_code(raw, h + 3) >= 0
    <3> DEFINE w == find_start_code(raw, h + 3)
    <3>1. /\ \E f \in Nat : w \in Nat /\ At(raw, CutUnit(g[j]).buffer, done \o CutUnit(g[j]).out, exact, k + 1, w, f)
          /\ Len(CutUnit(g[j]).buffer) < Len(g[j].buffer)
      BY <2>2, <2>3, <2>5, CutKeepsPlace
    <3> HIDE DEF w
    <3>2. PICK f \in Nat : w \in Nat /\ Place(g[j + 1], k + 1, w, f) BY <2>2, <3>1 DEF Place
    <3>3. Len(g[j].buffer) + j <= Len(p.buffer) BY <2>0, <2>1, <2>5
    <3>4. Len(g[j + 1].buffer) \in Nat /\ Len(g[j].buffer) \in Nat /\ Len(p.buffer) \in Nat
      <4>1. g[j].buffer \in Octets BY <2>2 DEF CutState
      <4>2. j + 1 \in Nat OBVIOUS
      <4>3. g[j + 1] \in CutState BY <1>1, <4>2
      <4>4. g[j + 1].buffer \in Octets BY <4>3 DEF CutState
      <4> QED BY <4>1, <4>4, LenNat
    <3>8. Len(g[j + 1].buffer) < Len(g[j].buffer) BY <2>2, <3>1
    <3>5. Len(g[j + 1].buffer) + (j + 1) <= Len(p.buffer)
      <4> DEFINE x == Len(g[j + 1].buffer)
                 y == Len(g[j].buffer)
                 z == Len(p.buffer)
      <4>1. x \in Nat /\ y \in Nat /\ z \in Nat /\ x < y /\ y + j <= z BY <3>3, <3>4, <3>8
      <4> HIDE DEF x, y, z
      <4>2. x + (j + 1) <= z BY <4>1
      <4> QED BY <4>2 DEF x, z
    <3>6. k + 1 \in Nat OBVIOUS
    <3>7. Going(g[j + 1], j + 1) BY <3>2, <3>5, <3>6
    <3> HIDE DEF Going, Ended
    <3> QED BY <3>6, <3>7
  <2> QED BY <2>0, <2>4, <2>5
<1>4. \A j \in Nat : j \in T
  <2> HIDE DEF T
  <2> QED BY <1>2, <1>3, NaturalInduction
<1> DEFINE end == g[Len(p.buffer)]
<1>5. Len(p.buffer) \in Nat BY LenNat
<1>6. end \in CutState BY <1>1, <1>5
<1>7. Ended(end)
  <2>1. Ended(end) \/ Going(end, Len(p.buffer)) BY <1>4, <1>5
  <2>2. ASSUME Going(end, Len(p.buffer)) PROVE FALSE
    <3> HIDE DEF end
    <3>1. PICK k, o, h \in Nat : At(raw, end.buffer, done \o end.out, exact, k, o, h) BY <2>2
    <3>2. Len(end.buffer) + Len(p.buffer) <= Len(p.buffer) BY <2>2
    <3>3. /\ o <= h /\ h + 3 <= Len(raw) /\ Len(raw) \in Nat
          /\ end.buffer \in Octets /\ Len(end.buffer) = Len(raw) - o
      BY <3>1, AtFacts
    <3> QED BY <1>5, <3>2, <3>3
  <2> HIDE DEF Ended, Going, end
  <2> QED BY <2>1, <2>2
<1> HIDE DEF end
<1> QED BY <1>6, <1>7 DEF end, g

(* What holds of the parser between two feeds. *)

Parsers == [buffer : Octets, resyncs : Nat, discarded : Nat]

\* Nothing was thrown away but noise before the first start code.
Whole(raw, p) == find_start_code(raw, 0) < 0 \/ p.discarded <= find_start_code(raw, 0)

\* The parser has a place in the stream, and no start code follows in what it has.
HasPlace(raw, p, out) ==
  /\ p.discarded >= find_start_code(raw, 0)
  /\ \E k, o, h \in Nat : /\ At(raw, p.buffer, out, Whole(raw, p), k, o, h)
                          /\ find_start_code(raw, h + 3) < 0

\* It waits for a start code, and what was cut comes before what it has.
Waits(raw, p, out, o) ==
  /\ o <= Len(raw) /\ p.buffer = Drop(raw, o) /\ NoHit(raw, o)
  /\ out = <<>> \/ \E k, h \in Nat : /\ CodePos(raw, Scan(raw)[k].pos, h) /\ h + 3 <= o
                                     /\ SomeOf(out, Scan(raw)[k].out)
  /\ Whole(raw, p) => /\ NoHit(raw, 0) /\ out = <<>> /\ p.discarded = o
                      /\ o = 0 \/ Len(p.buffer) >= 4

Held(raw, p, out) ==
  /\ raw \in Octets /\ Len(raw) <= MaxStream /\ p \in Parsers /\ out \in Seq(Octets)
  /\ Len(p.buffer) <= (IF MaxNal > 4 THEN MaxNal ELSE 4)
  /\ HasPlace(raw, p, out) \/ \E o \in Nat : Waits(raw, p, out, o)

UnitsInv == Held(fed, parser, nals)

\* A unit that is too long is thrown away whole: the search near its end finds nothing.
LEMMA TooLongGoes ==
  ASSUME NEW raw \in Octets, Len(raw) <= MaxStream, NEW p \in Parsers, NEW out, NEW exact,
         NEW k \in Nat, NEW o \in Nat, NEW h \in Nat, At(raw, p.buffer, out, exact, k, o, h),
         find_start_code(raw, h + 3) < 0
  PROVE  trim_oversized_partial_nal(p) = IF Len(p.buffer) <= MaxNal THEN p ELSE Forget(p, Len(p.buffer))
<1> DEFINE b == p.buffer
           from == IF Len(b) > 128 THEN Len(b) - 128 ELSE 0
           last == find_start_code(b, from)
<1>1. CASE Len(b) <= MaxNal BY <1>1 DEF trim_oversized_partial_nal
<1>2. CASE ~(Len(b) <= MaxNal)
  <2>1. b = Drop(raw, o) /\ CodePos(raw, o, h) BY DEF At
  <2>2. /\ o <= h /\ h <= o + 1 /\ h + 3 <= Len(raw) /\ Len(raw) \in Nat
        /\ b \in Octets /\ Len(b) = Len(raw) - o
    BY AtFacts
  <2>3. MaxStream \in Nat /\ MaxNal \in Nat /\ (MaxNal >= 65536 \/ MaxStream <= 128) BY H264Assumption
  <2>4. from \in Nat BY <2>2
  <2>5. ~(last > 0)
    <3>1. CASE Len(b) > 128
      <4>1. from = Len(b) - 128 /\ Len(b) > 65536 BY <1>2, <2>2, <2>3, <3>1
      <4>2. o + from >= h + 3 /\ o + from \in Nat /\ o <= Len(raw) /\ h + 3 \in Nat BY <2>2, <4>1
      <4>3. NoHit(raw, h + 3) BY <4>2, FindRange
      <4>4. NoHit(raw, o + from) BY <4>2, <4>3 DEF NoHit
      <4> HIDE DEF from
      <4>5. NoHit(Drop(raw, o), from) BY <2>4, <4>2, <4>4, NoHitInDrop
      <4>6. last = -1 BY <2>1, <2>2, <2>4, <4>5, FindNone
      <4> QED BY <4>6
    <3>2. CASE ~(Len(b) > 128)
      <4>1. from = 0 BY <3>2
      <4>2. find_start_code(b, 0) = 0 BY <2>1, CodePosInDrop
      <4> HIDE DEF from
      <4> QED BY <4>1, <4>2
    <3> QED BY <3>1, <3>2
  <2>6. trim_oversized_partial_nal(p) =
          IF Len(b) <= MaxNal THEN p ELSE Forget(p, IF last > 0 THEN last ELSE Len(b))
    BY DEF trim_oversized_partial_nal
  <2> HIDE DEF last, from
  <2> QED BY <1>2, <2>5, <2>6
<1> QED BY <1>1, <1>2

LEMMA ForgetFacts ==
  ASSUME NEW p \in Parsers, NEW n \in Nat, n <= Len(p.buffer)
  PROVE  /\ Forget(p, n) \in Parsers
         /\ Forget(p, n).buffer = Drop(p.buffer, n) /\ Len(Forget(p, n).buffer) = Len(p.buffer) - n
         /\ Forget(p, n).discarded = p.discarded + n
<1>1. p.buffer \in Octets /\ p.resyncs \in Nat /\ p.discarded \in Nat BY DEF Parsers
<1>2. Drop(p.buffer, n) \in Octets /\ Len(Drop(p.buffer, n)) = Len(p.buffer) - n BY <1>1, DropFacts
<1>3. p.resyncs + 1 \in Nat /\ p.discarded + n \in Nat BY <1>1
<1>4. Forget(p, n) = [buffer |-> Drop(p.buffer, n), resyncs |-> p.resyncs + 1, discarded |-> p.discarded + n]
  BY DEF Forget
<1>5. Forget(p, n).buffer = Drop(p.buffer, n) BY <1>4
<1>6. Forget(p, n).discarded = p.discarded + n BY <1>4
<1>7. Forget(p, n) \in Parsers BY <1>2, <1>3, <1>4 DEF Parsers
<1> QED BY <1>2, <1>5, <1>6, <1>7

\* The rest of a feed once the buffer begins with a start code.
LEMMA CutHolds ==
  ASSUME NEW raw \in Octets, Len(raw) <= MaxStream, NEW p \in Parsers, NEW done \in Seq(Octets),
         Synced(raw, p.buffer, done, Whole(raw, p)),
         p.discarded >= find_start_code(raw, 0), find_start_code(raw, 0) >= 0
  PROVE  Held(raw, Cut(p).p, done \o Cut(p).out)
<1> DEFINE end == CutTurns(p)[Len(p.buffer)]
           exact == Whole(raw, p)
           rest == [p EXCEPT !.buffer = end.buffer]
           out == done \o end.out
<1>1. p.buffer \in Octets /\ p.discarded \in Nat /\ p.resyncs \in Nat BY DEF Parsers
<1>2. exact \in BOOLEAN BY DEF Whole
<1>3. /\ end \in CutState
      /\ \E k, o, h \in Nat : At(raw, end.buffer, out, exact, k, o, h) /\ find_start_code(raw, h + 3) < 0
  <2> HIDE DEF exact
  <2> QED BY <1>1, <1>2, CutComesToTheLast DEF exact
<1> HIDE DEF end
<1>4. end.buffer \in Octets /\ end.out \in Seq(Octets) BY <1>3 DEF CutState
<1> HIDE DEF exact
<1>5. PICK k, o, h \in Nat : At(raw, end.buffer, out, exact, k, o, h) /\ find_start_code(raw, h + 3) < 0
  BY <1>3
<1>6. /\ o <= h /\ h <= o + 1 /\ h + 3 <= Len(raw) /\ Len(raw) \in Nat
      /\ Len(end.buffer) = Len(raw) - o /\ start_code_length(end.buffer, 0) = h + 3 - o
  BY <1>5, AtFacts
<1>7. rest \in Parsers /\ rest.buffer = end.buffer /\ rest.discarded = p.discarded
  BY <1>1, <1>4 DEF Parsers
<1>8. out \in Seq(Octets) BY <1>4
<1>9. Cut(p).out = end.out /\ Cut(p).p = trim_oversized_partial_nal(rest)
  <2>1. start_code_length(end.buffer, 0) # 0 BY <1>6
  <2>2. Cut(p) = [out |-> end.out,
                  p |-> IF start_code_length(end.buffer, 0) = 0 THEN [p EXCEPT !.buffer = <<>>]
                        ELSE trim_oversized_partial_nal(rest)]
    BY DEF Cut, end
  <2> HIDE DEF rest
  <2> QED BY <2>1, <2>2
<1>10. At(raw, rest.buffer, out, exact, k, o, h) BY <1>5, <1>7
<1> HIDE DEF rest, out
<1>11. trim_oversized_partial_nal(rest) =
         IF Len(rest.buffer) <= MaxNal THEN rest ELSE Forget(rest, Len(rest.buffer))
  BY <1>5, <1>7, <1>10, TooLongGoes
<1>12. MaxNal \in Nat BY H264Assumption
<1>13. Len(rest.buffer) \in Nat /\ Len(rest.buffer) >= 1 BY <1>4, <1>6, <1>7, LenNat
<1>14. CASE Len(rest.buffer) <= MaxNal
  <2>1. Cut(p).p = rest BY <1>9, <1>11, <1>14
  <2>2. exact <=> Whole(raw, rest) BY <1>7 DEF exact, Whole
  <2>3. At(raw, rest.buffer, out, Whole(raw, rest), k, o, h) BY <1>10, <2>2 DEF At
  <2>4. HasPlace(raw, rest, out) BY <1>5, <1>7, <2>3 DEF HasPlace
  <2>5. Held(raw, rest, out) BY <1>7, <1>8, <1>12, <1>13, <1>14, <2>4 DEF Held
  <2> QED BY <1>9, <2>1, <2>5 DEF out
<1>15. CASE ~(Len(rest.buffer) <= MaxNal)
  <2> DEFINE n == Len(rest.buffer)
             new == Forget(rest, n)
  <2>1. Cut(p).p = new BY <1>9, <1>11, <1>15
  <2>2. new \in Parsers /\ new.buffer = Drop(rest.buffer, n) /\ Len(new.buffer) = n - n
        /\ new.discarded = rest.discarded + n
    BY <1>7, <1>13, ForgetFacts
  <2>3. new.buffer = Drop(raw, Len(raw))
    <3>1. rest.buffer = Drop(raw, o) BY <1>10 DEF At
    <3>2. n \in Nat /\ o + n = Len(raw) BY <1>6, <1>7, <1>13
    <3> HIDE DEF n
    <3>3. Drop(Drop(raw, o), n) = Drop(raw, o + n) BY <1>6, <3>2, DropDrop
    <3> QED BY <2>2, <3>1, <3>2, <3>3
  <2> HIDE DEF new
  <2>4. NoHit(raw, Len(raw))
    <3> SUFFICES ASSUME NEW i \in Nat, i >= Len(raw), Hit(raw, i) PROVE FALSE BY DEF NoHit
    <3>1. i + 3 <= Len(raw) BY DEF Hit
    <3> QED BY <1>6, <3>1
  <2>5. ~Whole(raw, new)
    <3>1. find_start_code(raw, 0) \in Nat \cup {-1} BY FindRange
    <3> QED BY <1>1, <1>7, <1>13, <2>2, <3>1 DEF Whole
  <2>6. CodePos(raw, Scan(raw)[k].pos, h) /\ SomeOf(out, Scan(raw)[k].out) BY <1>10 DEF At
  <2>7. Waits(raw, new, out, Len(raw)) BY <1>6, <2>3, <2>4, <2>5, <2>6 DEF Waits
  <2>8. Len(new.buffer) <= (IF MaxNal > 4 THEN MaxNal ELSE 4) BY <1>12, <1>13, <2>2
  <2>9. Held(raw, new, out) BY <1>6, <1>8, <2>2, <2>7, <2>8 DEF Held
  <2> QED BY <1>9, <2>1, <2>9 DEF out
<1> QED BY <1>14, <1>15

LEMMA AtAppend ==
  ASSUME NEW s \in Octets, NEW d \in Octets, NEW b, NEW out, NEW exact,
         NEW k \in Nat, NEW o \in Nat, NEW h \in Nat, At(s, b, out, exact, k, o, h)
  PROVE  At(s \o d, b \o d, out, exact, k, o, h)
<1>1. /\ b = Drop(s, o) /\ CodePos(s, o, h) /\ CodePos(s, Scan(s)[k].pos, h)
      /\ SomeOf(out, Scan(s)[k].out) /\ (exact => Scan(s)[k] = [pos |-> o, out |-> out])
  BY DEF At
<1>2. o <= Len(s) BY <1>1, CodePosInDrop
<1>3. b \o d = Drop(s \o d, o) BY <1>1, <1>2, DropAppend
<1>4. Scan(s)[k].pos >= 0 BY <1>1 DEF CodePos
<1>5. Scan(s \o d)[k] = Scan(s)[k] BY <1>4, ScanAppend
<1>6. CodePos(s \o d, o, h) /\ CodePos(s \o d, Scan(s)[k].pos, h) BY <1>1, CodePosAppend
<1> QED BY <1>1, <1>3, <1>5, <1>6 DEF At

\* More arrives for a parser that has a place.
LEMMA MoreWithPlace ==
  ASSUME NEW s \in Octets, NEW d \in Octets, NEW p \in Parsers, NEW q \in Parsers, NEW out, HasPlace(s, p, out),
         q.buffer = p.buffer \o d, q.discarded = p.discarded
  PROVE  /\ find_start_code(q.buffer, 0) = 0
         /\ Synced(s \o d, q.buffer, out, Whole(s \o d, q))
         /\ q.discarded >= find_start_code(s \o d, 0) /\ find_start_code(s \o d, 0) >= 0
<1>1. PICK k, o, h \in Nat : At(s, p.buffer, out, Whole(s, p), k, o, h) BY DEF HasPlace
<1>2. At(s \o d, q.buffer, out, Whole(s, p), k, o, h) BY <1>1, AtAppend
<1>3. CodePos(s, o, h) /\ CodePos(s \o d, o, h) /\ q.buffer = Drop(s \o d, o) BY <1>1, <1>2 DEF At
<1>4. s \o d \in Octets BY JoinFacts
<1>5. find_start_code(q.buffer, 0) = 0 BY <1>3, <1>4, CodePosInDrop
<1>6. find_start_code(s, 0) >= 0
  <2>1. Hit(s, h) /\ h >= 0 BY <1>3, CodeThere
  <2>2. ~NoHit(s, 0) BY <2>1 DEF NoHit
  <2>3. find_start_code(s, 0) \in Nat \cup {-1} /\ ~(find_start_code(s, 0) < 0) BY <2>2, FindRange
  <2> QED BY <2>3
<1>7. find_start_code(s \o d, 0) = find_start_code(s, 0) BY <1>6, FindAppend
<1>8. Whole(s \o d, q) <=> Whole(s, p) BY <1>7 DEF Whole
<1>9. At(s \o d, q.buffer, out, Whole(s \o d, q), k, o, h) BY <1>2, <1>8 DEF At
<1>10. p.discarded >= find_start_code(s, 0) BY DEF HasPlace
<1> QED BY <1>5, <1>6, <1>7, <1>9, <1>10 DEF Synced

\* More arrives for a parser that waits.
LEMMA MoreWaiting ==
  ASSUME NEW s \in Octets, NEW d \in Octets, NEW p \in Parsers, NEW q \in Parsers, NEW out, NEW o \in Nat,
         Waits(s, p, out, o), q.buffer = p.buffer \o d, q.discarded = p.discarded
  PROVE  /\ s \o d \in Octets /\ o <= Len(s \o d) /\ Len(s \o d) \in Nat
         /\ q.buffer = Drop(s \o d, o) /\ Len(q.buffer) = Len(s \o d) - o
         /\ out = <<>> \/ \E k, h \in Nat : /\ CodePos(s \o d, Scan(s \o d)[k].pos, h) /\ h + 3 <= o
                                            /\ SomeOf(out, Scan(s \o d)[k].out)
         /\ Whole(s \o d, q) =>
              /\ out = <<>> /\ q.discarded = o
              /\ \A i \in Nat : Hit(s \o d, i) => i >= o /\ (o = 0 \/ i >= o + 2)
              /\ o = 0 \/ Len(q.buffer) >= 4
<1> DEFINE w == s \o d
<1>1. /\ o <= Len(s) /\ p.buffer = Drop(s, o) /\ NoHit(s, o)
      /\ out = <<>> \/ \E k, h \in Nat : CodePos(s, Scan(s)[k].pos, h) /\ h + 3 <= o /\ SomeOf(out, Scan(s)[k].out)
      /\ Whole(s, p) => NoHit(s, 0) /\ out = <<>> /\ p.discarded = o /\ (o = 0 \/ Len(p.buffer) >= 4)
  BY DEF Waits
<1>2. w \in Octets /\ Len(w) = Len(s) + Len(d) /\ Len(s) \in Nat /\ Len(d) \in Nat BY JoinFacts, LenNat
<1>3. o <= Len(w) /\ Len(w) \in Nat BY <1>1, <1>2
<1>4. q.buffer = Drop(w, o) BY <1>1, DropAppend
<1>5. Len(q.buffer) = Len(w) - o
  <2> HIDE DEF w
  <2> QED BY <1>2, <1>3, <1>4, DropFacts
<1>6. Len(p.buffer) = Len(s) - o BY <1>1, DropFacts
<1>7. ASSUME NEW k \in Nat, NEW h \in Nat, CodePos(s, Scan(s)[k].pos, h), SomeOf(out, Scan(s)[k].out)
      PROVE  CodePos(w, Scan(w)[k].pos, h) /\ SomeOf(out, Scan(w)[k].out)
  <2>1. Scan(s)[k].pos >= 0 BY <1>7 DEF CodePos
  <2>2. Scan(w)[k] = Scan(s)[k] BY <2>1, ScanAppend
  <2>3. CodePos(w, Scan(s)[k].pos, h) BY <1>7, CodePosAppend
  <2> QED BY <1>7, <2>2, <2>3
<1>8. out = <<>> \/ \E k, h \in Nat : CodePos(w, Scan(w)[k].pos, h) /\ h + 3 <= o /\ SomeOf(out, Scan(w)[k].out)
  <2> HIDE DEF w
  <2> QED BY <1>1, <1>7
<1>9. ASSUME Whole(w, q) PROVE Whole(s, p)
  <2>1. find_start_code(s, 0) \in Nat \cup {-1} BY FindRange
  <2>2. CASE find_start_code(s, 0) < 0 BY <2>2 DEF Whole
  <2>3. CASE find_start_code(s, 0) >= 0
    <3>1. find_start_code(w, 0) = find_start_code(s, 0) BY <2>3, FindAppend
    <3> QED BY <1>9, <2>3, <3>1 DEF Whole
  <2> QED BY <2>1, <2>2, <2>3
<1>10. ASSUME Whole(w, q), NEW i \in Nat, Hit(w, i) PROVE i >= o /\ (o = 0 \/ i >= o + 2)
  <2>1. NoHit(s, 0) /\ (o = 0 \/ Len(p.buffer) >= 4) BY <1>1, <1>9, <1>10
  <2>2. ~Hit(s, i) BY <2>1 DEF NoHit
  <2>3. ~(i + 3 <= Len(s)) BY <1>10, <2>2, HitAppend
  <2>4. CASE o = 0 BY <2>4
  <2>5. CASE Len(p.buffer) >= 4 BY <1>2, <1>6, <2>3, <2>5
  <2> QED BY <2>1, <2>4, <2>5
<1>11. ASSUME Whole(w, q) PROVE out = <<>> /\ q.discarded = o /\ (o = 0 \/ Len(q.buffer) >= 4)
  <2>1. out = <<>> /\ p.discarded = o /\ (o = 0 \/ Len(p.buffer) >= 4) BY <1>1, <1>9, <1>11
  <2>2. Len(q.buffer) >= Len(p.buffer) BY <1>2, <1>5, <1>6
  <2>3. Len(q.buffer) \in Nat /\ Len(p.buffer) \in Nat BY <1>1, <1>2, <1>3, <1>5, <1>6
  <2> QED BY <2>1, <2>2, <2>3
<1> HIDE DEF w
<1>12. /\ w \in Octets /\ o <= Len(w) /\ Len(w) \in Nat
       /\ q.buffer = Drop(w, o) /\ Len(q.buffer) = Len(w) - o
       /\ out = <<>> \/ \E k, h \in Nat : CodePos(w, Scan(w)[k].pos, h) /\ h + 3 <= o /\ SomeOf(out, Scan(w)[k].out)
       /\ Whole(w, q) =>
              /\ out = <<>> /\ q.discarded = o
              /\ \A i \in Nat : Hit(w, i) => i >= o /\ (o = 0 \/ i >= o + 2)
              /\ o = 0 \/ Len(q.buffer) >= 4
  BY <1>2, <1>3, <1>4, <1>5, <1>8, <1>10, <1>11
<1> QED BY <1>12 DEF w

\* It goes on waiting, and keeps what may be the beginning of a start code.
LEMMA MoreNoise ==
  ASSUME NEW w \in Octets, Len(w) <= MaxStream, NEW q \in Parsers, NEW out \in Seq(Octets), NEW o \in Nat,
         o <= Len(w), q.buffer = Drop(w, o), Len(q.buffer) = Len(w) - o, NoHit(w, o),
         out = <<>> \/ \E k, h \in Nat : /\ CodePos(w, Scan(w)[k].pos, h) /\ h + 3 <= o
                                         /\ SomeOf(out, Scan(w)[k].out),
         Whole(w, q) => /\ out = <<>> /\ q.discarded = o
                        /\ \A i \in Nat : Hit(w, i) => i >= o /\ (o = 0 \/ i >= o + 2)
                        /\ o = 0 \/ Len(q.buffer) >= 4
  PROVE  Held(w, trim_without_start_code(q), out)
<1>1. Len(w) \in Nat /\ MaxNal \in Nat BY LenNat, H264Assumption
<1>2. Whole(w, q) => NoHit(w, 0)
  <2> SUFFICES ASSUME Whole(w, q), NEW i \in Nat, Hit(w, i) PROVE FALSE BY DEF NoHit
  <2>1. i >= o OBVIOUS
  <2> QED BY <2>1 DEF NoHit
<1>3. CASE ~(Len(q.buffer) > MaxNal /\ Len(q.buffer) > 4)
  <2>1. trim_without_start_code(q) = q BY <1>3 DEF trim_without_start_code
  <2>2. Len(q.buffer) <= (IF MaxNal > 4 THEN MaxNal ELSE 4) BY <1>1, <1>3
  <2>3. Waits(w, q, out, o) BY <1>2 DEF Waits
  <2> QED BY <2>1, <2>2, <2>3 DEF Held
<1>4. CASE Len(q.buffer) > MaxNal /\ Len(q.buffer) > 4
  <2> DEFINE n == Len(q.buffer) - 4
             new == Forget(q, n)
             o2 == Len(w) - 4
  <2>1. trim_without_start_code(q) = new BY <1>4 DEF trim_without_start_code
  <2>2. n \in Nat /\ n <= Len(q.buffer) /\ o + n = o2 /\ o2 \in Nat /\ o2 >= o /\ o2 <= Len(w)
    BY <1>1, <1>4
  <2> HIDE DEF n
  <2>3. new \in Parsers /\ new.buffer = Drop(q.buffer, n) /\ Len(new.buffer) = Len(q.buffer) - n
        /\ new.discarded = q.discarded + n
    BY <2>2, ForgetFacts
  <2>4. Len(new.buffer) = 4 BY <1>1, <2>3 DEF n
  <2>5. new.buffer = Drop(w, o2)
    <3>1. Drop(Drop(w, o), n) = Drop(w, o + n) BY <2>2, DropDrop
    <3> QED BY <2>2, <2>3, <3>1
  <2> HIDE DEF new, o2
  <2>6. NoHit(w, o2)
    <3>1. \A i \in Nat : i >= o2 => i >= o BY <2>2
    <3> QED BY <3>1 DEF NoHit
  <2>7. out = <<>> \/ \E k, h \in Nat : CodePos(w, Scan(w)[k].pos, h) /\ h + 3 <= o2 /\ SomeOf(out, Scan(w)[k].out)
    <3>1. \A h \in Nat : h + 3 <= o => h + 3 <= o2 BY <2>2
    <3> QED BY <3>1
  <2>8. ASSUME Whole(w, new) PROVE NoHit(w, 0) /\ out = <<>> /\ new.discarded = o2
    <3>1. find_start_code(w, 0) \in Nat \cup {-1} /\ q.discarded \in Nat BY FindRange DEF Parsers
    <3>2. Whole(w, q) BY <2>2, <2>3, <2>8, <3>1 DEF Whole
    <3> QED BY <1>2, <2>2, <2>3, <3>2
  <2>9. Waits(w, new, out, o2) BY <2>2, <2>4, <2>5, <2>6, <2>7, <2>8 DEF Waits
  <2>10. Len(new.buffer) <= (IF MaxNal > 4 THEN MaxNal ELSE 4) BY <1>1, <2>4
  <2>11. Held(w, new, out) BY <2>2, <2>3, <2>9, <2>10 DEF Held
  <2> QED BY <2>1, <2>11
<1> QED BY <1>3, <1>4

\* Later turns of the loop have found what the earlier ones have.
LEMMA SomeOfLater ==
  ASSUME NEW raw \in Octets, NEW out \in Seq(Octets), NEW k \in Nat, NEW j \in Nat, k <= j,
         SomeOf(out, Scan(raw)[k].out)
  PROVE  SomeOf(out, Scan(raw)[j].out)
<1> DEFINE T == {i \in Nat : SomeOf(out, Scan(raw)[i].out)}
<1>1. k \in T OBVIOUS
<1>2. ASSUME NEW i \in Nat, i >= k, i \in T PROVE i + 1 \in T
  <2>1. Scan(raw)[i] \in ScanState BY ScanFunction
  <2>2. Scan(raw)[i].out \in Seq(Octets) /\ Scan(raw)[i].pos \in Nat \cup {-1} BY <2>1 DEF ScanState
  <2>3. CASE Scan(raw)[i].pos < 0
    <3>1. Scan(raw)[i + 1] = Scan(raw)[i] BY <2>3, ScanStops
    <3> QED BY <1>2, <3>1
  <2>4. CASE Scan(raw)[i].pos >= 0
    <3>1. PICK h \in Nat : CodePos(raw, Scan(raw)[i].pos, h) BY <2>4, ScanPositions
    <3> DEFINE e == UnitEnd(raw, h + 3)
               nalu == Slice(raw, Scan(raw)[i].pos, e)
               more == IF e > h + 3 THEN Append(Scan(raw)[i].out, nalu) ELSE Scan(raw)[i].out
    <3>2. Scan(raw)[i + 1] = [pos |-> find_start_code(raw, h + 3), out |-> more] BY <3>1, ScanStep
    <3>3. h + 3 \in Nat /\ h + 3 <= Len(raw) BY <3>1, CodeThere
    <3>4. e \in Nat /\ h + 3 <= e /\ e <= Len(raw) BY <3>3, UnitEndFacts
    <3> HIDE DEF e
    <3>5. nalu \in Octets BY <3>1, <3>4, PayloadOf
    <3> HIDE DEF nalu
    <3>6. SomeOf(out, more) BY <1>2, <2>2, <3>5, SomeOfMore
    <3> HIDE DEF more
    <3>7. Scan(raw)[i + 1].out = more BY <3>2
    <3> QED BY <3>6, <3>7
  <2> QED BY <2>2, <2>3, <2>4
<1>3. \A i \in Nat : i >= k => i \in T
  <2> HIDE DEF T
  <2> QED BY <1>1, <1>2, LaterTurns
<1> QED BY <1>3

\* It finds a start code again.
LEMMA MoreSync ==
  ASSUME NEW w \in Octets, NEW q \in Parsers, NEW out \in Seq(Octets), NEW o \in Nat,
         o <= Len(w), q.buffer = Drop(w, o), Len(q.buffer) = Len(w) - o,
         find_start_code(q.buffer, 0) >= 0,
         out = <<>> \/ \E k, h \in Nat : /\ CodePos(w, Scan(w)[k].pos, h) /\ h + 3 <= o
                                         /\ SomeOf(out, Scan(w)[k].out),
         Whole(w, q) => /\ out = <<>> /\ q.discarded = o
                        /\ \A i \in Nat : Hit(w, i) => i >= o /\ (o = 0 \/ i >= o + 2)
                        /\ o = 0 \/ Len(q.buffer) >= 4
  PROVE  LET first == find_start_code(q.buffer, 0)
             r == IF first > 0 THEN Forget(q, first) ELSE q
         IN  /\ r \in Parsers /\ Synced(w, r.buffer, out, Whole(w, r))
             /\ r.discarded >= find_start_code(w, 0) /\ find_start_code(w, 0) >= 0
<1> DEFINE first == find_start_code(q.buffer, 0)
           r == IF first > 0 THEN Forget(q, first) ELSE q
           f == find_start_code(w, o)
<1>1. Len(w) \in Nat /\ q.discarded \in Nat /\ q.buffer \in Octets BY LenNat DEF Parsers
<1>2. f >= 0 /\ first = f - o /\ f \in Nat
  <2>1. 0 \in Nat /\ o + 0 = o OBVIOUS
  <2>2. find_start_code(Drop(w, o), 0) =
          IF find_start_code(w, o + 0) < 0 THEN -1 ELSE find_start_code(w, o + 0) - o
    BY <2>1, FindInDrop
  <2>3. f \in Nat \cup {-1} BY FindRange
  <2>4. first = IF f < 0 THEN -1 ELSE f - o BY <2>1, <2>2
  <2>5. first >= 0 OBVIOUS
  <2> HIDE DEF first, f
  <2> QED BY <2>3, <2>4, <2>5
<1>3. PICK h \in Nat : CodePos(w, f, h) /\ FirstHit(w, o, h) /\ f = CodeOf(w, o, h)
  <2>1. PICK h \in Nat : FirstHit(w, o, h) /\ f = CodeOf(w, o, h) BY <1>2, FindRange
  <2>2. CodePos(w, f, h) BY <2>1, Found
  <2> QED BY <2>1, <2>2
<1>4. f <= h /\ h <= f + 1 /\ h + 3 <= Len(w) /\ h >= o /\ f >= o /\ f <= Len(w) /\ Hit(w, h)
  <2>1. f <= h /\ h <= f + 1 /\ h + 3 <= Len(w) /\ Hit(w, h) BY <1>3, CodeThere
  <2>2. f >= o /\ h >= o BY <1>3, Found DEF FirstHit
  <2> QED BY <1>1, <1>2, <2>1, <2>2
<1> HIDE DEF first, f
<1>5. r \in Parsers /\ r.buffer = Drop(w, f) /\ r.discarded = q.discarded + first
  <2>1. CASE first > 0
    <3>1. r = Forget(q, first) BY <2>1
    <3>2. first \in Nat /\ first <= Len(q.buffer) /\ o + first = f BY <1>1, <1>2, <1>4
    <3>3. Forget(q, first) \in Parsers /\ Forget(q, first).buffer = Drop(q.buffer, first)
          /\ Forget(q, first).discarded = q.discarded + first
      BY <3>2, ForgetFacts
    <3>4. Drop(Drop(w, o), first) = Drop(w, o + first) BY <1>4, <3>2, DropDrop
    <3> HIDE DEF r
    <3> QED BY <3>1, <3>2, <3>3, <3>4
  <2>2. CASE ~(first > 0)
    <3>1. r = q /\ first = 0 /\ f = o BY <1>2, <1>4, <2>2
    <3> HIDE DEF r
    <3> QED BY <1>1, <3>1
  <2> QED BY <2>1, <2>2
<1>6. find_start_code(w, 0) >= 0
  <2>1. ~NoHit(w, 0) BY <1>4 DEF NoHit
  <2>2. find_start_code(w, 0) \in Nat \cup {-1} /\ ~(find_start_code(w, 0) < 0) BY <2>1, FindRange
  <2> QED BY <2>2
<1> HIDE DEF r
<1>7. CASE Whole(w, r)
  <2>1. Whole(w, q)
    <3>1. find_start_code(w, 0) \in Nat \cup {-1} BY FindRange
    <3>2. first >= 0 /\ first \in Int BY <1>2, <1>4
    <3>3. r.discarded <= find_start_code(w, 0)
      <4>1. ~(find_start_code(w, 0) < 0) BY <1>6, <3>1
      <4> QED BY <1>7, <4>1 DEF Whole
    <3>4. q.discarded <= find_start_code(w, 0) BY <1>1, <1>5, <3>1, <3>2, <3>3
    <3> QED BY <3>4 DEF Whole
  <2>2. out = <<>> /\ q.discarded = o /\ \A i \in Nat : Hit(w, i) => i >= o /\ (o = 0 \/ i >= o + 2)
    BY <2>1
  <2>3. FirstHit(w, 0, h)
    <3>1. ASSUME NEW i \in Nat, i < h PROVE ~Hit(w, i)
      <4>1. i >= o => ~Hit(w, i) BY <1>3, <3>1 DEF FirstHit
      <4>2. ~(i >= o) => ~Hit(w, i) BY <2>2
      <4> QED BY <4>1, <4>2
    <3> QED BY <1>4, <3>1 DEF FirstHit
  <2>4. find_start_code(w, 0) = CodeOf(w, 0, h) BY <2>3, FindFirst
  <2>5. CodeOf(w, 0, h) = CodeOf(w, o, h)
    <3>1. h > 0 <=> h > o
      <4>1. CASE o = 0 BY <4>1
      <4>2. CASE h >= o + 2 BY <4>2
      <4> QED BY <1>4, <2>2, <4>1, <4>2
    <3> QED BY <3>1 DEF CodeOf
  <2>6. find_start_code(w, 0) = f BY <1>3, <2>4, <2>5
  <2>7. r.discarded = f BY <1>2, <1>5, <2>2
  <2>8. Scan(w)[0] = [pos |-> f, out |-> out] BY <2>2, <2>6, ScanFunction
  <2>9. Scan(w)[0].pos = f /\ Scan(w)[0].out = out BY <2>8
  <2>10. SomeOf(out, out) BY SomeOfItself
  <2>11. At(w, r.buffer, out, Whole(w, r), 0, f, h) BY <1>3, <1>5, <2>8, <2>9, <2>10 DEF At
  <2>12. Synced(w, r.buffer, out, Whole(w, r)) BY <1>2, <2>11 DEF Synced
  <2>13. r.discarded >= find_start_code(w, 0) BY <1>2, <2>6, <2>7
  <2> QED BY <1>5, <1>6, <2>12, <2>13 DEF r, first
<1>8. CASE ~Whole(w, r)
  <2>1. r.discarded >= find_start_code(w, 0)
    <3>1. find_start_code(w, 0) \in Nat \cup {-1} /\ r.discarded \in Nat BY <1>5, FindRange DEF Parsers
    <3> QED BY <1>8, <3>1 DEF Whole
  <2>2. PICK j \in Nat : CodePos(w, Scan(w)[j].pos, h) BY <1>4, ScanVisits
  <2>3. Scan(w)[j] \in ScanState BY ScanFunction
  <2>4. Scan(w)[j].out \in Seq(Octets) BY <2>3 DEF ScanState
  <2>5. SomeOf(out, Scan(w)[j].out)
    <3>1. CASE out = <<>> BY <2>4, <3>1, SomeOfNothing
    <3>2. ASSUME NEW k \in Nat, NEW g \in Nat, CodePos(w, Scan(w)[k].pos, g), g + 3 <= o, SomeOf(out, Scan(w)[k].out)
          PROVE  SomeOf(out, Scan(w)[j].out)
      <4>1. Scan(w)[k].pos \in Nat /\ Scan(w)[k].pos <= g BY <3>2, CodeThere
      <4>2. Scan(w)[j].pos \in Nat /\ h <= Scan(w)[j].pos + 1 BY <2>2, CodeThere
      <4>3. ~(j < k)
        <5> SUFFICES ASSUME j < k PROVE FALSE OBVIOUS
        <5>1. Scan(w)[k].pos >= 0 BY <4>1
        <5>2. Scan(w)[j].pos < Scan(w)[k].pos BY <5>1, ScanOrder
        <5> QED BY <1>4, <3>2, <4>1, <4>2, <5>2
      <4>4. k <= j BY <4>3
      <4> QED BY <3>2, <4>4, SomeOfLater
    <3> QED BY <3>1, <3>2
  <2>6. At(w, r.buffer, out, Whole(w, r), j, f, h) BY <1>3, <1>5, <1>8, <2>2, <2>5 DEF At
  <2>7. Synced(w, r.buffer, out, Whole(w, r)) BY <1>2, <2>6 DEF Synced
  <2> QED BY <1>5, <1>6, <2>1, <2>7 DEF r, first
<1> QED BY <1>7, <1>8

LEMMA FeedKeeps ==
  ASSUME UnitsInv, NEW data \in Octets, Len(fed \o data) <= MaxStream, fed' = fed \o data, feed(data)
  PROVE  UnitsInv'
<1> DEFINE w == fed \o data
           q == [parser EXCEPT !.buffer = @ \o data]
           first == find_start_code(q.buffer, 0)
           r == IF first > 0 THEN Forget(q, first) ELSE q
<1>1. /\ fed \in Octets /\ parser \in Parsers /\ nals \in Seq(Octets)
      /\ HasPlace(fed, parser, nals) \/ \E o \in Nat : Waits(fed, parser, nals, o)
  BY DEF UnitsInv, Held
<1>2. q \in Parsers /\ q.buffer = parser.buffer \o data /\ q.discarded = parser.discarded
  <2>1. parser.buffer \o data \in Octets BY <1>1, JoinFacts DEF Parsers
  <2> QED BY <1>1, <2>1 DEF Parsers
<1>3. w \in Octets BY <1>1, JoinFacts
<1>4. /\ first < 0 => parser' = trim_without_start_code(q) /\ nals' = nals
      /\ ~(first < 0) => parser' = Cut(r).p /\ nals' = nals \o Cut(r).out
  BY DEF feed
<1>5. q.buffer \in Octets BY <1>2 DEF Parsers
<1>6. first \in Nat \cup {-1} BY <1>5, FindRange
<1> HIDE DEF q
<1>7. ASSUME first >= 0, r \in Parsers, Synced(w, r.buffer, nals, Whole(w, r)),
             r.discarded >= find_start_code(w, 0), find_start_code(w, 0) >= 0
      PROVE  Held(w, parser', nals')
  <2>1. parser' = Cut(r).p /\ nals' = nals \o Cut(r).out BY <1>4, <1>6, <1>7
  <2> HIDE DEF r, w, first
  <2>2. Len(w) <= MaxStream BY DEF w
  <2>3. Held(w, Cut(r).p, nals \o Cut(r).out) BY <1>1, <1>3, <1>7, <2>2, CutHolds
  <2> QED BY <2>1, <2>3
<1>8. CASE HasPlace(fed, parser, nals)
  <2>1. /\ first = 0 /\ Synced(w, q.buffer, nals, Whole(w, q))
        /\ q.discarded >= find_start_code(w, 0) /\ find_start_code(w, 0) >= 0
    BY <1>1, <1>2, <1>8, MoreWithPlace
  <2>2. r = q BY <2>1
  <2>3. Held(w, parser', nals')
    <3>1. Synced(w, r.buffer, nals, Whole(w, r)) /\ r.discarded >= find_start_code(w, 0) BY <2>1, <2>2
    <3>2. r \in Parsers /\ first >= 0
      <4> HIDE DEF r, first
      <4> QED BY <1>2, <2>1, <2>2
    <3> HIDE DEF r, first, w
    <3> QED BY <1>7, <2>1, <3>1, <3>2
  <2> QED BY <2>3 DEF UnitsInv
<1>9. ASSUME NEW o \in Nat, Waits(fed, parser, nals, o) PROVE UnitsInv'
  <2>1. /\ w \in Octets /\ o <= Len(w) /\ Len(w) \in Nat
        /\ q.buffer = Drop(w, o) /\ Len(q.buffer) = Len(w) - o
        /\ nals = <<>> \/ \E k, h \in Nat : /\ CodePos(w, Scan(w)[k].pos, h) /\ h + 3 <= o
                                            /\ SomeOf(nals, Scan(w)[k].out)
        /\ Whole(w, q) =>
             /\ nals = <<>> /\ q.discarded = o
             /\ \A i \in Nat : Hit(w, i) => i >= o /\ (o = 0 \/ i >= o + 2)
             /\ o = 0 \/ Len(q.buffer) >= 4
    <3>1. fed \in Octets /\ parser \in Parsers /\ data \in Octets BY <1>1
    <3> HIDE DEF first, r
    <3>2. q.buffer = parser.buffer \o data /\ q.discarded = parser.discarded /\ q \in Parsers BY <1>2
    <3>3. w = fed \o data OBVIOUS
    <3>4. /\ w \in Octets /\ o <= Len(w) /\ Len(w) \in Nat
          /\ q.buffer = Drop(w, o) /\ Len(q.buffer) = Len(w) - o
      <4>1. o <= Len(fed) /\ parser.buffer = Drop(fed, o) BY <1>9 DEF Waits
      <4>2. w \in Octets /\ Len(w) = Len(fed) + Len(data) /\ Len(fed) \in Nat /\ Len(data) \in Nat
        BY <3>1, JoinFacts, LenNat
      <4>3. q.buffer = Drop(w, o) BY <3>1, <3>2, <4>1, DropAppend
      <4> HIDE DEF w
      <4>4. o <= Len(w) /\ Len(w) \in Nat BY <4>1, <4>2
      <4> QED BY <4>2, <4>3, <4>4, DropFacts
    <3>5. nals = <<>> \/ \E k, h \in Nat : /\ CodePos(fed \o data, Scan(fed \o data)[k].pos, h) /\ h + 3 <= o
                                           /\ SomeOf(nals, Scan(fed \o data)[k].out)
      BY <1>9, <3>1, <3>2, MoreWaiting
    <3>6. Whole(fed \o data, q) =>
             /\ nals = <<>> /\ q.discarded = o
             /\ \A i \in Nat : Hit(fed \o data, i) => i >= o /\ (o = 0 \/ i >= o + 2)
             /\ o = 0 \/ Len(q.buffer) >= 4
      BY <1>9, <3>1, <3>2, MoreWaiting
    <3> QED BY <3>4, <3>5, <3>6
  <2>2. Len(w) <= MaxStream OBVIOUS
  <2>3. Held(w, parser', nals')
    <3> HIDE DEF w, first
    <3>1. CASE first < 0
      <4>1. NoHit(q.buffer, 0) BY <1>5, <3>1, FindRange DEF first
      <4>2. NoHit(w, o)
        <5>1. 0 \in Nat /\ o + 0 = o OBVIOUS
        <5>2. NoHit(Drop(w, o), 0) <=> NoHit(w, o + 0) BY <2>1, <5>1, NoHitInDrop
        <5> QED BY <2>1, <4>1, <5>1, <5>2
      <4>3. Held(w, trim_without_start_code(q), nals) BY <1>1, <1>2, <2>1, <2>2, <4>2, MoreNoise
      <4> HIDE DEF r
      <4> QED BY <1>4, <3>1, <4>3
    <3>2. CASE first >= 0
      <4>1. /\ r \in Parsers /\ Synced(w, r.buffer, nals, Whole(w, r))
            /\ r.discarded >= find_start_code(w, 0) /\ find_start_code(w, 0) >= 0
        BY <1>1, <1>2, <2>1, <3>2, MoreSync DEF first
      <4> HIDE DEF r
      <4> QED BY <1>7, <3>2, <4>1
    <3> QED BY <1>6, <3>1, <3>2
  <2> QED BY <2>3 DEF UnitsInv
<1> QED BY <1>1, <1>8, <1>9

LEMMA StartHolds ==
  Held(<<>>, NewParser, <<>>)
<1>1. <<>> \in Octets /\ <<>> \in Seq(Octets) /\ Len(<<>>) = 0 BY DEF Octets
<1>2. MaxNal \in Nat /\ MaxStream \in Nat BY H264Assumption
<1>3. NewParser.buffer = <<>> /\ NewParser.discarded = 0 /\ NewParser \in Parsers
  BY <1>1 DEF NewParser, Parsers
<1>4. NoHit(<<>>, 0) BY <1>1 DEF NoHit, Hit
<1>5. Drop(<<>>, 0) = <<>>
  <2>1. 0 \in Nat /\ 0 <= Len(<<>>) BY <1>1
  <2>2. Drop(<<>>, 0) \in Octets /\ Len(Drop(<<>>, 0)) = 0 - 0 BY <1>1, <2>1, DropFacts
  <2>3. \A k \in 1..0 : Drop(<<>>, 0)[k] = <<>>[k] OBVIOUS
  <2> HIDE DEF Drop
  <2>4. Len(Drop(<<>>, 0)) = Len(<<>>) BY <1>1, <2>2
  <2>5. \A k \in 1..Len(Drop(<<>>, 0)) : Drop(<<>>, 0)[k] = <<>>[k] BY <2>2, <2>3
  <2> QED BY <1>1, <2>2, <2>4, <2>5, SameBytes
<1>6. Waits(<<>>, NewParser, <<>>, 0) BY <1>1, <1>3, <1>4, <1>5 DEF Waits
<1> QED BY <1>1, <1>2, <1>3, <1>6 DEF Held

LEMMA UnitsInvariance ==
  H264Spec => []UnitsInv
<1>1. H264Init => UnitsInv BY StartHolds DEF H264Init, UnitsInv
<1>2. UnitsInv /\ [H264Next]_h264Vars => UnitsInv'
  <2> SUFFICES ASSUME UnitsInv, [H264Next]_h264Vars PROVE UnitsInv' OBVIOUS
  <2>1. CASE Feed
    <3>1. PICK n \in 1 .. MaxPiece : \E data \in [1 .. n -> StreamBytes] :
            Len(fed) + n <= MaxStream /\ fed' = fed \o data /\ feed(data)
      BY <2>1 DEF Feed
    <3>2. PICK data \in [1 .. n -> StreamBytes] :
            Len(fed) + n <= MaxStream /\ fed' = fed \o data /\ feed(data)
      BY <3>1
    <3>3. n \in Nat /\ StreamBytes \subseteq Nat BY H264Assumption
    <3>4. data \in Seq(Nat) /\ Len(data) = n
      <4>1. data \in [1 .. n -> Nat] BY <3>3
      <4> QED BY <3>3, <4>1
    <3>5. fed \in Octets BY DEF UnitsInv, Held
    <3>6. Len(fed \o data) = Len(fed) + n BY <3>4, <3>5, JoinFacts DEF Octets
    <3> QED BY <3>2, <3>4, <3>6, FeedKeeps DEF Octets
  <2>2. CASE NextStream BY <2>2, StartHolds DEF NextStream, UnitsInv
  <2>3. CASE UNCHANGED h264Vars BY <2>3 DEF h264Vars, UnitsInv
  <2> QED BY <2>1, <2>2, <2>3 DEF H264Next
<1> QED BY <1>1, <1>2, PTL DEF H264Spec

LEMMA UnitsFollow ==
  ASSUME UnitsInv
  PROVE  UnitsExact
<1>1. /\ fed \in Octets /\ parser \in Parsers /\ nals \in Seq(Octets) /\ Len(parser.buffer) <= (IF MaxNal > 4 THEN MaxNal ELSE 4)
      /\ HasPlace(fed, parser, nals) \/ \E o \in Nat : Waits(fed, parser, nals, o)
  BY DEF UnitsInv, Held
<1>2. BufferBounded BY <1>1 DEF BufferBounded
<1>3. CutsAsWhole <=> (Whole(fed, parser) => nals \o flush = annexb_nal_units(fed))
  BY DEF CutsAsWhole, Whole
<1>4. CASE HasPlace(fed, parser, nals)
  <2> DEFINE exact == Whole(fed, parser)
  <2>1. PICK k, o, h \in Nat : At(fed, parser.buffer, nals, exact, k, o, h) /\ find_start_code(fed, h + 3) < 0
    BY <1>4 DEF HasPlace
  <2>2. exact \in BOOLEAN BY DEF Whole
  <2> HIDE DEF exact
  <2> DEFINE n == start_code_length(parser.buffer, 0)
             last == IF n = 0 \/ Len(parser.buffer) <= n THEN <<>> ELSE <<parser.buffer>>
  <2>3. SomeOf(nals \o last, annexb_nal_units(fed)) /\ (exact => nals \o last = annexb_nal_units(fed))
    BY <1>1, <2>1, <2>2, LastUnit
  <2>4. flush = last BY DEF flush
  <2> QED BY <1>2, <1>3, <2>3, <2>4 DEF UnitsExact, UnitsNeverTorn, exact
<1>5. ASSUME NEW o \in Nat, Waits(fed, parser, nals, o) PROVE UnitsExact
  <2>1. /\ o <= Len(fed) /\ parser.buffer = Drop(fed, o) /\ NoHit(fed, o)
        /\ nals = <<>> \/ \E k, h \in Nat : CodePos(fed, Scan(fed)[k].pos, h) /\ h + 3 <= o /\ SomeOf(nals, Scan(fed)[k].out)
        /\ Whole(fed, parser) => NoHit(fed, 0) /\ nals = <<>>
    BY <1>5 DEF Waits
  <2>2. flush = <<>>
    <3>1. 0 \in Nat /\ 1 \in Nat /\ o + 0 = o /\ o + 1 \in Nat OBVIOUS
    <3>2. (Hit(Drop(fed, o), 0) <=> Hit(fed, o + 0)) /\ (Hit(Drop(fed, o), 1) <=> Hit(fed, o + 1))
      BY <1>1, <2>1, <3>1, HitInDrop
    <3>3. ~Hit(fed, o) /\ ~Hit(fed, o + 1)
      <4>1. o >= o /\ o + 1 >= o OBVIOUS
      <4> QED BY <2>1, <3>1, <4>1 DEF NoHit
    <3>4. ~Hit(parser.buffer, 0) /\ ~Hit(parser.buffer, 0 + 1) BY <2>1, <3>1, <3>2, <3>3
    <3>5. parser.buffer \in Octets BY <1>1 DEF Parsers
    <3>6. start_code_length(parser.buffer, 0) = 0 BY <3>4, <3>5, CodeLength
    <3> QED BY <3>6 DEF flush
  <2>3. nals \o flush = nals BY <1>1, <2>2
  <2>4. Len(fed) \in Nat BY <1>1, LenNat
  <2> DEFINE units == annexb_nal_units(fed)
  <2>5. units = Scan(fed)[Len(fed)].out BY DEF annexb_nal_units
  <2>6. units \in Seq(Octets)
    <3>1. Scan(fed)[Len(fed)] \in ScanState BY <1>1, <2>4, ScanFunction
    <3> QED BY <2>5, <3>1 DEF ScanState
  <2> HIDE DEF units
  <2>7. SomeOf(nals, units)
    <3>1. CASE nals = <<>> BY <2>6, <3>1, SomeOfNothing
    <3>2. ASSUME NEW k \in Nat, NEW h \in Nat, CodePos(fed, Scan(fed)[k].pos, h), SomeOf(nals, Scan(fed)[k].out)
          PROVE  SomeOf(nals, units)
      <4>1. Scan(fed)[k].pos >= 0 BY <3>2 DEF CodePos
      <4>2. k <= Len(fed)
        <5>1. k < Len(fed) BY <1>1, <4>1, ScanAhead
        <5> QED BY <2>4, <5>1
      <4> QED BY <1>1, <2>4, <2>5, <3>2, <4>2, SomeOfLater
    <3> QED BY <2>1, <3>1, <3>2
  <2>8. ASSUME Whole(fed, parser) PROVE nals = units
    <3>1. NoHit(fed, 0) /\ nals = <<>> BY <2>1, <2>8
    <3>2. find_start_code(fed, 0) = -1 BY <1>1, <3>1, FindNone
    <3>3. Scan(fed)[0].pos < 0 /\ Scan(fed)[0].out = <<>> BY <1>1, <3>2, ScanStart
    <3>4. 0 \in Nat /\ 0 <= Len(fed) BY <2>4
    <3>5. units = Scan(fed)[0].out BY <1>1, <3>3, <3>4, ScanEnd DEF units
    <3> QED BY <3>1, <3>3, <3>5
  <2> QED BY <1>2, <1>3, <2>3, <2>7, <2>8 DEF UnitsExact, UnitsNeverTorn, units
<1> QED BY <1>1, <1>4, <1>5

\* However the byte stream is cut into pieces, torn start codes included: the parser's
\* units are units of the whole stream, in order and none twice; they are all of them as
\* long as nothing but the noise at the beginning was thrown away; and its buffer stays
\* within what one unit may have (H264AnnexBParser.feed).
THEOREM UnitsAreExact == H264Spec => []UnitsExact
<1>1. UnitsInv => UnitsExact BY UnitsFollow
<1> QED BY <1>1, UnitsInvariance, PTL

-----------------------------------------------------------------------------
(* The functions on payloads: h264.py beside its parser. *)

(* Numbers and their digits. *)

\* How the value of digits is read.
Reads(g, s, base) == /\ g \in [0..Len(s) -> Nat] /\ g[0] = 0
                     /\ \A k \in 1..Len(s) : g[k] = base * g[k - 1] + s[k]

LEMMA NumberBuilt ==
  ASSUME NEW s \in Octets, NEW base \in {2, 256}
  PROVE  \E g : Reads(g, s, base) /\ Number(s, base) = g[Len(s)]
<1> DEFINE zero == 0
           step == [x \in Nat \X Nat |-> IF x[1] \in 1..Len(s) THEN base * x[2] + s[x[1]] ELSE zero]
           Is(f) == f = [k \in 0..Len(s) |-> IF k = 0 THEN zero ELSE base * f[k - 1] + s[k]]
<1>1. zero \in Nat OBVIOUS
<1>2. Len(s) \in Nat BY LenNat
<1>3. \A k \in 1..Len(s) : \A y \in Nat : base * y + s[k] \in Nat
  <2> SUFFICES ASSUME NEW k \in 1..Len(s), NEW y \in Nat PROVE base * y + s[k] \in Nat OBVIOUS
  <2>1. s[k] \in Nat BY DEF Octets
  <2>2. base * y \in Nat BY <2>1
  <2> QED BY <2>1, <2>2
<1>4. step \in [Nat \X Nat -> Nat] BY <1>1, <1>3
<1>5. PICK f \in [0..Len(s) -> Nat] : BuiltBy(f, Len(s), zero, step)
  <2> HIDE DEF step, zero
  <2> QED BY <1>1, <1>2, <1>4, RecursionExists
<1>6. f[0] = zero BY <1>5 DEF BuiltBy
<1>7. \A k \in 1..Len(s) : f[k] = base * f[k - 1] + s[k]
  <2> SUFFICES ASSUME NEW k \in 1..Len(s) PROVE f[k] = base * f[k - 1] + s[k] OBVIOUS
  <2>1. k \in Nat /\ k - 1 \in 0..Len(s) BY <1>2
  <2>2. f[k - 1] \in Nat BY <2>1
  <2>3. f[k] = step[<<k, f[k - 1]>>] BY <1>5 DEF BuiltBy
  <2>4. step[<<k, f[k - 1]>>] = base * f[k - 1] + s[k] BY <2>1, <2>2
  <2> QED BY <2>3, <2>4
<1> HIDE DEF step, zero
<1>8. Is(f)
  <2>1. f = [k \in 0..Len(s) |-> f[k]] OBVIOUS
  <2>2. \A k \in 0..Len(s) : f[k] = IF k = 0 THEN zero ELSE base * f[k - 1] + s[k]
    <3> SUFFICES ASSUME NEW k \in 0..Len(s), k # 0 PROVE f[k] = base * f[k - 1] + s[k] BY <1>6
    <3>1. k \in 1..Len(s) BY <1>2
    <3> QED BY <1>7, <3>1
  <2> QED BY <2>1, <2>2
<1> DEFINE g == CHOOSE h : Is(h)
<1>9. Number(s, base) = g[Len(s)]
  BY DEF Number, zero
<1>10. Is(g)
  <2> HIDE DEF Is
  <2> QED BY <1>8
<1>11. g = [k \in 0..Len(s) |-> IF k = 0 THEN zero ELSE base * g[k - 1] + s[k]] BY <1>10
<1> HIDE DEF g, Is
<1>12. g[0] = zero BY <1>2, <1>11
<1>13. \A k \in 1..Len(s) : g[k] = base * g[k - 1] + s[k] BY <1>2, <1>11
<1> DEFINE T == {k \in Nat : k <= Len(s) => g[k] \in Nat}
<1>14. 0 \in T BY <1>1, <1>12
<1>15. ASSUME NEW k \in Nat, k \in T PROVE k + 1 \in T
  <2> SUFFICES ASSUME k + 1 <= Len(s) PROVE g[k + 1] \in Nat OBVIOUS
  <2>1. k + 1 \in 1..Len(s) /\ (k + 1) - 1 = k BY <1>2
  <2>2. g[k] \in Nat BY <1>2, <1>15
  <2>3. g[k + 1] = base * g[k] + s[k + 1] BY <1>13, <2>1
  <2> QED BY <1>3, <2>1, <2>2, <2>3
<1>16. \A k \in Nat : k \in T
  <2> HIDE DEF T
  <2> QED BY <1>14, <1>15, NaturalInduction
<1>17. \A k \in 0..Len(s) : g[k] \in Nat BY <1>2, <1>16
<1>18. g \in [0..Len(s) -> Nat]
  <2>1. g = [k \in 0..Len(s) |-> g[k]] BY <1>11
  <2> QED BY <1>17, <2>1
<1>19. Reads(g, s, base) BY <1>12, <1>13, <1>18 DEF Reads, zero
<1> QED BY <1>9, <1>19 DEF g

\* x >> k, for every k (first_mb_in_slice).
LEMMA HalvesFunction ==
  ASSUME NEW x \in Nat
  PROVE  /\ \A k \in Nat : Halves(x)[k] \in Nat
         /\ Halves(x)[0] = x
         /\ \A k \in Nat : Halves(x)[k + 1] = Halves(x)[k] \div 2
<1> DEFINE step == [y \in Nat \X Nat |-> y[2] \div 2]
           Halved(f) == f = [k \in Nat |-> IF k = 0 THEN x ELSE f[k - 1] \div 2]
<1>1. step \in [Nat \X Nat -> Nat] OBVIOUS
<1>2. PICK f \in [Nat -> Nat] : BuiltFrom(f, x, step)
  <2> HIDE DEF step
  <2> QED BY <1>1, RecursionOnNaturals
<1>3. f[0] = x /\ \A i \in Nat : f[i + 1] = step[<<i + 1, f[i]>>] BY <1>2 DEF BuiltFrom
<1>4. \A i \in Nat : f[i + 1] = f[i] \div 2
  <2> SUFFICES ASSUME NEW i \in Nat PROVE f[i + 1] = f[i] \div 2 OBVIOUS
  <2>1. i + 1 \in Nat /\ f[i] \in Nat OBVIOUS
  <2>2. step[<<i + 1, f[i]>>] = f[i] \div 2 BY <2>1
  <2> QED BY <1>3, <2>2
<1> HIDE DEF step
<1>5. Halved(f)
  <2>1. f = [k \in Nat |-> f[k]] OBVIOUS
  <2>2. \A k \in Nat : f[k] = IF k = 0 THEN x ELSE f[k - 1] \div 2
    <3> SUFFICES ASSUME NEW k \in Nat, k # 0 PROVE f[k] = f[k - 1] \div 2 BY <1>3
    <3>1. k - 1 \in Nat /\ (k - 1) + 1 = k OBVIOUS
    <3> QED BY <1>4, <3>1
  <2> QED BY <2>1, <2>2
<1>6. Halves(x) = CHOOSE g : Halved(g) BY DEF Halves
<1>7. Halved(Halves(x))
  <2> HIDE DEF Halved
  <2> QED BY <1>5, <1>6
<1> DEFINE g == Halves(x)
<1>8. g = [k \in Nat |-> IF k = 0 THEN x ELSE g[k - 1] \div 2] BY <1>7
<1> HIDE DEF g
<1>9. g[0] = x BY <1>8
<1>10. \A k \in Nat : g[k + 1] = g[k] \div 2
  <2> SUFFICES ASSUME NEW k \in Nat PROVE g[k + 1] = g[k] \div 2 OBVIOUS
  <2>1. k + 1 \in Nat /\ k + 1 # 0 /\ (k + 1) - 1 = k OBVIOUS
  <2> QED BY <1>8, <2>1
<1> DEFINE T == {k \in Nat : g[k] \in Nat}
<1>11. 0 \in T BY <1>9
<1>12. ASSUME NEW k \in Nat, k \in T PROVE k + 1 \in T
  <2>1. g[k] \div 2 \in Nat BY <1>12
  <2> QED BY <1>10, <2>1
<1>13. \A k \in Nat : k \in T
  <2> HIDE DEF T
  <2> QED BY <1>11, <1>12, NaturalInduction
<1> QED BY <1>9, <1>10, <1>13 DEF g

\* A digit is 0 or 1.
LEMMA DigitsTyped ==
  ASSUME NEW x \in Nat, NEW n \in Nat
  PROVE  /\ Digits(x, n) \in Octets /\ Len(Digits(x, n)) = n
         /\ \A i \in 1..n : Digits(x, n)[i] = Halves(x)[n - i] % 2 /\ Digits(x, n)[i] \in {0, 1}
<1>1. \A i \in 1..n : Halves(x)[n - i] % 2 \in {0, 1}
  <2> SUFFICES ASSUME NEW i \in 1..n PROVE Halves(x)[n - i] % 2 \in {0, 1} OBVIOUS
  <2>1. n - i \in Nat OBVIOUS
  <2>2. Halves(x)[n - i] \in Nat BY <2>1, HalvesFunction
  <2> QED BY <2>2
<1>2. Digits(x, n) = [i \in 1..n |-> Halves(x)[n - i] % 2] BY DEF Digits
<1> HIDE DEF Digits
<1>3. \A i \in 1..n : Digits(x, n)[i] = Halves(x)[n - i] % 2 BY <1>2
<1>4. Digits(x, n) \in [1..n -> Nat] BY <1>1, <1>2
<1>5. Digits(x, n) \in Octets /\ Len(Digits(x, n)) = n BY <1>4 DEF Octets
<1> QED BY <1>1, <1>3, <1>5

\* What a division by two leaves.
LEMMA HalfAndRest ==
  ASSUME NEW y \in Nat
  PROVE  2 * (y \div 2) + (y % 2) = y
OBVIOUS

\* Digits are digits of their number.
LEMMA NumberOfDigits ==
  ASSUME NEW x \in Nat, NEW n \in Nat, Halves(x)[n] = 0
  PROVE  Number(Digits(x, n), 2) = x
<1> DEFINE d == Digits(x, n)
           H == Halves(x)
<1>1. d \in Octets /\ Len(d) = n /\ \A i \in 1..n : d[i] = H[n - i] % 2 BY DigitsTyped
<1>2. H[0] = x /\ (\A k \in Nat : H[k] \in Nat) /\ \A k \in Nat : H[k + 1] = H[k] \div 2
  BY HalvesFunction
<1>3. H[n] = 0 OBVIOUS
<1> HIDE DEF d, H
<1>4. PICK g : Reads(g, d, 2) /\ Number(d, 2) = g[Len(d)] BY <1>1, NumberBuilt
<1>5. g[0] = 0 /\ \A k \in 1..n : g[k] = 2 * g[k - 1] + d[k] BY <1>1, <1>4 DEF Reads
<1> DEFINE T == {k \in Nat : k <= n => g[k] = H[n - k]}
<1>6. 0 \in T BY <1>3, <1>5
<1>7. ASSUME NEW k \in Nat, k \in T PROVE k + 1 \in T
  <2> SUFFICES ASSUME k + 1 <= n PROVE g[k + 1] = H[n - (k + 1)] OBVIOUS
  <2>1. k + 1 \in 1..n /\ (k + 1) - 1 = k /\ n - (k + 1) \in Nat /\ (n - (k + 1)) + 1 = n - k OBVIOUS
  <2>2. g[k] = H[n - k] BY <1>7
  <2>3. g[k + 1] = 2 * g[k] + d[k + 1] BY <1>5, <2>1
  <2>4. d[k + 1] = H[n - (k + 1)] % 2 BY <1>1, <2>1
  <2>5. H[n - k] = H[n - (k + 1)] \div 2 /\ H[n - (k + 1)] \in Nat BY <1>2, <2>1
  <2>6. g[k + 1] = 2 * (H[n - (k + 1)] \div 2) + (H[n - (k + 1)] % 2) BY <2>2, <2>3, <2>4, <2>5
  <2> QED BY <2>5, <2>6, HalfAndRest
<1>8. \A k \in Nat : k \in T
  <2> HIDE DEF T
  <2> QED BY <1>6, <1>7, NaturalInduction
<1>9. g[n] = H[n - n] BY <1>8
<1>10. n - n = 0 OBVIOUS
<1>11. g[n] = x BY <1>2, <1>9, <1>10
<1> QED BY <1>1, <1>4, <1>11 DEF d

\* And a number of digits has these digits.
LEMMA DigitsOfNumber ==
  ASSUME NEW s \in Octets, \A i \in 1..Len(s) : s[i] \in {0, 1}
  PROVE  Number(s, 2) \in Nat /\ Digits(Number(s, 2), Len(s)) = s
<1> DEFINE n == Len(s)
<1>1. n \in Nat BY LenNat
<1>2. PICK g : Reads(g, s, 2) /\ Number(s, 2) = g[n] BY NumberBuilt
<1>3. g[0] = 0 /\ (\A k \in 0..n : g[k] \in Nat) /\ \A k \in 1..n : g[k] = 2 * g[k - 1] + s[k]
  BY <1>2 DEF Reads
<1> DEFINE x == Number(s, 2)
           H == Halves(x)
<1>4. x \in Nat /\ x = g[n] BY <1>1, <1>2, <1>3
<1> HIDE DEF x
<1>5. H[0] = x /\ (\A k \in Nat : H[k] \in Nat) /\ \A k \in Nat : H[k + 1] = H[k] \div 2
  BY <1>4, HalvesFunction
<1>6. ASSUME NEW k \in 1..n PROVE g[k] \div 2 = g[k - 1] /\ g[k] % 2 = s[k]
  <2>1. k - 1 \in 0..n BY <1>1
  <2>2. g[k] = 2 * g[k - 1] + s[k] /\ g[k - 1] \in Nat /\ s[k] \in {0, 1} BY <1>3, <2>1
  <2> DEFINE y == g[k - 1]
  <2>3. y \in Nat BY <2>2
  <2>4. g[k] = 2 * y + s[k] BY <2>2
  <2> HIDE DEF y
  <2>5. (2 * y + 0) \div 2 = y /\ (2 * y + 1) \div 2 = y /\ (2 * y + 0) % 2 = 0 /\ (2 * y + 1) % 2 = 1 BY <2>3
  <2> QED BY <2>2, <2>4, <2>5 DEF y
<1> HIDE DEF H, n
<1> DEFINE T == {k \in Nat : k <= n => H[k] = g[n - k]}
<1>7. 0 \in T BY <1>1, <1>4, <1>5
<1>8. ASSUME NEW k \in Nat, k \in T PROVE k + 1 \in T
  <2> SUFFICES ASSUME k + 1 <= n PROVE H[k + 1] = g[n - (k + 1)] OBVIOUS
  <2>1. n - k \in 1..n /\ (n - k) - 1 = n - (k + 1) BY <1>1
  <2>2. H[k] = g[n - k] BY <1>1, <1>8
  <2>3. g[n - k] \div 2 = g[(n - k) - 1] BY <1>6, <2>1
  <2>4. H[k + 1] = H[k] \div 2 BY <1>5
  <2> QED BY <2>1, <2>2, <2>3, <2>4
<1>9. \A k \in Nat : k \in T
  <2> HIDE DEF T
  <2> QED BY <1>7, <1>8, NaturalInduction
<1>10. ASSUME NEW i \in 1..n PROVE Digits(x, n)[i] = s[i]
  <2>1. n - i \in Nat /\ n - i <= n /\ n - (n - i) = i BY <1>1
  <2>2. H[n - i] = g[i] BY <1>9, <2>1
  <2>3. Digits(x, n)[i] = H[n - i] % 2 BY <1>1, <1>4, DigitsTyped DEF H
  <2> QED BY <1>6, <2>2, <2>3
<1>11. Digits(x, n) \in Octets /\ Len(Digits(x, n)) = Len(s) BY <1>1, <1>4, DigitsTyped DEF n
<1>12. Digits(x, n) = s BY <1>10, <1>11, SameBytes DEF n
<1> QED BY <1>4, <1>12 DEF n, x

(* Units with a length before each. *)

\* Nothing, or a byte string that begins with a start code.
Coded(s) == s = <<>> \/ (Hit(s, 1) /\ s[1] = 0)

Taken == {s \in [at : Nat \cup {-1}, out : Octets] : Coded(s.out)}

LEMMA AnnexbIs ==
  ASSUME NEW s \in Octets
  PROVE  is_annexb(s) <=> Hit(s, 0) \/ (Hit(s, 1) /\ s[1] = 0)
<1>1. 0 \in Nat /\ 0 + 3 = 3 /\ 0 + 4 = 4 /\ 0 + 1 = 1 OBVIOUS
<1>2. Slice(s, 0, 3) = StartCode3 <=> Hit(s, 0) BY <1>1, IsShortCode
<1>3. Slice(s, 0, 4) = StartCode4 <=> Hit(s, 1) /\ s[1] = 0
  <2>1. (Slice(s, 0, 0 + 4) = StartCode4) <=> (Hit(s, 0 + 1) /\ s[0 + 1] = 0) BY <1>1, IsLongCode
  <2> QED BY <1>1, <2>1
<1> QED BY <1>2, <1>3 DEF is_annexb

LEMMA JoinJoin ==
  ASSUME NEW a \in Octets, NEW b \in Octets, NEW h \in Octets
  PROVE  a \o b \o h = a \o (b \o h)
BY DEF Octets

LEMMA Code4Octets == StartCode4 \in Octets /\ Len(StartCode4) = 4
BY DEF Octets, StartCode4

LEMMA CodedJoin ==
  ASSUME NEW s \in Octets, NEW d \in Octets, Coded(s), Coded(d)
  PROVE  s \o d \in Octets /\ Coded(s \o d)
<1>1. s \o d \in Octets BY JoinFacts
<1>2. CASE s = <<>>
  <2>1. s \o d = d BY <1>2 DEF Octets
  <2> QED BY <1>1, <2>1
<1>3. CASE Hit(s, 1) /\ s[1] = 0
  <2>1. Len(s) \in Nat /\ Len(d) \in Nat BY LenNat
  <2>2. 1 + 3 <= Len(s) /\ s[2] = 0 /\ s[3] = 0 /\ s[4] = 1 /\ s[1] = 0 BY <1>3 DEF Hit
  <2>3. 1 \in 1..Len(s) /\ 2 \in 1..Len(s) /\ 3 \in 1..Len(s) /\ 4 \in 1..Len(s) BY <2>1, <2>2
  <2>4. (s \o d)[1] = 0 /\ (s \o d)[2] = 0 /\ (s \o d)[3] = 0 /\ (s \o d)[4] = 1 BY <2>2, <2>3, JoinFacts
  <2>5. Len(s \o d) = Len(s) + Len(d) BY JoinFacts
  <2>6. Hit(s \o d, 1) BY <2>1, <2>2, <2>4, <2>5 DEF Hit
  <2> QED BY <1>1, <2>4, <2>6 DEF Coded
<1> QED BY <1>2, <1>3 DEF Coded

LEMMA CodeJoin ==
  ASSUME NEW d \in Octets
  PROVE  /\ StartCode4 \o d \in Octets /\ Coded(StartCode4 \o d) /\ is_annexb(StartCode4 \o d)
         /\ Len(StartCode4 \o d) = Len(d) + 4
<1> DEFINE t == StartCode4 \o d
<1>1. StartCode4 \in Octets /\ Len(StartCode4) = 4 BY Code4Octets
<1>0. /\ t \in Octets /\ Len(t) = Len(StartCode4) + Len(d)
      /\ \A k \in 1..Len(StartCode4) : t[k] = StartCode4[k]
  BY <1>1, JoinFacts
<1>2. t \in Octets /\ Len(t) = 4 + Len(d) /\ Len(d) \in Nat BY <1>0, <1>1, LenNat
<1>3. t[1] = 0 /\ t[2] = 0 /\ t[3] = 0 /\ t[4] = 1
  <2>1. \A k \in 1..4 : t[k] = StartCode4[k] BY <1>0, <1>1
  <2>2. StartCode4[1] = 0 /\ StartCode4[2] = 0 /\ StartCode4[3] = 0 /\ StartCode4[4] = 1 BY DEF StartCode4
  <2>3. 1 \in 1..4 /\ 2 \in 1..4 /\ 3 \in 1..4 /\ 4 \in 1..4 OBVIOUS
  <2> HIDE DEF t
  <2> QED BY <2>1, <2>2, <2>3
<1> HIDE DEF t
<1>4. Hit(t, 1) BY <1>2, <1>3 DEF Hit
<1>5. is_annexb(t) BY <1>2, <1>3, <1>4, AnnexbIs
<1>6. Coded(t) BY <1>3, <1>4 DEF Coded
<1> QED BY <1>2, <1>5, <1>6 DEF t

LEMMA CodedIsAnnexb ==
  ASSUME NEW s \in Octets, Coded(s), s # <<>>
  PROVE  is_annexb(s)
BY AnnexbIs DEF Coded

LEMMA BigEndianNat == ASSUME NEW s \in Octets PROVE BigEndian(s) \in Nat
<1>1. PICK g : Reads(g, s, 256) /\ Number(s, 256) = g[Len(s)] BY NumberBuilt
<1>2. g \in [0..Len(s) -> Nat] /\ Len(s) \in Nat BY <1>1, LenNat DEF Reads
<1>3. g[Len(s)] \in Nat BY <1>2
<1> QED BY <1>1, <1>3 DEF BigEndian

LEMMA TakeUnitTyped ==
  ASSUME NEW raw \in Octets, NEW w \in Nat, NEW s \in Taken
  PROVE  TakeUnit(raw, w, s) \in Taken
<1> DEFINE from == s.at + w
           n == BigEndian(Slice(raw, s.at, from))
           d == Slice(raw, from, from + n)
<1>1. s.at \in Nat \cup {-1} /\ s.out \in Octets /\ Coded(s.out)
      /\ s = [at |-> s.at, out |-> s.out] BY DEF Taken
<1>2. CASE s.at >= 0 /\ from <= Len(raw) /\ n > 0 /\ from + n <= Len(raw)
  <2>1. s.at \in Nat /\ from \in Nat /\ s.at <= from /\ Len(raw) \in Nat BY <1>1, <1>2, LenNat
  <2>2. Slice(raw, s.at, from) \in Octets BY <1>2, <2>1, SliceFacts
  <2>3. n \in Nat BY <2>2, BigEndianNat
  <2>4. from + n \in Nat /\ from <= from + n BY <2>1, <2>3
  <2>5. d \in Octets BY <1>2, <2>1, <2>4, SliceFacts
  <2>6. TakeUnit(raw, w, s) = [at |-> from + n, out |-> s.out \o StartCode4 \o d] BY <1>2 DEF TakeUnit
  <2> HIDE DEF from, n, d
  <2>7. s.out \o StartCode4 \o d = s.out \o (StartCode4 \o d)
    <3> DEFINE a == s.out
    <3>1. a \in Octets BY <1>1
    <3> HIDE DEF a
    <3>2. a \o StartCode4 \o d = a \o (StartCode4 \o d) BY <2>5, <3>1, Code4Octets, JoinJoin
    <3> QED BY <3>2 DEF a
  <2>8. StartCode4 \o d \in Octets /\ Coded(StartCode4 \o d) BY <2>5, CodeJoin
  <2>9. s.out \o (StartCode4 \o d) \in Octets /\ Coded(s.out \o (StartCode4 \o d)) BY <1>1, <2>8, CodedJoin
  <2> DEFINE o == s.out \o (StartCode4 \o d)
             a == from + n
  <2>10. TakeUnit(raw, w, s) = [at |-> a, out |-> o] /\ o \in Octets /\ Coded(o) /\ a \in Nat BY <2>4, <2>6, <2>7, <2>9
  <2> HIDE DEF o, a
  <2> QED BY <2>10 DEF Taken
<1>3. CASE ~(s.at >= 0 /\ from <= Len(raw) /\ n > 0 /\ from + n <= Len(raw))
  <2>1. TakeUnit(raw, w, s) = [s EXCEPT !.at = -1] BY <1>3 DEF TakeUnit
  <2>2. [s EXCEPT !.at = -1] = [at |-> -1, out |-> s.out] BY <1>1
  <2> QED BY <1>1, <2>1, <2>2 DEF Taken
<1> QED BY <1>2, <1>3

LEMMA TakePrefixedTyped ==
  ASSUME NEW raw \in Octets, NEW w \in Nat, NEW s \in Taken
  PROVE  TakePrefixed(raw, w, s) \in Taken
BY TakeUnitTyped DEF TakePrefixed

LEMMA NothingTaken == ASSUME NEW at \in Nat PROVE [at |-> at, out |-> <<>>] \in Taken
BY DEF Taken, Octets, Coded

\* The turns of length_prefixed_to_annexb.
TakesPrefixed(g, raw, w) == /\ g \in [0..Len(raw) -> Taken] /\ g[0] = [at |-> 0, out |-> <<>>]
                            /\ \A k \in 1..Len(raw) : g[k] = TakePrefixed(raw, w, g[k - 1])

LEMMA PrefixedBuilt ==
  ASSUME NEW raw \in Octets, NEW w \in Nat
  PROVE  \E g : TakesPrefixed(g, raw, w) /\ Prefixed(raw, w) = g[Len(raw)]
<1> DEFINE zero == [at |-> 0, out |-> <<>>]
           step == [x \in Nat \X Taken |-> IF x[1] \in 1..Len(raw) THEN TakePrefixed(raw, w, x[2]) ELSE zero]
           Is(f) == f = [k \in 0..Len(raw) |-> IF k = 0 THEN zero ELSE TakePrefixed(raw, w, f[k - 1])]
<1>1. zero \in Taken BY NothingTaken
<1>2. Len(raw) \in Nat BY LenNat
<1>3. \A k \in 1..Len(raw) : \A y \in Taken : TakePrefixed(raw, w, y) \in Taken BY TakePrefixedTyped
<1>4. step \in [Nat \X Taken -> Taken] BY <1>1, <1>3
<1>5. PICK f \in [0..Len(raw) -> Taken] : BuiltBy(f, Len(raw), zero, step)
  <2> HIDE DEF step, zero
  <2> QED BY <1>1, <1>2, <1>4, RecursionExists
<1>6. f[0] = zero BY <1>5 DEF BuiltBy
<1>7. \A k \in 1..Len(raw) : f[k] = TakePrefixed(raw, w, f[k - 1])
  <2> SUFFICES ASSUME NEW k \in 1..Len(raw) PROVE f[k] = TakePrefixed(raw, w, f[k - 1]) OBVIOUS
  <2>1. k \in Nat /\ k - 1 \in 0..Len(raw) BY <1>2
  <2>2. f[k - 1] \in Taken BY <2>1
  <2>3. f[k] = step[<<k, f[k - 1]>>] BY <1>5 DEF BuiltBy
  <2>4. step[<<k, f[k - 1]>>] = TakePrefixed(raw, w, f[k - 1]) BY <2>1, <2>2
  <2> QED BY <2>3, <2>4
<1> HIDE DEF step, zero
<1>8. Is(f)
  <2>1. f = [k \in 0..Len(raw) |-> f[k]] OBVIOUS
  <2>2. \A k \in 0..Len(raw) : f[k] = IF k = 0 THEN zero ELSE TakePrefixed(raw, w, f[k - 1])
    <3> SUFFICES ASSUME NEW k \in 0..Len(raw), k # 0 PROVE f[k] = TakePrefixed(raw, w, f[k - 1]) BY <1>6
    <3>1. k \in 1..Len(raw) BY <1>2
    <3> QED BY <1>7, <3>1
  <2> QED BY <2>1, <2>2
<1> DEFINE g == CHOOSE h : Is(h)
<1>9. Prefixed(raw, w) = g[Len(raw)]
  BY DEF Prefixed, zero
<1>10. Is(g)
  <2> HIDE DEF Is
  <2> QED BY <1>8
<1>11. g = [k \in 0..Len(raw) |-> IF k = 0 THEN zero ELSE TakePrefixed(raw, w, g[k - 1])] BY <1>10
<1> HIDE DEF g, Is
<1>12. g[0] = zero BY <1>2, <1>11
<1>13. \A k \in 1..Len(raw) : g[k] = TakePrefixed(raw, w, g[k - 1]) BY <1>2, <1>11
<1> DEFINE T == {k \in Nat : k <= Len(raw) => g[k] \in Taken}
<1>14. 0 \in T BY <1>1, <1>12
<1>15. ASSUME NEW k \in Nat, k \in T PROVE k + 1 \in T
  <2> SUFFICES ASSUME k + 1 <= Len(raw) PROVE g[k + 1] \in Taken OBVIOUS
  <2>1. k + 1 \in 1..Len(raw) /\ (k + 1) - 1 = k BY <1>2
  <2>2. g[k] \in Taken BY <1>2, <1>15
  <2>3. g[k + 1] = TakePrefixed(raw, w, g[k]) BY <1>13, <2>1
  <2> QED BY <1>3, <2>1, <2>2, <2>3
<1>16. \A k \in Nat : k \in T
  <2> HIDE DEF T
  <2> QED BY <1>14, <1>15, NaturalInduction
<1>17. \A k \in 0..Len(raw) : g[k] \in Taken BY <1>2, <1>16
<1>18. g \in [0..Len(raw) -> Taken]
  <2>1. g = [k \in 0..Len(raw) |-> g[k]] BY <1>11
  <2> QED BY <1>17, <2>1
<1>19. TakesPrefixed(g, raw, w) BY <1>12, <1>13, <1>18 DEF TakesPrefixed, zero
<1> QED BY <1>9, <1>19 DEF g

\* The turns of avcc_config_to_annexb over one kind of units.
TakesCounted(g, raw, offset, count) == /\ g \in [0..count -> Taken] /\ g[0] = [at |-> offset, out |-> <<>>]
                                       /\ \A k \in 1..count : g[k] = TakeUnit(raw, 2, g[k - 1])

LEMMA CountedBuilt ==
  ASSUME NEW raw \in Octets, NEW offset \in Nat, NEW count \in Nat
  PROVE  \E g : TakesCounted(g, raw, offset, count) /\ Counted(raw, offset, count) = g[count]
<1> DEFINE zero == [at |-> offset, out |-> <<>>]
           step == [x \in Nat \X Taken |-> IF x[1] \in 1..count THEN TakeUnit(raw, 2, x[2]) ELSE zero]
           Is(f) == f = [k \in 0..count |-> IF k = 0 THEN zero ELSE TakeUnit(raw, 2, f[k - 1])]
<1>1. zero \in Taken BY NothingTaken
<1>2. count \in Nat OBVIOUS
<1>3. \A k \in 1..count : \A y \in Taken : TakeUnit(raw, 2, y) \in Taken BY TakeUnitTyped
<1>4. step \in [Nat \X Taken -> Taken] BY <1>1, <1>3
<1>5. PICK f \in [0..count -> Taken] : BuiltBy(f, count, zero, step)
  <2> HIDE DEF step, zero
  <2> QED BY <1>1, <1>2, <1>4, RecursionExists
<1>6. f[0] = zero BY <1>5 DEF BuiltBy
<1>7. \A k \in 1..count : f[k] = TakeUnit(raw, 2, f[k - 1])
  <2> SUFFICES ASSUME NEW k \in 1..count PROVE f[k] = TakeUnit(raw, 2, f[k - 1]) OBVIOUS
  <2>1. k \in Nat /\ k - 1 \in 0..count BY <1>2
  <2>2. f[k - 1] \in Taken BY <2>1
  <2>3. f[k] = step[<<k, f[k - 1]>>] BY <1>5 DEF BuiltBy
  <2>4. step[<<k, f[k - 1]>>] = TakeUnit(raw, 2, f[k - 1]) BY <2>1, <2>2
  <2> QED BY <2>3, <2>4
<1> HIDE DEF step, zero
<1>8. Is(f)
  <2>1. f = [k \in 0..count |-> f[k]] OBVIOUS
  <2>2. \A k \in 0..count : f[k] = IF k = 0 THEN zero ELSE TakeUnit(raw, 2, f[k - 1])
    <3> SUFFICES ASSUME NEW k \in 0..count, k # 0 PROVE f[k] = TakeUnit(raw, 2, f[k - 1]) BY <1>6
    <3>1. k \in 1..count BY <1>2
    <3> QED BY <1>7, <3>1
  <2> QED BY <2>1, <2>2
<1> DEFINE g == CHOOSE h : Is(h)
<1>9. Counted(raw, offset, count) = g[count]
  BY DEF Counted, zero
<1>10. Is(g)
  <2> HIDE DEF Is
  <2> QED BY <1>8
<1>11. g = [k \in 0..count |-> IF k = 0 THEN zero ELSE TakeUnit(raw, 2, g[k - 1])] BY <1>10
<1> HIDE DEF g, Is
<1>12. g[0] = zero BY <1>2, <1>11
<1>13. \A k \in 1..count : g[k] = TakeUnit(raw, 2, g[k - 1]) BY <1>2, <1>11
<1> DEFINE T == {k \in Nat : k <= count => g[k] \in Taken}
<1>14. 0 \in T BY <1>1, <1>12
<1>15. ASSUME NEW k \in Nat, k \in T PROVE k + 1 \in T
  <2> SUFFICES ASSUME k + 1 <= count PROVE g[k + 1] \in Taken OBVIOUS
  <2>1. k + 1 \in 1..count /\ (k + 1) - 1 = k BY <1>2
  <2>2. g[k] \in Taken BY <1>2, <1>15
  <2>3. g[k + 1] = TakeUnit(raw, 2, g[k]) BY <1>13, <2>1
  <2> QED BY <1>3, <2>1, <2>2, <2>3
<1>16. \A k \in Nat : k \in T
  <2> HIDE DEF T
  <2> QED BY <1>14, <1>15, NaturalInduction
<1>17. \A k \in 0..count : g[k] \in Taken BY <1>2, <1>16
<1>18. g \in [0..count -> Taken]
  <2>1. g = [k \in 0..count |-> g[k]] BY <1>11
  <2> QED BY <1>17, <2>1
<1>19. TakesCounted(g, raw, offset, count) BY <1>12, <1>13, <1>18 DEF TakesCounted, zero
<1> QED BY <1>9, <1>19 DEF g

LEMMA PrefixedTyped ==
  ASSUME NEW raw \in Octets, NEW w \in Nat
  PROVE  Prefixed(raw, w) \in Taken
<1>1. PICK g : TakesPrefixed(g, raw, w) /\ Prefixed(raw, w) = g[Len(raw)] BY PrefixedBuilt
<1>2. g \in [0..Len(raw) -> Taken] /\ Len(raw) \in 0..Len(raw) BY <1>1, LenNat DEF TakesPrefixed
<1> QED BY <1>1, <1>2

LEMMA CountedTyped ==
  ASSUME NEW raw \in Octets, NEW offset \in Nat, NEW count \in Nat
  PROVE  Counted(raw, offset, count) \in Taken
<1>1. PICK g : TakesCounted(g, raw, offset, count) /\ Counted(raw, offset, count) = g[count] BY CountedBuilt
<1>2. g \in [0..count -> Taken] /\ count \in 0..count BY <1>1 DEF TakesCounted
<1> QED BY <1>1, <1>2

\* Whatever is converted becomes Annex-B.
LEMMA LengthsOrSame ==
  ASSUME NEW raw \in Octets, NEW w \in Nat, length_prefixed_to_annexb(raw, w) # raw
  PROVE  length_prefixed_to_annexb(raw, w) \in Octets /\ is_annexb(length_prefixed_to_annexb(raw, w))
<1> DEFINE end == Prefixed(raw, w)
<1>1. length_prefixed_to_annexb(raw, w) = end.out /\ end.out # <<>> BY DEF length_prefixed_to_annexb
<1>2. end \in Taken BY PrefixedTyped
<1>3. end.out \in Octets /\ Coded(end.out) BY <1>2 DEF Taken
<1>4. is_annexb(end.out)
  <2> DEFINE o == end.out
  <2>1. o \in Octets /\ Coded(o) /\ o # <<>> BY <1>1, <1>3
  <2> HIDE DEF o
  <2>2. is_annexb(o) BY <2>1, CodedIsAnnexb
  <2> QED BY <2>2 DEF o
<1> QED BY <1>1, <1>3, <1>4

LEMMA ConfigOrSame ==
  ASSUME NEW raw \in Octets, avcc_config_to_annexb(raw) # raw
  PROVE  avcc_config_to_annexb(raw) \in Octets /\ is_annexb(avcc_config_to_annexb(raw))
<1> DEFINE sps == Counted(raw, 6, raw[6] % 32)
           pps == Counted(raw, sps.at + 1, raw[sps.at + 1])
           out == sps.out \o pps.out
<1>0. Len(raw) \in Nat /\ Len(raw) >= 7
  <2>1. ~(Len(raw) < 7) BY DEF avcc_config_to_annexb
  <2> QED BY <2>1, LenNat
<1>2. sps \in Taken
  <2>1. 6 \in 1..Len(raw) /\ 6 \in Nat BY <1>0
  <2>2. raw[6] \in Nat BY <2>1 DEF Octets
  <2>3. raw[6] % 32 \in Nat BY <2>2
  <2> QED BY <2>1, <2>3, CountedTyped
<1>1. sps.at >= 0 /\ sps.at < Len(raw) /\ out # <<>> /\ avcc_config_to_annexb(raw) = out
  <2>1. ~(sps.at < 0 \/ sps.at >= Len(raw)) BY DEF avcc_config_to_annexb
  <2>2. out # <<>> /\ avcc_config_to_annexb(raw) = out BY DEF avcc_config_to_annexb
  <2>3. sps.at \in Nat \cup {-1} BY <1>2 DEF Taken
  <2> HIDE DEF sps
  <2>4. sps.at >= 0 /\ sps.at < Len(raw) BY <1>0, <2>1, <2>3
  <2> QED BY <2>2, <2>4
<1>3. sps.at \in Nat \cup {-1} /\ sps.out \in Octets /\ Coded(sps.out) BY <1>2 DEF Taken
<1> DEFINE a == sps.at + 1
<1> HIDE DEF sps
<1>4. a \in Nat /\ a \in 1..Len(raw) BY <1>1, <1>3, LenNat
<1> HIDE DEF a
<1>5. raw[a] \in Nat BY <1>4 DEF Octets
<1>6. Counted(raw, a, raw[a]) \in Taken BY <1>4, <1>5, CountedTyped
<1>7. pps.out \in Octets /\ Coded(pps.out) BY <1>6 DEF Taken, a
<1> HIDE DEF pps
<1> DEFINE b == sps.out
           h == pps.out
<1>8. b \in Octets /\ Coded(b) /\ h \in Octets /\ Coded(h) BY <1>3, <1>7
<1> HIDE DEF b, h
<1>9. b \o h \in Octets /\ Coded(b \o h) BY <1>8, CodedJoin
<1>10. b \o h # <<>> BY <1>1 DEF b, h
<1> DEFINE o == b \o h
<1>11. o \in Octets /\ Coded(o) /\ o # <<>> BY <1>9, <1>10
<1> HIDE DEF o
<1>12. is_annexb(o) BY <1>11, CodedIsAnnexb
<1>13. avcc_config_to_annexb(raw) = o BY <1>1 DEF o, b, h
<1> QED BY <1>11, <1>12, <1>13

LEMMA AnnexbStays == ASSUME NEW raw, is_annexb(raw) PROVE normalize_h264_payload(raw) = raw
BY DEF normalize_h264_payload

LEMMA NormalizedIsStable ==
  ASSUME NEW raw \in Octets
  PROVE  LET once == normalize_h264_payload(raw)
         IN  normalize_h264_payload(once) = once /\ (once # raw => is_annexb(once))
<1> DEFINE once == normalize_h264_payload(raw)
           avcc == avcc_config_to_annexb(raw)
           four == length_prefixed_to_annexb(raw, 4)
           two == length_prefixed_to_annexb(raw, 2)
<1>1. \/ once = raw \/ (once = avcc /\ avcc # raw) \/ (once = four /\ four # raw) \/ (once = two /\ two # raw)
      \/ once = StartCode4 \o raw
  BY DEF normalize_h264_payload
<1>2. CASE once = raw BY <1>2
<1>3. ASSUME once # raw PROVE is_annexb(once)
  <2>1. avcc # raw => is_annexb(avcc) BY ConfigOrSame
  <2>2. four # raw => is_annexb(four)
    <3>1. 4 \in Nat OBVIOUS
    <3> QED BY <3>1, LengthsOrSame
  <2>3. two # raw => is_annexb(two)
    <3>1. 2 \in Nat OBVIOUS
    <3> QED BY <3>1, LengthsOrSame
  <2>4. is_annexb(StartCode4 \o raw) BY CodeJoin
  <2> HIDE DEF once, avcc, four, two
  <2> QED BY <1>1, <1>3, <2>1, <2>2, <2>3, <2>4
<1>4. ASSUME once # raw PROVE normalize_h264_payload(once) = once
  <2> DEFINE t == once
  <2>1. is_annexb(t) BY <1>3, <1>4
  <2> HIDE DEF t
  <2>2. normalize_h264_payload(t) = t BY <2>1, AnnexbStays
  <2> QED BY <2>2 DEF t
<1> HIDE DEF once
<1>5. once = normalize_h264_payload(raw) BY DEF once
<1> QED BY <1>2, <1>3, <1>4, <1>5

\* Some bytes stand in a byte string after the first i.
Stands(raw, i, d) == i + Len(d) <= Len(raw) /\ \A k \in 1..Len(d) : raw[i + k] = d[k]

LEMMA SliceIs ==
  ASSUME NEW s \in Octets, NEW i \in Nat, NEW d \in Octets, Stands(s, i, d)
  PROVE  Slice(s, i, i + Len(d)) = d
<1>1. Len(d) \in Nat BY LenNat
<1> DEFINE j == i + Len(d)
           t == Slice(s, i, j)
<1>2. j \in Nat /\ i <= j /\ j <= Len(s) /\ j - i = Len(d) BY <1>1 DEF Stands
<1> HIDE DEF j
<1>3. t \in Octets /\ Len(t) = j - i /\ \A k \in 1..(j - i) : t[k] = s[i + k] BY <1>2, SliceFacts
<1> HIDE DEF t
<1>4. Len(t) = Len(d) /\ \A k \in 1..Len(t) : t[k] = d[k] BY <1>2, <1>3 DEF Stands
<1>5. t = d BY <1>3, <1>4, SameBytes
<1> QED BY <1>5 DEF t, j

LEMMA TwoByteLength == ASSUME NEW n \in Nat PROVE <<0, n>> \in Octets /\ Len(<<0, n>>) = 2 /\ BigEndian(<<0, n>>) = n
<1> DEFINE s == <<0, n>>
<1>1. s \in Octets /\ Len(s) = 2 /\ s[1] = 0 /\ s[2] = n BY DEF Octets
<1> HIDE DEF s
<1>2. PICK g : Reads(g, s, 256) /\ Number(s, 256) = g[2] BY <1>1, NumberBuilt
<1>3. g[0] = 0 /\ \A k \in 1..2 : g[k] = 256 * g[k - 1] + s[k] BY <1>1, <1>2 DEF Reads
<1>4. g[1] = 256 * g[0] + s[1] /\ g[2] = 256 * g[1] + s[2]
  <2>1. 1 \in 1..2 /\ 2 \in 1..2 /\ 1 - 1 = 0 /\ 2 - 1 = 1 OBVIOUS
  <2> QED BY <1>3, <2>1
<1>5. g[2] = n BY <1>1, <1>3, <1>4
<1> QED BY <1>1, <1>2, <1>5 DEF BigEndian, s

LEMMA FourByteLength ==
  ASSUME NEW n \in Nat
  PROVE  <<0, 0, 0, n>> \in Octets /\ Len(<<0, 0, 0, n>>) = 4 /\ BigEndian(<<0, 0, 0, n>>) = n
<1> DEFINE s == <<0, 0, 0, n>>
<1>1. s \in Octets /\ Len(s) = 4 /\ s[1] = 0 /\ s[2] = 0 /\ s[3] = 0 /\ s[4] = n BY DEF Octets
<1> HIDE DEF s
<1>2. PICK g : Reads(g, s, 256) /\ Number(s, 256) = g[4] BY <1>1, NumberBuilt
<1>3. g[0] = 0 /\ \A k \in 1..4 : g[k] = 256 * g[k - 1] + s[k] BY <1>1, <1>2 DEF Reads
<1>4. g[1] = 256 * g[0] + s[1] /\ g[2] = 256 * g[1] + s[2] /\ g[3] = 256 * g[2] + s[3] /\ g[4] = 256 * g[3] + s[4]
  <2>1. 1 \in 1..4 /\ 2 \in 1..4 /\ 3 \in 1..4 /\ 4 \in 1..4 /\ 1 - 1 = 0 /\ 2 - 1 = 1 /\ 3 - 1 = 2 /\ 4 - 1 = 3 OBVIOUS
  <2> QED BY <1>3, <2>1
<1>5. g[4] = n BY <1>1, <1>3, <1>4
<1> QED BY <1>1, <1>2, <1>5 DEF BigEndian, s

\* A turn takes the unit d: from position i it comes to j.
Takes(raw, w, i, out, j, d) ==
  TakeUnit(raw, w, [at |-> i, out |-> out]) = [at |-> j, out |-> out \o StartCode4 \o d]

\* A unit that is there in full is taken.
LEMMA TakesThere ==
  ASSUME NEW raw \in Octets, NEW size \in Octets, NEW d \in Octets, NEW i \in Nat, NEW out,
         NEW from, from = i + Len(size), BigEndian(size) = Len(d), Len(d) > 0,
         Stands(raw, i, size), Stands(raw, from, d)
  PROVE  Takes(raw, Len(size), i, out, from + Len(d), d)
<1> DEFINE w == Len(size)
<1>1. w \in Nat /\ Len(d) \in Nat /\ Len(raw) \in Nat BY LenNat
<1>2. from \in Nat /\ from = i + w /\ from <= Len(raw) /\ from + Len(d) <= Len(raw) BY <1>1 DEF Stands
<1>3. Slice(raw, i, from) = size BY SliceIs
<1>4. Slice(raw, from, from + Len(d)) = d BY <1>2, SliceIs
<1> DEFINE s == [at |-> i, out |-> out]
<1>5. s.at = i /\ s.out = out OBVIOUS
<1> HIDE DEF s, w
<1>6. TakeUnit(raw, w, s) = [at |-> from + Len(d), out |-> out \o StartCode4 \o d]
  <2>1. s.at + w = from /\ s.at >= 0 BY <1>2, <1>5
  <2>2. BigEndian(Slice(raw, s.at, from)) = Len(d) BY <1>3, <1>5
  <2> QED BY <1>2, <1>4, <1>5, <2>1, <2>2 DEF TakeUnit
<1> QED BY <1>6 DEF s, w, Takes

\* Two units and their lengths, four bytes each.
LEMMA LengthsConverted ==
  ASSUME NEW f \in Octets, Len(f) > 1
  PROVE  normalize_h264_payload(<<0, 0, 0, Len(f)>> \o f \o <<0, 0, 0, 2, 7, 7>>)
           = StartCode4 \o f \o StartCode4 \o <<7, 7>>
<1> DEFINE n == Len(f)
           a == <<0, 0, 0, n>>
           h == <<0, 0, 0, 2>>
           u == <<7, 7>>
           z == <<0, 0, 0, 2, 7, 7>>
           af == a \o f
           raw == af \o z
<1>1. n \in Nat /\ n > 1 BY LenNat
<1>2. a \in Octets /\ Len(a) = 4 /\ BigEndian(a) = n BY <1>1, FourByteLength
<1>3. h \in Octets /\ Len(h) = 4 /\ BigEndian(h) = 2
  <2>1. 2 \in Nat OBVIOUS
  <2> QED BY <2>1, FourByteLength
<1>4. u \in Octets /\ Len(u) = 2 /\ u[1] = 7 /\ u[2] = 7 BY DEF Octets
<1>5. z \in Octets /\ Len(z) = 6 /\ z[1] = 0 /\ z[2] = 0 /\ z[3] = 0 /\ z[4] = 2 /\ z[5] = 7 /\ z[6] = 7 BY DEF Octets
<1>6. a[1] = 0 /\ a[2] = 0 /\ a[3] = 0 /\ a[4] = n /\ h[1] = 0 /\ h[2] = 0 /\ h[3] = 0 /\ h[4] = 2 OBVIOUS
<1> HIDE DEF a, h, u, z
<1>7. af \in Octets /\ Len(af) = 4 + n /\ (\A k \in 1..4 : af[k] = a[k]) /\ \A k \in 1..n : af[4 + k] = f[k]
  <2>1. /\ a \o f \in Octets /\ Len(a \o f) = Len(a) + Len(f)
        /\ \A k \in 1..Len(a) : (a \o f)[k] = a[k]
        /\ \A k \in 1..Len(f) : (a \o f)[Len(a) + k] = f[k]
    BY <1>2, JoinFacts
  <2> QED BY <1>2, <2>1
<1> HIDE DEF af
<1>8. raw \in Octets /\ Len(raw) = 10 + n /\ (\A k \in 1..(4 + n) : raw[k] = af[k]) /\ \A k \in 1..6 : raw[4 + n + k] = z[k]
  <2>1. /\ af \o z \in Octets /\ Len(af \o z) = Len(af) + Len(z)
        /\ \A k \in 1..Len(af) : (af \o z)[k] = af[k]
        /\ \A k \in 1..Len(z) : (af \o z)[Len(af) + k] = z[k]
    BY <1>5, <1>7, JoinFacts
  <2> QED BY <1>1, <1>5, <1>7, <2>1
<1> HIDE DEF raw
<1>9. \A k \in 1..4 : raw[k] = a[k]
  <2> SUFFICES ASSUME NEW k \in 1..4 PROVE raw[k] = a[k] OBVIOUS
  <2>1. k \in 1..(4 + n) BY <1>1
  <2> QED BY <1>7, <1>8, <2>1
<1>10. \A k \in 1..n : raw[4 + k] = f[k]
  <2> SUFFICES ASSUME NEW k \in 1..n PROVE raw[4 + k] = f[k] OBVIOUS
  <2>1. 4 + k \in 1..(4 + n) BY <1>1
  <2> QED BY <1>7, <1>8, <2>1
<1>11. \A k \in 1..4 : raw[(4 + n) + k] = h[k]
  <2> SUFFICES ASSUME NEW k \in 1..4 PROVE raw[(4 + n) + k] = h[k] OBVIOUS
  <2>1. k \in 1..6 /\ raw[(4 + n) + k] = z[k] BY <1>8
  <2>2. k = 1 \/ k = 2 \/ k = 3 \/ k = 4 OBVIOUS
  <2> QED BY <1>5, <1>6, <2>1, <2>2
<1>12. \A k \in 1..2 : raw[(4 + n) + 4 + k] = u[k]
  <2> SUFFICES ASSUME NEW k \in 1..2 PROVE raw[(4 + n) + 4 + k] = u[k] OBVIOUS
  <2>1. 4 + k \in 1..6 /\ (4 + n) + 4 + k = 4 + n + (4 + k) BY <1>1
  <2>2. raw[(4 + n) + 4 + k] = z[4 + k] BY <1>8, <2>1
  <2>3. k = 1 \/ k = 2 OBVIOUS
  <2> QED BY <1>4, <1>5, <2>2, <2>3
<1>13. raw[1] = 0 /\ raw[2] = 0 /\ raw[3] = 0 /\ raw[4] = n BY <1>6, <1>9
<1>14. ~is_annexb(raw)
  <2>1. ~Hit(raw, 0) BY <1>13 DEF Hit
  <2>2. ~Hit(raw, 1) BY <1>1, <1>13 DEF Hit
  <2> QED BY <1>8, <2>1, <2>2, AnnexbIs
<1>15. PICK g : TakesPrefixed(g, raw, 4) /\ Prefixed(raw, 4) = g[Len(raw)]
  <2>1. 4 \in Nat OBVIOUS
  <2> QED BY <1>8, <2>1, PrefixedBuilt
<1>16. g[0] = [at |-> 0, out |-> <<>>] /\ \A k \in 1..(10 + n) : g[k] = TakePrefixed(raw, 4, g[k - 1])
  BY <1>8, <1>15 DEF TakesPrefixed
<1> DEFINE o1 == <<>> \o StartCode4 \o f
           o2 == o1 \o StartCode4 \o u
<1>17. g[1] = [at |-> 4 + n, out |-> o1]
  <2>1. g[1] = TakePrefixed(raw, 4, [at |-> 0, out |-> <<>>])
    <3>1. 1 \in 1..(10 + n) /\ 1 - 1 = 0 BY <1>1
    <3> QED BY <1>16, <3>1
  <2>2. g[1] = TakeUnit(raw, 4, [at |-> 0, out |-> <<>>]) BY <1>1, <1>8, <2>1 DEF TakePrefixed
  <2>3. Stands(raw, 0, a)
    <3>1. \A k \in 1..Len(a) : raw[0 + k] = a[k] BY <1>2, <1>9
    <3> QED BY <1>1, <1>2, <1>8, <3>1 DEF Stands
  <2>4. Stands(raw, 4, f) BY <1>1, <1>8, <1>10 DEF Stands
  <2>5. 4 = 0 + Len(a) /\ n > 0 /\ 0 \in Nat BY <1>1, <1>2
  <2>6. Takes(raw, Len(a), 0, <<>>, 4 + Len(f), f)
    BY <1>2, <1>8, <2>3, <2>4, <2>5, TakesThere
  <2> QED BY <1>2, <2>2, <2>6 DEF Takes
<1> HIDE DEF o1
<1>18. g[2] = [at |-> 10 + n, out |-> o2]
  <2>1. g[2] = TakePrefixed(raw, 4, [at |-> 4 + n, out |-> o1])
    <3>1. 2 \in 1..(10 + n) /\ 2 - 1 = 1 BY <1>1
    <3> QED BY <1>16, <1>17, <3>1
  <2>2. g[2] = TakeUnit(raw, 4, [at |-> 4 + n, out |-> o1]) BY <1>1, <1>8, <2>1 DEF TakePrefixed
  <2>3. Stands(raw, 4 + n, h) BY <1>1, <1>3, <1>8, <1>11 DEF Stands
  <2>4. Stands(raw, 8 + n, u)
    <3>1. \A k \in 1..2 : (4 + n) + 4 + k = 8 + n + k BY <1>1
    <3> QED BY <1>1, <1>4, <1>8, <1>12, <3>1 DEF Stands
  <2>5. 4 + n \in Nat /\ 8 + n = (4 + n) + Len(h) /\ Len(u) > 0 /\ BigEndian(h) = Len(u) BY <1>1, <1>3, <1>4
  <2>6. Takes(raw, Len(h), 4 + n, o1, (8 + n) + Len(u), u)
    BY <1>3, <1>4, <1>8, <2>3, <2>4, <2>5, TakesThere
  <2>7. (8 + n) + Len(u) = 10 + n BY <1>1, <1>4
  <2> QED BY <1>3, <2>2, <2>6, <2>7 DEF Takes
<1> HIDE DEF o2
<1> DEFINE end == [at |-> 10 + n, out |-> o2]
<1>19. TakePrefixed(raw, 4, end) = end
  <2>1. end.at = 10 + n OBVIOUS
  <2> HIDE DEF end
  <2>2. end.at + 4 > Len(raw) BY <1>1, <1>8, <2>1
  <2> QED BY <2>2 DEF TakePrefixed
<1> HIDE DEF end
<1> DEFINE T == {k \in Nat : k >= 2 /\ k <= 10 + n => g[k] = end}
<1>20. 0 \in T OBVIOUS
<1>21. ASSUME NEW k \in Nat, k \in T PROVE k + 1 \in T
  <2> SUFFICES ASSUME k + 1 >= 2, k + 1 <= 10 + n PROVE g[k + 1] = end OBVIOUS
  <2>1. CASE k + 1 = 2 BY <1>18, <2>1 DEF end
  <2>2. CASE k >= 2
    <3>1. g[k] = end BY <1>1, <1>21, <2>2
    <3>2. k + 1 \in 1..(10 + n) /\ (k + 1) - 1 = k BY <1>1
    <3>3. g[k + 1] = TakePrefixed(raw, 4, g[k]) BY <1>16, <3>2
    <3> QED BY <1>19, <3>1, <3>3
  <2> QED BY <2>1, <2>2
<1>22. \A k \in Nat : k \in T
  <2> HIDE DEF T
  <2> QED BY <1>20, <1>21, NaturalInduction
<1>23. Prefixed(raw, 4) = end
  <2>1. 10 + n \in Nat /\ 10 + n >= 2 BY <1>1
  <2>2. g[10 + n] = end BY <1>22, <2>1
  <2> QED BY <1>8, <1>15, <2>2
<1>24. o1 = StartCode4 \o f
  <2>1. StartCode4 \in Octets BY Code4Octets
  <2>2. <<>> \o StartCode4 = StartCode4 BY <2>1 DEF Octets
  <2> QED BY <2>2 DEF o1
<1>25. o2 \in Octets /\ Len(o2) = n + 10 /\ o2[4] = 1
  <2>1. StartCode4 \in Octets /\ Len(StartCode4) = 4 /\ StartCode4[4] = 1 BY Code4Octets DEF StartCode4
  <2>2. o1 \in Octets /\ Len(o1) = 4 + n /\ o1[4] = 1
    <3>1. /\ StartCode4 \o f \in Octets /\ Len(StartCode4 \o f) = Len(StartCode4) + Len(f)
          /\ \A k \in 1..Len(StartCode4) : (StartCode4 \o f)[k] = StartCode4[k]
      BY <2>1, JoinFacts
    <3>2. 4 \in 1..Len(StartCode4) BY <2>1
    <3>3. (StartCode4 \o f)[4] = 1 BY <2>1, <3>1, <3>2
    <3> QED BY <1>24, <2>1, <3>1, <3>3
  <2> DEFINE p == o1 \o StartCode4
  <2>3. p \in Octets /\ Len(p) = 8 + n /\ p[4] = 1
    <3>1. /\ o1 \o StartCode4 \in Octets /\ Len(o1 \o StartCode4) = Len(o1) + Len(StartCode4)
          /\ \A k \in 1..Len(o1) : (o1 \o StartCode4)[k] = o1[k]
      BY <2>1, <2>2, JoinFacts
    <3>2. 4 \in 1..Len(o1) BY <1>1, <2>2
    <3>3. p[4] = 1 BY <2>2, <3>1, <3>2
    <3> QED BY <1>1, <2>1, <2>2, <3>1, <3>3
  <2> HIDE DEF p
  <2>4. /\ p \o u \in Octets /\ Len(p \o u) = Len(p) + Len(u)
        /\ \A k \in 1..Len(p) : (p \o u)[k] = p[k]
    BY <1>4, <2>3, JoinFacts
  <2>5. 4 \in 1..Len(p) BY <1>1, <2>3
  <2>6. (p \o u)[4] = 1 BY <2>3, <2>4, <2>5
  <2> QED BY <1>1, <1>4, <2>3, <2>4, <2>6 DEF o2, p
<1>26. o2 # raw /\ o2 # <<>>
  <2>1. o2 # raw BY <1>1, <1>13, <1>25
  <2>2. o2 # <<>> BY <1>1, <1>25
  <2> QED BY <2>1, <2>2
<1>27. length_prefixed_to_annexb(raw, 4) = o2
  <2>1. end.at = 10 + n /\ end.out = o2 BY DEF end
  <2> QED BY <1>8, <1>14, <1>23, <1>26, <2>1 DEF length_prefixed_to_annexb
<1>28. avcc_config_to_annexb(raw) = raw BY <1>13 DEF avcc_config_to_annexb
<1>29. raw # <<>>
  <2>1. Len(raw) # 0 BY <1>1, <1>8
  <2> QED BY <2>1
<1>30. normalize_h264_payload(raw) = o2 BY <1>14, <1>26, <1>27, <1>28, <1>29 DEF normalize_h264_payload
<1> QED BY <1>24, <1>30 DEF raw, af, a, z, u, o2

\* A decoder configuration of one SPS and one PPS, two length bytes each.
LEMMA ConfigConverted ==
  ASSUME NEW f \in Octets, Len(f) > 1
  PROVE  avcc_config_to_annexb(<<1, 0, 0, 0, 0, 225, 0, Len(f)>> \o f \o <<1, 0, 2, 7, 7>>)
           = StartCode4 \o f \o StartCode4 \o <<7, 7>>
<1> DEFINE n == Len(f)
           a == <<1, 0, 0, 0, 0, 225, 0, n>>
           b == <<0, n>>
           h == <<0, 2>>
           u == <<7, 7>>
           z == <<1, 0, 2, 7, 7>>
           af == a \o f
           raw == af \o z
<1>1. n \in Nat /\ n > 1 BY LenNat
<1>2. a \in Octets /\ Len(a) = 8 /\ a[1] = 1 /\ a[6] = 225 /\ a[7] = 0 /\ a[8] = n BY <1>1 DEF Octets
<1>3. b \in Octets /\ Len(b) = 2 /\ BigEndian(b) = n /\ b[1] = 0 /\ b[2] = n BY <1>1, TwoByteLength
<1>4. h \in Octets /\ Len(h) = 2 /\ BigEndian(h) = 2 /\ h[1] = 0 /\ h[2] = 2
  <2>1. 2 \in Nat OBVIOUS
  <2> QED BY <2>1, TwoByteLength
<1>5. u \in Octets /\ Len(u) = 2 /\ u[1] = 7 /\ u[2] = 7 BY DEF Octets
<1>6. z \in Octets /\ Len(z) = 5 /\ z[1] = 1 /\ z[2] = 0 /\ z[3] = 2 /\ z[4] = 7 /\ z[5] = 7 BY DEF Octets
<1> HIDE DEF a, b, h, u, z
<1>7. af \in Octets /\ Len(af) = 8 + n /\ (\A k \in 1..8 : af[k] = a[k]) /\ \A k \in 1..n : af[8 + k] = f[k]
  <2>0. a \in Octets /\ f \in Octets BY <1>2
  <2>1. /\ a \o f \in Octets /\ Len(a \o f) = Len(a) + Len(f)
        /\ \A k \in 1..Len(a) : (a \o f)[k] = a[k]
        /\ \A k \in 1..Len(f) : (a \o f)[Len(a) + k] = f[k]
    BY <2>0, JoinFacts
  <2> QED BY <1>2, <2>1
<1> HIDE DEF af
<1>8. raw \in Octets /\ Len(raw) = 13 + n /\ (\A k \in 1..(8 + n) : raw[k] = af[k]) /\ \A k \in 1..5 : raw[8 + n + k] = z[k]
  <2>1. /\ af \o z \in Octets /\ Len(af \o z) = Len(af) + Len(z)
        /\ \A k \in 1..Len(af) : (af \o z)[k] = af[k]
        /\ \A k \in 1..Len(z) : (af \o z)[Len(af) + k] = z[k]
    BY <1>6, <1>7, JoinFacts
  <2> QED BY <1>1, <1>6, <1>7, <2>1
<1> HIDE DEF raw
<1>9. \A k \in 1..8 : raw[k] = a[k]
  <2> SUFFICES ASSUME NEW k \in 1..8 PROVE raw[k] = a[k] OBVIOUS
  <2>1. k \in 1..(8 + n) BY <1>1
  <2> QED BY <1>7, <1>8, <2>1
<1>10. raw[1] = 1 /\ raw[6] = 225 /\ raw[7] = 0 /\ raw[8] = n BY <1>2, <1>9
<1>11. Stands(raw, 6, b)
  <2>1. \A k \in 1..2 : raw[6 + k] = b[k]
    <3> SUFFICES ASSUME NEW k \in 1..2 PROVE raw[6 + k] = b[k] OBVIOUS
    <3>1. (k = 1 /\ 6 + k = 7) \/ (k = 2 /\ 6 + k = 8) OBVIOUS
    <3> QED BY <1>3, <1>10, <3>1
  <2> QED BY <1>1, <1>3, <1>8, <2>1 DEF Stands
<1>12. Stands(raw, 8, f)
  <2>1. \A k \in 1..n : raw[8 + k] = f[k]
    <3> SUFFICES ASSUME NEW k \in 1..n PROVE raw[8 + k] = f[k] OBVIOUS
    <3>1. 8 + k \in 1..(8 + n) BY <1>1
    <3> QED BY <1>7, <1>8, <3>1
  <2> QED BY <1>1, <1>8, <2>1 DEF Stands
<1>13. raw[9 + n] = 1 /\ raw[10 + n] = 0 /\ raw[11 + n] = 2 /\ raw[12 + n] = 7 /\ raw[13 + n] = 7
  <2>1. 8 + n + 1 = 9 + n /\ 8 + n + 2 = 10 + n /\ 8 + n + 3 = 11 + n /\ 8 + n + 4 = 12 + n /\ 8 + n + 5 = 13 + n BY <1>1
  <2>2. 1 \in 1..5 /\ 2 \in 1..5 /\ 3 \in 1..5 /\ 4 \in 1..5 /\ 5 \in 1..5 OBVIOUS
  <2> QED BY <1>6, <1>8, <2>1, <2>2
<1>14. Stands(raw, 9 + n, h)
  <2>1. \A k \in 1..2 : raw[(9 + n) + k] = h[k]
    <3> SUFFICES ASSUME NEW k \in 1..2 PROVE raw[(9 + n) + k] = h[k] OBVIOUS
    <3>1. (k = 1 /\ (9 + n) + k = 10 + n) \/ (k = 2 /\ (9 + n) + k = 11 + n) BY <1>1
    <3> QED BY <1>4, <1>13, <3>1
  <2> QED BY <1>1, <1>4, <1>8, <2>1 DEF Stands
<1>15. Stands(raw, 11 + n, u)
  <2>1. \A k \in 1..2 : raw[(11 + n) + k] = u[k]
    <3> SUFFICES ASSUME NEW k \in 1..2 PROVE raw[(11 + n) + k] = u[k] OBVIOUS
    <3>1. (k = 1 /\ (11 + n) + k = 12 + n) \/ (k = 2 /\ (11 + n) + k = 13 + n) BY <1>1
    <3> QED BY <1>5, <1>13, <3>1
  <2> QED BY <1>1, <1>5, <1>8, <2>1 DEF Stands
<1> DEFINE o1 == <<>> \o StartCode4 \o f
           o2 == <<>> \o StartCode4 \o u
<1>16. Counted(raw, 6, 1) = [at |-> 8 + n, out |-> o1]
  <2>1. 6 \in Nat /\ 1 \in Nat OBVIOUS
  <2>2. PICK g : TakesCounted(g, raw, 6, 1) /\ Counted(raw, 6, 1) = g[1] BY <1>8, <2>1, CountedBuilt
  <2>3. g[0] = [at |-> 6, out |-> <<>>] /\ g[1] = TakeUnit(raw, 2, g[0])
    <3>1. 1 \in 1..1 /\ 1 - 1 = 0 OBVIOUS
    <3> QED BY <2>2, <3>1 DEF TakesCounted
  <2>4. 8 = 6 + Len(b) /\ Len(f) > 0 /\ 6 \in Nat BY <1>1, <1>3
  <2>5. Takes(raw, Len(b), 6, <<>>, 8 + Len(f), f) BY <1>3, <1>8, <1>11, <1>12, <2>4, TakesThere
  <2> QED BY <1>3, <2>2, <2>3, <2>5 DEF Takes
<1>17. Counted(raw, 9 + n, 1) = [at |-> 13 + n, out |-> o2]
  <2>1. 9 + n \in Nat /\ 1 \in Nat BY <1>1
  <2>2. PICK g : TakesCounted(g, raw, 9 + n, 1) /\ Counted(raw, 9 + n, 1) = g[1] BY <1>8, <2>1, CountedBuilt
  <2>3. g[0] = [at |-> 9 + n, out |-> <<>>] /\ g[1] = TakeUnit(raw, 2, g[0])
    <3>1. 1 \in 1..1 /\ 1 - 1 = 0 OBVIOUS
    <3> QED BY <2>2, <3>1 DEF TakesCounted
  <2>4. 11 + n = (9 + n) + Len(h) /\ Len(u) > 0 /\ BigEndian(h) = Len(u) BY <1>1, <1>4, <1>5
  <2>5. Takes(raw, Len(h), 9 + n, <<>>, (11 + n) + Len(u), u)
    BY <1>4, <1>5, <1>8, <1>14, <1>15, <2>1, <2>4, TakesThere
  <2>6. (11 + n) + Len(u) = 13 + n BY <1>1, <1>5
  <2> QED BY <1>4, <2>2, <2>3, <2>5, <2>6 DEF Takes
<1>18. o1 = StartCode4 \o f /\ o2 = StartCode4 \o u
  <2>1. StartCode4 \in Octets BY Code4Octets
  <2>2. <<>> \o StartCode4 = StartCode4 BY <2>1 DEF Octets
  <2> QED BY <2>2
<1> HIDE DEF o1, o2
<1> DEFINE p == o1 \o o2
<1>19. p = StartCode4 \o f \o StartCode4 \o u
  <2>1. StartCode4 \in Octets BY Code4Octets
  <2>2. o1 \in Octets BY <1>18, <2>1, JoinFacts
  <2>3. o1 \o StartCode4 \o u = o1 \o (StartCode4 \o u) BY <1>5, <2>1, <2>2, JoinJoin
  <2> QED BY <1>18, <2>3
<1>20. p # <<>>
  <2>1. o1 \in Octets /\ Len(o1) = n + 4 /\ o2 \in Octets BY <1>5, <1>18, CodeJoin
  <2>2. Len(p) = Len(o1) + Len(o2) /\ Len(o2) \in Nat BY <2>1, JoinFacts, LenNat
  <2>3. Len(p) # 0 BY <1>1, <2>1, <2>2
  <2> HIDE DEF p
  <2> QED BY <2>3
<1> DEFINE sps == Counted(raw, 6, raw[6] % 32)
           pps == Counted(raw, sps.at + 1, raw[sps.at + 1])
<1>21. sps = [at |-> 8 + n, out |-> o1]
  <2>1. raw[6] % 32 = 1 BY <1>10
  <2> QED BY <1>16, <2>1
<1> HIDE DEF sps
<1>22. sps.at = 8 + n /\ sps.out = o1 BY <1>21
<1>23. pps = [at |-> 13 + n, out |-> o2]
  <2>1. sps.at + 1 = 9 + n /\ raw[sps.at + 1] = 1 BY <1>1, <1>13, <1>22
  <2> QED BY <1>17, <2>1
<1> HIDE DEF pps
<1>24. pps.at = 13 + n /\ pps.out = o2 BY <1>23
<1>25. sps.out \o pps.out = p BY <1>22, <1>24
<1>26. ~(Len(raw) < 7 \/ raw[1] # 1) BY <1>1, <1>8, <1>10
<1>27. ~(sps.at < 0 \/ sps.at >= Len(raw)) /\ pps.at = Len(raw) BY <1>1, <1>8, <1>22, <1>24
<1> HIDE DEF p
<1>28. avcc_config_to_annexb(raw) = p BY <1>20, <1>25, <1>26, <1>27 DEF avcc_config_to_annexb, sps, pps
<1> QED BY <1>19, <1>28 DEF raw, af, a, z, u

(* Emulation prevention: what is escaped and read again. *)

BitsRead == [zeros : Nat, bits : Octets]
BytesWritten == [zeros : Nat, out : Octets]

LEMMA ReadByteTyped ==
  ASSUME NEW b \in Nat, NEW s \in BitsRead
  PROVE  ReadByte(b, s) \in BitsRead
<1>1. s.zeros \in Nat /\ s.bits \in Octets BY DEF BitsRead
<1>2. Digits(b, 8) \in Octets
  <2>1. 8 \in Nat OBVIOUS
  <2> QED BY <2>1, DigitsTyped
<1> DEFINE z == IF b = 0 THEN s.zeros + 1 ELSE 0
           t == s.bits \o Digits(b, 8)
<1>3. z \in Nat /\ t \in Octets BY <1>1, <1>2, JoinFacts
<1>4. ReadByte(b, s) = s \/ ReadByte(b, s) = [zeros |-> z, bits |-> t] BY DEF ReadByte
<1> HIDE DEF z, t
<1> QED BY <1>3, <1>4 DEF BitsRead

LEMMA WriteByteTyped ==
  ASSUME NEW b \in Nat, NEW s \in BytesWritten
  PROVE  WriteByte(b, s) \in BytesWritten
<1>1. s.zeros \in Nat /\ s.out \in Octets BY DEF BytesWritten
<1> DEFINE due == s.zeros = 2 /\ b <= 3
           z == IF b # 0 THEN 0 ELSE IF due THEN 1 ELSE s.zeros + 1
           d == IF due THEN <<3, b>> ELSE <<b>>
           t == s.out \o d
<1>2. d \in Octets BY DEF Octets
<1>3. z \in Nat BY <1>1
<1> HIDE DEF d
<1>4. t \in Octets BY <1>1, <1>2, JoinFacts
<1>5. WriteByte(b, s) = [zeros |-> z, out |-> t] BY DEF WriteByte, d
<1> HIDE DEF z, t
<1> QED BY <1>3, <1>4, <1>5 DEF BytesWritten

\* The turns of first_mb_in_slice over the bytes of a slice.
ReadsBits(g, bytes) == /\ g \in [0..Len(bytes) -> BitsRead] /\ g[0] = [zeros |-> 0, bits |-> <<>>]
                       /\ \A k \in 1..Len(bytes) : g[k] = ReadByte(bytes[k], g[k - 1])

LEMMA UnescapedBuilt ==
  ASSUME NEW bytes \in Octets
  PROVE  \E g : ReadsBits(g, bytes) /\ Unescaped(bytes) = g[Len(bytes)].bits
<1> DEFINE zero == [zeros |-> 0, bits |-> <<>>]
           step == [x \in Nat \X BitsRead |-> IF x[1] \in 1..Len(bytes) THEN ReadByte(bytes[x[1]], x[2]) ELSE zero]
           Is(f) == f = [k \in 0..Len(bytes) |-> IF k = 0 THEN zero ELSE ReadByte(bytes[k], f[k - 1])]
<1>1. zero \in BitsRead BY DEF BitsRead, Octets
<1>2. Len(bytes) \in Nat BY LenNat
<1>3. \A k \in 1..Len(bytes) : \A y \in BitsRead : ReadByte(bytes[k], y) \in BitsRead
  <2> SUFFICES ASSUME NEW k \in 1..Len(bytes), NEW y \in BitsRead PROVE ReadByte(bytes[k], y) \in BitsRead OBVIOUS
  <2>1. bytes[k] \in Nat BY DEF Octets
  <2> QED BY <2>1, ReadByteTyped
<1>4. step \in [Nat \X BitsRead -> BitsRead] BY <1>1, <1>3
<1>5. PICK f \in [0..Len(bytes) -> BitsRead] : BuiltBy(f, Len(bytes), zero, step)
  <2> HIDE DEF step, zero
  <2> QED BY <1>1, <1>2, <1>4, RecursionExists
<1>6. f[0] = zero BY <1>5 DEF BuiltBy
<1>7. \A k \in 1..Len(bytes) : f[k] = ReadByte(bytes[k], f[k - 1])
  <2> SUFFICES ASSUME NEW k \in 1..Len(bytes) PROVE f[k] = ReadByte(bytes[k], f[k - 1]) OBVIOUS
  <2>1. k \in Nat /\ k - 1 \in 0..Len(bytes) BY <1>2
  <2>2. f[k - 1] \in BitsRead BY <2>1
  <2>3. f[k] = step[<<k, f[k - 1]>>] BY <1>5 DEF BuiltBy
  <2>4. step[<<k, f[k - 1]>>] = ReadByte(bytes[k], f[k - 1]) BY <2>1, <2>2
  <2> QED BY <2>3, <2>4
<1> HIDE DEF step, zero
<1>8. Is(f)
  <2>1. f = [k \in 0..Len(bytes) |-> f[k]] OBVIOUS
  <2>2. \A k \in 0..Len(bytes) : f[k] = IF k = 0 THEN zero ELSE ReadByte(bytes[k], f[k - 1])
    <3> SUFFICES ASSUME NEW k \in 0..Len(bytes), k # 0 PROVE f[k] = ReadByte(bytes[k], f[k - 1]) BY <1>6
    <3>1. k \in 1..Len(bytes) BY <1>2
    <3> QED BY <1>7, <3>1
  <2> QED BY <2>1, <2>2
<1> DEFINE g == CHOOSE h : Is(h)
<1>9. Unescaped(bytes) = g[Len(bytes)].bits
  BY DEF Unescaped, zero
<1>10. Is(g)
  <2> HIDE DEF Is
  <2> QED BY <1>8
<1>11. g = [k \in 0..Len(bytes) |-> IF k = 0 THEN zero ELSE ReadByte(bytes[k], g[k - 1])] BY <1>10
<1> HIDE DEF g, Is
<1>12. g[0] = zero BY <1>2, <1>11
<1>13. \A k \in 1..Len(bytes) : g[k] = ReadByte(bytes[k], g[k - 1]) BY <1>2, <1>11
<1> DEFINE T == {k \in Nat : k <= Len(bytes) => g[k] \in BitsRead}
<1>14. 0 \in T BY <1>1, <1>12
<1>15. ASSUME NEW k \in Nat, k \in T PROVE k + 1 \in T
  <2> SUFFICES ASSUME k + 1 <= Len(bytes) PROVE g[k + 1] \in BitsRead OBVIOUS
  <2>1. k + 1 \in 1..Len(bytes) /\ (k + 1) - 1 = k BY <1>2
  <2>2. g[k] \in BitsRead BY <1>2, <1>15
  <2>3. g[k + 1] = ReadByte(bytes[k + 1], g[k]) BY <1>13, <2>1
  <2> QED BY <1>3, <2>1, <2>2, <2>3
<1>16. \A k \in Nat : k \in T
  <2> HIDE DEF T
  <2> QED BY <1>14, <1>15, NaturalInduction
<1>17. \A k \in 0..Len(bytes) : g[k] \in BitsRead BY <1>2, <1>16
<1>18. g \in [0..Len(bytes) -> BitsRead]
  <2>1. g = [k \in 0..Len(bytes) |-> g[k]] BY <1>11
  <2> QED BY <1>17, <2>1
<1>19. ReadsBits(g, bytes) BY <1>12, <1>13, <1>18 DEF ReadsBits, zero
<1> QED BY <1>9, <1>19 DEF g

\* What an encoder writes.
Writes(g, bytes) == /\ g \in [0..Len(bytes) -> BytesWritten] /\ g[0] = [zeros |-> 0, out |-> <<>>]
                    /\ \A k \in 1..Len(bytes) : g[k] = WriteByte(bytes[k], g[k - 1])

LEMMA EscapedBuilt ==
  ASSUME NEW bytes \in Octets
  PROVE  \E g : Writes(g, bytes) /\ Escaped(bytes) = g[Len(bytes)].out
<1> DEFINE zero == [zeros |-> 0, out |-> <<>>]
           step == [x \in Nat \X BytesWritten |-> IF x[1] \in 1..Len(bytes) THEN WriteByte(bytes[x[1]], x[2]) ELSE zero]
           Is(f) == f = [k \in 0..Len(bytes) |-> IF k = 0 THEN zero ELSE WriteByte(bytes[k], f[k - 1])]
<1>1. zero \in BytesWritten BY DEF BytesWritten, Octets
<1>2. Len(bytes) \in Nat BY LenNat
<1>3. \A k \in 1..Len(bytes) : \A y \in BytesWritten : WriteByte(bytes[k], y) \in BytesWritten
  <2> SUFFICES ASSUME NEW k \in 1..Len(bytes), NEW y \in BytesWritten PROVE WriteByte(bytes[k], y) \in BytesWritten OBVIOUS
  <2>1. bytes[k] \in Nat BY DEF Octets
  <2> QED BY <2>1, WriteByteTyped
<1>4. step \in [Nat \X BytesWritten -> BytesWritten] BY <1>1, <1>3
<1>5. PICK f \in [0..Len(bytes) -> BytesWritten] : BuiltBy(f, Len(bytes), zero, step)
  <2> HIDE DEF step, zero
  <2> QED BY <1>1, <1>2, <1>4, RecursionExists
<1>6. f[0] = zero BY <1>5 DEF BuiltBy
<1>7. \A k \in 1..Len(bytes) : f[k] = WriteByte(bytes[k], f[k - 1])
  <2> SUFFICES ASSUME NEW k \in 1..Len(bytes) PROVE f[k] = WriteByte(bytes[k], f[k - 1]) OBVIOUS
  <2>1. k \in Nat /\ k - 1 \in 0..Len(bytes) BY <1>2
  <2>2. f[k - 1] \in BytesWritten BY <2>1
  <2>3. f[k] = step[<<k, f[k - 1]>>] BY <1>5 DEF BuiltBy
  <2>4. step[<<k, f[k - 1]>>] = WriteByte(bytes[k], f[k - 1]) BY <2>1, <2>2
  <2> QED BY <2>3, <2>4
<1> HIDE DEF step, zero
<1>8. Is(f)
  <2>1. f = [k \in 0..Len(bytes) |-> f[k]] OBVIOUS
  <2>2. \A k \in 0..Len(bytes) : f[k] = IF k = 0 THEN zero ELSE WriteByte(bytes[k], f[k - 1])
    <3> SUFFICES ASSUME NEW k \in 0..Len(bytes), k # 0 PROVE f[k] = WriteByte(bytes[k], f[k - 1]) BY <1>6
    <3>1. k \in 1..Len(bytes) BY <1>2
    <3> QED BY <1>7, <3>1
  <2> QED BY <2>1, <2>2
<1> DEFINE g == CHOOSE h : Is(h)
<1>9. Escaped(bytes) = g[Len(bytes)].out
  BY DEF Escaped, zero
<1>10. Is(g)
  <2> HIDE DEF Is
  <2> QED BY <1>8
<1>11. g = [k \in 0..Len(bytes) |-> IF k = 0 THEN zero ELSE WriteByte(bytes[k], g[k - 1])] BY <1>10
<1> HIDE DEF g, Is
<1>12. g[0] = zero BY <1>2, <1>11
<1>13. \A k \in 1..Len(bytes) : g[k] = WriteByte(bytes[k], g[k - 1]) BY <1>2, <1>11
<1> DEFINE T == {k \in Nat : k <= Len(bytes) => g[k] \in BytesWritten}
<1>14. 0 \in T BY <1>1, <1>12
<1>15. ASSUME NEW k \in Nat, k \in T PROVE k + 1 \in T
  <2> SUFFICES ASSUME k + 1 <= Len(bytes) PROVE g[k + 1] \in BytesWritten OBVIOUS
  <2>1. k + 1 \in 1..Len(bytes) /\ (k + 1) - 1 = k BY <1>2
  <2>2. g[k] \in BytesWritten BY <1>2, <1>15
  <2>3. g[k + 1] = WriteByte(bytes[k + 1], g[k]) BY <1>13, <2>1
  <2> QED BY <1>3, <2>1, <2>2, <2>3
<1>16. \A k \in Nat : k \in T
  <2> HIDE DEF T
  <2> QED BY <1>14, <1>15, NaturalInduction
<1>17. \A k \in 0..Len(bytes) : g[k] \in BytesWritten BY <1>2, <1>16
<1>18. g \in [0..Len(bytes) -> BytesWritten]
  <2>1. g = [k \in 0..Len(bytes) |-> g[k]] BY <1>11
  <2> QED BY <1>17, <2>1
<1>19. Writes(g, bytes) BY <1>12, <1>13, <1>18 DEF Writes, zero
<1> QED BY <1>9, <1>19 DEF g

\* The reader comes to a state.
ReadsTo(bytes, s) == \E g : ReadsBits(g, bytes) /\ s = g[Len(bytes)]

LEMMA ReadsNothing == ReadsTo(<<>>, [zeros |-> 0, bits |-> <<>>]) /\ [zeros |-> 0, bits |-> <<>>] \in BitsRead
<1> DEFINE zero == [zeros |-> 0, bits |-> <<>>]
           g == [k \in 0..0 |-> zero]
<1>1. zero \in BitsRead BY DEF BitsRead, Octets
<1>2. Len(<<>>) = 0 /\ ~(\E k \in 1..0 : TRUE) OBVIOUS
<1> HIDE DEF zero
<1>3. g \in [0..0 -> BitsRead] /\ g[0] = zero BY <1>1
<1> HIDE DEF g
<1>4. ReadsBits(g, <<>>) BY <1>2, <1>3 DEF ReadsBits, zero
<1>5. ReadsTo(<<>>, zero) BY <1>2, <1>3, <1>4 DEF ReadsTo
<1> QED BY <1>1, <1>5 DEF zero

LEMMA ReadsMore ==
  ASSUME NEW bytes \in Octets, NEW b \in Nat, NEW s \in BitsRead, ReadsTo(bytes, s)
  PROVE  Append(bytes, b) \in Octets /\ ReadByte(b, s) \in BitsRead /\ ReadsTo(Append(bytes, b), ReadByte(b, s))
<1> DEFINE n == Len(bytes)
           more == Append(bytes, b)
           t == ReadByte(b, s)
<1>1. n \in Nat BY LenNat
<1>2. more \in Octets /\ Len(more) = n + 1 /\ (\A k \in 1..n : more[k] = bytes[k]) /\ more[n + 1] = b
  BY DEF Octets
<1>3. t \in BitsRead BY ReadByteTyped
<1>4. PICK g : ReadsBits(g, bytes) /\ s = g[n] BY DEF ReadsTo
<1>5. /\ g \in [0..n -> BitsRead] /\ g[0] = [zeros |-> 0, bits |-> <<>>]
      /\ \A k \in 1..n : g[k] = ReadByte(bytes[k], g[k - 1])
  BY <1>4 DEF ReadsBits
<1> DEFINE f == [k \in 0..(n + 1) |-> IF k <= n THEN g[k] ELSE t]
<1> HIDE DEF n, more, t
<1>6. \A k \in 0..n : f[k] = g[k] /\ k \in 0..(n + 1) BY <1>1
<1>7. f[n + 1] = t BY <1>1
<1>8. f \in [0..(n + 1) -> BitsRead]
  <2>1. \A k \in 0..(n + 1) : (IF k <= n THEN g[k] ELSE t) \in BitsRead BY <1>1, <1>3, <1>5
  <2> QED BY <2>1
<1> HIDE DEF f
<1>9. f[0] = [zeros |-> 0, bits |-> <<>>] BY <1>1, <1>5, <1>6
<1>10. \A k \in 1..(n + 1) : f[k] = ReadByte(more[k], f[k - 1])
  <2> SUFFICES ASSUME NEW k \in 1..(n + 1) PROVE f[k] = ReadByte(more[k], f[k - 1]) OBVIOUS
  <2>1. CASE k <= n
    <3>1. k \in 1..n /\ k \in 0..n /\ k - 1 \in 0..n BY <1>1, <2>1
    <3>2. f[k] = g[k] /\ f[k - 1] = g[k - 1] /\ more[k] = bytes[k] BY <1>2, <1>6, <3>1
    <3>3. g[k] = ReadByte(bytes[k], g[k - 1]) BY <1>5, <3>1
    <3> QED BY <3>2, <3>3
  <2>2. CASE k = n + 1
    <3>1. k - 1 = n /\ n \in 0..n BY <1>1, <2>2
    <3>2. f[k - 1] = s BY <1>4, <1>6, <3>1
    <3>3. more[k] = b BY <1>2, <2>2
    <3> QED BY <1>7, <2>2, <3>2, <3>3 DEF t
  <2> QED BY <1>1, <2>1, <2>2
<1>11. ReadsBits(f, more) BY <1>2, <1>8, <1>9, <1>10 DEF ReadsBits
<1>12. ReadsTo(more, t) BY <1>2, <1>7, <1>11 DEF ReadsTo
<1> QED BY <1>2, <1>3, <1>12 DEF more, t

\* It comes to one only.
LEMMA ReadsOnce ==
  ASSUME NEW bytes \in Octets, NEW s, ReadsTo(bytes, s)
  PROVE  Unescaped(bytes) = s.bits
<1> DEFINE n == Len(bytes)
<1>1. n \in Nat BY LenNat
<1>2. PICK g : ReadsBits(g, bytes) /\ Unescaped(bytes) = g[n].bits BY UnescapedBuilt
<1>3. PICK f : ReadsBits(f, bytes) /\ s = f[n] BY DEF ReadsTo
<1> HIDE DEF n
<1>4. f[0] = g[0] /\ \A k \in 1..n : f[k] = ReadByte(bytes[k], f[k - 1]) /\ g[k] = ReadByte(bytes[k], g[k - 1])
  BY <1>2, <1>3 DEF ReadsBits, n
<1> DEFINE T == {k \in Nat : k <= n => f[k] = g[k]}
<1>5. 0 \in T BY <1>4
<1>6. ASSUME NEW k \in Nat, k \in T PROVE k + 1 \in T
  <2> SUFFICES ASSUME k + 1 <= n PROVE f[k + 1] = g[k + 1] OBVIOUS
  <2>1. k + 1 \in 1..n /\ (k + 1) - 1 = k /\ f[k] = g[k] BY <1>1, <1>6
  <2>2. f[k + 1] = ReadByte(bytes[k + 1], f[k]) /\ g[k + 1] = ReadByte(bytes[k + 1], g[k]) BY <1>4, <2>1
  <2> QED BY <2>1, <2>2
<1>7. \A k \in Nat : k \in T
  <2> HIDE DEF T
  <2> QED BY <1>5, <1>6, NaturalInduction
<1>8. f[n] = g[n] BY <1>1, <1>7
<1> QED BY <1>2, <1>3, <1>8

LEMMA SliceJoin ==
  ASSUME NEW s \in Octets, NEW i \in Nat, NEW j \in Nat, i <= j, j <= Len(s)
  PROVE  Slice(s, 0, i) \o Slice(s, i, j) = Slice(s, 0, j)
<1> DEFINE a == Slice(s, 0, i)
           b == Slice(s, i, j)
           h == Slice(s, 0, j)
<1>1. 0 \in Nat /\ 0 <= i /\ i <= Len(s) /\ 0 <= j /\ i - 0 = i /\ j - 0 = j BY LenNat
<1>2. a \in Octets /\ Len(a) = i /\ \A k \in 1..i : a[k] = s[k]
  <2>1. a \in Octets /\ Len(a) = i - 0 /\ \A k \in 1..(i - 0) : a[k] = s[0 + k] BY <1>1, SliceFacts
  <2>2. \A k \in 1..i : 0 + k = k OBVIOUS
  <2> HIDE DEF a
  <2> QED BY <1>1, <2>1, <2>2
<1>3. h \in Octets /\ Len(h) = j /\ \A k \in 1..j : h[k] = s[k]
  <2>1. h \in Octets /\ Len(h) = j - 0 /\ \A k \in 1..(j - 0) : h[k] = s[0 + k] BY <1>1, SliceFacts
  <2>2. \A k \in 1..j : 0 + k = k OBVIOUS
  <2> HIDE DEF h
  <2> QED BY <1>1, <2>1, <2>2
<1>4. b \in Octets /\ Len(b) = j - i /\ \A k \in 1..(j - i) : b[k] = s[i + k] BY SliceFacts
<1> HIDE DEF a, b, h
<1>5. /\ a \o b \in Octets /\ Len(a \o b) = Len(a) + Len(b)
      /\ \A k \in 1..Len(a) : (a \o b)[k] = a[k]
      /\ \A k \in 1..Len(b) : (a \o b)[Len(a) + k] = b[k]
  BY <1>2, <1>4, JoinFacts
<1>6. Len(a \o b) = Len(h) BY <1>2, <1>3, <1>4, <1>5
<1>7. \A k \in 1..Len(a \o b) : (a \o b)[k] = h[k]
  <2> SUFFICES ASSUME NEW k \in 1..j PROVE (a \o b)[k] = h[k] BY <1>3, <1>6
  <2>1. CASE k <= i
    <3>1. k \in 1..i /\ k \in 1..Len(a) BY <1>2, <2>1
    <3> QED BY <1>2, <1>3, <1>5, <3>1
  <2>2. CASE k > i
    <3>1. k - i \in 1..(j - i) /\ i + (k - i) = k BY <2>2
    <3>2. (a \o b)[i + (k - i)] = b[k - i] BY <1>2, <1>4, <1>5, <3>1
    <3>3. b[k - i] = s[i + (k - i)] BY <1>4, <3>1
    <3>4. h[k] = s[k] BY <1>3
    <3> QED BY <3>1, <3>2, <3>3, <3>4
  <2>3. k <= i \/ k > i OBVIOUS
  <2> QED BY <2>1, <2>2, <2>3
<1>8. a \o b = h BY <1>3, <1>5, <1>6, <1>7, SameBytes
<1> QED BY <1>8 DEF a, b, h

\* No byte 3 follows two zeros.
Harmless(bytes) ==
  \A i \in Nat : i >= 1 /\ i + 2 <= Len(bytes) => ~(bytes[i] = 0 /\ bytes[i + 1] = 0 /\ bytes[i + 2] = 3)

\* The bits of a byte string.
BitsOf(bytes, bits) ==
  /\ bits \in Octets /\ Len(bits) = 8 * Len(bytes)
  /\ \A k \in Nat : k + 1 <= Len(bytes) => Slice(bits, 8 * k, 8 * k + 8) = Digits(bytes[k + 1], 8)

\* What the writer has written after k bytes brings the reader to the same bits.  It counts
\* no fewer zeros than the writer, and no more than there were.
InStep(bytes, bits, k, w, s) ==
  /\ w \in BytesWritten /\ s \in BitsRead
  /\ ReadsTo(w.out, s) /\ s.bits = Slice(bits, 0, 8 * k)
  /\ k <= Len(w.out) /\ Len(w.out) <= 2 * k
  /\ w.zeros <= 2 /\ w.zeros <= s.zeros
  /\ s.zeros >= 1 => k >= 1 /\ bytes[k] = 0
  /\ s.zeros >= 2 => k >= 2 /\ bytes[k - 1] = 0

LEMMA StepByStep ==
  ASSUME NEW bytes \in Octets, NEW bits, Harmless(bytes), BitsOf(bytes, bits),
         NEW k \in Nat, k + 1 <= Len(bytes), NEW w, NEW s, InStep(bytes, bits, k, w, s)
  PROVE  \E t : InStep(bytes, bits, k + 1, WriteByte(bytes[k + 1], w), t)
<1> DEFINE b == bytes[k + 1]
           due == w.zeros = 2 /\ b <= 3
           t == [zeros |-> IF b = 0 THEN s.zeros + 1 ELSE 0, bits |-> s.bits \o Digits(b, 8)]
           v == WriteByte(b, w)
<1>1. Len(bytes) \in Nat /\ k + 1 \in 1..Len(bytes) BY LenNat
<1>2. b \in Nat BY <1>1 DEF Octets
<1>3. /\ w \in BytesWritten /\ s \in BitsRead /\ ReadsTo(w.out, s) /\ s.bits = Slice(bits, 0, 8 * k)
      /\ k <= Len(w.out) /\ Len(w.out) <= 2 * k /\ w.zeros <= 2 /\ w.zeros <= s.zeros
      /\ s.zeros >= 1 => k >= 1 /\ bytes[k] = 0
      /\ s.zeros >= 2 => k >= 2 /\ bytes[k - 1] = 0
  BY DEF InStep
<1>4. w.zeros \in Nat /\ w.out \in Octets /\ s.zeros \in Nat /\ s.bits \in Octets BY <1>3 DEF BytesWritten, BitsRead
<1>5. s.zeros >= 2 => b # 3
  <2> SUFFICES ASSUME s.zeros >= 2, b = 3 PROVE FALSE OBVIOUS
  <2>1. k >= 2 /\ bytes[k - 1] = 0 /\ bytes[k] = 0 BY <1>3, <1>4
  <2>2. k - 1 \in Nat /\ k - 1 >= 1 /\ (k - 1) + 1 = k /\ (k - 1) + 2 = k + 1 BY <2>1
  <2> QED BY <2>1, <2>2 DEF Harmless
<1>6. ReadByte(b, s) = t BY <1>4, <1>5 DEF ReadByte
<1> HIDE DEF b
<1>7. t \in BitsRead BY <1>2, <1>3, <1>6, ReadByteTyped
<1>8. v \in BytesWritten BY <1>2, <1>3, WriteByteTyped
<1>9. /\ v.zeros = IF b # 0 THEN 0 ELSE IF due THEN 1 ELSE w.zeros + 1
      /\ v.out = w.out \o (IF due THEN <<3, b>> ELSE <<b>>)
  BY DEF WriteByte
<1> HIDE DEF t, v
<1>10. /\ ReadsTo(v.out, t) /\ k + 1 <= Len(v.out) /\ Len(v.out) <= 2 * (k + 1)
  <2> DEFINE o == w.out
  <2>1. o \in Octets /\ ReadsTo(o, s) /\ Len(o) \in Nat /\ k <= Len(o) /\ Len(o) <= 2 * k BY <1>3, <1>4, LenNat
  <2>2. CASE ~due
    <3>1. v.out = Append(o, b)
      <4>1. v.out = o \o <<b>> BY <1>9, <2>2
      <4> HIDE DEF o
      <4> QED BY <1>2, <2>1, <4>1 DEF Octets
    <3> HIDE DEF o
    <3>2. ReadsTo(Append(o, b), ReadByte(b, s)) BY <1>2, <1>3, <2>1, ReadsMore
    <3>3. Len(Append(o, b)) = Len(o) + 1 BY <2>1 DEF Octets
    <3> QED BY <1>6, <2>1, <3>1, <3>2, <3>3
  <2>3. CASE due
    <3>1. v.out = Append(Append(o, 3), b)
      <4>1. v.out = o \o <<3, b>> BY <1>9, <2>3
      <4> HIDE DEF o
      <4> QED BY <1>2, <2>1, <4>1 DEF Octets
    <3>2. ReadByte(3, s) = s
      <4>1. s.zeros >= 2 BY <1>3, <1>4, <2>3
      <4> QED BY <4>1 DEF ReadByte
    <3> HIDE DEF o
    <3>3. Append(o, 3) \in Octets /\ ReadsTo(Append(o, 3), s)
      <4>1. 3 \in Nat OBVIOUS
      <4>2. Append(o, 3) \in Octets /\ ReadsTo(Append(o, 3), ReadByte(3, s)) BY <1>3, <2>1, <4>1, ReadsMore
      <4> QED BY <3>2, <4>2
    <3>4. ReadsTo(Append(Append(o, 3), b), ReadByte(b, s)) BY <1>2, <1>3, <3>3, ReadsMore
    <3>5. Len(Append(o, 3)) = Len(o) + 1 BY <2>1 DEF Octets
    <3>6. Len(Append(Append(o, 3), b)) = Len(Append(o, 3)) + 1 BY <3>3 DEF Octets
    <3> QED BY <1>6, <2>1, <3>1, <3>4, <3>5, <3>6
  <2> QED BY <2>2, <2>3
<1>11. t.bits = Slice(bits, 0, 8 * (k + 1))
  <2>1. t.bits = Slice(bits, 0, 8 * k) \o Digits(b, 8) BY <1>3 DEF t
  <2>2. Digits(b, 8) = Slice(bits, 8 * k, 8 * k + 8) BY <1>1 DEF BitsOf, b
  <2> DEFINE i == 8 * k
             j == 8 * k + 8
  <2>3. bits \in Octets /\ i \in Nat /\ j \in Nat /\ i <= j /\ j <= Len(bits) /\ j = 8 * (k + 1)
    BY <1>1 DEF BitsOf
  <2> HIDE DEF i, j
  <2>4. Slice(bits, 0, i) \o Slice(bits, i, j) = Slice(bits, 0, j) BY <2>3, SliceJoin
  <2> QED BY <2>1, <2>2, <2>3, <2>4 DEF i, j
<1>12. t.zeros = IF b = 0 THEN s.zeros + 1 ELSE 0 BY DEF t
<1>13. v.zeros <= 2 /\ v.zeros <= t.zeros
  <2>1. CASE b # 0 BY <1>4, <1>9, <1>12, <2>1
  <2>2. CASE b = 0 /\ due BY <1>3, <1>4, <1>9, <1>12, <2>2
  <2>3. CASE b = 0 /\ ~due BY <1>3, <1>4, <1>9, <1>12, <2>3
  <2> QED BY <2>1, <2>2, <2>3
<1>14. t.zeros >= 1 => k + 1 >= 1 /\ bytes[k + 1] = 0 BY <1>4, <1>12 DEF b
<1>15. t.zeros >= 2 => k + 1 >= 2 /\ bytes[(k + 1) - 1] = 0
  <2>1. (k + 1) - 1 = k OBVIOUS
  <2>2. t.zeros >= 2 => s.zeros >= 1 BY <1>4, <1>12
  <2> QED BY <1>3, <2>1, <2>2
<1>16. InStep(bytes, bits, k + 1, v, t)
  BY <1>7, <1>8, <1>10, <1>11, <1>13, <1>14, <1>15 DEF InStep
<1> QED BY <1>16 DEF v, b

\* What was escaped is read as it was.
LEMMA UnescapesEscaped ==
  ASSUME NEW bytes \in Octets, NEW bits, Harmless(bytes), BitsOf(bytes, bits)
  PROVE  /\ Escaped(bytes) \in Octets /\ Unescaped(Escaped(bytes)) = bits
         /\ Len(bytes) <= Len(Escaped(bytes)) /\ Len(Escaped(bytes)) <= 2 * Len(bytes)
<1> DEFINE n == Len(bytes)
<1>1. n \in Nat BY LenNat
<1>2. PICK g : Writes(g, bytes) /\ Escaped(bytes) = g[n].out BY EscapedBuilt
<1>3. g[0] = [zeros |-> 0, out |-> <<>>] /\ \A k \in 1..n : g[k] = WriteByte(bytes[k], g[k - 1])
  BY <1>2 DEF Writes
<1>4. bits \in Octets /\ Len(bits) = 8 * n BY DEF BitsOf
<1> DEFINE Good(k) == \E s : InStep(bytes, bits, k, g[k], s)
<1> HIDE DEF n
<1> DEFINE T == {k \in Nat : k <= n => Good(k)}
<1>5. 0 \in T
  <2> DEFINE w == [zeros |-> 0, out |-> <<>>]
             s == [zeros |-> 0, bits |-> <<>>]
  <2>1. w \in BytesWritten /\ w.out = <<>> /\ w.zeros = 0 /\ Len(<<>>) = 0 BY DEF BytesWritten, Octets
  <2>2. s \in BitsRead /\ ReadsTo(<<>>, s) /\ s.zeros = 0 /\ s.bits = <<>> BY ReadsNothing
  <2>3. Slice(bits, 0, 8 * 0) = <<>>
    <3>1. 0 \in Nat /\ 0 <= Len(bits) /\ 8 * 0 = 0 /\ 0 - 0 = 0 BY <1>1, <1>4
    <3>2. Slice(bits, 0, 0) \in Octets /\ Len(Slice(bits, 0, 0)) = 0 BY <1>4, <3>1, SliceFacts
    <3> DEFINE e == Slice(bits, 0, 0)
    <3>3. e \in Seq(Nat) /\ Len(e) = 0 BY <3>2 DEF Octets
    <3> HIDE DEF e
    <3>4. e = <<>> BY <3>3
    <3> QED BY <3>1, <3>4 DEF e
  <2> HIDE DEF w, s
  <2>4. InStep(bytes, bits, 0, w, s) BY <2>1, <2>2, <2>3 DEF InStep
  <2>5. g[0] = w BY <1>3 DEF w
  <2> QED BY <2>4, <2>5
<1>6. ASSUME NEW k \in Nat, k \in T PROVE k + 1 \in T
  <2> SUFFICES ASSUME k + 1 <= n PROVE Good(k + 1) OBVIOUS
  <2>1. PICK s : InStep(bytes, bits, k, g[k], s) BY <1>1, <1>6
  <2>2. k + 1 \in 1..n /\ (k + 1) - 1 = k BY <1>1
  <2>3. g[k + 1] = WriteByte(bytes[k + 1], g[k]) BY <1>3, <2>2
  <2>4. \E t : InStep(bytes, bits, k + 1, WriteByte(bytes[k + 1], g[k]), t) BY <2>1, StepByStep DEF n
  <2> QED BY <2>3, <2>4
<1>7. \A k \in Nat : k \in T
  <2> HIDE DEF T
  <2> QED BY <1>5, <1>6, NaturalInduction
<1>8. PICK s : InStep(bytes, bits, n, g[n], s) BY <1>1, <1>7
<1>9. /\ g[n] \in BytesWritten /\ ReadsTo(g[n].out, s) /\ s.bits = Slice(bits, 0, 8 * n)
      /\ n <= Len(g[n].out) /\ Len(g[n].out) <= 2 * n
  BY <1>8 DEF InStep
<1>10. g[n].out \in Octets BY <1>9 DEF BytesWritten
<1> DEFINE o == g[n].out
<1>11. o \in Octets /\ ReadsTo(o, s) BY <1>9, <1>10
<1> HIDE DEF o
<1>12. Unescaped(o) = s.bits BY <1>11, ReadsOnce
<1>13. Slice(bits, 0, 8 * n) = bits
  <2>1. 0 \in Nat /\ 0 + Len(bits) = 8 * n BY <1>1, <1>4
  <2>2. Stands(bits, 0, bits)
    <3>1. \A k \in 1..Len(bits) : 0 + k = k OBVIOUS
    <3> QED BY <1>1, <1>4, <2>1, <3>1 DEF Stands
  <2>3. Slice(bits, 0, 0 + Len(bits)) = bits BY <1>4, <2>1, <2>2, SliceIs
  <2> QED BY <2>1, <2>3
<1> QED BY <1>2, <1>9, <1>10, <1>12, <1>13 DEF o, n

(* The number at the beginning of a slice. *)

LEMMA LowestIs ==
  ASSUME NEW S, S \subseteq Int, NEW m \in S, \A y \in S : m <= y
  PROVE  Lowest(S) = m
<1> DEFINE l == CHOOSE x \in S : \A y \in S : x <= y
<1>1. l \in S /\ \A y \in S : l <= y OBVIOUS
<1> HIDE DEF l
<1>2. l <= m /\ m <= l /\ l \in Int /\ m \in Int BY <1>1
<1>3. l = m BY <1>2
<1> QED BY <1>3 DEF l, Lowest

\* Twenty-three halves are enough, and a number of twenty-three digits begins with 10.
LEMMA HalvesBelow ==
  ASSUME NEW x \in Nat, x <= FirstMbLimit
  PROVE  Halves(x)[21] < 3 /\ Halves(x)[23] = 0
<1> DEFINE H == Halves(x)
<1>1. H[0] = x /\ (\A k \in Nat : H[k] \in Nat) /\ \A k \in Nat : H[k + 1] = H[k] \div 2
  BY HalvesFunction
<1> HIDE DEF H
<1>2. \A k \in Nat : H[k + 1] \in Nat /\ 2 * H[k + 1] <= H[k]
  <2> SUFFICES ASSUME NEW k \in Nat PROVE H[k + 1] \in Nat /\ 2 * H[k + 1] <= H[k] OBVIOUS
  <2>1. H[k] \in Nat /\ H[k + 1] = H[k] \div 2 BY <1>1
  <2> QED BY <2>1
<1>3. H[7] < 49152
  <2>1. 0 \in Nat /\ 1 \in Nat /\ 2 \in Nat /\ 3 \in Nat /\ 4 \in Nat /\ 5 \in Nat /\ 6 \in Nat OBVIOUS
  <2>2. 2 * H[1] <= H[0] /\ 2 * H[2] <= H[1] /\ 2 * H[3] <= H[2] /\ 2 * H[4] <= H[3] /\ 2 * H[5] <= H[4] /\ 2 * H[6] <= H[5] /\ 2 * H[7] <= H[6]
    <3>1. H[0 + 1] \in Nat /\ 2 * H[0 + 1] <= H[0] BY <1>2, <2>1
    <3>2. H[1 + 1] \in Nat /\ 2 * H[1 + 1] <= H[1] BY <1>2, <2>1
    <3>3. H[2 + 1] \in Nat /\ 2 * H[2 + 1] <= H[2] BY <1>2, <2>1
    <3>4. H[3 + 1] \in Nat /\ 2 * H[3 + 1] <= H[3] BY <1>2, <2>1
    <3>5. H[4 + 1] \in Nat /\ 2 * H[4 + 1] <= H[4] BY <1>2, <2>1
    <3>6. H[5 + 1] \in Nat /\ 2 * H[5 + 1] <= H[5] BY <1>2, <2>1
    <3>7. H[6 + 1] \in Nat /\ 2 * H[6 + 1] <= H[6] BY <1>2, <2>1
    <3> QED BY <3>1, <3>2, <3>3, <3>4, <3>5, <3>6, <3>7
  <2>3. H[0] \in Nat /\ H[1] \in Nat /\ H[2] \in Nat /\ H[3] \in Nat /\ H[4] \in Nat /\ H[5] \in Nat /\ H[6] \in Nat /\ H[7] \in Nat BY <1>1
  <2> QED BY <1>1, <2>2, <2>3, SMT DEF FirstMbLimit
<1>4. H[14] < 384
  <2>1. 7 \in Nat /\ 8 \in Nat /\ 9 \in Nat /\ 10 \in Nat /\ 11 \in Nat /\ 12 \in Nat /\ 13 \in Nat OBVIOUS
  <2>2. 2 * H[8] <= H[7] /\ 2 * H[9] <= H[8] /\ 2 * H[10] <= H[9] /\ 2 * H[11] <= H[10] /\ 2 * H[12] <= H[11] /\ 2 * H[13] <= H[12] /\ 2 * H[14] <= H[13]
    <3>1. H[7 + 1] \in Nat /\ 2 * H[7 + 1] <= H[7] BY <1>2, <2>1
    <3>2. H[8 + 1] \in Nat /\ 2 * H[8 + 1] <= H[8] BY <1>2, <2>1
    <3>3. H[9 + 1] \in Nat /\ 2 * H[9 + 1] <= H[9] BY <1>2, <2>1
    <3>4. H[10 + 1] \in Nat /\ 2 * H[10 + 1] <= H[10] BY <1>2, <2>1
    <3>5. H[11 + 1] \in Nat /\ 2 * H[11 + 1] <= H[11] BY <1>2, <2>1
    <3>6. H[12 + 1] \in Nat /\ 2 * H[12 + 1] <= H[12] BY <1>2, <2>1
    <3>7. H[13 + 1] \in Nat /\ 2 * H[13 + 1] <= H[13] BY <1>2, <2>1
    <3> QED BY <3>1, <3>2, <3>3, <3>4, <3>5, <3>6, <3>7
  <2>3. H[7] \in Nat /\ H[8] \in Nat /\ H[9] \in Nat /\ H[10] \in Nat /\ H[11] \in Nat /\ H[12] \in Nat /\ H[13] \in Nat /\ H[14] \in Nat BY <1>1
  <2> QED BY <1>3, <2>2, <2>3, SMT
<1>5. H[21] < 3
  <2>1. 14 \in Nat /\ 15 \in Nat /\ 16 \in Nat /\ 17 \in Nat /\ 18 \in Nat /\ 19 \in Nat /\ 20 \in Nat OBVIOUS
  <2>2. 2 * H[15] <= H[14] /\ 2 * H[16] <= H[15] /\ 2 * H[17] <= H[16] /\ 2 * H[18] <= H[17] /\ 2 * H[19] <= H[18] /\ 2 * H[20] <= H[19] /\ 2 * H[21] <= H[20]
    <3>1. H[14 + 1] \in Nat /\ 2 * H[14 + 1] <= H[14] BY <1>2, <2>1
    <3>2. H[15 + 1] \in Nat /\ 2 * H[15 + 1] <= H[15] BY <1>2, <2>1
    <3>3. H[16 + 1] \in Nat /\ 2 * H[16 + 1] <= H[16] BY <1>2, <2>1
    <3>4. H[17 + 1] \in Nat /\ 2 * H[17 + 1] <= H[17] BY <1>2, <2>1
    <3>5. H[18 + 1] \in Nat /\ 2 * H[18 + 1] <= H[18] BY <1>2, <2>1
    <3>6. H[19 + 1] \in Nat /\ 2 * H[19 + 1] <= H[19] BY <1>2, <2>1
    <3>7. H[20 + 1] \in Nat /\ 2 * H[20 + 1] <= H[20] BY <1>2, <2>1
    <3> QED BY <3>1, <3>2, <3>3, <3>4, <3>5, <3>6, <3>7
  <2>3. H[14] \in Nat /\ H[15] \in Nat /\ H[16] \in Nat /\ H[17] \in Nat /\ H[18] \in Nat /\ H[19] \in Nat /\ H[20] \in Nat /\ H[21] \in Nat BY <1>1
  <2> QED BY <1>4, <2>2, <2>3, SMT
<1>6. H[23] = 0
  <2>1. 21 \in Nat /\ 22 \in Nat /\ 21 + 1 = 22 /\ 22 + 1 = 23 OBVIOUS
  <2>2. H[22] = H[21] \div 2 /\ H[23] = H[22] \div 2 /\ H[21] \in Nat BY <1>1, <2>1
  <2>3. H[21] = 0 \/ H[21] = 1 \/ H[21] = 2 BY <1>5, <2>2
  <2> QED BY <2>2, <2>3
<1> QED BY <1>5, <1>6 DEF H

LEMMA WidthFacts ==
  ASSUME NEW x \in Nat, x >= 1, x <= FirstMbLimit
  PROVE  /\ Width(x) \in 1..23 /\ Halves(x)[Width(x)] = 0 /\ Halves(x)[Width(x) - 1] = 1
         /\ Width(x) = 23 => Halves(x)[21] % 2 = 0
<1> DEFINE H == Halves(x)
           S == {k \in 0..23 : H[k] = 0}
           n == Width(x)
<1>1. H[0] = x /\ (\A k \in Nat : H[k] \in Nat) /\ \A k \in Nat : H[k + 1] = H[k] \div 2
  BY HalvesFunction
<1>2. H[21] < 3 /\ H[23] = 0 BY HalvesBelow
<1> HIDE DEF H
<1>3. S \subseteq Nat /\ 23 \in S BY <1>2
<1>4. PICK m \in S : \A k \in S : m <= k
  <2> HIDE DEF S
  <2>1. S # {} BY <1>3
  <2> QED BY <1>3, <2>1, LeastNatural
<1>5. n = m
  <2>1. n = Lowest(S) BY DEF Width, H
  <2> HIDE DEF S
  <2>2. S \subseteq Int BY <1>3
  <2> QED BY <1>4, <2>1, <2>2, LowestIs
<1>6. m \in 0..23 /\ H[m] = 0 /\ \A k \in 0..23 : H[k] = 0 => m <= k BY <1>4
<1> HIDE DEF n, S
<1>7. m # 0 BY <1>1, <1>6
<1>8. H[m - 1] = 1
  <2>1. m - 1 \in 0..23 /\ m - 1 \in Nat /\ (m - 1) + 1 = m /\ ~(m <= m - 1) BY <1>6, <1>7
  <2>2. H[m - 1] # 0 /\ H[m - 1] \in Nat BY <1>1, <1>6, <2>1
  <2>3. H[m - 1] \div 2 = 0 BY <1>1, <1>6, <2>1
  <2> QED BY <2>2, <2>3
<1>9. m = 23 => H[21] % 2 = 0
  <2> SUFFICES ASSUME m = 23 PROVE H[21] % 2 = 0 OBVIOUS
  <2>1. 21 \in Nat /\ 21 + 1 = 22 /\ 23 - 1 = 22 OBVIOUS
  <2>2. H[22] = 1 BY <1>8, <2>1
  <2>3. H[22] = H[21] \div 2 /\ H[21] \in Nat BY <1>1, <2>1
  <2>4. H[21] = 0 \/ H[21] = 1 \/ H[21] = 2 BY <1>2, <2>3
  <2>5. H[21] = 2 BY <2>2, <2>3, <2>4
  <2> QED BY <2>5
<1>10. m \in 1..23 BY <1>6, <1>7
<1> QED BY <1>5, <1>6, <1>8, <1>9, <1>10 DEF n, H

\* What stands in the bits of a slice: n - 1 zeros, the n digits of x, zeros.
Coding(B, D, n) ==
  /\ B \in Octets /\ Len(B) = 2 * n + 7
  /\ \A i \in 1..(2 * n + 7) : B[i] \in {0, 1} /\ (i < n \/ i >= 2 * n => B[i] = 0)
  /\ \A i \in 1..n : B[(n - 1) + i] = D[i]

LEMMA SliceBitsFacts ==
  ASSUME NEW v \in Nat, Width(v + 1) \in Nat, Width(v + 1) >= 1
  PROVE  Coding(SliceBits(v), Digits(v + 1, Width(v + 1)), Width(v + 1))
<1> DEFINE n == Width(v + 1)
           D == Digits(v + 1, n)
           Z == [i \in 1 .. n - 1 |-> 0]
           E == [i \in 1 .. 8 |-> 0]
           B == SliceBits(v)
<1>1. n \in Nat /\ n >= 1 /\ n - 1 \in Nat OBVIOUS
<1>2. B = Z \o D \o E BY DEF SliceBits
<1> HIDE DEF n, B
<1>3. D \in Octets /\ Len(D) = n /\ \A i \in 1..n : D[i] \in {0, 1}
  <2>1. v + 1 \in Nat OBVIOUS
  <2> QED BY <1>1, <2>1, DigitsTyped
<1>4. Z \in Octets /\ Len(Z) = n - 1 /\ \A i \in 1..(n - 1) : Z[i] = 0
  <2>1. Z \in [1..(n - 1) -> Nat] OBVIOUS
  <2>2. Z \in Seq(Nat) /\ Len(Z) = n - 1 BY <1>1, <2>1
  <2> QED BY <2>2 DEF Octets
<1>5. E \in Octets /\ Len(E) = 8 /\ \A i \in 1..8 : E[i] = 0
  <2>1. E \in [1..8 -> Nat] OBVIOUS
  <2>2. E \in Seq(Nat) /\ Len(E) = 8 BY <2>1
  <2> QED BY <2>2 DEF Octets
<1> HIDE DEF D, Z, E
<1> DEFINE P == Z \o D
<1>6. /\ P \in Octets /\ Len(P) = 2 * n - 1
      /\ (\A i \in 1..(n - 1) : P[i] = 0) /\ \A i \in 1..n : P[(n - 1) + i] = D[i]
  <2>1. /\ Z \o D \in Octets /\ Len(Z \o D) = Len(Z) + Len(D)
        /\ \A k \in 1..Len(Z) : (Z \o D)[k] = Z[k]
        /\ \A k \in 1..Len(D) : (Z \o D)[Len(Z) + k] = D[k]
    BY <1>3, <1>4, JoinFacts
  <2> QED BY <1>1, <1>3, <1>4, <2>1
<1> HIDE DEF P
<1>7. /\ B \in Octets /\ Len(B) = 2 * n + 7
      /\ (\A i \in 1..(2 * n - 1) : B[i] = P[i]) /\ \A i \in 1..8 : B[(2 * n - 1) + i] = 0
  <2>1. /\ P \o E \in Octets /\ Len(P \o E) = Len(P) + Len(E)
        /\ \A k \in 1..Len(P) : (P \o E)[k] = P[k]
        /\ \A k \in 1..Len(E) : (P \o E)[Len(P) + k] = E[k]
    BY <1>5, <1>6, JoinFacts
  <2>2. B = P \o E BY <1>2 DEF P
  <2>3. /\ B \in Octets /\ Len(B) = Len(P) + Len(E)
        /\ \A k \in 1..Len(P) : B[k] = P[k]
        /\ \A k \in 1..Len(E) : B[Len(P) + k] = E[k]
    BY <2>1, <2>2
  <2> QED BY <1>1, <1>5, <1>6, <2>3
<1>8. \A i \in 1..n : B[(n - 1) + i] = D[i]
  <2> SUFFICES ASSUME NEW i \in 1..n PROVE B[(n - 1) + i] = D[i] OBVIOUS
  <2>1. (n - 1) + i \in 1..(2 * n - 1) BY <1>1
  <2> QED BY <1>6, <1>7, <2>1
<1>9. ASSUME NEW i \in 1..(2 * n + 7) PROVE B[i] \in {0, 1} /\ (i < n \/ i >= 2 * n => B[i] = 0)
  <2>1. CASE i < n
    <3>1. i \in 1..(n - 1) /\ i \in 1..(2 * n - 1) BY <1>1, <2>1
    <3> QED BY <1>6, <1>7, <3>1
  <2>2. CASE i >= n /\ i < 2 * n
    <3>1. i - (n - 1) \in 1..n /\ (n - 1) + (i - (n - 1)) = i BY <1>1, <2>2
    <3>2. B[(n - 1) + (i - (n - 1))] = D[i - (n - 1)] BY <1>8, <3>1
    <3>3. D[i - (n - 1)] \in {0, 1} BY <1>3, <3>1
    <3> QED BY <1>1, <2>2, <3>1, <3>2, <3>3
  <2>3. CASE i >= 2 * n
    <3>1. i - (2 * n - 1) \in 1..8 /\ (2 * n - 1) + (i - (2 * n - 1)) = i BY <1>1, <2>3
    <3>2. B[(2 * n - 1) + (i - (2 * n - 1))] = 0 BY <1>7, <3>1
    <3> QED BY <3>1, <3>2
  <2> QED BY <1>1, <2>1, <2>2, <2>3
<1>10. Coding(B, D, n) BY <1>7, <1>8, <1>9 DEF Coding
<1> QED BY <1>10 DEF B, D, n

LEMMA ZeroDigits == \A j \in 1..8 : Digits(0, 8)[j] = 0
<1> DEFINE H == Halves(0)
<1>1. H[0] = 0 /\ \A k \in Nat : H[k + 1] = H[k] \div 2
  <2>1. 0 \in Nat OBVIOUS
  <2> QED BY <2>1, HalvesFunction
<1> HIDE DEF H
<1> DEFINE T == {k \in Nat : H[k] = 0}
<1>2. 0 \in T BY <1>1
<1>3. ASSUME NEW k \in Nat, k \in T PROVE k + 1 \in T BY <1>1, <1>3
<1>4. \A k \in Nat : k \in T
  <2> HIDE DEF T
  <2> QED BY <1>2, <1>3, NaturalInduction
<1> SUFFICES ASSUME NEW j \in 1..8 PROVE Digits(0, 8)[j] = 0 OBVIOUS
<1>5. 0 \in Nat /\ 8 \in Nat /\ 8 - j \in Nat OBVIOUS
<1>6. Digits(0, 8)[j] = H[8 - j] % 2 BY <1>5, DigitsTyped DEF H
<1> QED BY <1>4, <1>5, <1>6

LEMMA ThreeDigits == Digits(3, 8)[7] = 1 /\ Digits(3, 8)[8] = 1 /\ \A j \in 1..6 : Digits(3, 8)[j] = 0
<1> DEFINE H == Halves(3)
<1>1. H[0] = 3 /\ \A k \in Nat : H[k + 1] = H[k] \div 2
  <2>1. 3 \in Nat OBVIOUS
  <2> QED BY <2>1, HalvesFunction
<1>2. \A j \in 1..8 : Digits(3, 8)[j] = H[8 - j] % 2
  <2>1. 3 \in Nat /\ 8 \in Nat OBVIOUS
  <2> QED BY <2>1, DigitsTyped
<1> HIDE DEF H
<1>3. H[1] = 1 /\ H[2] = 0
  <2>1. 0 \in Nat /\ 1 \in Nat /\ 0 + 1 = 1 /\ 1 + 1 = 2 OBVIOUS
  <2>2. H[1] = H[0] \div 2 /\ H[2] = H[1] \div 2 BY <1>1, <2>1
  <2>3. H[1] = 1 BY <1>1, <2>2
  <2> QED BY <2>2, <2>3
<1> DEFINE T == {k \in Nat : k >= 2 => H[k] = 0}
<1>4. 0 \in T OBVIOUS
<1>5. ASSUME NEW k \in Nat, k \in T PROVE k + 1 \in T
  <2> SUFFICES ASSUME k + 1 >= 2 PROVE H[k + 1] = 0 OBVIOUS
  <2>1. CASE k = 1
    <3>1. k + 1 = 2 BY <2>1
    <3> QED BY <1>3, <3>1
  <2>2. CASE k >= 2 BY <1>1, <1>5, <2>2
  <2> QED BY <2>1, <2>2
<1>6. \A k \in Nat : k \in T
  <2> HIDE DEF T
  <2> QED BY <1>4, <1>5, NaturalInduction
<1>7. Digits(3, 8)[7] = 1 /\ Digits(3, 8)[8] = 1
  <2>1. 7 \in 1..8 /\ 8 \in 1..8 /\ 8 - 7 = 1 /\ 8 - 8 = 0 OBVIOUS
  <2>2. Digits(3, 8)[7] = H[1] % 2 /\ Digits(3, 8)[8] = H[0] % 2 BY <1>2, <2>1
  <2> QED BY <1>1, <1>3, <2>2
<1>8. \A j \in 1..6 : Digits(3, 8)[j] = 0
  <2> SUFFICES ASSUME NEW j \in 1..6 PROVE Digits(3, 8)[j] = 0 OBVIOUS
  <2>1. j \in 1..8 /\ 8 - j \in Nat /\ 8 - j >= 2 OBVIOUS
  <2>2. H[8 - j] = 0 BY <1>6, <2>1
  <2> QED BY <1>2, <2>1, <2>2
<1> QED BY <1>7, <1>8

\* The bits stand byte by byte.
BitsAre(bytes, B) ==
  \A k \in Nat : k + 1 <= Len(bytes) => \A j \in 1..8 : B[8 * k + j] = Digits(bytes[k + 1], 8)[j]

\* The bytes of a slice have these bits.
LEMMA SliceBytesFacts ==
  ASSUME NEW v \in Nat, NEW B, NEW D, NEW n \in 1..23, Coding(B, D, n), B = SliceBits(v),
         NEW m \in Nat, m = (2 * n + 7) \div 8
  PROVE  /\ SliceBytes(v) \in Octets /\ Len(SliceBytes(v)) = m
         /\ BitsOf(SliceBytes(v), Slice(B, 0, 8 * m))
         /\ BitsAre(SliceBytes(v), B)
<1> DEFINE bytes == SliceBytes(v)
           C == Slice(B, 0, 8 * m)
<1>1. /\ B \in Octets /\ Len(B) = 2 * n + 7 /\ \A i \in 1..(2 * n + 7) : B[i] \in {0, 1}
  BY DEF Coding
<1>2. 8 * m <= 2 * n + 7 /\ 8 * m \in Nat /\ 8 * m <= Len(B) BY <1>1
<1>3. bytes = [i \in 1..m |-> Number(SubSeq(B, 8 * i - 7, 8 * i), 2)] BY <1>1 DEF SliceBytes
<1> HIDE DEF bytes
<1>4. ASSUME NEW k \in Nat, k + 1 <= m
      PROVE  /\ Slice(B, 8 * k, 8 * k + 8) \in Octets /\ Len(Slice(B, 8 * k, 8 * k + 8)) = 8
             /\ \A j \in 1..8 : Slice(B, 8 * k, 8 * k + 8)[j] = B[8 * k + j]
             /\ bytes[k + 1] = Number(Slice(B, 8 * k, 8 * k + 8), 2) /\ bytes[k + 1] \in Nat
             /\ Digits(bytes[k + 1], 8) = Slice(B, 8 * k, 8 * k + 8)
  <2> DEFINE i == 8 * k
             j == 8 * k + 8
             q == Slice(B, i, j)
  <2>1. i \in Nat /\ j \in Nat /\ i <= j /\ j <= Len(B) /\ j - i = 8 BY <1>1, <1>2, <1>4
  <2>2. q = SubSeq(B, 8 * (k + 1) - 7, 8 * (k + 1))
    <3>1. i + 1 = 8 * (k + 1) - 7 /\ j = 8 * (k + 1) /\ ~(j > Len(B)) BY <1>1, <2>1
    <3> HIDE DEF i, j
    <3> QED BY <3>1 DEF Slice
  <2> HIDE DEF i, j
  <2>3. q \in Octets /\ Len(q) = j - i /\ \A x \in 1..(j - i) : q[x] = B[i + x] BY <1>1, <2>1, SliceFacts
  <2> HIDE DEF q
  <2>4. q \in Octets /\ Len(q) = 8 /\ \A x \in 1..8 : q[x] = B[i + x] BY <2>1, <2>3
  <2>5. \A x \in 1..Len(q) : q[x] \in {0, 1}
    <3> SUFFICES ASSUME NEW x \in 1..8 PROVE q[x] \in {0, 1} BY <2>4
    <3>1. i + x \in 1..(2 * n + 7) BY <1>1, <2>1
    <3> QED BY <1>1, <2>4, <3>1
  <2>6. Number(q, 2) \in Nat /\ Digits(Number(q, 2), Len(q)) = q BY <2>4, <2>5, DigitsOfNumber
  <2>7. bytes[k + 1] = Number(q, 2)
    <3>1. k + 1 \in 1..m BY <1>4
    <3> QED BY <1>3, <2>2, <3>1
  <2> QED BY <2>4, <2>6, <2>7 DEF q, i, j
<1>5. bytes \in Octets /\ Len(bytes) = m
  <2>1. \A x \in 1..m : Number(SubSeq(B, 8 * x - 7, 8 * x), 2) \in Nat
    <3> SUFFICES ASSUME NEW x \in 1..m PROVE Number(SubSeq(B, 8 * x - 7, 8 * x), 2) \in Nat OBVIOUS
    <3>1. x - 1 \in Nat /\ (x - 1) + 1 = x /\ (x - 1) + 1 <= m OBVIOUS
    <3>2. bytes[(x - 1) + 1] \in Nat BY <1>4, <3>1
    <3>3. bytes[x] = Number(SubSeq(B, 8 * x - 7, 8 * x), 2) BY <1>3
    <3> QED BY <3>1, <3>2, <3>3
  <2>2. bytes \in [1..m -> Nat] BY <1>3, <2>1
  <2>3. bytes \in Seq(Nat) /\ Len(bytes) = m BY <2>2
  <2> QED BY <2>3 DEF Octets
<1>6. C \in Octets /\ Len(C) = 8 * m /\ \A x \in 1..(8 * m) : C[x] = B[x]
  <2> DEFINE e == 8 * m
  <2>1. 0 \in Nat /\ e \in Nat /\ 0 <= e /\ e <= Len(B) /\ e - 0 = e BY <1>2
  <2> HIDE DEF e
  <2>2. Slice(B, 0, e) \in Octets /\ Len(Slice(B, 0, e)) = e - 0 /\ \A x \in 1..(e - 0) : Slice(B, 0, e)[x] = B[0 + x]
    BY <1>1, <2>1, SliceFacts
  <2>3. \A x \in 1..e : 0 + x = x BY <2>1
  <2> QED BY <2>1, <2>2, <2>3 DEF e
<1> HIDE DEF C
<1>7. ASSUME NEW k \in Nat, k + 1 <= m PROVE Slice(C, 8 * k, 8 * k + 8) = Digits(bytes[k + 1], 8)
  <2> DEFINE q == Slice(B, 8 * k, 8 * k + 8)
             i == 8 * k
  <2>1. q \in Octets /\ Len(q) = 8 /\ (\A j \in 1..8 : q[j] = B[8 * k + j]) /\ Digits(bytes[k + 1], 8) = q
    BY <1>4, <1>7
  <2> HIDE DEF q
  <2>2. i \in Nat /\ i + 8 <= 8 * m BY <1>7
  <2>3. \A j \in 1..8 : C[i + j] = q[j]
    <3> SUFFICES ASSUME NEW j \in 1..8 PROVE C[i + j] = q[j] OBVIOUS
    <3>1. i + j \in 1..(8 * m) BY <2>2
    <3> QED BY <1>6, <2>1, <3>1
  <2>4. Stands(C, i, q)
    <3> HIDE DEF i
    <3> QED BY <1>6, <2>1, <2>2, <2>3 DEF Stands
  <2> HIDE DEF i
  <2>5. Slice(C, i, i + Len(q)) = q BY <1>6, <2>1, <2>2, <2>4, SliceIs
  <2> QED BY <2>1, <2>5 DEF i
<1>8. BitsOf(bytes, C) BY <1>5, <1>6, <1>7 DEF BitsOf
<1>9. ASSUME NEW k \in Nat, k + 1 <= m, NEW j \in 1..8 PROVE B[8 * k + j] = Digits(bytes[k + 1], 8)[j]
  <2> DEFINE q == Slice(B, 8 * k, 8 * k + 8)
  <2>1. q[j] = B[8 * k + j] /\ Digits(bytes[k + 1], 8) = q BY <1>4, <1>9
  <2> HIDE DEF q
  <2> QED BY <2>1
<1>10. BitsAre(bytes, B) BY <1>5, <1>9 DEF BitsAre
<1> QED BY <1>5, <1>8, <1>10 DEF bytes, C

\* A 3 after two zeros would be the 11 at the beginning of a number of 23 digits or more:
\* below FirstMbLimit, a number of 23 digits begins with 10.
LEMMA SliceIsHarmless ==
  ASSUME NEW bytes \in Octets, NEW B, NEW D, NEW n \in 1..23, Coding(B, D, n),
         D[1] = 1, n = 23 => D[2] = 0, 8 * Len(bytes) <= 2 * n + 7,
         BitsAre(bytes, B)
  PROVE  Harmless(bytes)
<1> SUFFICES ASSUME NEW i \in Nat, i >= 1, i + 2 <= Len(bytes),
                    bytes[i] = 0, bytes[i + 1] = 0, bytes[i + 2] = 3
             PROVE  FALSE
  BY DEF Harmless
<1>1. Len(bytes) \in Nat BY LenNat
<1>2. /\ \A x \in 1..(2 * n + 7) : x < n \/ x >= 2 * n => B[x] = 0
      /\ \A x \in 1..n : B[(n - 1) + x] = D[x]
  BY DEF Coding
<1>3. B[n] = 1
  <2>1. 1 \in 1..n /\ (n - 1) + 1 = n OBVIOUS
  <2>2. B[(n - 1) + 1] = D[1] BY <1>2, <2>1
  <2> QED BY <2>1, <2>2
<1>4. \A j \in 1..8 : B[8 * (i - 1) + j] = 0
  <2>1. i - 1 \in Nat /\ (i - 1) + 1 = i /\ (i - 1) + 1 <= Len(bytes) BY <1>1
  <2>2. \A j \in 1..8 : B[8 * (i - 1) + j] = Digits(bytes[(i - 1) + 1], 8)[j] BY <2>1 DEF BitsAre
  <2>3. Digits(bytes[(i - 1) + 1], 8) = Digits(0, 8) BY <2>1
  <2>4. \A j \in 1..8 : B[8 * (i - 1) + j] = Digits(0, 8)[j] BY <2>2, <2>3
  <2> QED BY <2>4, ZeroDigits
<1>5. \A j \in 1..8 : B[8 * i + j] = 0
  <2>1. i + 1 <= Len(bytes) BY <1>1
  <2>2. \A j \in 1..8 : B[8 * i + j] = Digits(bytes[i + 1], 8)[j] BY <2>1 DEF BitsAre
  <2>3. Digits(bytes[i + 1], 8) = Digits(0, 8) OBVIOUS
  <2>4. \A j \in 1..8 : B[8 * i + j] = Digits(0, 8)[j] BY <2>2, <2>3
  <2> QED BY <2>4, ZeroDigits
<1>6. (\A j \in 1..6 : B[8 * (i + 1) + j] = 0) /\ B[8 * (i + 1) + 7] = 1 /\ B[8 * (i + 1) + 8] = 1
  <2>1. i + 1 \in Nat /\ (i + 1) + 1 = i + 2 /\ (i + 1) + 1 <= Len(bytes) BY <1>1
  <2>2. \A j \in 1..8 : B[8 * (i + 1) + j] = Digits(bytes[(i + 1) + 1], 8)[j] BY <2>1 DEF BitsAre
  <2>3. Digits(bytes[(i + 1) + 1], 8) = Digits(3, 8) BY <2>1
  <2>4. \A j \in 1..8 : B[8 * (i + 1) + j] = Digits(3, 8)[j] BY <2>2, <2>3
  <2>5. \A j \in 1..6 : j \in 1..8 OBVIOUS
  <2>6. 7 \in 1..8 /\ 8 \in 1..8 OBVIOUS
  <2> QED BY <2>4, <2>5, <2>6, ThreeDigits
<1>7. ~(n \in (8 * i - 7)..(8 * i + 14))
  <2> SUFFICES ASSUME n \in (8 * i - 7)..(8 * i + 14) PROVE FALSE OBVIOUS
  <2>1. CASE n <= 8 * i
    <3>1. n - 8 * (i - 1) \in 1..8 /\ 8 * (i - 1) + (n - 8 * (i - 1)) = n BY <2>1
    <3>2. B[8 * (i - 1) + (n - 8 * (i - 1))] = 0 BY <1>4, <3>1
    <3> QED BY <1>3, <3>1, <3>2
  <2>2. CASE n > 8 * i /\ n <= 8 * i + 8
    <3>1. n - 8 * i \in 1..8 /\ 8 * i + (n - 8 * i) = n BY <2>2
    <3>2. B[8 * i + (n - 8 * i)] = 0 BY <1>5, <3>1
    <3> QED BY <1>3, <3>1, <3>2
  <2>3. CASE n > 8 * i + 8
    <3>1. n - 8 * (i + 1) \in 1..6 /\ 8 * (i + 1) + (n - 8 * (i + 1)) = n BY <2>3
    <3>2. B[8 * (i + 1) + (n - 8 * (i + 1))] = 0 BY <1>6, <3>1
    <3> QED BY <1>3, <3>1, <3>2
  <2> QED BY <2>1, <2>2, <2>3
<1>8. CASE n >= 8 * i + 15
  <2>1. n = 23 /\ i = 1 BY <1>8
  <2>2. 8 * (i + 1) + 8 = 24 /\ (n - 1) + 2 = 24 /\ 2 \in 1..n BY <2>1
  <2>3. B[(n - 1) + 2] = D[2] BY <1>2, <2>2
  <2> QED BY <1>6, <2>1, <2>2, <2>3
<1>9. CASE n <= 8 * i - 8
  <2> DEFINE x == 8 * (i + 1) + 7
  <2>1. x \in 1..(2 * n + 7) /\ x >= 2 * n BY <1>1, <1>9
  <2>2. B[x] = 0 BY <1>2, <2>1
  <2> QED BY <1>6, <2>2
<1> QED BY <1>7, <1>8, <1>9

\* The bits begin with zeros and the n digits of x.
BeginsWith(C, x, n) ==
  /\ C \in Octets /\ 2 * n - 1 <= Len(C) /\ Halves(x)[n] = 0
  /\ (\A i \in 1..(n - 1) : C[i] = 0) /\ C[n] = 1
  /\ \A i \in 1..n : C[(n - 1) + i] = Digits(x, n)[i]

SliceUnit(E) == StartCode3 \o <<5>> \o E

\* The unit of a slice whose bytes, once unescaped, begin with zeros and a number.
LEMMA FirstMbOfBits ==
  ASSUME NEW E \in Octets, Len(E) >= 1, Len(E) <= FirstMbScanBytes,
         NEW x \in Nat, NEW n \in 1..23, BeginsWith(Unescaped(E), x, n)
  PROVE  first_mb_in_slice(SliceUnit(E)) = x - 1
<1> DEFINE a == StartCode3 \o <<5>>
           nal == a \o E
           e == Len(E)
           C == Unescaped(E)
<1> HIDE DEF C
<1>0. /\ C \in Octets /\ 2 * n - 1 <= Len(C) /\ Halves(x)[n] = 0
      /\ (\A i \in 1..(n - 1) : C[i] = 0) /\ C[n] = 1
      /\ \A i \in 1..n : C[(n - 1) + i] = Digits(x, n)[i]
  BY DEF BeginsWith, C
<1>1. e \in Nat /\ e >= 1 /\ e <= FirstMbScanBytes BY LenNat
<1>2. a \in Octets /\ Len(a) = 4 /\ a[1] = 0 /\ a[2] = 0 /\ a[3] = 1 /\ a[4] = 5
  <2> DEFINE t == StartCode3
             u == <<5>>
  <2>1. t \in Octets /\ Len(t) = 3 /\ t[1] = 0 /\ t[2] = 0 /\ t[3] = 1 BY DEF StartCode3, Octets
  <2>2. u \in Octets /\ Len(u) = 1 /\ u[1] = 5 BY DEF Octets
  <2> HIDE DEF t, u
  <2>0. t \in Octets /\ u \in Octets BY <2>1, <2>2
  <2>3. /\ t \o u \in Octets /\ Len(t \o u) = Len(t) + Len(u)
        /\ \A k \in 1..Len(t) : (t \o u)[k] = t[k]
        /\ \A k \in 1..Len(u) : (t \o u)[Len(t) + k] = u[k]
    BY <2>0, JoinFacts
  <2>4. 1 \in 1..Len(t) /\ 2 \in 1..Len(t) /\ 3 \in 1..Len(t) /\ 1 \in 1..Len(u) /\ Len(t) + 1 = 4 BY <2>1, <2>2
  <2>5. a = t \o u BY DEF t, u
  <2> HIDE DEF a
  <2>6. /\ a \in Octets /\ Len(a) = Len(t) + Len(u)
        /\ \A k \in 1..Len(t) : a[k] = t[k]
        /\ \A k \in 1..Len(u) : a[Len(t) + k] = u[k]
    BY <2>3, <2>5
  <2>7. a[1] = t[1] /\ a[2] = t[2] /\ a[3] = t[3] /\ a[Len(t) + 1] = u[1] BY <2>4, <2>6
  <2> QED BY <2>1, <2>2, <2>6, <2>7
<1> HIDE DEF a
<1>3. /\ nal \in Octets /\ Len(nal) = 4 + e
      /\ (\A k \in 1..4 : nal[k] = a[k]) /\ \A k \in 1..e : nal[4 + k] = E[k]
  <2>0. a \in Octets /\ E \in Octets BY <1>2
  <2>1. /\ a \o E \in Octets /\ Len(a \o E) = Len(a) + Len(E)
        /\ \A k \in 1..Len(a) : (a \o E)[k] = a[k]
        /\ \A k \in 1..Len(E) : (a \o E)[Len(a) + k] = E[k]
    BY <2>0, JoinFacts
  <2> QED BY <1>2, <2>1
<1> HIDE DEF nal
<1>4. nal[1] = 0 /\ nal[2] = 0 /\ nal[3] = 1 /\ nal[4] = 5 BY <1>2, <1>3
<1>5. start_code_length(nal, 0) = 3
  <2>1. 0 \in Nat /\ 0 + 1 = 1 OBVIOUS
  <2>2. Hit(nal, 0) BY <1>1, <1>3, <1>4 DEF Hit
  <2> QED BY <1>3, <2>1, <2>2, CodeLength
<1>6. nal_type(nal) = 5
  <2>1. ~(3 >= Len(nal)) /\ nal[3 + 1] % 32 = 5 BY <1>1, <1>3, <1>4
  <2> QED BY <1>5, <2>1 DEF nal_type
<1> DEFINE scan == 3 + 1 + FirstMbScanBytes
<1>7. Slice(nal, 3 + 1, scan) = E
  <2>1. Stands(nal, 4, E) BY <1>1, <1>3 DEF Stands
  <2>2. 4 \in Nat /\ 3 + 1 = 4 OBVIOUS
  <2> DEFINE l == 4 + e
  <2>3. Slice(nal, 4, l) = E BY <1>3, <2>1, <2>2, SliceIs
  <2>4. l = Len(nal) /\ l \in Nat BY <1>1, <1>3
  <2>5. scan \in Nat /\ l <= scan BY <1>1, SMT DEF FirstMbScanBytes
  <2> HIDE DEF l, scan
  <2>6. Slice(nal, 4, l) = SubSeq(nal, 4 + 1, l) BY <2>4 DEF Slice
  <2>7. Slice(nal, 4, scan) = SubSeq(nal, 4 + 1, l)
    <3>1. CASE scan > l BY <2>4, <3>1 DEF Slice
    <3>2. CASE scan = l BY <2>6, <3>2
    <3> QED BY <2>4, <2>5, <3>1, <3>2
  <2>8. Slice(nal, 4, scan) = E BY <2>3, <2>6, <2>7
  <2> QED BY <2>2, <2>8
<1> HIDE DEF scan
<1> DEFINE S == {i \in 0 .. Len(C) - 1 : C[i + 1] = 1}
           z == Lowest(S)
<1>8. Len(C) \in Nat /\ n - 1 \in 0 .. Len(C) - 1 /\ n \in DOMAIN C
  <2>1. Len(C) \in Nat BY <1>0, LenNat
  <2>2. DOMAIN C = 1..Len(C) BY <1>0 DEF Octets
  <2> QED BY <1>0, <2>1, <2>2
<1> DEFINE j == n - 1
<1>9. z = j
  <2>1. S \subseteq Int OBVIOUS
  <2>2. j \in S
    <3>1. (n - 1) + 1 = n OBVIOUS
    <3> QED BY <1>0, <1>8, <3>1
  <2>3. \A y \in S : j <= y
    <3> SUFFICES ASSUME NEW y \in S, y < n - 1 PROVE FALSE
      <4>1. \A y \in S : y \in Int OBVIOUS
      <4> QED BY <1>8, <4>1
    <3>1. y + 1 \in 1..(n - 1) /\ C[y + 1] = 1 BY <1>8
    <3> QED BY <1>0, <3>1
  <2>4. z = Lowest(S) OBVIOUS
  <2> HIDE DEF S, j, z
  <2> QED BY <2>1, <2>2, <2>3, <2>4, LowestIs
<1> HIDE DEF z
<1>10. SubSeq(C, z + 1, 2 * z + 1) = Digits(x, n)
  <2> DEFINE D == Digits(x, n)
             r == j + n
  <2>0. n \in Nat OBVIOUS
  <2>1. D \in Octets /\ Len(D) = n BY <2>0, DigitsTyped
  <2>2. j \in Nat /\ r \in Nat /\ r = 2 * n - 1 /\ 2 * j + 1 = r OBVIOUS
  <2>3. \A i \in 1..n : C[j + i] = D[i] BY <1>0
  <2> HIDE DEF D, j
  <2>4. Stands(C, j, D) BY <1>0, <2>1, <2>2, <2>3 DEF Stands
  <2>5. Slice(C, j, r) = D
    <3>1. Slice(C, j, j + Len(D)) = D BY <1>0, <2>1, <2>2, <2>4, SliceIs
    <3> QED BY <2>1, <3>1
  <2> HIDE DEF r
  <2>6. ~(r > Len(C)) BY <1>0, <1>8, <2>2
  <2>7. Slice(C, j, r) = SubSeq(C, j + 1, r) BY <2>6 DEF Slice
  <2>8. z + 1 = j + 1 /\ 2 * z + 1 = r BY <1>9, <2>2
  <2> QED BY <2>5, <2>7, <2>8 DEF D
<1>11. Number(Digits(x, n), 2) = x
  <2>1. n \in Nat OBVIOUS
  <2> QED BY <1>0, <2>1, NumberOfDigits
<1>12. ~(nal_type(nal) \notin {1, 5} \/ 3 + 1 >= Len(nal)) BY <1>1, <1>3, <1>6
<1>13. ~(\A i \in DOMAIN C : C[i] = 0) BY <1>0, <1>8
<1>14. ~(Len(C) < 2 * z + 1) BY <1>0, <1>8, <1>9
<1> DEFINE mb(k, bits) ==
  LET zeros == Lowest({i \in 0 .. Len(bits) - 1 : bits[i + 1] = 1})
  IN  IF nal_type(nal) \notin {1, 5} \/ k + 1 >= Len(nal) THEN -1
      ELSE IF \A i \in DOMAIN bits : bits[i] = 0 THEN -1
      ELSE IF Len(bits) < 2 * zeros + 1 THEN -1
      ELSE Number(SubSeq(bits, zeros + 1, 2 * zeros + 1), 2) - 1
<1>15. first_mb_in_slice(nal)
         = mb(start_code_length(nal, 0),
              Unescaped(Slice(nal, start_code_length(nal, 0) + 1, start_code_length(nal, 0) + 1 + FirstMbScanBytes)))
  BY DEF first_mb_in_slice
<1>16. mb(3, C) = Number(SubSeq(C, z + 1, 2 * z + 1), 2) - 1 BY <1>12, <1>13, <1>14 DEF z
<1> HIDE DEF mb
<1>17. first_mb_in_slice(nal) = x - 1
  <2>1. first_mb_in_slice(nal) = mb(3, Unescaped(Slice(nal, 3 + 1, scan))) BY <1>5, <1>15 DEF scan
  <2>2. Unescaped(Slice(nal, 3 + 1, scan)) = C BY <1>7 DEF C
  <2>3. first_mb_in_slice(nal) = mb(3, C) BY <2>1, <2>2
  <2>4. Number(SubSeq(C, z + 1, 2 * z + 1), 2) = x BY <1>10, <1>11
  <2> QED BY <1>16, <2>3, <2>4
<1> QED BY <1>17 DEF nal, a, SliceUnit

\* first_mb_in_slice reads the number that was written.
LEMMA FirstMbIsRead ==
  ASSUME NEW v \in Nat, v < FirstMbLimit
  PROVE  first_mb_in_slice(StartCode3 \o <<5>> \o Escaped(SliceBytes(v))) = v
<1> DEFINE x == v + 1
           n == Width(x)
           D == Digits(x, n)
           B == SliceBits(v)
           m == (2 * n + 7) \div 8
           C == Slice(B, 0, 8 * m)
           bytes == SliceBytes(v)
           E == Escaped(bytes)
<1>1. x \in Nat /\ x >= 1 /\ x <= FirstMbLimit BY SMT DEF FirstMbLimit
<1>2. /\ n \in 1..23 /\ Halves(x)[n] = 0 /\ Halves(x)[n - 1] = 1
      /\ n = 23 => Halves(x)[21] % 2 = 0
  <2> HIDE DEF x
  <2> QED BY <1>1, WidthFacts
<1>3. Coding(B, D, n)
  <2>1. n \in Nat /\ n >= 1 BY <1>2
  <2> QED BY <2>1, SliceBitsFacts
<1> HIDE DEF x, n, B
<1>4. D[1] = 1 /\ (n = 23 => D[2] = 0)
  <2>1. \A i \in 1..n : D[i] = Halves(x)[n - i] % 2 BY <1>1, <1>2, DigitsTyped
  <2>2. D[1] = Halves(x)[n - 1] % 2 BY <1>2, <2>1
  <2>3. n = 23 => D[2] = Halves(x)[21] % 2
    <3> SUFFICES ASSUME n = 23 PROVE D[2] = Halves(x)[21] % 2 OBVIOUS
    <3>1. 2 \in 1..n /\ n - 2 = 21 OBVIOUS
    <3> QED BY <2>1, <3>1
  <2> QED BY <1>2, <2>2, <2>3
<1> HIDE DEF D
<1>5. m \in Nat /\ m >= 1 /\ 8 * m <= 2 * n + 7 /\ 8 * m >= 2 * n /\ m <= 6
  <2>1. n \in Nat /\ n >= 1 /\ n <= 23 BY <1>2
  <2> QED BY <2>1
<1>6. m = (2 * n + 7) \div 8 OBVIOUS
<1> HIDE DEF m
<1>7. /\ bytes \in Octets /\ Len(bytes) = m /\ BitsOf(bytes, C)
      /\ BitsAre(bytes, B)
  BY <1>2, <1>3, <1>5, <1>6, SliceBytesFacts DEF B
<1> HIDE DEF bytes
<1>8. Harmless(bytes) BY <1>2, <1>3, <1>4, <1>5, <1>7, SliceIsHarmless
<1>9. E \in Octets /\ Unescaped(E) = C /\ m <= Len(E) /\ Len(E) <= 2 * m
  <2> HIDE DEF C
  <2> QED BY <1>7, <1>8, UnescapesEscaped
<1> HIDE DEF E
<1>10. /\ B \in Octets /\ Len(B) = 2 * n + 7
       /\ \A i \in 1..(2 * n + 7) : i < n => B[i] = 0
       /\ \A i \in 1..n : B[(n - 1) + i] = D[i]
  BY <1>3 DEF Coding
<1>11. C \in Octets /\ Len(C) = 8 * m /\ \A i \in 1..(8 * m) : C[i] = B[i]
  <2> DEFINE e == 8 * m
  <2>1. 0 \in Nat /\ e \in Nat /\ 0 <= e /\ e <= Len(B) /\ e - 0 = e BY <1>5, <1>10
  <2> HIDE DEF e
  <2>2. Slice(B, 0, e) \in Octets /\ Len(Slice(B, 0, e)) = e - 0 /\ \A i \in 1..(e - 0) : Slice(B, 0, e)[i] = B[0 + i]
    BY <1>10, <2>1, SliceFacts
  <2>3. \A i \in 1..e : 0 + i = i BY <2>1
  <2> QED BY <2>1, <2>2, <2>3 DEF e
<1> HIDE DEF C
<1>12. \A i \in 1..n : C[(n - 1) + i] = D[i]
  <2> SUFFICES ASSUME NEW i \in 1..n PROVE C[(n - 1) + i] = D[i] OBVIOUS
  <2>1. (n - 1) + i \in 1..(8 * m) BY <1>2, <1>5
  <2> QED BY <1>10, <1>11, <2>1
<1>13. \A i \in 1..(n - 1) : C[i] = 0
  <2> SUFFICES ASSUME NEW i \in 1..(n - 1) PROVE C[i] = 0 OBVIOUS
  <2>1. i \in 1..(8 * m) /\ i \in 1..(2 * n + 7) /\ i < n BY <1>2, <1>5
  <2> QED BY <1>10, <1>11, <2>1
<1>14. C[n] = 1
  <2>1. 1 \in 1..n /\ (n - 1) + 1 = n BY <1>2
  <2>2. C[(n - 1) + 1] = D[1] BY <1>12, <2>1
  <2> QED BY <1>4, <2>1, <2>2
<1>15. Len(E) >= 1 /\ Len(E) <= FirstMbScanBytes /\ 2 * n - 1 <= Len(C)
  <2>1. Len(E) \in Nat BY <1>9, LenNat
  <2> QED BY <1>2, <1>5, <1>9, <1>11, <2>1, SMT DEF FirstMbScanBytes
<1>16. first_mb_in_slice(SliceUnit(E)) = x - 1
  <2>1. BeginsWith(C, x, n) BY <1>2, <1>11, <1>12, <1>13, <1>14, <1>15 DEF BeginsWith, D
  <2>2. BeginsWith(Unescaped(E), x, n) BY <1>9, <2>1
  <2> QED BY <1>1, <1>2, <1>9, <1>15, <2>2, FirstMbOfBits
<1>17. x - 1 = v BY DEF x
<1> QED BY <1>16, <1>17 DEF E, bytes, SliceUnit

LEMMA PayloadsFollow ==
  ASSUME fed \in Octets
  PROVE  PayloadsExact
<1>1. NormalizeStable BY NormalizedIsStable DEF NormalizeStable
<1>2. FirstMbDecodes
  <2>1. BigEndian(fed) \in Nat BY BigEndianNat
  <2> DEFINE b == BigEndian(fed)
  <2>2. b \in Nat /\ 64 * b \in Nat BY <2>1
  <2> HIDE DEF b
  <2>3. \A v \in {b, 64 * b} : v < FirstMbLimit => first_mb_in_slice(StartCode3 \o <<5>> \o Escaped(SliceBytes(v))) = v
    BY <2>2, FirstMbIsRead
  <2> QED BY <2>3 DEF FirstMbDecodes, b
<1>3. LengthsBecomeStartCodes BY LengthsConverted, ConfigConverted DEF LengthsBecomeStartCodes
<1> QED BY <1>1, <1>2, <1>3 DEF PayloadsExact

\* Whatever bytes arrive: normalize_h264_payload gives Annex-B or leaves a payload alone,
\* and does nothing more to what it gave; units with their lengths before them, or in a
\* decoder configuration, come out whole behind start codes; and first_mb_in_slice reads
\* the number a slice begins with through emulation prevention, below FirstMbLimit.
THEOREM PayloadsAreExact == H264Spec => []PayloadsExact
<1>1. UnitsInv => PayloadsExact
  <2> SUFFICES ASSUME UnitsInv PROVE PayloadsExact OBVIOUS
  <2>1. fed \in Octets BY DEF UnitsInv, Held
  <2> QED BY <2>1, PayloadsFollow
<1> QED BY <1>1, UnitsInvariance, PTL

=============================================================================
