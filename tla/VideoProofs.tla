---------------------------- MODULE VideoProofs -----------------------------
(***************************************************************************)
(* Proofs about the way of a picture to its viewer.  The packets made of   *)
(* the units of the stream: a decoder never meets one it cannot use.  The  *)
(* queue of a viewer, for every size of it and of the packets: its frames  *)
(* are of the transport that is there and none follow a termination, its   *)
(* byte count is exact, what is due can be decoded.                        *)
(***************************************************************************)
EXTENDS ViewerQueue, VideoStream, FiniteSetTheorems, SequenceTheorems, WellFoundedInduction, TLAPS

(* Induction without an operator parameter: over a set of naturals. *)

\* A set of naturals that has an element has a least one.
LEMMA LeastNatural ==
  ASSUME NEW T, T \subseteq Nat, T # {}
  PROVE  \E m \in T : \A k \in T : m <= k
<1>1. IsWellFoundedOn(OpToRel(<, Nat), Nat)
  BY NatLessThanWellFounded
<1>2. PICK m \in T : \A k \in T : ~ (<<k, m>> \in OpToRel(<, Nat))
  BY <1>1, WFMin
<1>3. \A k \in T : ~(k < m)
  BY <1>2 DEF OpToRel
<1> QED BY <1>3

\* What holds of 0 and of the successors of what it holds of holds of every natural.
LEMMA NaturalInduction ==
  ASSUME NEW T, 0 \in T, \A n \in Nat : n \in T => n + 1 \in T
  PROVE  \A n \in Nat : n \in T
<1> DEFINE Out == Nat \ T
<1> SUFFICES ASSUME Out # {} PROVE FALSE OBVIOUS
<1>1. PICK m \in Out : \A k \in Out : m <= k BY LeastNatural
<1>2. m \in Nat /\ m # 0 /\ m - 1 \in Nat OBVIOUS
<1>3. m - 1 \in T BY <1>1, <1>2
<1>4. (m - 1) + 1 \in T BY <1>2, <1>3
<1> QED BY <1>2, <1>4

\* f is built from zero by n steps.
BuiltBy(f, n, zero, step) == f[0] = zero /\ \A i \in 1..n : f[i] = step[<<i, f[i - 1]>>]

\* A function that is defined by recursion over a segment of the naturals exists.
LEMMA RecursionExists ==
  ASSUME NEW S, NEW zero \in S, NEW step \in [Nat \X S -> S]
  PROVE  \A n \in Nat : \E f \in [0..n -> S] : BuiltBy(f, n, zero, step)
<1> DEFINE Good(n, f) == f[0] = zero /\ \A i \in 1..n : f[i] = step[<<i, f[i - 1]>>]
<1> DEFINE T == {n \in Nat : \E f \in [0..n -> S] : Good(n, f)}
<1>1. 0 \in T
  <2>1. [i \in 0..0 |-> zero] \in [0..0 -> S] /\ Good(0, [i \in 0..0 |-> zero]) OBVIOUS
  <2> QED BY <2>1
<1>2. ASSUME NEW n \in Nat, n \in T PROVE n + 1 \in T
  <2>1. PICK f \in [0..n -> S] : Good(n, f) BY <1>2
  <2> DEFINE g == [i \in 0..(n + 1) |-> IF i = n + 1 THEN step[<<n + 1, f[n]>>] ELSE f[i]]
  <2>2. step[<<n + 1, f[n]>>] \in S OBVIOUS
  <2>3. g \in [0..(n + 1) -> S] BY <2>2
  <2>4. g[0] = zero BY <2>1
  <2>5. ASSUME NEW i \in 1..(n + 1) PROVE g[i] = step[<<i, g[i - 1]>>]
    <3>1. i - 1 \in 0..n /\ g[i - 1] = f[i - 1] OBVIOUS
    <3>2. CASE i = n + 1
      <4>1. i - 1 = n /\ g[i] = step[<<n + 1, f[n]>>] BY <3>2
      <4> QED BY <3>1, <3>2, <4>1
    <3>3. CASE i # n + 1
      <4>1. i \in 1..n /\ g[i] = f[i] BY <3>3
      <4> QED BY <2>1, <3>1, <4>1
    <3> QED BY <3>2, <3>3
  <2>6. Good(n + 1, g) BY <2>4, <2>5
  <2> HIDE DEF g, Good
  <2> QED BY <2>3, <2>6
<1>3. \A n \in Nat : n \in T BY <1>1, <1>2, NaturalInduction
<1> QED BY <1>3 DEF BuiltBy

(* The queue of a viewer: what its sums and its clears are. *)

LEMMA BytesFunction ==
  ASSUME NEW s \in Seq(Item)
  PROVE  /\ BytesUpTo(s) \in [0..Len(s) -> Nat]
         /\ BytesUpTo(s)[0] = 0
         /\ \A n \in 1..Len(s) : BytesUpTo(s)[n] = BytesUpTo(s)[n - 1] + s[n].size
<1> DEFINE step == [x \in Nat \X Nat |-> IF x[1] \in 1..Len(s) THEN x[2] + s[x[1]].size ELSE 0]
           Sums(f) == f = [n \in 0..Len(s) |-> IF n = 0 THEN 0 ELSE f[n - 1] + s[n].size]
<1>1. \A n \in 1..Len(s) : s[n] \in Item /\ s[n].size \in Nat
  <2>1. \A n \in 1..Len(s) : s[n] \in Item BY ElementOfSeq
  <2>2. \A x \in Item : x.size \in Nat BY DEF Item
  <2> QED BY <2>1, <2>2
<1>2. step \in [Nat \X Nat -> Nat] BY <1>1
<1>3. Len(s) \in Nat OBVIOUS
<1>4. PICK f \in [0..Len(s) -> Nat] : BuiltBy(f, Len(s), 0, step)
  <2> HIDE DEF step
  <2>1. 0 \in Nat OBVIOUS
  <2>2. \A n \in Nat : \E f \in [0..n -> Nat] : BuiltBy(f, n, 0, step)
    BY <1>2, <2>1, RecursionExists
  <2> QED BY <2>2, <1>3
<1>5. \A i \in 1..Len(s) : f[i] = f[i - 1] + s[i].size
  <2> SUFFICES ASSUME NEW i \in 1..Len(s) PROVE f[i] = f[i - 1] + s[i].size OBVIOUS
  <2>1. i \in Nat /\ i - 1 \in 0..Len(s) BY <1>3
  <2>2. f[i - 1] \in Nat BY <2>1
  <2>3. step[<<i, f[i - 1]>>] = f[i - 1] + s[i].size BY <2>1, <2>2
  <2> QED BY <1>4, <2>3 DEF BuiltBy
<1>6. Sums(f) BY <1>3, <1>4, <1>5 DEF BuiltBy
<1>7. BytesUpTo(s) = CHOOSE g : Sums(g) BY DEF BytesUpTo
<1>8. Sums(BytesUpTo(s))
  <2> HIDE DEF Sums
  <2> QED BY <1>6, <1>7
<1> DEFINE b == BytesUpTo(s)
<1> HIDE DEF step
<1>9. b = [n \in 0..Len(s) |-> IF n = 0 THEN 0 ELSE b[n - 1] + s[n].size] BY <1>8
<1>10. b[0] = 0 BY <1>3, <1>9
<1>11. \A n \in 1..Len(s) : b[n] = b[n - 1] + s[n].size BY <1>3, <1>9
<1> DEFINE T == {n \in Nat : n <= Len(s) => b[n] \in Nat}
<1>12. 0 \in T BY <1>10
<1>13. ASSUME NEW n \in Nat, n \in T PROVE n + 1 \in T
  <2> SUFFICES ASSUME n + 1 <= Len(s) PROVE b[n + 1] \in Nat OBVIOUS
  <2>1. b[n] \in Nat BY <1>3, <1>13
  <2>2. n + 1 \in 1..Len(s) /\ (n + 1) - 1 = n BY <1>3
  <2>3. b[n + 1] = b[n] + s[n + 1].size BY <1>11, <2>2
  <2> QED BY <1>1, <2>1, <2>2, <2>3
<1>14. \A n \in Nat : n \in T
  <2> HIDE DEF T
  <2> QED BY <1>12, <1>13, NaturalInduction
<1>15. \A n \in 0..Len(s) : b[n] \in Nat BY <1>14, <1>3
<1>16. DOMAIN b = 0..Len(s) BY <1>9
<1>17. b \in [0..Len(s) -> Nat] 
  <2> HIDE DEF b
  <2> QED BY <1>15, <1>16, <1>9
<1> QED BY <1>10, <1>11, <1>17

LEMMA KeptFunction ==
  ASSUME NEW s \in Seq(Item)
  PROVE  /\ KeptUpTo(s) \in [0..Len(s) -> Seq(Item)]
         /\ KeptUpTo(s)[0] = <<>>
         /\ \A n \in 1..Len(s) :
              KeptUpTo(s)[n] = IF Kept(s[n]) THEN Append(KeptUpTo(s)[n - 1], s[n])
                               ELSE KeptUpTo(s)[n - 1]
<1> DEFINE Queues == Seq(Item)
           next(n, q) == IF Kept(s[n]) THEN Append(q, s[n]) ELSE q
           step == [x \in Nat \X Queues |-> IF x[1] \in 1..Len(s) THEN next(x[1], x[2]) ELSE <<>>]
           Keeps(f) == f = [n \in 0..Len(s) |-> IF n = 0 THEN <<>>
                              ELSE IF Kept(s[n]) THEN Append(f[n - 1], s[n]) ELSE f[n - 1]]
<1>1. \A n \in 1..Len(s) : s[n] \in Item BY ElementOfSeq
<1>2. <<>> \in Queues OBVIOUS
<1>3. \A n \in 1..Len(s), q \in Queues : next(n, q) \in Queues BY <1>1
<1>4. step \in [Nat \X Queues -> Queues]
  <2> HIDE DEF next, Queues
  <2> QED BY <1>2, <1>3
<1>5. Len(s) \in Nat OBVIOUS
<1>6. PICK f \in [0..Len(s) -> Queues] : BuiltBy(f, Len(s), <<>>, step)
  <2> HIDE DEF step, Queues
  <2>1. \A n \in Nat : \E f \in [0..n -> Queues] : BuiltBy(f, n, <<>>, step)
    BY <1>2, <1>4, RecursionExists
  <2> QED BY <2>1, <1>5
<1>7. f[0] = <<>> /\ \A i \in 1..Len(s) : f[i] = step[<<i, f[i - 1]>>]
  BY <1>6 DEF BuiltBy
<1>8. \A i \in 1..Len(s) : f[i] = next(i, f[i - 1])
  <2> SUFFICES ASSUME NEW i \in 1..Len(s) PROVE f[i] = next(i, f[i - 1]) OBVIOUS
  <2>1. i \in Nat /\ i - 1 \in 0..Len(s) BY <1>5
  <2>2. f[i - 1] \in Queues BY <1>6, <2>1
  <2>3. step[<<i, f[i - 1]>>] = next(i, f[i - 1])
    <3> HIDE DEF next, Queues
    <3> QED BY <2>1, <2>2
  <2> QED BY <1>7, <2>3
<1>9. Keeps(f)
  <2> HIDE DEF Queues
  <2>1. f = [n \in 0..Len(s) |-> f[n]] BY <1>6
  <2>2. \A n \in 0..Len(s) : f[n] = IF n = 0 THEN <<>>
                                    ELSE IF Kept(s[n]) THEN Append(f[n - 1], s[n]) ELSE f[n - 1]
    <3> SUFFICES ASSUME NEW n \in 0..Len(s)
                 PROVE  f[n] = IF n = 0 THEN <<>>
                               ELSE IF Kept(s[n]) THEN Append(f[n - 1], s[n]) ELSE f[n - 1]
      OBVIOUS
    <3>1. CASE n = 0 BY <1>7, <3>1
    <3>2. CASE n # 0
      <4>1. n \in 1..Len(s) BY <1>5, <3>2
      <4>2. f[n] = next(n, f[n - 1])
        <5> HIDE DEF next
        <5> QED BY <4>1, <1>8
      <4> QED BY <3>2, <4>2
    <3> QED BY <3>1, <3>2
  <2> QED BY <2>1, <2>2
<1>10. KeptUpTo(s) = CHOOSE g : Keeps(g) BY DEF KeptUpTo
<1>11. Keeps(KeptUpTo(s))
  <2> HIDE DEF Keeps
  <2> QED BY <1>9, <1>10
<1> DEFINE b == KeptUpTo(s)
<1> HIDE DEF step
<1>0. b = [n \in 0..Len(s) |-> IF n = 0 THEN <<>> ELSE next(n, b[n - 1])] BY <1>11
<1>12. b[0] = <<>>
  <2> HIDE DEF b, next
  <2> QED BY <1>0, <1>5
<1>13. \A n \in 1..Len(s) : b[n] = next(n, b[n - 1])
  <2> HIDE DEF b, next
  <2> QED BY <1>0, <1>5
<1> DEFINE T == {n \in Nat : n <= Len(s) => b[n] \in Queues}
<1>14. 0 \in T BY <1>12, <1>2
<1>15. ASSUME NEW n \in Nat, n \in T PROVE n + 1 \in T
  <2> SUFFICES ASSUME n + 1 <= Len(s) PROVE b[n + 1] \in Queues OBVIOUS
  <2>1. b[n] \in Queues BY <1>5, <1>15
  <2>2. n + 1 \in 1..Len(s) /\ (n + 1) - 1 = n BY <1>5
  <2>3. b[n + 1] = next(n + 1, b[n])
    <3> HIDE DEF next, b
    <3> QED BY <1>13, <2>2
  <2> HIDE DEF next, Queues
  <2> QED BY <1>3, <2>1, <2>2, <2>3
<1>16. \A n \in Nat : n \in T
  <2> HIDE DEF T
  <2> QED BY <1>14, <1>15, NaturalInduction
<1>17. \A n \in 0..Len(s) : b[n] \in Queues BY <1>16, <1>5
<1>18. b = [n \in 0..Len(s) |-> b[n]] BY <1>11
<1>19. b \in [0..Len(s) -> Queues]
  <2> HIDE DEF b, Queues
  <2> QED BY <1>17, <1>18
<1> QED BY <1>12, <1>13, <1>19

\* The entries of a queue.
Items(q) == {q[i] : i \in DOMAIN q}

\* A clear keeps the messages, and nothing else.
LEMMA KeptItems ==
  ASSUME NEW s \in Seq(Item)
  PROVE  /\ KeptOf(s) \in Seq(Item) /\ Len(KeptOf(s)) <= Len(s)
         /\ Items(KeptOf(s)) = {x \in Items(s) : Kept(x)}
<1> DEFINE b == KeptUpTo(s)
           P(n) == /\ b[n] \in Seq(Item) /\ Len(b[n]) <= n
                   /\ Items(b[n]) = {s[i] : i \in {j \in 1..n : Kept(s[j])}}
           T == {n \in Nat : n <= Len(s) => P(n)}
<1>1. /\ b \in [0..Len(s) -> Seq(Item)] /\ b[0] = <<>>
      /\ \A n \in 1..Len(s) : b[n] = IF Kept(s[n]) THEN Append(b[n - 1], s[n]) ELSE b[n - 1]
  BY KeptFunction
<1>2. \A n \in 1..Len(s) : s[n] \in Item BY ElementOfSeq
<1>3. Len(s) \in Nat OBVIOUS
<1> HIDE DEF b
<1>4. 0 \in T
  <2>1. Items(b[0]) = {} BY <1>1 DEF Items
  <2> QED BY <1>1, <1>3, <2>1
<1>5. ASSUME NEW n \in Nat, n \in T PROVE n + 1 \in T
  <2> SUFFICES ASSUME n + 1 <= Len(s) PROVE P(n + 1) OBVIOUS
  <2>1. P(n) BY <1>3, <1>5
  <2>2. n + 1 \in 1..Len(s) /\ (n + 1) - 1 = n BY <1>3
  <2>3. s[n + 1] \in Item BY <1>2, <2>2
  <2>4. CASE ~Kept(s[n + 1])
    <3>1. b[n + 1] = b[n] BY <1>1, <2>2, <2>4
    <3>2. {j \in 1..(n + 1) : Kept(s[j])} = {j \in 1..n : Kept(s[j])}
      <4>1. \A j \in 1..(n + 1) : j \in 1..n \/ j = n + 1 OBVIOUS
      <4>2. \A j \in 1..n : j \in 1..(n + 1) OBVIOUS
      <4> QED BY <4>1, <4>2, <2>4
    <3> QED BY <2>1, <3>1, <3>2
  <2>5. CASE Kept(s[n + 1])
    <3>1. b[n + 1] = Append(b[n], s[n + 1]) BY <1>1, <2>2, <2>5
    <3>2. b[n + 1] \in Seq(Item) /\ Len(b[n + 1]) = Len(b[n]) + 1 BY <2>1, <2>3, <3>1
    <3>3. {j \in 1..(n + 1) : Kept(s[j])} = {j \in 1..n : Kept(s[j])} \cup {n + 1}
      <4>1. \A j \in 1..(n + 1) : j \in 1..n \/ j = n + 1 OBVIOUS
      <4>2. \A j \in 1..n : j \in 1..(n + 1) OBVIOUS
      <4>3. n + 1 \in 1..(n + 1) OBVIOUS
      <4> QED BY <4>1, <4>2, <4>3, <2>5
    <3>4. Items(b[n + 1]) = Items(b[n]) \cup {s[n + 1]}
      <4>1. DOMAIN b[n + 1] = DOMAIN b[n] \cup {Len(b[n]) + 1} BY <2>1, <2>3, <3>1
      <4>2. \A i \in DOMAIN b[n] : b[n + 1][i] = b[n][i] BY <2>1, <2>3, <3>1
      <4>3. b[n + 1][Len(b[n]) + 1] = s[n + 1] BY <2>1, <2>3, <3>1
      <4> QED BY <4>1, <4>2, <4>3 DEF Items
    <3> QED BY <2>1, <3>2, <3>3, <3>4
  <2> QED BY <2>4, <2>5
<1>6. \A n \in Nat : n \in T
  <2> HIDE DEF T
  <2> QED BY <1>4, <1>5, NaturalInduction
<1>7. P(Len(s))
  <2>1. Len(s) \in T
    <3> HIDE DEF T
    <3> QED BY <1>3, <1>6
  <2> HIDE DEF P
  <2> QED BY <2>1, <1>3
<1>8. KeptOf(s) = b[Len(s)] BY DEF KeptOf, b
<1>9. {s[i] : i \in {j \in 1..Len(s) : Kept(s[j])}} = {x \in Items(s) : Kept(x)}
  BY DEF Items
<1> QED BY <1>7, <1>8, <1>9

LEMMA AppendItems ==
  ASSUME NEW q \in Seq(Item), NEW x \in Item
  PROVE  Append(q, x) \in Seq(Item) /\ Items(Append(q, x)) = Items(q) \cup {x}
<1>1. Append(q, x) \in Seq(Item) OBVIOUS
<1>2. DOMAIN Append(q, x) = DOMAIN q \cup {Len(q) + 1} OBVIOUS
<1>3. \A i \in DOMAIN q : Append(q, x)[i] = q[i] OBVIOUS
<1>4. Append(q, x)[Len(q) + 1] = x OBVIOUS
<1> QED BY <1>1, <1>2, <1>3, <1>4 DEF Items

LEMMA ItemsAre ==
  ASSUME NEW q \in Seq(Item)
  PROVE  Items(q) \subseteq Item
BY ElementOfSeq DEF Items

LEMMA TailItems ==
  ASSUME NEW q \in Seq(Item), q # <<>>
  PROVE  /\ Head(q) \in Items(q) /\ Head(q) = q[1]
         /\ Tail(q) \in Seq(Item) /\ Items(Tail(q)) \subseteq Items(q)
<1>1. Len(q) \in Nat \ {0} /\ 1 \in DOMAIN q BY EmptySeq
<1>2. Head(q) = q[1] OBVIOUS
<1>3. Tail(q) \in Seq(Item) /\ Len(Tail(q)) = Len(q) - 1 BY <1>1, HeadTailProperties
<1>4. \A i \in 1..Len(Tail(q)) : Tail(q)[i] = q[i + 1] BY <1>1, HeadTailProperties
<1>5. \A i \in DOMAIN Tail(q) : i + 1 \in DOMAIN q /\ Tail(q)[i] = q[i + 1] BY <1>1, <1>3, <1>4
<1> QED BY <1>1, <1>2, <1>3, <1>5 DEF Items

LEMMA JoinItems ==
  ASSUME NEW q \in Seq(Item), NEW r \in Seq(Item), NEW n \in 0..Len(r)
  PROVE  /\ q \o SubSeq(r, 1, n) \in Seq(Item)
         /\ Items(q \o SubSeq(r, 1, n)) \subseteq Items(q) \cup Items(r)
<1> DEFINE p == SubSeq(r, 1, n)
<1>1. n \in Nat /\ Len(r) \in Nat /\ n <= Len(r) OBVIOUS
<1>2. p \in Seq(Item) /\ Len(p) = n /\ \A i \in 1..n : p[i] = r[i]
  <2>1. \A i \in 1..n : r[i] \in Item BY <1>1, ElementOfSeq
  <2>2. p \in Seq(Item) BY <1>1, <2>1, SubSeqProperties
  <2>3. Len(p) = n BY <1>1, SubSeqProperties
  <2>4. \A i \in 1..n : p[i] = r[i]
    <3> SUFFICES ASSUME NEW i \in 1..n PROVE p[i] = r[i] OBVIOUS
    <3>1. p[i] = r[1 + i - 1] BY <1>1, SubSeqProperties
    <3> QED BY <3>1
  <2> QED BY <2>2, <2>3, <2>4
<1> HIDE DEF p
<1>3. q \o p \in Seq(Item) /\ Len(q \o p) = Len(q) + Len(p) BY <1>2, ConcatProperties
<1>4. \A i \in 1..(Len(q) + Len(p)) :
        (q \o p)[i] = IF i <= Len(q) THEN q[i] ELSE p[i - Len(q)]
  BY <1>2, ConcatProperties
<1>5. ASSUME NEW i \in DOMAIN (q \o p) PROVE (q \o p)[i] \in Items(q) \cup Items(r)
  <2>1. i \in 1..(Len(q) + n) BY <1>2, <1>3
  <2>2. CASE i <= Len(q)
    <3>1. i \in DOMAIN q /\ (q \o p)[i] = q[i] BY <1>2, <1>4, <2>1, <2>2
    <3> QED BY <3>1 DEF Items
  <2>3. CASE i > Len(q)
    <3>1. i - Len(q) \in 1..n BY <2>1, <2>3, <1>1
    <3>2. (q \o p)[i] = r[i - Len(q)] BY <1>2, <1>4, <2>1, <2>3, <3>1
    <3>3. i - Len(q) \in DOMAIN r BY <1>1, <3>1
    <3> QED BY <3>2, <3>3 DEF Items
  <2> QED BY <2>1, <2>2, <2>3
<1>6. Items(q \o p) \subseteq Items(q) \cup Items(r)
  BY <1>5 DEF Items
<1> QED BY <1>3, <1>6 DEF p

(* What the operations of a client leave in its queue. *)

Clients == [q : Seq(Item), bytes : Nat, need : BOOLEAN, last : Nat, term : BOOLEAN]

\* e is d with entries dropped, or of the set x added.
Follows(d, e, x) ==
  e \in Clients /\ Items(e.q) \subseteq Items(d.q) \cup x /\ e.term = d.term /\ e.last = d.last
\* Only the messages of d are left, and those of the set x are added.
Cleared(d, e, x) ==
  e \in Clients /\ Items(e.q) \subseteq {y \in Items(d.q) : Kept(y)} \cup x /\ e.term = d.term /\ e.last = d.last

LEMMA LessNat ==
  ASSUME NEW a \in Nat, NEW b \in Nat
  PROVE  Less(a, b) \in Nat
BY DEF Less

LEMMA BytesNat ==
  ASSUME NEW s \in Seq(Item)
  PROVE  Bytes(s) \in Nat
<1>1. Len(s) \in 0..Len(s) OBVIOUS
<1> QED BY <1>1, BytesFunction DEF Bytes

LEMMA ClearLeaves ==
  ASSUME NEW d \in Clients
  PROVE  /\ Cleared(d, Clear(d), {}) /\ Len(Clear(d).q) <= Len(d.q)
         /\ Clear(d).q = KeptOf(d.q) /\ Clear(d).need = d.need
         /\ Items(Clear(d).q) = {y \in Items(d.q) : Kept(y)}
<1>1. d.q \in Seq(Item) /\ d.bytes \in Nat BY DEF Clients
<1>2. KeptOf(d.q) \in Seq(Item) /\ Len(KeptOf(d.q)) <= Len(d.q)
      /\ Items(KeptOf(d.q)) = {x \in Items(d.q) : Kept(x)}
  BY <1>1, KeptItems
<1>3. Less(d.bytes, Bytes(d.q)) \in Nat BY <1>1, BytesNat, LessNat
<1>4. Clear(d) \in Clients
  BY <1>2, <1>3 DEF Clear, Clients
<1>5. Clear(d).q = KeptOf(d.q) BY DEF Clear, Clients
<1>6. Clear(d).term = d.term BY DEF Clear, Clients
<1>7. Clear(d).need = d.need BY DEF Clear, Clients
<1>8. Clear(d).last = d.last BY DEF Clear, Clients
<1> QED BY <1>2, <1>4, <1>5, <1>6, <1>7, <1>8 DEF Cleared

LEMMA PutAdds ==
  ASSUME NEW d \in Clients, NEW x \in Item
  PROVE  /\ Follows(d, Put(d, x), {x}) /\ Put(d, x).q = Append(d.q, x)
         /\ Put(d, x).need = d.need
<1>1. d.q \in Seq(Item) /\ d.bytes \in Nat /\ x.size \in Nat BY DEF Clients, Item
<1>2. Append(d.q, x) \in Seq(Item) /\ Items(Append(d.q, x)) = Items(d.q) \cup {x}
  BY <1>1, AppendItems
<1>3. Put(d, x) \in Clients
  <2>1. d.bytes + x.size \in Nat BY <1>1
  <2> QED BY <1>2, <2>1 DEF Put, Clients
<1>4. Put(d, x).q = Append(d.q, x) BY DEF Put, Clients
<1>5. Put(d, x).term = d.term BY DEF Put, Clients
<1>6. Put(d, x).need = d.need BY DEF Put, Clients
<1>7. Put(d, x).last = d.last BY DEF Put, Clients
<1> QED BY <1>2, <1>3, <1>4, <1>5, <1>6, <1>7 DEF Follows

LEMMA AwaitLeaves ==
  ASSUME NEW d \in Clients
  PROVE  /\ Await(d) \in Clients /\ Await(d).q = d.q
         /\ Await(d).term = d.term /\ Await(d).need /\ Await(d).bytes = d.bytes
         /\ Await(d).last = d.last
<1>1. Await(d) \in Clients BY DEF Await, Clients
<1>2. Await(d).q = d.q BY DEF Await, Clients
<1>3. Await(d).term = d.term BY DEF Await, Clients
<1>4. Await(d).need BY DEF Await, Clients
<1>5. Await(d).bytes = d.bytes BY DEF Await, Clients
<1>6. Await(d).last = d.last BY DEF Await, Clients
<1> QED BY <1>1, <1>2, <1>3, <1>4, <1>5, <1>6

LEMMA ForceLeaves ==
  ASSUME NEW d \in Clients, NEW x \in Item
  PROVE  Cleared(d, PutAfterClear(d, x), {x}) /\ PutAfterClear(d, x).need = d.need
<1> DEFINE e == Clear(d)
<1>1. Cleared(d, e, {}) /\ e.need = d.need BY ClearLeaves
<1>2. e \in Clients BY <1>1 DEF Cleared
<1>3. Follows(e, Put(e, x), {x}) /\ Put(e, x).need = e.need BY <1>2, PutAdds
<1>4. PutAfterClear(d, x) = IF Full(e) THEN e ELSE Put(e, x)
  BY DEF PutAfterClear
<1> HIDE DEF e
<1>5. Cleared(d, e, {x}) BY <1>1 DEF Cleared
<1>6. Cleared(d, Put(e, x), {x}) BY <1>1, <1>3 DEF Cleared, Follows
<1> QED
  <2>1. CASE Full(e) BY <1>1, <1>4, <1>5, <2>1
  <2>2. CASE ~Full(e) BY <1>1, <1>3, <1>4, <1>6, <2>2
  <2> QED BY <2>1, <2>2

LEMMA ClearedFollows ==
  ASSUME NEW d, NEW e, NEW x, Cleared(d, e, x)
  PROVE  Follows(d, e, x)
BY DEF Cleared, Follows

\* A packet is queued only before the termination.
LEMMA PushLeaves ==
  ASSUME NEW d \in Clients, NEW p \in Item
  PROVE  Follows(d, Push(d, p), IF d.term THEN {} ELSE {p})
<1> DEFINE X == IF d.term THEN {} ELSE {p}
           m == MakeRoom(d, p)
<1> SUFFICES Follows(d, Push(d, p), X) OBVIOUS
<1>1. Follows(d, d, X) BY DEF Follows
<1>2. Follows(d, Await(d), X) BY AwaitLeaves DEF Follows
<1>3. m \in Clients /\ Follows(d, m, X)
  <2>1. Cleared(d, Clear(d), {}) /\ Clear(d) \in Clients BY ClearLeaves DEF Cleared
  <2>2. Follows(d, Await(Clear(d)), X) BY <2>1, AwaitLeaves DEF Cleared, Follows
  <2>3. m = d \/ m = Await(Clear(d)) BY DEF MakeRoom
  <2> QED BY <1>1, <2>2, <2>3 DEF Follows
<1> HIDE DEF m
<1>4. Follows(d, Await(Clear(m)), X)
  <2>1. Cleared(m, Clear(m), {}) /\ Clear(m) \in Clients BY <1>3, ClearLeaves DEF Cleared
  <2>2. Await(Clear(m)) \in Clients /\ Await(Clear(m)).q = Clear(m).q
        /\ Await(Clear(m)).term = Clear(m).term /\ Await(Clear(m)).last = Clear(m).last
    BY <2>1, AwaitLeaves
  <2> QED BY <1>3, <2>1, <2>2 DEF Cleared, Follows
<1>5. CASE ~AcceptsPacket(d, p) BY <1>1, <1>5 DEF Push
<1>6. CASE AcceptsPacket(d, p) /\ ~(p.size > MaxBytes) /\ ~(Overflows(d, p) /\ ~p.key) /\ ~Full(m)
  <2> DEFINE a == Put(m, p)
             z == [a EXCEPT !.need = @ /\ ~p.key]
  <2>1. ~d.term /\ X = {p} BY <1>6 DEF AcceptsPacket
  <2>2. Follows(m, a, {p}) BY <1>3, PutAdds
  <2>3. a \in Clients BY <2>2 DEF Follows
  <2> HIDE DEF a
  <2>4. z \in Clients BY <2>3 DEF Clients
  <2>5. z.q = a.q BY <2>3 DEF Clients
  <2>6. z.term = a.term BY <2>3 DEF Clients
  <2>7. z.last = a.last BY <2>3 DEF Clients
  <2>8. Push(d, p) = z BY <1>6 DEF Push, m, a
  <2> HIDE DEF z, X
  <2> QED BY <1>3, <2>1, <2>2, <2>4, <2>5, <2>6, <2>7, <2>8 DEF Follows
<1>7. CASE AcceptsPacket(d, p) /\ ~(~(p.size > MaxBytes) /\ ~(Overflows(d, p) /\ ~p.key) /\ ~Full(m))
  <2> HIDE DEF X
  <2>1. CASE p.size > MaxBytes
    <3>1. Push(d, p) = Await(d) BY <1>7, <2>1 DEF Push
    <3> QED BY <1>2, <3>1
  <2>2. CASE ~(p.size > MaxBytes) /\ Overflows(d, p) /\ ~p.key
    <3>1. Push(d, p) = m BY <1>7, <2>2 DEF Push, m
    <3> QED BY <1>3, <3>1
  <2>3. CASE ~(p.size > MaxBytes) /\ ~(Overflows(d, p) /\ ~p.key) /\ Full(m)
    <3>1. Push(d, p) = Await(Clear(m)) BY <1>7, <2>3 DEF Push, m
    <3> QED BY <1>4, <3>1
  <2> QED BY <1>7, <2>1, <2>2, <2>3
<1> QED BY <1>5, <1>6, <1>7

\* The frames of d are of generation g, and none follow a termination.
Fresh(d, g) ==
  /\ d \in Clients
  /\ \A x \in Items(d.q) : (x.kind = "frame" => x.gen = g) /\ (d.term => Kept(x))

LEMMA FollowsFresh ==
  ASSUME NEW d, NEW e, NEW g, NEW X, Fresh(d, g), Follows(d, e, X),
         \A x \in X : (x.kind = "frame" => x.gen = g) /\ (d.term => Kept(x))
  PROVE  Fresh(e, g)
BY DEF Fresh, Follows

LEMMA ClearedFresh ==
  ASSUME NEW d, NEW e, NEW g, NEW X, Cleared(d, e, X),
         \A x \in X : x.kind # "frame" /\ (d.term => Kept(x))
  PROVE  Fresh(e, g)
BY DEF Fresh, Cleared, Kept

LEMMA ControlItem ==
  ASSUME NEW k \in {"reset", "notice", "term", "end"}, NEW g \in Nat
  PROVE  /\ Control(k, g) \in Item /\ Control(k, g).kind = k /\ Control(k, g).gen = g
         /\ Control(k, g).size = 0 /\ ~Control(k, g).key
<1>1. Control(k, g) \in Item BY DEF Control, Item
<1> QED BY <1>1 DEF Control

LEMMA NoneItem == None \in Item /\ None.kind = "end"
BY ControlItem DEF None

LEMMA AwaitFresh ==
  ASSUME NEW d, NEW g, Fresh(d, g)
  PROVE  Fresh(Await(d), g)
BY AwaitLeaves DEF Fresh

LEMMA ClearFresh ==
  ASSUME NEW d \in Clients, NEW g
  PROVE  Fresh(Clear(d), g)
<1>1. Cleared(d, Clear(d), {}) BY ClearLeaves
<1> QED BY <1>1, ClearedFresh

LEMMA PutFresh ==
  ASSUME NEW d \in Clients, NEW x \in Item, NEW g, x.kind # "frame", d.term => Kept(x)
  PROVE  Fresh(PutAfterClear(d, x), g)
<1>1. Cleared(d, PutAfterClear(d, x), {x}) BY ForceLeaves
<1> QED BY <1>1, ClearedFresh

LEMMA PushFresh ==
  ASSUME NEW d, NEW p \in Item, NEW g, Fresh(d, g), p.kind = "frame", p.gen = g
  PROVE  Fresh(Push(d, p), g)
<1>1. d \in Clients BY DEF Fresh
<1>2. Follows(d, Push(d, p), IF d.term THEN {} ELSE {p}) BY <1>1, PushLeaves
<1>3. CASE d.term
  <2>1. Follows(d, Push(d, p), {}) BY <1>2, <1>3
  <2> QED BY <2>1, FollowsFresh
<1>4. CASE ~d.term
  <2>1. Follows(d, Push(d, p), {p}) BY <1>2, <1>4
  <2> QED BY <2>1, <1>4, FollowsFresh
<1> QED BY <1>3, <1>4

\* A cached key frame of generation g.
Cached(k, g) == k \in Item /\ (k # None => k.kind = "frame" /\ k.gen = g /\ k.key)

LEMMA RecoverFresh ==
  ASSUME NEW d, NEW k, NEW g, Fresh(d, g), Cached(k, g)
  PROVE  Fresh(Recover(d, k), g)
<1>1. d \in Clients /\ Clear(d) \in Clients BY ClearLeaves DEF Fresh, Cleared
<1>2. Fresh(Await(Clear(d)), g) BY <1>1, ClearFresh, AwaitFresh
<1>3. CASE k # None /\ Recovers(d, k)
  <2>1. k \in Item /\ k.kind = "frame" /\ k.gen = g BY <1>3 DEF Cached
  <2>2. Recover(d, k) = Push(Await(Clear(d)), k) BY <1>3 DEF Recover
  <2> QED BY <1>2, <2>1, <2>2, PushFresh
<1>4. CASE ~(k # None /\ Recovers(d, k)) 
  <2>1. Recover(d, k) = d BY <1>4 DEF Recover
  <2> QED BY <2>1
<1> QED BY <1>3, <1>4

LEMMA PrimeFresh ==
  ASSUME NEW d, NEW keep \in BOOLEAN, NEW g, d \in Clients, keep => Fresh(d, g), Cached(cache, g)
  PROVE  Fresh(Prime(d, keep), g)
<1> DEFINE e == Await(IF keep THEN d ELSE Clear(d))
<1>1. Fresh(e, g)
  <2>1. CASE keep
    <3>1. e = Await(d) BY <2>1
    <3> QED BY <3>1, <2>1, AwaitFresh
  <2>2. CASE ~keep
    <3>1. e = Await(Clear(d)) BY <2>2
    <3> QED BY <3>1, ClearFresh, AwaitFresh
  <2> QED BY <2>1, <2>2
<1> HIDE DEF e
<1>2. CASE cache = None
  <2>1. Prime(d, keep) = e BY <1>2 DEF Prime, e
  <2> QED BY <1>1, <2>1
<1>3. CASE cache # None
  <2>1. Prime(d, keep) = Push(e, cache) BY <1>3 DEF Prime, e
  <2>2. cache \in Item /\ cache.kind = "frame" /\ cache.gen = g BY <1>3 DEF Cached
  <2> QED BY <1>1, <2>1, <2>2, PushFresh
<1> QED BY <1>2, <1>3

LEMMA TerminateFresh ==
  ASSUME NEW d, NEW g, Fresh(d, g)
  PROVE  Fresh(Terminate(d), g)
<1> DEFINE e == [d EXCEPT !.term = TRUE]
<1>1. d \in Clients BY DEF Fresh
<1>2. e \in Clients BY <1>1 DEF Clients
<1>3. Control("term", 0) \in Item /\ Control("term", 0).kind = "term" BY ControlItem
<1>4. Kept(Control("term", 0)) BY <1>3 DEF Kept
<1> HIDE DEF e
<1>5. Fresh(PutAfterClear(e, Control("term", 0)), g) BY <1>2, <1>3, <1>4, PutFresh
<1>6. Terminate(d) = IF d.term THEN d ELSE PutAfterClear(e, Control("term", 0)) BY DEF Terminate, e
<1> QED BY <1>5, <1>6

\* After a reset no frame of any generation is queued.
LEMMA PushResetFresh ==
  ASSUME NEW d, NEW g, NEW h \in Nat, Fresh(d, g)
  PROVE  Fresh(PushReset(d, h), h)
<1>1. d \in Clients /\ Await(d) \in Clients /\ Await(d).term = d.term
  BY AwaitLeaves DEF Fresh
<1>2. CASE d.term
  <2>1. PushReset(d, h) = d BY <1>2 DEF PushReset
  <2>2. Fresh(d, h) BY <1>2 DEF Fresh, Kept
  <2> QED BY <2>1, <2>2
<1>3. CASE ~d.term
  <2>1. PushReset(d, h) = PutAfterClear(Await(d), Control("reset", h)) BY <1>3 DEF PushReset
  <2>2. Control("reset", h) \in Item /\ Control("reset", h).kind = "reset" BY ControlItem
  <2> QED BY <1>1, <1>3, <2>1, <2>2, PutFresh
<1> QED BY <1>2, <1>3

LEMMA PushNoticeFresh ==
  ASSUME NEW d, NEW g, Fresh(d, g)
  PROVE  Fresh(PushNotice(d), g)
<1> DEFINE x == Control("notice", 0)
<1>1. d \in Clients BY DEF Fresh
<1>2. x \in Item /\ x.kind = "notice" BY ControlItem
<1>3. Kept(x) BY <1>2 DEF Kept
<1> HIDE DEF x
<1>4. Fresh(PutAfterClear(d, x), g) BY <1>1, <1>2, <1>3, PutFresh
<1>5. Follows(d, Put(d, x), {x}) BY <1>1, <1>2, PutAdds
<1>6. Fresh(Put(d, x), g) BY <1>2, <1>3, <1>5, FollowsFresh
<1>7. PushNotice(d) = IF d.term THEN d ELSE IF Full(d) THEN PutAfterClear(d, x) ELSE Put(d, x)
  BY DEF PushNotice, x
<1> QED BY <1>4, <1>6, <1>7

Notifiers == [pc : {"idle", "drained", "counted", "written"}, kept : Seq(Item), freed : Nat, read : Nat]

ViewerTyped ==
  /\ c \in Clients /\ cache \in Item /\ notifier \in Notifiers
  /\ gen \in Nat /\ live \in Nat /\ seq \in Nat
  /\ viewer \in {"absent", "open", "closed"}

\* The inductive invariant: frames, the cached one included, are of the transport that is
\* there; a notifier holds messages only; a viewer that did not come yet has nothing.
FreshInv ==
  /\ ViewerTyped
  /\ Fresh(c, live) /\ Cached(cache, live)
  /\ \A x \in Items(notifier.kept) : Kept(x)
  /\ viewer = "absent" => notifier.pc = "idle" /\ c = NewClient

LEMMA FreshImplies ==
  FreshInv => FramesFresh
<1> SUFFICES ASSUME FreshInv PROVE FramesFresh OBVIOUS
<1>1. \A i \in DOMAIN c.q : c.q[i] \in Items(c.q) BY DEF Items
<1>2. \A i \in DOMAIN c.q :
        /\ c.q[i].kind = "frame" => c.q[i].gen = live
        /\ c.term => c.q[i].kind \notin {"frame", "reset"}
  BY <1>1 DEF FreshInv, Fresh, Kept
<1>3. FramesCurrent BY <1>2 DEF FramesCurrent, Queued
<1>4. TerminatedQuiet BY <1>2 DEF TerminatedQuiet, Queued
<1> QED BY <1>3, <1>4 DEF FramesFresh

LEMMA NewClientFresh ==
  ASSUME NEW g PROVE NewClient \in Clients /\ Fresh(NewClient, g) /\ NewClient.q = <<>> /\ ~NewClient.term
<1>1. NewClient \in Clients BY DEF NewClient, Clients
<1>2. NewClient.q = <<>> BY DEF NewClient
<1>3. ~NewClient.term BY DEF NewClient
<1>4. Items(NewClient.q) = {} BY <1>2 DEF Items
<1> QED BY <1>1, <1>2, <1>3, <1>4 DEF Fresh

LEMMA FreshInit ==
  ViewerInit => FreshInv
<1> SUFFICES ASSUME ViewerInit PROVE FreshInv OBVIOUS
<1>1. c = NewClient /\ cache = None /\ notifier = Idle /\ viewer = "absent" /\ gen = 0 /\ live = 0 /\ seq = 0
  BY DEF ViewerInit
<1>2. Idle \in Notifiers /\ Idle.kept = <<>> /\ Idle.pc = "idle" BY DEF Idle, Notifiers
<1>3. ViewerTyped BY <1>1, <1>2, NewClientFresh, NoneItem DEF ViewerTyped
<1>4. Items(notifier.kept) = {} BY <1>1, <1>2 DEF Items
<1> QED BY <1>1, <1>2, <1>3, <1>4, NewClientFresh, NoneItem DEF FreshInv, Cached

\* What an operation does for the viewer that is there.
LEMMA OnViewerKept ==
  ASSUME FreshInv, NEW e, OnViewer(e), UNCHANGED <<viewer, notifier>>,
         NEW g \in Nat, viewer = "open" => Fresh(e, g), viewer # "closed"
  PROVE  /\ c' \in Clients /\ Fresh(c', g)
         /\ viewer = "absent" => c' = NewClient
<1>1. CASE viewer = "open"
  <2>1. c' = e BY <1>1 DEF OnViewer
  <2> QED BY <1>1, <2>1 DEF Fresh
<1>2. CASE viewer # "open"
  <2>1. c' = c BY <1>2 DEF OnViewer
  <2>2. viewer = "absent" BY <1>2 DEF FreshInv, ViewerTyped
  <2>3. c = NewClient BY <2>2 DEF FreshInv
  <2> QED BY <2>1, <2>3, NewClientFresh
<1> QED BY <1>1, <1>2

\* Steps that leave the transports and the notifier alone and do something for the viewer.
LEMMA ClientStep ==
  ASSUME FreshInv, viewer # "closed", UNCHANGED <<viewer, live, seq, cache, notifier>>, gen' \in Nat,
         c' \in Clients, Fresh(c', live), viewer = "absent" => c' = NewClient
  PROVE  FreshInv'
<1>1. ViewerTyped' BY DEF FreshInv, ViewerTyped
<1>2. Fresh(c, live)' /\ Cached(cache, live)' BY DEF FreshInv, Fresh, Cached, Items, None, Control, Kept
<1>3. (\A x \in Items(notifier.kept) : Kept(x))' BY DEF FreshInv, Items, Kept
<1>4. (viewer = "absent" => notifier.pc = "idle" /\ c = NewClient)' BY DEF FreshInv, NewClient
<1> QED BY <1>1, <1>2, <1>3, <1>4 DEF FreshInv

LEMMA OnViewerStep ==
  ASSUME FreshInv, viewer # "closed", NEW e, OnViewer(e), Fresh(e, live), gen' \in Nat,
         UNCHANGED <<viewer, live, seq, cache, notifier>>
  PROVE  FreshInv'
<1>1. live \in Nat BY DEF FreshInv, ViewerTyped
<1>2. c' \in Clients /\ Fresh(c', live) /\ (viewer = "absent" => c' = NewClient)
  BY <1>1, OnViewerKept
<1> QED BY <1>2, ClientStep

LEMMA SameStep ==
  ASSUME FreshInv, viewer # "closed", UNCHANGED <<c, viewer, live, seq, cache, notifier>>, gen' \in Nat
  PROVE  FreshInv'
BY ClientStep DEF FreshInv, Fresh

\* The steps of the session but for the frames it publishes.
LEMMA SessionFresh ==
  ASSUME FreshInv, viewer # "closed",
         \/ StopForRestart \/ Started \/ StartReturns \/ StartFailed \/ StartCancelled
         \/ TransportClosed \/ StopStream \/ StreamStopped \/ Removed
  PROVE  FreshInv'
<1>0. /\ gen \in Nat /\ live \in Nat /\ gen + 1 \in Nat /\ c \in Clients /\ Fresh(c, live)
      /\ Cached(cache, live)
  BY DEF FreshInv, ViewerTyped
<1>1. None \in Item /\ None.kind = "end" /\ Kept(None) BY NoneItem DEF Kept
<1>2. Fresh(PutAfterClear(c, None), live) BY <1>0, <1>1, PutFresh
<1>3. Fresh(Stopped(c), live) BY <1>0, TerminateFresh, AwaitFresh DEF Stopped
<1>4. CASE StopForRestart BY <1>0, <1>4, SameStep DEF StopForRestart, request, shownVars
<1>5. CASE Started BY <1>0, <1>5, SameStep DEF Started, request, shownVars
<1>6. CASE StartReturns
  <2>1. Fresh(Prime(c, TRUE), live) BY <1>0, PrimeFresh
  <2>2. UNCHANGED <<viewer, gen, live, seq, cache, notifier>> BY <1>6 DEF StartReturns, request
  <2>3. UNCHANGED c \/ OnViewer(Prime(c, TRUE)) BY <1>6 DEF StartReturns
  <2> QED BY <1>0, <2>1, <2>2, <2>3, SameStep, OnViewerStep
<1>7. CASE StartFailed
  <2>1. UNCHANGED <<viewer, gen, live, seq, cache, notifier>> BY <1>7 DEF StartFailed, request
  <2>2. UNCHANGED c \/ OnViewer(PutAfterClear(c, None)) BY <1>7 DEF StartFailed
  <2> QED BY <1>0, <1>2, <2>1, <2>2, SameStep, OnViewerStep
<1>8. CASE StartCancelled BY <1>0, <1>8, SameStep DEF StartCancelled, request, shownVars
<1>9. CASE TransportClosed
  <2>1. UNCHANGED <<viewer, live, seq, cache, notifier>> /\ gen' = gen + 1
    BY <1>9 DEF TransportClosed, request
  <2>2. OnViewer(PutAfterClear(Await(c), None)) BY <1>9 DEF TransportClosed
  <2>3. Await(c) \in Clients BY <1>0, AwaitLeaves
  <2>4. Fresh(PutAfterClear(Await(c), None), live) BY <1>1, <2>3, PutFresh
  <2> QED BY <1>0, <2>1, <2>2, <2>4, OnViewerStep
<1>10. CASE StopStream
  <2>1. UNCHANGED <<viewer, live, seq, cache, notifier>> /\ gen' = gen + 1
    BY <1>10 DEF StopStream
  <2>2. UNCHANGED c \/ OnViewer(PushNotice(c)) BY <1>10 DEF StopStream
  <2>3. Fresh(PushNotice(c), live) BY <1>0, PushNoticeFresh
  <2> QED BY <1>0, <2>1, <2>2, <2>3, SameStep, OnViewerStep
<1>11. CASE StreamStopped
  <2>1. UNCHANGED <<viewer, gen, live, seq, cache, notifier>> BY <1>11 DEF StreamStopped, request
  <2>2. UNCHANGED c \/ OnViewer(Stopped(c)) BY <1>11 DEF StreamStopped
  <2> QED BY <1>0, <1>3, <2>1, <2>2, SameStep, OnViewerStep
<1>12. CASE Removed
  <2>1. UNCHANGED <<viewer, gen, live, seq, cache, notifier>> BY <1>12 DEF Removed, request
  <2>2. OnViewer(PutAfterClear(Stopped(c), None)) \/ OnViewer(PutAfterClear(c, None))
    BY <1>12 DEF Removed
  <2>3. Stopped(c) \in Clients BY <1>3 DEF Fresh
  <2>4. Fresh(PutAfterClear(Stopped(c), None), live) BY <1>1, <2>3, PutFresh
  <2> QED BY <1>0, <1>2, <2>1, <2>2, <2>4, OnViewerStep
<1> QED BY <1>4, <1>5, <1>6, <1>7, <1>8, <1>9, <1>10, <1>11, <1>12

\* A reset empties the queue of the frames of the transport that was.
LEMMA ResetFresh ==
  ASSUME FreshInv, viewer # "closed", NEW m \in Modes, ResetVideoState(m)
  PROVE  FreshInv'
<1>1. gen \in Nat /\ gen + 1 \in Nat /\ c \in Clients /\ Fresh(c, live)
  BY DEF FreshInv, ViewerTyped
<1>2. /\ gen' = gen + 1 /\ live' = gen + 1 /\ seq' = 0 /\ cache' = None
      /\ OnViewer(PushReset(c, gen + 1)) /\ UNCHANGED <<viewer, notifier>>
  BY DEF ResetVideoState, request
<1>3. Fresh(PushReset(c, gen + 1), gen + 1) BY <1>1, PushResetFresh
<1>4. c' \in Clients /\ Fresh(c', gen + 1) /\ (viewer = "absent" => c' = NewClient)
  BY <1>1, <1>2, <1>3, OnViewerKept
<1>5. Cached(None, gen + 1) BY NoneItem DEF Cached
<1>6. ViewerTyped' BY <1>1, <1>2, <1>4, NoneItem DEF ViewerTyped, FreshInv
<1>7. (\A x \in Items(notifier.kept) : Kept(x))' BY <1>2 DEF FreshInv, Items, Kept
<1>8. Fresh(c, live)' BY <1>2, <1>4 DEF Fresh, Items, Kept
<1>9. Cached(cache, live)' BY <1>2, <1>5 DEF Cached, None, Control
<1>10. (viewer = "absent" => notifier.pc = "idle" /\ c = NewClient)'
  BY <1>2, <1>4 DEF FreshInv, NewClient
<1> QED BY <1>6, <1>7, <1>8, <1>9, <1>10 DEF FreshInv

LEMMA NextSeqNat ==
  ASSUME seq \in Nat
  PROVE  NextSeq \in Nat
<1>1. Wrap \in Nat \ {0} /\ seq + 1 \in Nat BY QueueAssumption
<1>2. (seq + 1) % Wrap \in Nat BY <1>1
<1> QED BY <1>2 DEF NextSeq

\* The frame that is published, and the key frame that is cached after it.
LEMMA PublishedFrame ==
  ASSUME ViewerTyped, Cached(cache, live), NEW key \in BOOLEAN, NEW size \in Sizes,
         Publish(key, size)
  PROVE  LET p == Frame(live, seq', key, size)
         IN  /\ p \in Item /\ p.kind = "frame" /\ p.gen = live /\ p.key = key /\ p.size = size
             /\ seq' \in Nat /\ Cached(cache', live) /\ cache' = IF key THEN p ELSE cache
             /\ OnViewer(IF Drops(c, p) THEN Recover(Push(c, p), cache') ELSE Push(c, p))
             /\ UNCHANGED <<viewer, gen, live, notifier>>
<1> DEFINE p == Frame(live, seq', key, size)
<1>1. seq' \in Nat
  <2>1. seq' = NextSeq \/ seq' = seq BY DEF Publish
  <2> QED BY <2>1, NextSeqNat DEF ViewerTyped
<1>2. live \in Nat /\ size \in Nat BY QueueAssumption DEF ViewerTyped
<1>3. p = [kind |-> "frame", gen |-> live, seq |-> seq', key |-> key, size |-> size]
  BY DEF Frame
<1>4. p \in Item BY <1>1, <1>2, <1>3 DEF Item
<1>5. p.kind = "frame" /\ p.gen = live BY <1>3
<1>6. p.key = key BY <1>3
<1>7. p.size = size BY <1>3
<1>8. /\ cache' = IF key THEN p ELSE cache
      /\ OnViewer(IF Drops(c, p) THEN Recover(Push(c, p), cache') ELSE Push(c, p))
      /\ UNCHANGED <<viewer, gen, live, notifier>>
  BY DEF Publish
<1> HIDE DEF p
<1>9. Cached(cache', live)
  <2>1. CASE key BY <2>1, <1>4, <1>5, <1>6, <1>8 DEF Cached
  <2>2. CASE ~key BY <2>2, <1>8
  <2> QED BY <2>1, <2>2
<1>10. /\ p \in Item /\ p.kind = "frame" /\ p.gen = live /\ p.key = key /\ p.size = size
       /\ seq' \in Nat /\ Cached(cache', live) /\ cache' = IF key THEN p ELSE cache
       /\ OnViewer(IF Drops(c, p) THEN Recover(Push(c, p), cache') ELSE Push(c, p))
       /\ UNCHANGED <<viewer, gen, live, notifier>>
  BY <1>1, <1>4, <1>5, <1>6, <1>7, <1>8, <1>9
<1> QED BY <1>10 DEF p

LEMMA PublishFresh ==
  ASSUME FreshInv, viewer # "closed", NEW key \in BOOLEAN, NEW size \in Sizes, Publish(key, size)
  PROVE  FreshInv'
<1> DEFINE p == Frame(live, seq', key, size)
           e == IF Drops(c, p) THEN Recover(Push(c, p), cache') ELSE Push(c, p)
<1>0. ViewerTyped /\ Cached(cache, live) /\ Fresh(c, live) /\ live \in Nat /\ gen \in Nat
  BY DEF FreshInv, ViewerTyped
<1>1. /\ p \in Item /\ p.kind = "frame" /\ p.gen = live
      /\ seq' \in Nat /\ Cached(cache', live) /\ OnViewer(e)
      /\ UNCHANGED <<viewer, gen, live, notifier>>
  BY <1>0, PublishedFrame
<1> HIDE DEF p
<1>2. Fresh(Push(c, p), live) BY <1>0, <1>1, PushFresh
<1>3. Fresh(Recover(Push(c, p), cache'), live) BY <1>1, <1>2, RecoverFresh
<1>4. Fresh(e, live)
  <2>1. CASE Drops(c, p)
    <3>1. e = Recover(Push(c, p), cache') BY <2>1
    <3> QED BY <3>1, <1>3
  <2>2. CASE ~Drops(c, p)
    <3>1. e = Push(c, p) BY <2>2
    <3> QED BY <3>1, <1>2
  <2> QED BY <2>1, <2>2
<1> HIDE DEF e
<1>5. c' \in Clients /\ Fresh(c', live) /\ (viewer = "absent" => c' = NewClient)
  BY <1>0, <1>1, <1>4, OnViewerKept
<1>6. cache' \in Item BY <1>1 DEF Cached
<1>7. ViewerTyped' BY <1>0, <1>1, <1>5, <1>6 DEF ViewerTyped
<1>8. Fresh(c, live)' BY <1>1, <1>5 DEF Fresh, Items, Kept
<1>9. Cached(cache, live)' BY <1>1 DEF Cached, None, Control
<1>10. (\A x \in Items(notifier.kept) : Kept(x))' BY <1>1 DEF FreshInv, Items, Kept
<1>11. (viewer = "absent" => notifier.pc = "idle" /\ c = NewClient)'
  BY <1>1, <1>5 DEF FreshInv, NewClient
<1> QED BY <1>7, <1>8, <1>9, <1>10, <1>11 DEF FreshInv

\* Steps of a viewer that is there.
LEMMA OpenStep ==
  ASSUME FreshInv, viewer' \in {"open", "closed"}, UNCHANGED <<gen, live, seq, cache>>,
         Fresh(c', live), notifier' \in Notifiers, \A x \in Items(notifier'.kept) : Kept(x)
  PROVE  FreshInv'
<1>1. ViewerTyped' BY DEF FreshInv, ViewerTyped, Fresh
<1>2. Fresh(c, live)' BY DEF Fresh, Items, Kept
<1>3. Cached(cache, live)' BY DEF FreshInv, Cached, None, Control
<1>4. (\A x \in Items(notifier.kept) : Kept(x))' BY DEF Items, Kept
<1> QED BY <1>1, <1>2, <1>3, <1>4 DEF FreshInv

LEMMA SendFresh ==
  ASSUME FreshInv, Send
  PROVE  FreshInv'
<1> DEFINE x == Head(c.q)
           z == IF x.kind = "frame" /\ x.seq > 0 THEN x.seq ELSE c.last
<1>1. c \in Clients /\ c.q \in Seq(Item) /\ c.q # <<>> BY DEF FreshInv, ViewerTyped, Clients, Send
<1>2. x \in Items(c.q) /\ Tail(c.q) \in Seq(Item) /\ Items(Tail(c.q)) \subseteq Items(c.q)
  BY <1>1, TailItems
<1>3. x \in Item BY <1>1, <1>2, ItemsAre
<1>4. x.size \in Nat /\ z \in Nat BY <1>1, <1>3 DEF Item, Clients
<1>5. c' = [c EXCEPT !.q = Tail(@), !.bytes = Less(@, x.size), !.last = z]
  BY DEF Send
<1>6. UNCHANGED <<gen, live, seq, cache, notifier>> /\ viewer' \in {"open", "closed"}
  BY DEF Send, session, request
<1> HIDE DEF x, z
<1>7. Less(c.bytes, x.size) \in Nat BY <1>1, <1>4, LessNat DEF Clients
<1>8. c' \in Clients BY <1>1, <1>2, <1>4, <1>5, <1>7 DEF Clients
<1>9. c'.q = Tail(c.q) BY <1>1, <1>5 DEF Clients
<1>10. c'.term = c.term BY <1>1, <1>5 DEF Clients
<1>11. Fresh(c', live) BY <1>2, <1>8, <1>9, <1>10 DEF FreshInv, Fresh
<1>12. notifier' \in Notifiers /\ \A y \in Items(notifier'.kept) : Kept(y)
  BY <1>6 DEF FreshInv, ViewerTyped
<1> QED BY <1>6, <1>11, <1>12, OpenStep

\* The steps of a notifier in a worker thread: it puts back messages only.
LEMMA NotifierFresh ==
  ASSUME FreshInv, viewer # "closed", ThreadNotice \/ ThreadReads \/ ThreadWrites \/ ThreadRestores
  PROVE  FreshInv'
<1>1. /\ c \in Clients /\ Fresh(c, live) /\ notifier \in Notifiers /\ c.q \in Seq(Item)
      /\ c.bytes \in Nat
      /\ \A x \in Items(notifier.kept) : Kept(x)
  BY DEF FreshInv, ViewerTyped, Clients
<1>2. CASE ThreadNotice
  <2>1. viewer = "open" /\ UNCHANGED <<viewer, gen, live, seq, cache>>
    BY <1>2 DEF ThreadNotice, session
  <2>2. CASE ~c.term /\ Full(c)
    <3> DEFINE n == [pc |-> "drained", kept |-> KeptOf(c.q), freed |-> Bytes(c.q), read |-> 0]
    <3>1. c' = [c EXCEPT !.q = <<>>] /\ notifier' = n BY <1>2, <2>2 DEF ThreadNotice
    <3>2. KeptOf(c.q) \in Seq(Item) /\ \A x \in Items(KeptOf(c.q)) : Kept(x)
      BY <1>1, KeptItems
    <3>3. n \in Notifiers BY <1>1, <3>2, BytesNat DEF Notifiers
    <3>4. n.kept = KeptOf(c.q) OBVIOUS
    <3> HIDE DEF n
    <3>5. c' \in Clients
      <4>1. <<>> \in Seq(Item) OBVIOUS
      <4> QED BY <4>1, <1>1, <3>1 DEF Clients
    <3>6. c'.q = <<>> BY <1>1, <3>1 DEF Clients
    <3>7. Items(c'.q) = {} BY <3>6 DEF Items
    <3>8. Fresh(c', live) BY <3>5, <3>7 DEF Fresh
    <3>9. \A x \in Items(notifier'.kept) : Kept(x) BY <3>1, <3>2, <3>4
    <3> QED BY <2>1, <3>1, <3>3, <3>8, <3>9, OpenStep
  <2>3. CASE ~(~c.term /\ Full(c))
    <3>1. c' = PushNotice(c) /\ notifier' = notifier BY <1>2, <2>3 DEF ThreadNotice
    <3>2. Fresh(c', live) BY <1>1, <3>1, PushNoticeFresh
    <3> QED BY <2>1, <1>1, <3>1, <3>2, OpenStep
  <2> QED BY <2>2, <2>3
<1>3. CASE ~ThreadNotice
  <2>1. /\ viewer = "open" /\ UNCHANGED <<viewer, gen, live, seq, cache>>
    <3>1. notifier.pc # "idle" BY <1>3 DEF ThreadReads, ThreadWrites, ThreadRestores
    <3>2. viewer = "open" BY <3>1 DEF FreshInv, ViewerTyped
    <3> QED BY <3>2, <1>3 DEF ThreadReads, ThreadWrites, ThreadRestores, session
  <2>2. CASE ThreadReads
    <3>1. c' = c /\ notifier' = [notifier EXCEPT !.pc = "counted", !.read = c.bytes]
      BY <2>2 DEF ThreadReads
    <3>2. notifier' \in Notifiers BY <1>1, <3>1 DEF Notifiers
    <3>3. notifier'.kept = notifier.kept BY <1>1, <3>1 DEF Notifiers
    <3> QED BY <1>1, <2>1, <3>1, <3>2, <3>3, OpenStep
  <2>3. CASE ThreadWrites
    <3> DEFINE b == Less(notifier.read, notifier.freed)
    <3>1. c' = [c EXCEPT !.bytes = b] /\ notifier' = [notifier EXCEPT !.pc = "written"]
      BY <2>3 DEF ThreadWrites
    <3>2. b \in Nat BY <1>1, LessNat DEF Notifiers
    <3> HIDE DEF b
    <3>3. notifier' \in Notifiers BY <1>1, <3>1 DEF Notifiers
    <3>4. notifier'.kept = notifier.kept BY <1>1, <3>1 DEF Notifiers
    <3>5. c' \in Clients BY <1>1, <3>1, <3>2 DEF Clients
    <3>6. c'.q = c.q BY <1>1, <3>1 DEF Clients
    <3>7. c'.term = c.term BY <1>1, <3>1 DEF Clients
    <3>8. Fresh(c', live) BY <1>1, <3>5, <3>6, <3>7 DEF Fresh
    <3> QED BY <1>1, <2>1, <3>3, <3>4, <3>8, OpenStep
  <2>4. CASE ThreadRestores
    <3> DEFINE x == Control("notice", 0)
               back == Append(notifier.kept, x)
               room == Less(QueueSize, Len(c.q))
               n == IF Len(back) < room THEN Len(back) ELSE room
               q == c.q \o SubSeq(back, 1, n)
    <3>1. c' = [c EXCEPT !.q = q] /\ notifier' = Idle BY <2>4 DEF ThreadRestores
    <3>2. x \in Item /\ x.kind = "notice" BY ControlItem
    <3>3. Kept(x) BY <3>2 DEF Kept
    <3>4. notifier.kept \in Seq(Item) BY <1>1 DEF Notifiers
    <3> HIDE DEF x
    <3>5. back \in Seq(Item) /\ Items(back) = Items(notifier.kept) \cup {x}
      BY <3>2, <3>4, AppendItems
    <3> HIDE DEF back
    <3>6. n \in 0..Len(back)
      <4>1. room \in Nat
        <5>1. Len(c.q) \in Nat /\ QueueSize \in Nat BY <1>1, QueueAssumption
        <5> QED BY <5>1, LessNat
      <4>2. Len(back) \in Nat BY <3>5
      <4> HIDE DEF room
      <4> QED BY <4>1, <4>2
    <3> HIDE DEF n
    <3>7. q \in Seq(Item) /\ Items(q) \subseteq Items(c.q) \cup Items(back)
      BY <1>1, <3>5, <3>6, JoinItems
    <3> HIDE DEF q
    <3>8. c' \in Clients BY <1>1, <3>1, <3>7 DEF Clients
    <3>9. c'.q = q BY <1>1, <3>1 DEF Clients
    <3>10. c'.term = c.term BY <1>1, <3>1 DEF Clients
    <3>11. \A y \in Items(back) : Kept(y) BY <1>1, <3>3, <3>5
    <3>12. \A y \in Items(back) : y.kind # "frame" BY <3>11 DEF Kept
    <3>13. Fresh(c', live) BY <1>1, <3>7, <3>8, <3>9, <3>10, <3>11, <3>12 DEF Fresh
    <3>14. Idle \in Notifiers /\ Idle.kept = <<>> BY DEF Idle, Notifiers
    <3>15. Items(Idle.kept) = {} BY <3>14 DEF Items
    <3> QED BY <2>1, <3>1, <3>13, <3>14, <3>15, OpenStep
  <2> QED BY <1>3, <2>2, <2>3, <2>4
<1> QED BY <1>2, <1>3

LEMMA ViewerStepFresh ==
  ASSUME FreshInv, viewer # "closed",
         \/ Attach \/ PlayerReset \/ Notice \/ DisconnectViewer \/ Leave
  PROVE  FreshInv'
<1>1. /\ c \in Clients /\ Fresh(c, live) /\ Cached(cache, live) /\ notifier \in Notifiers
      /\ \A x \in Items(notifier.kept) : Kept(x)
  BY DEF FreshInv, ViewerTyped
<1>2. CASE Attach
  <2>1. viewer' = "open" /\ c' = Prime(NewClient, FALSE) /\ UNCHANGED <<gen, live, seq, cache, notifier>>
    BY <1>2 DEF Attach, session, request
  <2>2. Fresh(c', live) BY <1>1, <2>1, NewClientFresh, PrimeFresh
  <2> QED BY <1>1, <2>1, <2>2, OpenStep
<1>3. CASE PlayerReset
  <2>1. viewer' = "open" /\ c' = Prime(c, FALSE) /\ UNCHANGED <<gen, live, seq, cache, notifier>>
    BY <1>3 DEF PlayerReset, session, request
  <2>2. Fresh(c', live) BY <1>1, <2>1, PrimeFresh
  <2> QED BY <1>1, <2>1, <2>2, OpenStep
<1>4. CASE Notice
  <2>1. viewer' = "open" /\ c' = PushNotice(c) /\ UNCHANGED <<gen, live, seq, cache, notifier>>
    BY <1>4 DEF Notice, session
  <2>2. Fresh(c', live) BY <1>1, <2>1, PushNoticeFresh
  <2> QED BY <1>1, <2>1, <2>2, OpenStep
<1>5. CASE DisconnectViewer
  <2>1. viewer' = "open" /\ c' = Terminate(c) /\ UNCHANGED <<gen, live, seq, cache, notifier>>
    BY <1>5 DEF DisconnectViewer, session, request
  <2>2. Fresh(c', live) BY <1>1, <2>1, TerminateFresh
  <2> QED BY <1>1, <2>1, <2>2, OpenStep
<1>6. CASE Leave
  <2>1. viewer' = "closed" /\ c' = c /\ UNCHANGED <<gen, live, seq, cache, notifier>>
    BY <1>6 DEF Leave, session, request
  <2> QED BY <1>1, <2>1, OpenStep
<1> QED BY <1>2, <1>3, <1>4, <1>5, <1>6

LEMMA FreshStep ==
  FreshInv /\ [ViewerNext]_viewerVars => FreshInv'
<1> SUFFICES ASSUME FreshInv, [ViewerNext]_viewerVars PROVE FreshInv' OBVIOUS
<1>1. CASE ViewerNext
  <2>1. viewer # "closed" BY <1>1 DEF ViewerNext
  <2>2. CASE \/ StopForRestart \/ Started \/ StartReturns \/ StartFailed \/ StartCancelled
             \/ TransportClosed \/ StopStream \/ StreamStopped \/ Removed
    BY <2>1, <2>2, SessionFresh
  <2>3. ASSUME NEW m \in Modes, ResetVideoState(m) PROVE FreshInv' BY <2>1, <2>3, ResetFresh
  <2>4. ASSUME NEW key \in BOOLEAN, NEW size \in Sizes, Publish(key, size) PROVE FreshInv'
    BY <2>1, <2>4, PublishFresh
  <2>5. CASE ThreadNotice \/ ThreadReads \/ ThreadWrites \/ ThreadRestores
    BY <2>1, <2>5, NotifierFresh
  <2>6. CASE Attach \/ PlayerReset \/ Notice \/ DisconnectViewer \/ Leave
    BY <2>1, <2>6, ViewerStepFresh
  <2>7. CASE Send BY <2>7, SendFresh
  <2> QED BY <1>1, <2>2, <2>3, <2>4, <2>5, <2>6, <2>7 DEF ViewerNext
<1>2. CASE UNCHANGED viewerVars
  <2>1. UNCHANGED <<c, viewer, gen, live, seq, cache, notifier>>
    BY <1>2 DEF viewerVars, session, request
  <2>2. gen' \in Nat BY <2>1 DEF FreshInv, ViewerTyped
  <2>3. CASE viewer # "closed" BY <2>1, <2>2, <2>3, SameStep
  <2>4. CASE viewer = "closed"
    <3>1. Fresh(c', live) BY <2>1 DEF FreshInv
    <3>2. notifier' \in Notifiers /\ \A x \in Items(notifier'.kept) : Kept(x)
      BY <2>1 DEF FreshInv, ViewerTyped
    <3> QED BY <2>1, <2>4, <3>1, <3>2, OpenStep
  <2> QED BY <2>3, <2>4
<1> QED BY <1>1, <1>2

\* Whatever is pushed, cleared, restarted and put back by threads, a frame in a viewer's
\* queue is of the transport that is there, and none is queued after the termination.
THEOREM FramesAreFresh ==
  ViewerSpec => []FramesFresh
<1>1. ViewerInit => FreshInv BY FreshInit
<1>2. FreshInv /\ [ViewerNext]_viewerVars => FreshInv' BY FreshStep
<1>3. FreshInv => FramesFresh BY FreshImplies
<1> QED BY <1>1, <1>2, <1>3, PTL DEF ViewerSpec

(* While the queue has room, its byte count is exact and the frames due can be decoded. *)

\* Queues that agree on their first n entries have as many bytes in them.
LEMMA BytesAgree ==
  ASSUME NEW s \in Seq(Item), NEW t \in Seq(Item), NEW n \in Nat, n <= Len(s), n <= Len(t),
         \A i \in 1..n : s[i] = t[i]
  PROVE  BytesUpTo(s)[n] = BytesUpTo(t)[n]
<1> DEFINE a == BytesUpTo(s)
           b == BytesUpTo(t)
           T == {m \in Nat : m <= n => a[m] = b[m]}
<1>1. a[0] = 0 /\ \A i \in 1..Len(s) : a[i] = a[i - 1] + s[i].size BY BytesFunction
<1>2. b[0] = 0 /\ \A i \in 1..Len(t) : b[i] = b[i - 1] + t[i].size BY BytesFunction
<1> HIDE DEF a, b
<1>3. 0 \in T BY <1>1, <1>2
<1>4. ASSUME NEW m \in Nat, m \in T PROVE m + 1 \in T
  <2> SUFFICES ASSUME m + 1 <= n PROVE a[m + 1] = b[m + 1] OBVIOUS
  <2>1. a[m] = b[m] BY <1>4
  <2>2. m + 1 \in 1..Len(s) /\ m + 1 \in 1..Len(t) /\ m + 1 \in 1..n /\ (m + 1) - 1 = m
    <3>1. Len(s) \in Nat /\ Len(t) \in Nat OBVIOUS
    <3> QED BY <3>1
  <2>3. a[m + 1] = a[m] + s[m + 1].size BY <1>1, <2>2
  <2>4. b[m + 1] = b[m] + t[m + 1].size BY <1>2, <2>2
  <2> QED BY <2>1, <2>2, <2>3, <2>4
<1>5. \A m \in Nat : m \in T
  <2> HIDE DEF T
  <2> QED BY <1>3, <1>4, NaturalInduction
<1>6. a[n] = b[n] BY <1>5
<1> QED BY <1>6 DEF a, b

LEMMA BytesAppend ==
  ASSUME NEW q \in Seq(Item), NEW x \in Item
  PROVE  Bytes(Append(q, x)) = Bytes(q) + x.size
<1> DEFINE t == Append(q, x)
           n == Len(q)
<1>1. t \in Seq(Item) /\ Len(t) = n + 1 /\ n \in Nat OBVIOUS
<1>2. t[n + 1] = x /\ \A i \in 1..n : t[i] = q[i] OBVIOUS
<1> HIDE DEF t, n
<1>3. BytesUpTo(t)[n] = BytesUpTo(q)[n]
  <2>1. n <= Len(q) /\ n <= Len(t) BY <1>1 DEF n
  <2> QED BY <1>1, <1>2, <2>1, BytesAgree
<1>4. BytesUpTo(t)[n + 1] = BytesUpTo(t)[n] + t[n + 1].size
  <2>1. n + 1 \in 1..Len(t) /\ (n + 1) - 1 = n BY <1>1
  <2>2. \A i \in 1..Len(t) : BytesUpTo(t)[i] = BytesUpTo(t)[i - 1] + t[i].size
    BY <1>1, BytesFunction
  <2> QED BY <2>1, <2>2
<1> QED BY <1>1, <1>2, <1>3, <1>4 DEF Bytes, t, n

LEMMA BytesOfEmpty == Bytes(<<>>) = 0
<1>1. <<>> \in Seq(Item) /\ Len(<<>>) = 0 OBVIOUS
<1>2. BytesUpTo(<<>>)[0] = 0 BY <1>1, BytesFunction
<1> QED BY <1>1, <1>2 DEF Bytes

\* Taking the head off takes its bytes off every count.
LEMMA BytesTail ==
  ASSUME NEW q \in Seq(Item), q # <<>>
  PROVE  Bytes(q) = Head(q).size + Bytes(Tail(q))
<1> DEFINE t == Tail(q)
           n == Len(t)
           a == BytesUpTo(q)
           b == BytesUpTo(t)
           T == {m \in Nat : m <= n => a[m + 1] = q[1].size + b[m]}
<1>1. Len(q) \in Nat \ {0} BY EmptySeq
<1>2. t \in Seq(Item) /\ Len(q) = n + 1 /\ n \in Nat /\ \A i \in 1..n : t[i] = q[i + 1]
  BY <1>1, HeadTailProperties
<1>3. Head(q) = q[1] /\ 1 \in 1..Len(q) BY <1>1
<1>4. q[1] \in Item BY <1>3, ElementOfSeq
<1>5. q[1].size \in Nat BY <1>4 DEF Item
<1>6. a[0] = 0 /\ \A i \in 1..Len(q) : a[i] = a[i - 1] + q[i].size BY BytesFunction
<1>7. /\ b \in [0..n -> Nat] /\ b[0] = 0 /\ \A i \in 1..n : b[i] = b[i - 1] + t[i].size
  BY <1>2, BytesFunction
<1>8. \A i \in 1..n : t[i].size \in Nat
  <2>1. \A i \in 1..n : t[i] \in Item BY <1>2, ElementOfSeq
  <2> QED BY <2>1 DEF Item
<1> HIDE DEF a, b, t, n
<1>9. 0 \in T
  <2>1. a[1] = a[0] + q[1].size BY <1>3, <1>6
  <2> QED BY <1>5, <1>6, <1>7, <2>1
<1>10. ASSUME NEW m \in Nat, m \in T PROVE m + 1 \in T
  <2> SUFFICES ASSUME m + 1 <= n PROVE a[(m + 1) + 1] = q[1].size + b[m + 1] OBVIOUS
  <2>1. a[m + 1] = q[1].size + b[m] BY <1>2, <1>10
  <2>2. m + 1 \in 1..n /\ (m + 1) - 1 = m /\ m \in 0..n BY <1>2
  <2>3. (m + 1) + 1 \in 1..Len(q) /\ ((m + 1) + 1) - 1 = m + 1 BY <1>2
  <2>4. a[(m + 1) + 1] = a[m + 1] + q[(m + 1) + 1].size BY <1>6, <2>3
  <2>5. t[m + 1] = q[(m + 1) + 1] BY <1>2, <2>2
  <2>6. b[m + 1] = b[m] + t[m + 1].size BY <1>7, <2>2
  <2>7. b[m] \in Nat /\ t[m + 1].size \in Nat BY <1>7, <1>8, <2>2
  <2> QED BY <1>5, <2>1, <2>4, <2>5, <2>6, <2>7
<1>11. \A m \in Nat : m \in T
  <2> HIDE DEF T
  <2> QED BY <1>9, <1>10, NaturalInduction
<1>12. a[n + 1] = q[1].size + b[n] BY <1>2, <1>11
<1> QED BY <1>2, <1>3, <1>12 DEF Bytes, a, b, t, n

\* Messages have no bytes.
LEMMA BytesOfMessages ==
  ASSUME NEW s \in Seq(Item), \A x \in Items(s) : x.size = 0
  PROVE  Bytes(s) = 0
<1> DEFINE a == BytesUpTo(s)
           T == {m \in Nat : m <= Len(s) => a[m] = 0}
<1>1. a[0] = 0 /\ \A i \in 1..Len(s) : a[i] = a[i - 1] + s[i].size BY BytesFunction
<1>2. \A i \in 1..Len(s) : s[i].size = 0 BY DEF Items
<1>3. Len(s) \in Nat OBVIOUS
<1> HIDE DEF a
<1>4. 0 \in T BY <1>1
<1>5. ASSUME NEW m \in Nat, m \in T PROVE m + 1 \in T
  <2> SUFFICES ASSUME m + 1 <= Len(s) PROVE a[m + 1] = 0 OBVIOUS
  <2>1. a[m] = 0 BY <1>3, <1>5
  <2>2. m + 1 \in 1..Len(s) /\ (m + 1) - 1 = m BY <1>3
  <2>3. a[m + 1] = a[m] + s[m + 1].size BY <1>1, <2>2
  <2> QED BY <1>2, <2>1, <2>2, <2>3
<1>6. \A m \in Nat : m \in T
  <2> HIDE DEF T
  <2> QED BY <1>4, <1>5, NaturalInduction
<1>7. a[Len(s)] = 0 BY <1>3, <1>6
<1> QED BY <1>7 DEF Bytes, a

Plain(x) == x.kind # "frame" => x.size = 0 /\ ~x.key
Ending(q) == \E k \in DOMAIN q : q[k].kind \in {"term", "end"}
\* After n entries the decoder can be fed: it is (ok), or there is a key frame among them.
Ready(q, n, ok) == ok \/ \E k \in 1..n : q[k].key
DueAt(q, i) == q[i].kind = "frame" /\ \A k \in 1..(i - 1) : q[k].kind \notin {"term", "end"}

Exact(d) == d \in Clients /\ d.bytes = Bytes(d.q) /\ \A x \in Items(d.q) : Plain(x)
\* The queue of d can be played from here on, if ok says whether the decoder is ready.
Playable(d, g, ok) ==
  /\ Exact(d) /\ Fresh(d, g)
  /\ \A i \in DOMAIN d.q : DueAt(d.q, i) /\ ~d.q[i].key => Ready(d.q, i - 1, ok)
\* A client that takes any frame is ready for it, or will be closed before it.
Gated(d, ok) ==
  /\ ~d.need => Ready(d.q, Len(d.q), ok) \/ Ending(d.q)
  /\ d.term => Ending(d.q)

LEMMA EndingItems ==
  ASSUME NEW q, NEW r, \A x \in Items(q) : x.kind \in {"term", "end"} => x \in Items(r), Ending(q)
  PROVE  Ending(r)
BY DEF Items, Ending

LEMMA EndingIs ==
  ASSUME NEW q, NEW x \in Items(q), x.kind \in {"term", "end"}
  PROVE  Ending(q)
BY DEF Items, Ending

LEMMA NoFramesPlayable ==
  ASSUME NEW d, NEW g, NEW ok, Exact(d), Fresh(d, g), \A x \in Items(d.q) : x.kind # "frame"
  PROVE  Playable(d, g, ok)
<1>1. \A i \in DOMAIN d.q : ~DueAt(d.q, i) BY DEF DueAt, Items
<1> QED BY <1>1 DEF Playable

LEMMA ClearPlayable ==
  ASSUME NEW d, NEW g, NEW ok, Exact(d)
  PROVE  /\ Playable(Clear(d), g, ok) /\ Len(Clear(d).q) <= Len(d.q)
         /\ Clear(d).term = d.term /\ Clear(d).need = d.need
         /\ Ending(d.q) => Ending(Clear(d).q)
<1> DEFINE e == Clear(d)
<1>1. d \in Clients /\ d.bytes = Bytes(d.q) /\ d.bytes \in Nat BY DEF Exact, Clients
<1>2. /\ Cleared(d, e, {}) /\ Len(e.q) <= Len(d.q) /\ e.q = KeptOf(d.q) /\ e.need = d.need
      /\ Items(e.q) = {y \in Items(d.q) : Kept(y)}
  BY <1>1, ClearLeaves
<1>3. e.bytes = Less(d.bytes, Bytes(d.q)) BY <1>1 DEF Clear, Clients
<1>4. Less(d.bytes, Bytes(d.q)) = 0 BY <1>1 DEF Less
<1> HIDE DEF e
<1>5. e \in Clients /\ e.term = d.term /\ e.q \in Seq(Item) BY <1>2 DEF Cleared, Clients
<1>6. \A x \in Items(e.q) : x.kind # "frame" /\ Plain(x) BY <1>2 DEF Kept, Exact
<1>7. Bytes(e.q) = 0 BY <1>5, <1>6, BytesOfMessages DEF Plain
<1>8. Exact(e) BY <1>3, <1>4, <1>5, <1>6, <1>7 DEF Exact
<1>9. Fresh(e, g) BY <1>1, ClearFresh DEF e
<1>10. Playable(e, g, ok) BY <1>6, <1>8, <1>9, NoFramesPlayable
<1>11. ASSUME Ending(d.q) PROVE Ending(e.q)
  <2>1. \A x \in Items(d.q) : x.kind \in {"term", "end"} => x \in Items(e.q)
    BY <1>2 DEF Kept
  <2> QED BY <1>11, <2>1, EndingItems
<1> QED BY <1>2, <1>5, <1>10, <1>11 DEF e

LEMMA AwaitPlayable ==
  ASSUME NEW d, NEW g, NEW ok, Playable(d, g, ok), d.term => Ending(d.q)
  PROVE  Playable(Await(d), g, ok) /\ Gated(Await(d), ok)
<1>1. d \in Clients BY DEF Playable, Exact
<1>2. /\ Await(d) \in Clients /\ Await(d).q = d.q /\ Await(d).term = d.term
      /\ Await(d).need /\ Await(d).bytes = d.bytes
  BY <1>1, AwaitLeaves
<1>3. Fresh(Await(d), g) BY AwaitFresh DEF Playable
<1> QED BY <1>2, <1>3 DEF Playable, Exact, Gated

LEMMA AwaitClearPlayable ==
  ASSUME NEW d, NEW g, NEW ok, Exact(d), d.term => Ending(d.q)
  PROVE  /\ Playable(Await(Clear(d)), g, ok) /\ Gated(Await(Clear(d)), ok)
         /\ Len(Await(Clear(d)).q) <= Len(d.q) /\ Await(Clear(d)).term = d.term
<1>1. /\ Playable(Clear(d), g, ok) /\ Len(Clear(d).q) <= Len(d.q)
      /\ Clear(d).term = d.term /\ (Ending(d.q) => Ending(Clear(d).q))
  BY ClearPlayable
<1>2. Clear(d) \in Clients BY <1>1 DEF Playable, Exact
<1>3. Await(Clear(d)).q = Clear(d).q /\ Await(Clear(d)).term = Clear(d).term
  BY <1>2, AwaitLeaves
<1>4. Playable(Await(Clear(d)), g, ok) /\ Gated(Await(Clear(d)), ok)
  BY <1>1, AwaitPlayable
<1> QED BY <1>1, <1>3, <1>4

\* What an entry more does to a queue that can be played.
LEMMA AppendPlayable ==
  ASSUME NEW d, NEW e, NEW g, NEW ok, NEW x \in Item, Playable(d, g, ok), Plain(x),
         e \in Clients, Fresh(e, g), e.q = Append(d.q, x), e.bytes = d.bytes + x.size,
         x.kind = "frame" /\ ~x.key => Ready(d.q, Len(d.q), ok) \/ Ending(d.q)
  PROVE  /\ Playable(e, g, ok)
         /\ Ready(d.q, Len(d.q), ok) \/ x.key => Ready(e.q, Len(e.q), ok)
         /\ Ending(d.q) \/ x.kind \in {"term", "end"} => Ending(e.q)
<1> DEFINE q == d.q
           n == Len(d.q)
           r == Append(d.q, x)
<1>1. q \in Seq(Item) /\ d.bytes = Bytes(q) /\ n \in Nat BY DEF Playable, Exact, Clients
<1>2. r \in Seq(Item) /\ Len(r) = n + 1 /\ r[n + 1] = x /\ (\A i \in 1..n : r[i] = q[i]) BY <1>1
<1>3. Items(r) = Items(q) \cup {x} BY <1>1, AppendItems
<1>4. Bytes(r) = Bytes(q) + x.size BY <1>1, BytesAppend
<1>5. DOMAIN q = 1..n /\ DOMAIN r = 1..(n + 1) BY <1>1, <1>2
<1>6. e.q = r OBVIOUS
<1>7. Plain(x) /\ (x.kind = "frame" /\ ~x.key => Ready(q, n, ok) \/ Ending(q)) OBVIOUS
<1> HIDE DEF q, n, r
<1>8. Exact(e)
  <2>1. \A y \in Items(q) : Plain(y) BY DEF Playable, Exact, q
  <2> QED BY <1>1, <1>3, <1>4, <1>6, <1>7, <2>1 DEF Exact
<1>9. ASSUME NEW i \in 1..(n + 1), DueAt(r, i), ~r[i].key PROVE Ready(r, i - 1, ok)
  <2>1. CASE i \in 1..n
    <3>1. r[i] = q[i] /\ \A k \in 1..(i - 1) : r[k] = q[k] /\ k \in 1..n BY <1>1, <1>2, <2>1
    <3>2. DueAt(q, i) /\ ~q[i].key BY <1>9, <3>1 DEF DueAt
    <3>3. Ready(q, i - 1, ok) BY <1>5, <2>1, <3>2 DEF Playable, q
    <3> QED BY <3>1, <3>3 DEF Ready
  <2>2. CASE i = n + 1
    <3>1. x.kind = "frame" /\ ~x.key BY <1>2, <1>9, <2>2 DEF DueAt
    <3>2. i - 1 = n BY <1>1, <2>2
    <3>3. ~Ending(q)
      <4>1. \A k \in 1..n : r[k].kind \notin {"term", "end"} BY <1>9, <3>2 DEF DueAt
      <4> QED BY <1>2, <1>5, <4>1 DEF Ending
    <3>4. Ready(q, n, ok) BY <1>7, <3>1, <3>3
    <3> QED BY <1>2, <3>2, <3>4 DEF Ready
  <2> QED BY <1>1, <2>1, <2>2
<1>10. Playable(e, g, ok) BY <1>5, <1>6, <1>8, <1>9 DEF Playable
<1>11. Ready(q, n, ok) \/ x.key => Ready(r, n + 1, ok)
  <2>1. n + 1 \in 1..(n + 1) /\ \A k \in 1..n : k \in 1..(n + 1) BY <1>1
  <2> QED BY <1>2, <2>1 DEF Ready
<1>12. Ending(q) \/ x.kind \in {"term", "end"} => Ending(r)
  <2>1. n + 1 \in 1..(n + 1) /\ \A k \in 1..n : k \in 1..(n + 1) BY <1>1
  <2> QED BY <1>2, <1>5, <2>1 DEF Ending
<1> QED BY <1>2, <1>6, <1>10, <1>11, <1>12 DEF q, n

LEMMA PutFields ==
  ASSUME NEW d \in Clients, NEW x \in Item
  PROVE  /\ Put(d, x) \in Clients /\ Put(d, x).q = Append(d.q, x) /\ Put(d, x).need = d.need
         /\ Put(d, x).term = d.term /\ Put(d, x).bytes = d.bytes + x.size
<1>1. Put(d, x).bytes = d.bytes + x.size BY DEF Put, Clients
<1> QED BY <1>1, PutAdds DEF Follows

\* A message put into a queue that has room.
LEMMA PutMessagePlayable ==
  ASSUME NEW d, NEW g, NEW ok, NEW k \in {"reset", "notice", "term", "end"}, NEW h \in Nat,
         Playable(d, g, ok), d.term => k # "reset"
  PROVE  /\ Playable(Put(d, Control(k, h)), g, ok)
         /\ Gated(d, ok) => Gated(Put(d, Control(k, h)), ok)
         /\ k \in {"term", "end"} => Gated(Put(d, Control(k, h)), ok)
         /\ d.need /\ ~d.term => Gated(Put(d, Control(k, h)), ok)
<1> DEFINE x == Control(k, h)
           e == Put(d, x)
<1>1. x \in Item /\ x.kind = k /\ x.size = 0 /\ ~x.key BY ControlItem
<1>2. d \in Clients /\ Fresh(d, g) BY DEF Playable, Exact
<1> HIDE DEF x
<1>3. /\ e \in Clients /\ e.q = Append(d.q, x) /\ e.need = d.need /\ e.term = d.term
      /\ e.bytes = d.bytes + x.size
  BY <1>1, <1>2, PutFields
<1>4. Follows(d, e, {x}) BY <1>1, <1>2, PutAdds
<1>5. Fresh(e, g) BY <1>1, <1>2, <1>4, FollowsFresh DEF Kept
<1> HIDE DEF e
<1>6. /\ Playable(e, g, ok)
      /\ Ready(d.q, Len(d.q), ok) => Ready(e.q, Len(e.q), ok)
      /\ Ending(d.q) \/ x.kind \in {"term", "end"} => Ending(e.q)
  BY <1>1, <1>3, <1>5, AppendPlayable DEF Plain
<1>7. Gated(d, ok) => Gated(e, ok) BY <1>3, <1>6 DEF Gated
<1>8. k \in {"term", "end"} => Gated(e, ok) BY <1>1, <1>6 DEF Gated
<1>9. d.need /\ ~d.term => Gated(e, ok) BY <1>3 DEF Gated
<1> QED BY <1>6, <1>7, <1>8, <1>9 DEF e, x

LEMMA RoomAfterClear ==
  ASSUME NEW d, NEW e, e \in Clients, Len(e.q) <= Len(d.q), d \in Clients, Len(d.q) < QueueSize
  PROVE  ~Full(e)
<1>1. Len(e.q) \in Nat /\ Len(d.q) \in Nat /\ QueueSize \in Nat BY QueueAssumption DEF Clients
<1> QED BY <1>1 DEF Full

\* An end or a termination, put after a clear.
LEMMA PutEndPlayable ==
  ASSUME NEW d, NEW g, NEW ok, Exact(d), Len(d.q) < QueueSize, NEW k \in {"term", "end"}
  PROVE  /\ Playable(PutAfterClear(d, Control(k, 0)), g, ok)
         /\ Gated(PutAfterClear(d, Control(k, 0)), ok)
<1>1. Playable(Clear(d), g, ok) /\ Len(Clear(d).q) <= Len(d.q) BY ClearPlayable
<1>2. ~Full(Clear(d)) BY <1>1, RoomAfterClear DEF Playable, Exact
<1>3. PutAfterClear(d, Control(k, 0)) = Put(Clear(d), Control(k, 0)) BY <1>2 DEF PutAfterClear
<1>4. /\ Playable(Put(Clear(d), Control(k, 0)), g, ok) /\ Gated(Put(Clear(d), Control(k, 0)), ok)
  BY <1>1, PutMessagePlayable
<1> QED BY <1>3, <1>4

LEMMA PushPlayable ==
  ASSUME NEW d, NEW g, NEW ok, NEW p \in Item, Playable(d, g, ok), Gated(d, ok),
         Len(d.q) < QueueSize, p.kind = "frame", p.gen = g
  PROVE  Playable(Push(d, p), g, ok) /\ Gated(Push(d, p), ok)
<1> DEFINE m == MakeRoom(d, p)
<1>1. d \in Clients /\ Exact(d) /\ Fresh(d, g) /\ (d.term => Ending(d.q))
  BY DEF Playable, Exact, Gated
<1>2. Playable(m, g, ok) /\ Gated(m, ok) /\ Len(m.q) <= Len(d.q) /\ m.term = d.term
  <2>1. CASE Overflows(d, p)
    <3>1. m = Await(Clear(d)) BY <2>1 DEF MakeRoom
    <3> HIDE DEF m
    <3> QED BY <1>1, <3>1, AwaitClearPlayable
  <2>2. CASE ~Overflows(d, p)
    <3>1. m = d BY <2>2 DEF MakeRoom
    <3>2. Len(d.q) <= Len(d.q) BY <1>1 DEF Clients
    <3> HIDE DEF m
    <3> QED BY <3>1, <3>2
  <2> QED BY <2>1, <2>2
<1>3. m \in Clients BY <1>2 DEF Playable, Exact
<1>4. ~Full(m) BY <1>1, <1>2, <1>3, RoomAfterClear
<1>5. CASE ~AcceptsPacket(d, p)
  <2>1. Push(d, p) = d BY <1>5 DEF Push
  <2> QED BY <2>1
<1>6. CASE AcceptsPacket(d, p) /\ p.size > MaxBytes
  <2>1. Push(d, p) = Await(d) BY <1>6 DEF Push
  <2> QED BY <1>1, <2>1, AwaitPlayable
<1>7. CASE AcceptsPacket(d, p) /\ ~(p.size > MaxBytes) /\ Overflows(d, p) /\ ~p.key
  <2>1. Push(d, p) = m BY <1>7 DEF Push
  <2> QED BY <1>2, <2>1
<1>8. CASE AcceptsPacket(d, p) /\ ~(p.size > MaxBytes) /\ ~(Overflows(d, p) /\ ~p.key)
  <2> DEFINE a == Put(m, p)
             e == [a EXCEPT !.need = @ /\ ~p.key]
  <2>1. Push(d, p) = e BY <1>4, <1>8 DEF Push
  <2>2. /\ a \in Clients /\ a.q = Append(m.q, p) /\ a.need = m.need /\ a.term = m.term
        /\ a.bytes = m.bytes + p.size
    BY <1>3, PutFields
  <2>3. Fresh(Push(d, p), g) BY <1>1, PushFresh
  <2> HIDE DEF a, m
  <2>4. e \in Clients BY <2>2 DEF Clients
  <2>5. e.q = a.q BY <2>2 DEF Clients
  <2>6. e.bytes = a.bytes BY <2>2 DEF Clients
  <2>7. e.term = a.term BY <2>2 DEF Clients
  <2>8. ~e.need => (p.key \/ ~a.need) BY <2>2 DEF Clients
  <2>9. Fresh(e, g) BY <2>1, <2>3
  <2>10. ~p.key => Ready(m.q, Len(m.q), ok) \/ Ending(m.q)
    <3> SUFFICES ASSUME ~p.key PROVE Ready(m.q, Len(m.q), ok) \/ Ending(m.q) OBVIOUS
    <3>1. ~Overflows(d, p) /\ ~d.need BY <1>8 DEF AcceptsPacket
    <3>2. m = d BY <3>1 DEF MakeRoom, m
    <3> QED BY <3>1, <3>2 DEF Gated
  <2> HIDE DEF e
  <2>11. /\ Playable(e, g, ok)
         /\ Ready(m.q, Len(m.q), ok) \/ p.key => Ready(e.q, Len(e.q), ok)
         /\ Ending(m.q) => Ending(e.q)
    BY <1>2, <2>2, <2>4, <2>5, <2>6, <2>9, <2>10, AppendPlayable DEF Plain
  <2>12. Gated(e, ok)
    <3>1. ~e.need => Ready(e.q, Len(e.q), ok) \/ Ending(e.q)
      BY <1>2, <2>2, <2>8, <2>11 DEF Gated
    <3>2. e.term => Ending(e.q) BY <1>2, <2>2, <2>7, <2>11 DEF Gated
    <3> QED BY <3>1, <3>2 DEF Gated
  <2> QED BY <2>1, <2>11, <2>12
<1> QED BY <1>5, <1>6, <1>7, <1>8

LEMMA RecoverPlayable ==
  ASSUME NEW d, NEW g, NEW ok, NEW k, Playable(d, g, ok), Gated(d, ok),
         Len(d.q) < QueueSize, Cached(k, g)
  PROVE  Playable(Recover(d, k), g, ok) /\ Gated(Recover(d, k), ok)
<1>1. CASE k # None /\ Recovers(d, k)
  <2> DEFINE e == Await(Clear(d))
  <2>1. k \in Item /\ k.kind = "frame" /\ k.gen = g BY <1>1 DEF Cached
  <2>2. Recover(d, k) = Push(e, k) BY <1>1 DEF Recover
  <2>3. Playable(e, g, ok) /\ Gated(e, ok) /\ Len(e.q) <= Len(d.q)
    BY AwaitClearPlayable DEF Playable, Gated
  <2> HIDE DEF e
  <2>4. Len(e.q) < QueueSize BY <2>3, QueueAssumption DEF Playable, Exact, Clients
  <2> QED BY <2>1, <2>2, <2>3, <2>4, PushPlayable
<1>2. CASE ~(k # None /\ Recovers(d, k))
  <2>1. Recover(d, k) = d BY <1>2 DEF Recover
  <2> QED BY <2>1
<1> QED BY <1>1, <1>2

LEMMA PrimePlayable ==
  ASSUME NEW d, NEW keep \in BOOLEAN, NEW g, NEW ok, Exact(d), keep => Playable(d, g, ok),
         d.term => Ending(d.q), Len(d.q) < QueueSize, Cached(cache, g)
  PROVE  Playable(Prime(d, keep), g, ok) /\ Gated(Prime(d, keep), ok)
<1> DEFINE e == Await(IF keep THEN d ELSE Clear(d))
<1>1. Playable(e, g, ok) /\ Gated(e, ok) /\ Len(e.q) <= Len(d.q)
  <2>1. CASE keep
    <3>1. e = Await(d) BY <2>1
    <3>2. Await(d).q = d.q /\ Len(d.q) <= Len(d.q) BY AwaitLeaves DEF Exact, Clients
    <3> HIDE DEF e
    <3> QED BY <2>1, <3>1, <3>2, AwaitPlayable
  <2>2. CASE ~keep
    <3>1. e = Await(Clear(d)) BY <2>2
    <3> HIDE DEF e
    <3> QED BY <3>1, AwaitClearPlayable
  <2> QED BY <2>1, <2>2
<1> HIDE DEF e
<1>2. Len(e.q) < QueueSize BY <1>1, QueueAssumption DEF Playable, Exact, Clients
<1>3. CASE cache = None
  <2>1. Prime(d, keep) = e BY <1>3 DEF Prime, e
  <2> QED BY <1>1, <2>1
<1>4. CASE cache # None
  <2>1. Prime(d, keep) = Push(e, cache) BY <1>4 DEF Prime, e
  <2>2. cache \in Item /\ cache.kind = "frame" /\ cache.gen = g BY <1>4 DEF Cached
  <2> QED BY <1>1, <1>2, <2>1, <2>2, PushPlayable
<1> QED BY <1>3, <1>4

LEMMA TerminatePlayable ==
  ASSUME NEW d, NEW g, NEW ok, Playable(d, g, ok), Gated(d, ok), Len(d.q) < QueueSize
  PROVE  /\ Playable(Terminate(d), g, ok) /\ Gated(Terminate(d), ok)
<1> DEFINE e == [d EXCEPT !.term = TRUE]
<1>1. d \in Clients BY DEF Playable, Exact
<1>2. e \in Clients BY <1>1 DEF Clients
<1>3. e.q = d.q /\ e.bytes = d.bytes BY <1>1 DEF Clients
<1>4. Terminate(d) = IF d.term THEN d ELSE PutAfterClear(e, Control("term", 0)) BY DEF Terminate
<1> HIDE DEF e
<1>5. Exact(e) /\ Len(e.q) < QueueSize BY <1>2, <1>3 DEF Playable, Exact
<1>6. /\ Playable(PutAfterClear(e, Control("term", 0)), g, ok)
      /\ Gated(PutAfterClear(e, Control("term", 0)), ok)
  BY <1>5, PutEndPlayable
<1> QED BY <1>4, <1>6

LEMMA PushResetPlayable ==
  ASSUME NEW d, NEW g, NEW ok, NEW h \in Nat, NEW okh, Playable(d, g, ok), Gated(d, ok),
         Len(d.q) < QueueSize
  PROVE  Playable(PushReset(d, h), h, okh) /\ Gated(PushReset(d, h), okh)
<1>1. d \in Clients /\ Exact(d) /\ Fresh(d, g) BY DEF Playable, Exact
<1>2. Fresh(PushReset(d, h), h) BY <1>1, PushResetFresh
<1>3. CASE d.term
  <2>1. PushReset(d, h) = d BY <1>3 DEF PushReset
  <2>2. \A x \in Items(d.q) : x.kind # "frame" BY <1>1, <1>3 DEF Fresh, Kept
  <2>3. Playable(d, h, okh) BY <1>1, <1>2, <2>1, <2>2, NoFramesPlayable
  <2>4. Gated(d, okh) BY <1>3 DEF Gated
  <2> QED BY <2>1, <2>3, <2>4
<1>4. CASE ~d.term
  <2> DEFINE a == Await(d)
             e == Clear(a)
  <2>1. /\ a \in Clients /\ a.q = d.q /\ a.term = d.term /\ a.need /\ a.bytes = d.bytes
    BY <1>1, AwaitLeaves
  <2>2. PushReset(d, h) = PutAfterClear(a, Control("reset", h)) BY <1>4 DEF PushReset
  <2> HIDE DEF a
  <2>3. Exact(a) BY <1>1, <2>1 DEF Exact
  <2>4. Playable(e, h, okh) /\ Len(e.q) <= Len(a.q) /\ e.term = a.term /\ e.need = a.need
    BY <2>3, ClearPlayable
  <2>5. ~Full(e) BY <1>1, <2>1, <2>4, RoomAfterClear DEF Playable, Exact
  <2>6. PushReset(d, h) = Put(e, Control("reset", h)) BY <2>2, <2>5 DEF PutAfterClear
  <2> HIDE DEF e
  <2>7. e.need = a.need /\ a.need BY <2>1, <2>4
  <2>8. e.need BY <2>7
  <2>9. ~e.term BY <1>4, <2>1, <2>4
  <2>10. Playable(Put(e, Control("reset", h)), h, okh) BY <2>4, <2>9, PutMessagePlayable
  <2>11. Gated(Put(e, Control("reset", h)), okh) BY <2>4, <2>8, <2>9, PutMessagePlayable
  <2> QED BY <2>6, <2>10, <2>11
<1> QED BY <1>3, <1>4

LEMMA PushNoticePlayable ==
  ASSUME NEW d, NEW g, NEW ok, Playable(d, g, ok), Gated(d, ok), Len(d.q) < QueueSize
  PROVE  Playable(PushNotice(d), g, ok) /\ Gated(PushNotice(d), ok)
<1>1. ~Full(d) BY QueueAssumption DEF Full, Playable, Exact, Clients
<1>2. CASE d.term
  <2>1. PushNotice(d) = d BY <1>2 DEF PushNotice
  <2> QED BY <2>1
<1>3. CASE ~d.term
  <2>1. PushNotice(d) = Put(d, Control("notice", 0)) BY <1>1, <1>3 DEF PushNotice
  <2> QED BY <1>3, <2>1, PutMessagePlayable
<1> QED BY <1>2, <1>3

\* The same without room, for a client that waits.
LEMMA PutEndAnyway ==
  ASSUME NEW d, NEW g, NEW ok, Playable(d, g, ok), d.need, d.term => Ending(d.q)
  PROVE  /\ Playable(PutAfterClear(d, Control("end", 0)), g, ok)
         /\ Gated(PutAfterClear(d, Control("end", 0)), ok)
<1> DEFINE e == Clear(d)
<1>1. /\ Playable(e, g, ok) /\ e.need = d.need /\ e.term = d.term /\ (Ending(d.q) => Ending(e.q))
  BY ClearPlayable DEF Playable
<1> HIDE DEF e
<1>2. e.need BY <1>1
<1>3. Gated(e, ok) BY <1>1, <1>2 DEF Gated
<1>4. /\ Playable(Put(e, Control("end", 0)), g, ok) /\ Gated(Put(e, Control("end", 0)), ok)
  BY <1>1, PutMessagePlayable
<1>5. PutAfterClear(d, Control("end", 0)) = IF Full(e) THEN e ELSE Put(e, Control("end", 0))
  BY DEF PutAfterClear, e
<1> QED BY <1>1, <1>3, <1>4, <1>5

\* The queue has room for one entry more.
HasRoom == Len(c.q) < QueueSize

\* The inductive invariant of an open viewer whose queue never fills: it plays what is
\* queued, and takes frames that are not key frames only after one.
SoundInv ==
  /\ FreshInv
  /\ Exact(c) /\ notifier.pc = "idle"
  /\ viewer = "open" => Playable(c, live, decoder = live) /\ Gated(c, decoder = live)

LEMMA SoundImplies ==
  SoundInv => QueueSound
<1> SUFFICES ASSUME SoundInv PROVE QueueSound OBVIOUS
<1>1. BytesExact BY DEF SoundInv, Exact, BytesExact
<1>2. Decodable
  <2> SUFFICES ASSUME viewer = "open", NEW i \in Due, ~c.q[i].key
               PROVE  \/ decoder = c.q[i].gen
                      \/ \E k \in 1..(i - 1) : c.q[k].key /\ c.q[k].gen = c.q[i].gen
    BY DEF Decodable, Open
  <2>1. c.q \in Seq(Item) /\ Fresh(c, live) BY DEF SoundInv, FreshInv, ViewerTyped, Clients
  <2>2. i \in DOMAIN c.q /\ c.q[i].kind = "frame" /\ DueAt(c.q, i)
    BY DEF Due, Queued, DueAt
  <2>3. Ready(c.q, i - 1, decoder = live) BY <2>2 DEF SoundInv, Playable
  <2>4. \A k \in DOMAIN c.q : c.q[k] \in Items(c.q) BY DEF Items
  <2>5. c.q[i].gen = live BY <2>1, <2>2, <2>4 DEF Fresh
  <2>6. ASSUME NEW k \in 1..(i - 1), c.q[k].key PROVE c.q[k].gen = live
    <3>1. k \in DOMAIN c.q BY <2>1, <2>2
    <3>2. Plain(c.q[k]) BY <2>4, <3>1 DEF SoundInv, Exact
    <3>3. c.q[k].kind = "frame" BY <2>6, <3>2 DEF Plain
    <3> QED BY <2>1, <2>4, <3>1, <3>3 DEF Fresh
  <2> QED BY <2>3, <2>5, <2>6 DEF Ready
<1> QED BY <1>1, <1>2 DEF QueueSound

LEMMA PlayableNext ==
  ASSUME Playable(c', live', decoder' = live'), Gated(c', decoder' = live')
  PROVE  Playable(c, live, decoder = live)' /\ Gated(c, decoder = live)'
<1>1. Playable(c, live, decoder = live)'
  BY DEF Playable, Exact, Clients, Item, Bytes, BytesUpTo, Plain, Fresh, Kept, Items, DueAt, Ready
<1>2. Gated(c, decoder = live)' BY DEF Gated, Ready, Ending
<1> QED BY <1>1, <1>2

LEMMA ExactNext ==
  ASSUME Exact(c') PROVE Exact(c)'
BY DEF Exact, Clients, Item, Bytes, BytesUpTo, Plain, Items

\* What an operation does for the viewer that is there.
LEMMA OnViewerSound ==
  ASSUME SoundInv, FreshInv', NEW e, OnViewer(e), UNCHANGED <<viewer, notifier>>,
         viewer = "open" => Playable(e, live', decoder' = live') /\ Gated(e, decoder' = live')
  PROVE  SoundInv'
<1>1. CASE viewer = "open"
  <2>1. c' = e BY <1>1 DEF OnViewer
  <2>2. Playable(c, live, decoder = live)' /\ Gated(c, decoder = live)'
    BY <1>1, <2>1, PlayableNext
  <2>3. Exact(c') BY <1>1, <2>1 DEF Playable
  <2> QED BY <2>2, <2>3, ExactNext DEF SoundInv
<1>2. CASE viewer # "open"
  <2>1. c' = c BY <1>2 DEF OnViewer
  <2>2. Exact(c') BY <2>1 DEF SoundInv
  <2> QED BY <1>2, <2>2, ExactNext DEF SoundInv
<1> QED BY <1>1, <1>2

LEMMA SameSound ==
  ASSUME SoundInv, FreshInv', UNCHANGED <<c, viewer, notifier, live, decoder>>
  PROVE  SoundInv'
<1>1. OnViewer(c) BY DEF OnViewer
<1>2. viewer = "open" => Playable(c, live', decoder' = live') /\ Gated(c, decoder' = live')
  BY DEF SoundInv
<1> QED BY <1>1, <1>2, OnViewerSound

\* A step of a viewer that stays or leaves.
LEMMA OpenSound ==
  ASSUME SoundInv, FreshInv', UNCHANGED notifier, Exact(c'),
         viewer' = "open" => Playable(c', live', decoder' = live') /\ Gated(c', decoder' = live')
  PROVE  SoundInv'
<1>1. Exact(c)' BY ExactNext
<1>2. (viewer = "open" => Playable(c, live, decoder = live) /\ Gated(c, decoder = live))'
  BY PlayableNext
<1> QED BY <1>1, <1>2 DEF SoundInv

LEMMA SessionSound ==
  ASSUME SoundInv, FreshInv', HasRoom,
         \/ StopForRestart \/ Started \/ StartReturns \/ StartFailed \/ StartCancelled
         \/ TransportClosed \/ StopStream \/ StreamStopped \/ Removed
  PROVE  SoundInv'
<1> DEFINE ok == decoder = live
           Fits(e) == viewer = "open" => Playable(e, live, ok) /\ Gated(e, ok)
<1>0. /\ c \in Clients /\ Exact(c) /\ Cached(cache, live) /\ Len(c.q) < QueueSize
      /\ viewer = "open" => Playable(c, live, ok) /\ Gated(c, ok) /\ (c.term => Ending(c.q))
  BY DEF SoundInv, FreshInv, ViewerTyped, HasRoom, Gated
<1>1. UNCHANGED <<viewer, notifier, live, decoder>>
  BY DEF StopForRestart, Started, StartReturns, StartFailed, StartCancelled, TransportClosed,
         StopStream, StreamStopped, Removed, request, shownVars
<1>2. ASSUME NEW e, Fits(e), OnViewer(e) PROVE SoundInv'
  BY <1>1, <1>2, OnViewerSound
<1>3. ASSUME UNCHANGED c PROVE SoundInv' BY <1>1, <1>3, SameSound
<1> DEFINE end(e) == PutAfterClear(e, None)
<1>4. ASSUME NEW d, Exact(d), Len(d.q) < QueueSize PROVE Fits(end(d))
  BY <1>4, PutEndPlayable DEF None
<1> HIDE DEF ok
<1>5. Fits(Prime(c, TRUE)) BY <1>0, PrimePlayable
<1>6. Fits(PushNotice(c)) BY <1>0, PushNoticePlayable
<1>7. viewer = "open" => Playable(Terminate(c), live, ok) /\ Gated(Terminate(c), ok)
  BY <1>0, TerminatePlayable
<1>8. Fits(Stopped(c)) BY <1>7, AwaitPlayable DEF Stopped, Gated
<1>9. CASE StopForRestart \/ Started \/ StartCancelled
  BY <1>3, <1>9 DEF StopForRestart, Started, StartCancelled
<1>10. CASE StartReturns
  <2>1. UNCHANGED c \/ OnViewer(Prime(c, TRUE)) BY <1>10 DEF StartReturns
  <2> HIDE DEF Fits
  <2> QED BY <2>1, <1>2, <1>3, <1>5
<1>11. CASE StartFailed
  <2>1. UNCHANGED c \/ OnViewer(end(c)) BY <1>11 DEF StartFailed
  <2>2. Fits(end(c)) BY <1>0, <1>4
  <2> HIDE DEF Fits
  <2> QED BY <2>1, <2>2, <1>2, <1>3
<1>12. CASE TransportClosed
  <2>1. OnViewer(end(Await(c))) BY <1>12 DEF TransportClosed
  <2>2. /\ Await(c) \in Clients /\ Await(c).q = c.q /\ Await(c).bytes = c.bytes
    BY <1>0, AwaitLeaves
  <2>3. Exact(Await(c)) /\ Len(Await(c).q) < QueueSize BY <1>0, <2>2 DEF Exact
  <2>4. Fits(end(Await(c))) BY <2>3, <1>4
  <2> HIDE DEF Fits
  <2> QED BY <2>1, <2>4, <1>2
<1>13. CASE StopStream
  <2>1. UNCHANGED c \/ OnViewer(PushNotice(c)) BY <1>13 DEF StopStream
  <2> HIDE DEF Fits
  <2> QED BY <2>1, <1>2, <1>3, <1>6
<1>14. CASE StreamStopped
  <2>1. UNCHANGED c \/ OnViewer(Stopped(c)) BY <1>14 DEF StreamStopped
  <2> HIDE DEF Fits
  <2> QED BY <2>1, <1>2, <1>3, <1>8
<1>15. CASE Removed
  <2>1. OnViewer(end(Stopped(c))) \/ OnViewer(end(c)) BY <1>15 DEF Removed
  <2>2. Fits(end(c)) BY <1>0, <1>4
  <2>3. Fits(end(Stopped(c)))
    <3> SUFFICES ASSUME viewer = "open"
                 PROVE  Playable(end(Stopped(c)), live, ok) /\ Gated(end(Stopped(c)), ok)
      OBVIOUS
    <3>1. Terminate(c) \in Clients BY <1>7 DEF Playable, Exact
    <3>2. Stopped(c).need BY <3>1, AwaitLeaves DEF Stopped
    <3>3. Playable(Stopped(c), live, ok) /\ (Stopped(c).term => Ending(Stopped(c).q))
      BY <1>8 DEF Gated
    <3> QED BY <3>2, <3>3, PutEndAnyway DEF None
  <2> HIDE DEF Fits
  <2> QED BY <2>1, <2>2, <2>3, <1>2
<1> QED BY <1>9, <1>10, <1>11, <1>12, <1>13, <1>14, <1>15

LEMMA ResetSound ==
  ASSUME SoundInv, FreshInv', HasRoom, NEW m \in Modes, ResetVideoState(m)
  PROVE  SoundInv'
<1>1. gen + 1 \in Nat /\ Len(c.q) < QueueSize BY DEF SoundInv, FreshInv, ViewerTyped, HasRoom
<1>2. OnViewer(PushReset(c, gen + 1)) /\ live' = gen + 1 /\ UNCHANGED <<viewer, notifier>>
  BY DEF ResetVideoState, request
<1>3. viewer = "open" => /\ Playable(PushReset(c, gen + 1), live', decoder' = live')
                         /\ Gated(PushReset(c, gen + 1), decoder' = live')
  BY <1>1, <1>2, PushResetPlayable DEF SoundInv
<1> QED BY <1>2, <1>3, OnViewerSound

\* Pushing leaves a recovery room, as a frame that did not fit was not queued.
LEMMA DroppedLeavesRoom ==
  ASSUME NEW d, NEW g, NEW ok, NEW p \in Item, Playable(d, g, ok), Len(d.q) < QueueSize,
         Drops(d, p)
  PROVE  Len(Push(d, p).q) < QueueSize
<1> DEFINE m == MakeRoom(d, p)
<1>1. d \in Clients BY DEF Playable, Exact
<1>2. AcceptsPacket(d, p) /\ (p.size > MaxBytes \/ (Overflows(d, p) /\ ~p.key) \/ Full(m))
  BY DEF Drops
<1>3. m \in Clients /\ Len(m.q) <= Len(d.q)
  <2>1. CASE Overflows(d, p)
    <3>1. m = Await(Clear(d)) BY <2>1 DEF MakeRoom
    <3>2. Clear(d) \in Clients /\ Len(Clear(d).q) <= Len(d.q) BY <1>1, ClearLeaves DEF Cleared
    <3>3. Await(Clear(d)) \in Clients /\ Await(Clear(d)).q = Clear(d).q BY <3>2, AwaitLeaves
    <3> HIDE DEF m
    <3> QED BY <3>1, <3>2, <3>3
  <2>2. CASE ~Overflows(d, p)
    <3>1. m = d BY <2>2 DEF MakeRoom
    <3>2. Len(d.q) <= Len(d.q) BY <1>1 DEF Clients
    <3> HIDE DEF m
    <3> QED BY <1>1, <3>1, <3>2
  <2> QED BY <2>1, <2>2
<1>4. ~Full(m) BY <1>1, <1>3, RoomAfterClear
<1>5. CASE p.size > MaxBytes
  <2>1. Push(d, p) = Await(d) BY <1>2, <1>5 DEF Push
  <2>2. Await(d).q = d.q BY <1>1, AwaitLeaves
  <2> QED BY <2>1, <2>2
<1>6. CASE ~(p.size > MaxBytes)
  <2>1. Overflows(d, p) /\ ~p.key BY <1>2, <1>4, <1>6
  <2>2. Push(d, p) = m BY <1>2, <1>6, <2>1 DEF Push
  <2>3. Len(m.q) \in Nat /\ Len(d.q) \in Nat /\ QueueSize \in Nat
    BY <1>1, <1>3, QueueAssumption DEF Clients
  <2> HIDE DEF m
  <2> QED BY <1>3, <2>2, <2>3
<1> QED BY <1>5, <1>6

LEMMA PublishSound ==
  ASSUME SoundInv, FreshInv', HasRoom, NEW key \in BOOLEAN, NEW size \in Sizes, Publish(key, size)
  PROVE  SoundInv'
<1> DEFINE p == Frame(live, seq', key, size)
           e == IF Drops(c, p) THEN Recover(Push(c, p), cache') ELSE Push(c, p)
           ok == decoder = live
<1>0. /\ ViewerTyped /\ Cached(cache, live) /\ Len(c.q) < QueueSize
      /\ viewer = "open" => Playable(c, live, ok) /\ Gated(c, ok)
  BY DEF SoundInv, FreshInv, HasRoom
<1>1. /\ p \in Item /\ p.kind = "frame" /\ p.gen = live
      /\ Cached(cache', live) /\ OnViewer(e) /\ UNCHANGED <<viewer, live, notifier>>
  BY <1>0, PublishedFrame
<1>2. decoder' = decoder BY DEF Publish, shownVars
<1> HIDE DEF p
<1>3. viewer = "open" => Playable(e, live, ok) /\ Gated(e, ok)
  <2> SUFFICES ASSUME viewer = "open" PROVE Playable(e, live, ok) /\ Gated(e, ok) OBVIOUS
  <2> HIDE DEF ok
  <2>1. Playable(Push(c, p), live, ok) /\ Gated(Push(c, p), ok) BY <1>0, <1>1, PushPlayable
  <2>2. CASE Drops(c, p)
    <3>1. e = Recover(Push(c, p), cache') BY <2>2
    <3>2. Len(Push(c, p).q) < QueueSize BY <1>0, <1>1, <2>2, DroppedLeavesRoom
    <3> HIDE DEF e
    <3> QED BY <1>1, <2>1, <3>1, <3>2, RecoverPlayable
  <2>3. CASE ~Drops(c, p)
    <3>1. e = Push(c, p) BY <2>3
    <3> HIDE DEF e
    <3> QED BY <2>1, <3>1
  <2> QED BY <2>2, <2>3
<1> HIDE DEF e
<1> QED BY <1>1, <1>2, <1>3, OnViewerSound

LEMMA NewClientPlayable ==
  ASSUME NEW g, NEW ok
  PROVE  Playable(NewClient, g, ok) /\ Gated(NewClient, ok)
<1>1. NewClient \in Clients /\ Fresh(NewClient, g) /\ NewClient.q = <<>> /\ ~NewClient.term
  BY NewClientFresh
<1>2. NewClient.need BY DEF NewClient
<1>3. NewClient.bytes = 0 BY DEF NewClient
<1>4. Items(NewClient.q) = {} BY <1>1 DEF Items
<1>5. Exact(NewClient) BY <1>1, <1>3, <1>4, BytesOfEmpty DEF Exact
<1>6. Playable(NewClient, g, ok) BY <1>1, <1>4, <1>5, NoFramesPlayable
<1> QED BY <1>1, <1>2, <1>6 DEF Gated

LEMMA ViewerSound ==
  ASSUME SoundInv, FreshInv', HasRoom,
         \/ Attach \/ PlayerReset \/ Notice \/ ThreadNotice \/ DisconnectViewer \/ Leave
  PROVE  SoundInv'
<1> DEFINE ok == decoder = live
<1>0. /\ c \in Clients /\ Exact(c) /\ Cached(cache, live) /\ Len(c.q) < QueueSize
      /\ viewer = "open" => Playable(c, live, ok) /\ Gated(c, ok) /\ (c.term => Ending(c.q))
  BY DEF SoundInv, FreshInv, ViewerTyped, HasRoom, Gated
<1>1. ASSUME NEW e, c' = e, Playable(e, live, ok), Gated(e, ok),
             UNCHANGED <<live, decoder, notifier>>
      PROVE  SoundInv'
  <2>1. Exact(c') BY <1>1 DEF Playable
  <2> QED BY <1>1, <2>1, OpenSound
<1>2. CASE Attach
  <2>1. c' = Prime(NewClient, FALSE) /\ UNCHANGED <<live, decoder, notifier>>
        /\ viewer = "absent"
    BY <1>2 DEF Attach, session, request
  <2>2. c = NewClient BY <2>1 DEF SoundInv, FreshInv
  <2> HIDE DEF ok
  <2>3. ~NewClient.term BY NewClientFresh
  <2>4. Playable(Prime(NewClient, FALSE), live, ok) /\ Gated(Prime(NewClient, FALSE), ok)
    BY <1>0, <2>2, <2>3, PrimePlayable
  <2> QED BY <1>1, <2>1, <2>4
<1>3. CASE PlayerReset
  <2>1. viewer = "open" /\ c' = Prime(c, FALSE) /\ UNCHANGED <<live, decoder, notifier>>
    BY <1>3 DEF PlayerReset, session, request, shownVars
  <2> HIDE DEF ok
  <2>2. Playable(Prime(c, FALSE), live, ok) /\ Gated(Prime(c, FALSE), ok)
    BY <1>0, <2>1, PrimePlayable
  <2> QED BY <1>1, <2>1, <2>2
<1>4. CASE Notice \/ ThreadNotice
  <2>1. viewer = "open" /\ UNCHANGED <<live, decoder>>
    BY <1>4 DEF Notice, ThreadNotice, session, shownVars
  <2>2. ~Full(c) BY <1>0, QueueAssumption DEF Full, Clients
  <2>3. c' = PushNotice(c) /\ UNCHANGED notifier BY <1>4, <2>2 DEF Notice, ThreadNotice
  <2> HIDE DEF ok
  <2>4. Playable(PushNotice(c), live, ok) /\ Gated(PushNotice(c), ok)
    BY <1>0, <2>1, PushNoticePlayable
  <2> QED BY <1>1, <2>1, <2>3, <2>4
<1>5. CASE DisconnectViewer
  <2>1. viewer = "open" /\ c' = Terminate(c) /\ UNCHANGED <<live, decoder, notifier>>
    BY <1>5 DEF DisconnectViewer, session, request, shownVars
  <2> HIDE DEF ok
  <2>2. Playable(Terminate(c), live, ok) /\ Gated(Terminate(c), ok)
    BY <1>0, <2>1, TerminatePlayable
  <2> QED BY <1>1, <2>1, <2>2
<1>6. CASE Leave
  <2>1. viewer' = "closed" /\ c' = c /\ UNCHANGED notifier BY <1>6 DEF Leave, request
  <2> QED BY <1>0, <2>1, OpenSound
<1> QED BY <1>2, <1>3, <1>4, <1>5, <1>6

\* Sending the head shifts the queue by one; if it was the key frame, the decoder has it.
LEMMA SendSound ==
  ASSUME SoundInv, FreshInv', Send
  PROVE  SoundInv'
<1> DEFINE x == Head(c.q)
           z == IF x.kind = "frame" /\ x.seq > 0 THEN x.seq ELSE c.last
           r == Tail(c.q)
           n == Len(r)
           ok == decoder = live
           okn == decoder' = live
<1>1. /\ c \in Clients /\ c.q \in Seq(Item) /\ c.q # <<>> /\ Exact(c) /\ viewer = "open"
      /\ Playable(c, live, ok) /\ Gated(c, ok) /\ Fresh(c, live)
  BY DEF SoundInv, FreshInv, ViewerTyped, Clients, Send
<1>2. x = c.q[1] /\ x \in Items(c.q) /\ r \in Seq(Item) /\ Items(r) \subseteq Items(c.q)
  BY <1>1, TailItems
<1>3. Len(c.q) = n + 1 /\ n \in Nat /\ \A i \in 1..n : r[i] = c.q[i + 1]
  <2>1. Len(c.q) \in Nat \ {0} BY <1>1, EmptySeq
  <2> QED BY <1>1, <2>1, HeadTailProperties
<1>4. x \in Item /\ x.size \in Nat BY <1>1, <1>2, ItemsAre DEF Item
<1>5. /\ c' = [c EXCEPT !.q = Tail(@), !.bytes = Less(@, x.size), !.last = z]
      /\ viewer' = IF x.kind \in {"term", "end"} THEN "closed" ELSE "open"
      /\ decoder' = IF x.kind = "frame" /\ x.key THEN x.gen ELSE decoder
      /\ UNCHANGED <<live, notifier>>
  BY DEF Send, session, request
<1>6. Bytes(c.q) = x.size + Bytes(r) BY <1>1, BytesTail
<1>7. c'.q = r BY <1>1, <1>5 DEF Clients
<1>8. c'.bytes = Less(c.bytes, x.size) BY <1>1, <1>5 DEF Clients
<1>9. c'.term = c.term BY <1>1, <1>5 DEF Clients
<1>10. c'.need = c.need BY <1>1, <1>5 DEF Clients
<1>11. c' \in Clients /\ Fresh(c', live)
  <2>1. ViewerTyped' /\ Fresh(c, live)' BY DEF FreshInv
  <2>2. c' \in Clients BY <2>1 DEF ViewerTyped, Clients, Item
  <2> QED BY <2>1, <2>2, <1>5 DEF Fresh, Items, Kept
<1> HIDE DEF x, z, r, n
<1>12. c'.bytes = Bytes(r)
  <2>1. Bytes(r) \in Nat BY <1>2, BytesNat
  <2>2. c.bytes = x.size + Bytes(r) BY <1>1, <1>6 DEF Exact
  <2> QED BY <1>4, <1>8, <2>1, <2>2 DEF Less
<1>13. Exact(c') BY <1>1, <1>2, <1>7, <1>11, <1>12 DEF Exact
<1>14. x.key => okn
  <2>1. x.key => x.kind = "frame" BY <1>1, <1>2 DEF Exact, Plain
  <2>2. x.kind = "frame" => x.gen = live BY <1>1, <1>2 DEF Fresh
  <2> QED BY <1>5, <2>1, <2>2
<1>15. ok => okn
  <2>1. x.kind = "frame" => x.gen = live BY <1>1, <1>2 DEF Fresh
  <2> QED BY <1>5, <2>1
<1> HIDE DEF ok, okn
<1>16. ASSUME NEW j \in 0..n, Ready(c.q, j + 1, ok) PROVE Ready(r, j, okn)
  <2>1. CASE ok BY <1>15, <2>1 DEF Ready
  <2>2. ASSUME NEW k \in 1..(j + 1), c.q[k].key PROVE Ready(r, j, okn)
    <3>1. CASE k = 1 BY <1>2, <1>14, <2>2, <3>1 DEF Ready
    <3>2. CASE k # 1
      <4>1. k - 1 \in 1..j /\ k - 1 \in 1..n /\ (k - 1) + 1 = k BY <1>3, <3>2
      <4>2. r[k - 1] = c.q[k] BY <1>3, <4>1
      <4> QED BY <2>2, <4>1, <4>2 DEF Ready
    <3> QED BY <3>1, <3>2
  <2> QED BY <1>16, <2>1, <2>2 DEF Ready
<1>17. ASSUME viewer' = "open" PROVE Playable(c', live, okn) /\ Gated(c', okn)
  <2>1. x.kind \notin {"term", "end"} BY <1>5, <1>17
  <2>2. ASSUME NEW i \in DOMAIN r, DueAt(r, i), ~r[i].key PROVE Ready(r, i - 1, okn)
    <3>1. i \in 1..n /\ i \in Nat /\ i + 1 \in DOMAIN c.q /\ (i + 1) - 1 = i /\ r[i] = c.q[i + 1]
      <4>1. i \in 1..n BY <1>2, <2>2 DEF n
      <4>2. i \in Nat /\ i + 1 \in 1..Len(c.q) /\ (i + 1) - 1 = i BY <1>3, <4>1
      <4>3. DOMAIN c.q = 1..Len(c.q) BY <1>1
      <4> QED BY <1>3, <4>1, <4>2, <4>3
    <3>2. \A k \in 1..i : c.q[k].kind \notin {"term", "end"}
      <4> SUFFICES ASSUME NEW k \in 1..i PROVE c.q[k].kind \notin {"term", "end"} OBVIOUS
      <4>1. CASE k = 1 BY <1>2, <2>1, <4>1
      <4>2. CASE k # 1
        <5>1. k - 1 \in 1..(i - 1) /\ k - 1 \in 1..n /\ (k - 1) + 1 = k BY <1>3, <3>1, <4>2
        <5>2. r[k - 1] = c.q[k] BY <1>3, <5>1
        <5> QED BY <2>2, <5>1, <5>2 DEF DueAt
      <4> QED BY <4>1, <4>2
    <3>3. DueAt(c.q, i + 1) /\ ~c.q[i + 1].key BY <2>2, <3>1, <3>2 DEF DueAt
    <3>4. Ready(c.q, i, ok) BY <1>1, <3>1, <3>3 DEF Playable
    <3>5. i - 1 \in 0..n /\ (i - 1) + 1 = i BY <1>3, <3>1
    <3> QED BY <1>16, <3>4, <3>5
  <2>3. Playable(c', live, okn) BY <1>7, <1>11, <1>13, <2>2 DEF Playable
  <2>4. Ending(c.q) => Ending(r)
    <3> SUFFICES ASSUME NEW k \in DOMAIN c.q, c.q[k].kind \in {"term", "end"} PROVE Ending(r)
      BY DEF Ending
    <3>1. k # 1 BY <1>2, <2>1
    <3>2. k - 1 \in 1..n /\ (k - 1) + 1 = k BY <1>1, <1>3, <3>1
    <3>3. r[k - 1] = c.q[k] /\ k - 1 \in DOMAIN r BY <1>2, <1>3, <3>2 DEF n
    <3> QED BY <3>3 DEF Ending
  <2>5. Ready(c.q, Len(c.q), ok) => Ready(r, n, okn)
    <3>1. n \in 0..n BY <1>3
    <3> QED BY <1>3, <1>16, <3>1
  <2>6. Gated(c', okn)
    <3>1. ~c'.need => Ready(c'.q, Len(c'.q), okn) \/ Ending(c'.q)
      <4> SUFFICES ASSUME ~c'.need PROVE Ready(c'.q, Len(c'.q), okn) \/ Ending(c'.q) OBVIOUS
      <4>1. ~c.need BY <1>10
      <4>2. Ready(c.q, Len(c.q), ok) \/ Ending(c.q) BY <1>1, <4>1 DEF Gated
      <4> QED BY <4>2, <1>7, <2>4, <2>5 DEF n
    <3>2. c'.term => Ending(c'.q)
      <4> SUFFICES ASSUME c'.term PROVE Ending(c'.q) OBVIOUS
      <4>1. c.term BY <1>9
      <4> QED BY <4>1, <1>1, <1>7, <2>4 DEF Gated
    <3> QED BY <3>1, <3>2 DEF Gated
  <2> QED BY <2>3, <2>6
<1>18. viewer' = "open" => Playable(c', live', decoder' = live') /\ Gated(c', decoder' = live')
  BY <1>5, <1>17 DEF okn
<1> QED BY <1>5, <1>13, <1>18, OpenSound

LEMMA SoundStep ==
  SoundInv /\ HasRoom /\ [ViewerNext]_viewerVars => SoundInv'
<1> SUFFICES ASSUME SoundInv, HasRoom, [ViewerNext]_viewerVars PROVE SoundInv' OBVIOUS
<1>0. FreshInv' BY FreshStep DEF SoundInv
<1>1. CASE ViewerNext
  <2>1. CASE \/ StopForRestart \/ Started \/ StartReturns \/ StartFailed \/ StartCancelled
             \/ TransportClosed \/ StopStream \/ StreamStopped \/ Removed
    BY <1>0, <2>1, SessionSound
  <2>2. ASSUME NEW m \in Modes, ResetVideoState(m) PROVE SoundInv' BY <1>0, <2>2, ResetSound
  <2>3. ASSUME NEW key \in BOOLEAN, NEW size \in Sizes, Publish(key, size) PROVE SoundInv'
    BY <1>0, <2>3, PublishSound
  <2>4. CASE Attach \/ PlayerReset \/ Notice \/ ThreadNotice \/ DisconnectViewer \/ Leave
    BY <1>0, <2>4, ViewerSound
  <2>5. CASE Send BY <1>0, <2>5, SendSound
  <2>6. CASE ThreadReads \/ ThreadWrites \/ ThreadRestores
    BY <2>6 DEF SoundInv, ThreadReads, ThreadWrites, ThreadRestores
  <2> QED BY <1>1, <2>1, <2>2, <2>3, <2>4, <2>5, <2>6 DEF ViewerNext
<1>2. CASE UNCHANGED viewerVars
  BY <1>0, <1>2, SameSound DEF viewerVars, session, request, shownVars
<1> QED BY <1>1, <1>2

LEMMA SoundInit ==
  ViewerInit => SoundInv
<1> SUFFICES ASSUME ViewerInit PROVE SoundInv OBVIOUS
<1>1. FreshInv BY FreshInit
<1>2. c = NewClient /\ notifier = Idle /\ viewer = "absent" BY DEF ViewerInit
<1>3. Exact(c) BY <1>2, NewClientPlayable DEF Playable
<1>4. notifier.pc = "idle" BY <1>2 DEF Idle
<1> QED BY <1>1, <1>2, <1>3, <1>4 DEF SoundInv

\* As long as messages do not fill the queue, queue_bytes is the number of bytes queued, and
\* a frame that is not a key frame is sent only after a key frame of its stream.
THEOREM QueueIsSound ==
  ViewerSpec /\ []HasRoom => []QueueSound
<1>1. ViewerInit => SoundInv BY SoundInit
<1>2. SoundInv /\ HasRoom /\ [ViewerNext]_viewerVars => SoundInv' BY SoundStep
<1>3. SoundInv => QueueSound BY SoundImplies
<1> QED BY <1>1, <1>2, <1>3, PTL DEF ViewerSpec

-----------------------------------------------------------------------------
(***************************************************************************)
(* The packets made of a stream (module VideoStream)                       *)
(***************************************************************************)
HasType(u, type) == \E i \in DOMAIN u : u[i].type = type

Nals == [type : {"idr", "slice", "aud", "bad", "sps", "pps"}, first : BOOLEAN, v : Nat]

\* A set of numbers up to n that has an element has a greatest one.
LEMMA GreatestIndex ==
  ASSUME NEW n \in Nat, NEW T \in SUBSET (1..n), T # {}
  PROVE  \E m \in T : \A k \in T : k <= m
<1> DEFINE Above == {x \in Nat : \A k \in T : k <= x}
<1>1. n \in Above /\ Above \subseteq Nat OBVIOUS
<1>2. PICK x \in Above : \A y \in Above : x <= y BY <1>1, LeastNatural
<1>3. x \in Nat /\ \A k \in T : k <= x OBVIOUS
<1>4. ASSUME x \notin T PROVE FALSE
  <2>1. PICK k \in T : TRUE OBVIOUS
  <2>2. k \in Nat /\ k >= 1 /\ k <= x BY <2>1, <1>3
  <2>3. x - 1 \in Nat BY <2>2, <1>3
  <2>4. \A j \in T : j <= x - 1 BY <1>3, <1>4
  <2>5. x - 1 \in Above BY <2>3, <2>4
  <2> QED BY <2>5, <1>2, <1>3
<1> HIDE DEF Above
<1> QED BY <1>3, <1>4

LEMMA OfNone ==
  ASSUME NEW u, NEW type, NEW else, ~HasType(u, type)
  PROVE  Of(type, u, else) = else
BY DEF Of, HasType

\* "Of" is about the last NAL unit of its type.
LEMMA OfLast ==
  ASSUME NEW u \in Seq(Nals), NEW type, NEW else, NEW i \in DOMAIN u, u[i].type = type,
         \A j \in DOMAIN u : u[j].type = type => j <= i
  PROVE  Of(type, u, else) = u[i].v
<1> DEFINE at == {k \in DOMAIN u : u[k].type = type}
<1> DEFINE last == CHOOSE k \in at : \A j \in at : j <= k
<1>1. DOMAIN u = 1..Len(u) /\ Len(u) \in Nat OBVIOUS
<1>2. i \in at /\ \A j \in at : j <= i OBVIOUS
<1>3. last \in at /\ \A j \in at : j <= last BY <1>2
<1>4. last = i BY <1>1, <1>2, <1>3
<1>5. at # {} BY <1>2
<1>6. Of(type, u, else) = IF at = {} THEN else ELSE u[last].v BY DEF Of
<1> HIDE DEF at, last
<1> QED BY <1>4, <1>5, <1>6

LEMMA OfSome ==
  ASSUME NEW u \in Seq(Nals), NEW type, HasType(u, type)
  PROVE  \E i \in DOMAIN u : /\ u[i].type = type
                             /\ \A j \in DOMAIN u : u[j].type = type => j <= i
<1> DEFINE at == {k \in DOMAIN u : u[k].type = type}
<1>1. at # {} BY DEF HasType
<1>2. Len(u) \in Nat /\ DOMAIN u = 1..Len(u) OBVIOUS
<1>3. at \in SUBSET (1..Len(u)) BY <1>2
<1>4. PICK i \in at : \A j \in at : j <= i BY <1>1, <1>2, <1>3, GreatestIndex
<1> QED BY <1>4

LEMMA OfElse ==
  ASSUME NEW u \in Seq(Nals), NEW type, HasType(u, type), NEW e, NEW f
  PROVE  Of(type, u, e) = Of(type, u, f)
<1>1. PICK i \in DOMAIN u : /\ u[i].type = type
                            /\ \A j \in DOMAIN u : u[j].type = type => j <= i BY OfSome
<1>2. Of(type, u, e) = u[i].v BY <1>1, OfLast
<1>3. Of(type, u, f) = u[i].v BY <1>1, OfLast
<1> QED BY <1>2, <1>3

LEMMA OfInNat ==
  ASSUME NEW u \in Seq(Nals), NEW type, NEW else \in Nat
  PROVE  Of(type, u, else) \in Nat
<1>1. CASE HasType(u, type)
  <2>1. PICK i \in DOMAIN u : /\ u[i].type = type
                              /\ \A j \in DOMAIN u : u[j].type = type => j <= i BY <1>1, OfSome
  <2>2. Of(type, u, else) = u[i].v BY <2>1, OfLast
  <2>3. u[i] \in Nals BY ElementOfSeq
  <2> QED BY <2>2, <2>3 DEF Nals
<1>2. CASE ~HasType(u, type) BY <1>2, OfNone
<1> QED BY <1>1, <1>2

LEMMA AppendedFacts ==
  ASSUME NEW S, NEW u \in Seq(S), NEW n \in S
  PROVE  /\ Append(u, n) \in Seq(S) /\ Append(u, n) # <<>>
         /\ Len(Append(u, n)) = Len(u) + 1 /\ Append(u, n)[Len(u) + 1] = n
         /\ DOMAIN Append(u, n) = 1..(Len(u) + 1) /\ DOMAIN u = 1..Len(u) /\ Len(u) \in Nat
         /\ \A i \in DOMAIN u : Append(u, n)[i] = u[i]
OBVIOUS

LEMMA OfAppendSame ==
  ASSUME NEW u \in Seq(Nals), NEW n \in Nals, NEW else
  PROVE  Of(n.type, Append(u, n), else) = n.v /\ HasType(Append(u, n), n.type)
<1> DEFINE w == Append(u, n)
<1>1. /\ w \in Seq(Nals) /\ Len(u) + 1 \in DOMAIN w /\ w[Len(u) + 1] = n
      /\ DOMAIN w = 1..(Len(u) + 1) /\ Len(u) \in Nat BY AppendedFacts
<1>2. \A j \in DOMAIN w : j <= Len(u) + 1 BY <1>1
<1> HIDE DEF w
<1>3. Of(n.type, w, else) = w[Len(u) + 1].v BY <1>1, <1>2, OfLast
<1>4. HasType(w, n.type) BY <1>1 DEF HasType
<1> QED BY <1>1, <1>3, <1>4 DEF w

LEMMA HasTypeAppendOther ==
  ASSUME NEW u \in Seq(Nals), NEW n \in Nals, NEW type, n.type # type
  PROVE  HasType(Append(u, n), type) <=> HasType(u, type)
<1> DEFINE w == Append(u, n)
<1>1. /\ w[Len(u) + 1] = n /\ DOMAIN w = 1..(Len(u) + 1) /\ DOMAIN u = 1..Len(u) /\ Len(u) \in Nat
      /\ \A i \in DOMAIN u : w[i] = u[i] BY AppendedFacts
<1> HIDE DEF w
<1>2. \A i \in DOMAIN w : w[i].type = type => i \in DOMAIN u BY <1>1
<1>3. \A i \in DOMAIN u : i \in DOMAIN w BY <1>1
<1>4. HasType(w, type) <=> HasType(u, type) BY <1>1, <1>2, <1>3 DEF HasType
<1> QED BY <1>4 DEF w

LEMMA OfAppendOther ==
  ASSUME NEW u \in Seq(Nals), NEW n \in Nals, NEW type, NEW else, n.type # type
  PROVE  Of(type, Append(u, n), else) = Of(type, u, else)
<1> DEFINE w == Append(u, n)
<1>1. /\ w \in Seq(Nals) /\ w[Len(u) + 1] = n /\ DOMAIN w = 1..(Len(u) + 1)
      /\ DOMAIN u = 1..Len(u) /\ Len(u) \in Nat
      /\ \A i \in DOMAIN u : w[i] = u[i] BY AppendedFacts
<1>2. HasType(w, type) <=> HasType(u, type) BY HasTypeAppendOther
<1> HIDE DEF w
<1>3. CASE HasType(u, type)
  <2>1. PICK i \in DOMAIN u : /\ u[i].type = type
                              /\ \A j \in DOMAIN u : u[j].type = type => j <= i BY <1>3, OfSome
  <2>2. Of(type, u, else) = u[i].v BY <2>1, OfLast
  <2>3. i \in DOMAIN w /\ w[i] = u[i] BY <1>1
  <2>4. \A j \in DOMAIN w : w[j].type = type => j \in DOMAIN u /\ u[j].type = type BY <1>1
  <2>5. \A j \in DOMAIN w : w[j].type = type => j <= i BY <2>1, <2>4
  <2>6. w[i].type = type /\ w \in Seq(Nals) BY <1>1, <2>1, <2>3
  <2>7. Of(type, w, else) = w[i].v BY <2>3, <2>5, <2>6, OfLast
  <2> QED BY <2>2, <2>3, <2>7 DEF w
<1>4. CASE ~HasType(u, type)
  <2>1. Of(type, u, else) = else BY <1>4, OfNone
  <2>2. Of(type, w, else) = else BY <1>2, <1>4, OfNone
  <2> QED BY <2>1, <2>2 DEF w
<1> QED BY <1>3, <1>4

\* A unit of one NAL unit.
LEMMA OfOne ==
  ASSUME NEW n \in Nals, NEW else
  PROVE  /\ <<n>> \in Seq(Nals) /\ Of(n.type, <<n>>, else) = n.v
         /\ \A type : n.type # type => Of(type, <<n>>, else) = else
<1>1. <<n>> = Append(<<>>, n) /\ <<>> \in Seq(Nals) OBVIOUS
<1>2. Of(n.type, Append(<<>>, n), else) = n.v BY <1>1, OfAppendSame
<1>3. ASSUME NEW type, n.type # type PROVE Of(type, <<n>>, else) = else
  <2>1. ~HasType(<<n>>, type) BY <1>3 DEF HasType
  <2> QED BY <2>1, OfNone
<1> QED BY <1>1, <1>2, <1>3

Configs == [psps : Nat, ppps : Nat, sps : Nat, pps : Nat, packet : Nat \X Nat,
            used : Nat \X Nat, gen : Nat]

Packets == [key : BOOLEAN, has : Nat \X Nat, made : Nat, begins : Nat, mixed : BOOLEAN,
            disc : BOOLEAN, torn : BOOLEAN, of : Nat \X Nat, gen : Nat]

VideoTypeOK ==
  /\ encoder \in [v : Nat \ {0}, due : {"sps", "pps", "idr", "any"}]
  /\ unit \in Seq(Nals) /\ torn \in BOOLEAN /\ config \in Configs /\ keySeen \in BOOLEAN
  /\ loopQueue \in Seq(Packets) /\ latest \in Packets

\* The SPS and PPS in force after the unit u: its last ones, or those known to cf.
KnownAfter(u, cf) == <<Of("sps", u, cf.psps), Of("pps", u, cf.ppps)>>

\* No slice stands before the beginning of a picture.
BeginsFirst(u) == \A i, j \in DOMAIN u : Vcl(u[i]) /\ u[i].first /\ Vcl(u[j]) => i <= j
Complete(u) == HasConfig(u) => HasType(u, "sps") /\ HasType(u, "pps")
Matches(u, cf) ==
  IsKey(u) => /\ KnownAfter(u, cf) = <<Of("idr", u, 0), Of("idr", u, 0)>>
              /\ Of("idr", u, 0) # 0

DecodablePacket(p) == p.key /\ ~p.torn => p.has = <<p.made, p.made>>
PicturePacket(p) == p.begins <= 1 /\ ~p.mixed /\ (p.key => p.begins >= 1)
GoodPacket(p) == DecodablePacket(p) /\ (streamMode = "raw" => PicturePacket(p))

\* What a handler that publishes a packet promises of it.
Publishes(p) ==
  /\ p \in Packets /\ loopQueue' = Append(loopQueue, p) /\ GoodPacket(p)
  /\ keySeen' \in BOOLEAN /\ (p.key => keySeen') /\ (keySeen' => keySeen \/ p.key)
  /\ keySeen => keySeen'
  /\ health' = "healthy" => keySeen' \/ health = "healthy"

LEMMA BumpPositive == ASSUME NEW n \in Nat PROVE Bump(n) \in Nat
<1>1. VideoWrap \in Nat /\ VideoWrap > 0 BY VideoAssumption
<1>2. (n + 1) % VideoWrap \in Nat BY <1>1
<1> QED BY <1>2 DEF Bump

LEMMA CodecConfigTyped == ASSUME NEW cf \in Configs PROVE codec_config(cf) \in Nat \X Nat
<1>1. cf.packet \in Nat \X Nat /\ cf.sps \in Nat /\ cf.pps \in Nat /\ NoConfig \in Nat \X Nat
  BY DEF Configs, NoConfig
<1>2. <<cf.sps, cf.pps>> \in Nat \X Nat BY <1>1
<1> QED BY <1>1, <1>2 DEF codec_config

LEMMA AdoptFacts ==
  ASSUME NEW cf \in Configs, NEW new \in Nat \X Nat
  PROVE  /\ Adopt(cf, new) \in Configs
         /\ Adopt(cf, new).psps = cf.psps /\ Adopt(cf, new).ppps = cf.ppps
         /\ Adopt(cf, new).sps = cf.sps /\ Adopt(cf, new).pps = cf.pps
         /\ Adopt(cf, new).packet = cf.packet
<1> DEFINE d == [cf EXCEPT !.used = new, !.gen = Bump(@)]
<1>1. cf.gen \in Nat BY DEF Configs
<1>2. Bump(cf.gen) \in Nat BY <1>1, BumpPositive
<1>3. d \in Configs BY <1>2 DEF Configs
<1>4. /\ d.psps = cf.psps /\ d.ppps = cf.ppps /\ d.sps = cf.sps /\ d.pps = cf.pps
      /\ d.packet = cf.packet BY DEF Configs
<1>5. Adopt(cf, new) = IF new \in {NoConfig, cf.used} THEN cf ELSE d BY DEF Adopt
<1> HIDE DEF d
<1> QED BY <1>3, <1>4, <1>5

\* How many pictures begin in a unit.
Begins(u) == {i \in DOMAIN u : Vcl(u[i]) /\ u[i].first}

LEMMA BeginsCounted ==
  ASSUME NEW u \in Seq(Nals)
  PROVE  /\ Cardinality(Begins(u)) \in Nat
         /\ BeginsFirst(u) => Cardinality(Begins(u)) <= 1
         /\ IsKey(u) => Cardinality(Begins(u)) >= 1
<1>1. Len(u) \in Nat /\ DOMAIN u = 1..Len(u) OBVIOUS
<1>2. IsFiniteSet(DOMAIN u) BY <1>1, FS_Interval
<1>3. Begins(u) \subseteq DOMAIN u BY DEF Begins
<1>4. IsFiniteSet(Begins(u)) BY <1>2, <1>3, FS_Subset
<1>5. Cardinality(Begins(u)) \in Nat BY <1>4, FS_CardinalityType
<1>6. ASSUME BeginsFirst(u) PROVE Cardinality(Begins(u)) <= 1
  <2>1. CASE Begins(u) = {} BY <2>1, FS_EmptySet
  <2>2. CASE Begins(u) # {}
    <3>1. PICK i \in Begins(u) : TRUE BY <2>2
    <3>2. \A j \in Begins(u) : i \in DOMAIN u /\ j \in DOMAIN u /\ i <= j /\ j <= i
      BY <1>6, <3>1 DEF BeginsFirst, Begins
    <3>3. \A j \in Begins(u) : j = i BY <1>1, <3>2
    <3>4. Begins(u) = {i} BY <3>1, <3>3
    <3>5. Cardinality({i}) = 1 BY FS_Singleton
    <3> QED BY <3>4, <3>5
  <2> QED BY <2>1, <2>2
<1>7. ASSUME IsKey(u) PROVE Cardinality(Begins(u)) >= 1
  <2>1. PICK i \in DOMAIN u : u[i].type = "idr" /\ u[i].first BY <1>7 DEF IsKey
  <2>2. i \in Begins(u) BY <2>1 DEF Begins, Vcl
  <2>3. Cardinality(Begins(u)) # 0 BY <1>4, <2>2, FS_EmptySet
  <2> QED BY <1>5, <2>3
<1> QED BY <1>5, <1>6, <1>7

LEMMA PacketFacts ==
  ASSUME NEW u \in Seq(Nals), NEW prefix \in Nat \X Nat
  PROVE  /\ Packet(u, prefix) \in Packets
         /\ Packet(u, prefix).has
              = IF HasConfig(u) THEN <<Of("sps", u, 0), Of("pps", u, 0)>> ELSE prefix
         /\ Packet(u, prefix).made = Of("idr", u, 0)
         /\ Packet(u, prefix).begins = Cardinality(Begins(u))
         /\ Packet(u, prefix).mixed
              = (\E i \in Begins(u), j \in DOMAIN u : Vcl(u[j]) /\ j < i)
         /\ ~Packet(u, prefix).torn
<1> DEFINE has == IF HasConfig(u) THEN <<Of("sps", u, 0), Of("pps", u, 0)>> ELSE prefix
           mixed == \E i \in Begins(u), j \in DOMAIN u : Vcl(u[j]) /\ j < i
<1>1. Packet(u, prefix) = [NoPacket EXCEPT !.has = has, !.made = Of("idr", u, 0),
                             !.begins = Cardinality(Begins(u)), !.mixed = mixed]
  BY DEF Packet, Begins
<1>2. Of("sps", u, 0) \in Nat /\ Of("pps", u, 0) \in Nat /\ Of("idr", u, 0) \in Nat BY OfInNat
<1>3. has \in Nat \X Nat BY <1>2
<1>4. Cardinality(Begins(u)) \in Nat BY BeginsCounted
<1>5. mixed \in BOOLEAN OBVIOUS
<1> HIDE DEF has, mixed
<1>6. /\ Packet(u, prefix).has = has /\ Packet(u, prefix).made = Of("idr", u, 0)
      /\ Packet(u, prefix).begins = Cardinality(Begins(u)) /\ Packet(u, prefix).mixed = mixed
      /\ Packet(u, prefix).torn = FALSE
  BY <1>1 DEF NoPacket
<1>7. Packet(u, prefix) = [key |-> FALSE, has |-> has, made |-> Of("idr", u, 0),
                           begins |-> Cardinality(Begins(u)), mixed |-> mixed, disc |-> FALSE,
                           torn |-> FALSE, of |-> NoConfig, gen |-> 0]
  BY <1>1 DEF NoPacket
<1>8. NoConfig \in Nat \X Nat BY DEF NoConfig
<1>9. Packet(u, prefix) \in Packets
  BY <1>2, <1>3, <1>4, <1>5, <1>7, <1>8 DEF Packets
<1> QED BY <1>6, <1>9 DEF has, mixed

\* A unit that is complete and matches gives a packet that can be decoded.
LEMMA ProcessFacts ==
  ASSUME VideoTypeOK, NEW u \in Seq(Nals), process_access_unit(u), BeginsFirst(u),
         ~torn => Complete(u) /\ Matches(u, config)
  PROVE  /\ config' \in Configs
         /\ config'.psps = Of("sps", u, config.psps) /\ config'.ppps = Of("pps", u, config.ppps)
         /\ \E p : Publishes(p)
<1> DEFINE sp == Of("sps", u, config.psps)
           pp == Of("pps", u, config.ppps)
           c0 == [config EXCEPT !.psps = sp, !.ppps = pp]
           own == IsKey(u) /\ c0.psps # 0 /\ c0.ppps # 0
           new == IF own THEN <<c0.psps, c0.ppps>>
                  ELSE IF IsKey(u) THEN codec_config(c0) ELSE NoConfig
           c1 == IF own THEN [Adopt(c0, new) EXCEPT !.sps = c0.psps, !.pps = c0.ppps, !.packet = NoConfig]
                 ELSE c0
           key == IsKey(u) /\ new # NoConfig
           prefix == IF key THEN new ELSE NoConfig
           plain == Packet(u, prefix)
           p == [plain EXCEPT !.key = key, !.torn = torn, !.of = c1.used, !.disc = c1.gen # config.gen]
<1>1. config \in Configs /\ config.psps \in Nat /\ config.ppps \in Nat BY DEF VideoTypeOK, Configs
<1>2. sp \in Nat /\ pp \in Nat BY <1>1, OfInNat
<1>3. c0 \in Configs /\ c0.psps = sp /\ c0.ppps = pp BY <1>1, <1>2 DEF Configs
<1>4. /\ config' = c1 /\ keySeen' = (keySeen \/ key) /\ loopQueue' = Append(loopQueue, p)
      /\ health' = CASE key -> "healthy"
                     [] codec_config(c1) = NoConfig -> "waiting_config"
                     [] ~keySeen -> "waiting_keyframe"
                     [] OTHER -> IF HasConfig(u) THEN "waiting_config" ELSE health
  BY Zenon DEF process_access_unit, Enqueue
<1> HIDE DEF sp, pp, c0
<1>5. NoConfig \in Nat \X Nat BY DEF NoConfig
<1>6. codec_config(c0) \in Nat \X Nat BY <1>3, CodecConfigTyped
<1>7. new \in Nat \X Nat BY <1>2, <1>3, <1>5, <1>6
<1>8. own \in BOOLEAN /\ key \in BOOLEAN OBVIOUS
<1>k. key => IsKey(u) /\ new # NoConfig OBVIOUS
<1>9. own => new = <<sp, pp>> BY <1>3
<1>10. own <=> IsKey(u) /\ sp # 0 /\ pp # 0 BY <1>3
<1> HIDE DEF new, own
<1>11. c1 \in Configs /\ c1.psps = sp /\ c1.ppps = pp
  <2>1. CASE own
    <3> DEFINE a == Adopt(c0, new)
    <3>1. a \in Configs /\ a.psps = sp /\ a.ppps = pp BY <1>3, <1>7, AdoptFacts
    <3>2. c1 = [a EXCEPT !.sps = c0.psps, !.pps = c0.ppps, !.packet = NoConfig] BY <2>1
    <3> HIDE DEF a
    <3> HIDE DEF c1
    <3>3. c1 \in Configs BY <3>1, <3>2, <1>2, <1>3, <1>5 DEF Configs
    <3>4. c1.psps = sp /\ c1.ppps = pp BY <3>1, <3>2 DEF Configs
    <3> QED BY <3>3, <3>4
  <2>2. CASE ~own
    <3>1. c1 = c0 BY <2>2
    <3> QED BY <3>1, <1>3
  <2> QED BY <2>1, <2>2
<1> HIDE DEF c1
<1>12. prefix \in Nat \X Nat BY <1>5, <1>7
<1> HIDE DEF key
<1>13. /\ plain \in Packets
       /\ plain.has = IF HasConfig(u) THEN <<Of("sps", u, 0), Of("pps", u, 0)>> ELSE prefix
       /\ plain.made = Of("idr", u, 0) /\ plain.begins = Cardinality(Begins(u))
       /\ plain.mixed = (\E i \in Begins(u), j \in DOMAIN u : Vcl(u[j]) /\ j < i)
  <2> HIDE DEF prefix
  <2> QED BY <1>12, PacketFacts
<1>14. key => prefix = new OBVIOUS
<1> HIDE DEF prefix, plain
<1>15. /\ p.key = key /\ p.torn = torn /\ p.has = plain.has /\ p.made = plain.made
       /\ p.begins = plain.begins /\ p.mixed = plain.mixed
  BY <1>13 DEF Packets
<1>16. p \in Packets
  <2>1. torn \in BOOLEAN /\ (c1.gen # config.gen) \in BOOLEAN /\ c1.used \in Nat \X Nat
    BY <1>11 DEF VideoTypeOK, Configs
  <2> DEFINE d == c1.gen # config.gen
  <2>2. d \in BOOLEAN /\ p = [plain EXCEPT !.key = key, !.torn = torn, !.of = c1.used, !.disc = d] OBVIOUS
  <2> HIDE DEF p, d
  <2> QED BY <1>8, <1>13, <2>1, <2>2 DEF Packets
<1> HIDE DEF p
<1>17. DecodablePacket(p)
  <2> SUFFICES ASSUME key, ~torn PROVE plain.has = <<plain.made, plain.made>>
    BY <1>15 DEF DecodablePacket
  <2>1. IsKey(u) /\ Complete(u) /\ Matches(u, config) BY <1>k
  <2>2. sp = plain.made /\ pp = plain.made /\ plain.made # 0
    BY <2>1, <1>13 DEF Matches, KnownAfter, sp, pp
  <2>3. new = <<sp, pp>> BY <1>9, <1>10, <2>1, <2>2
  <2>4. CASE HasConfig(u)
    <3>1. HasType(u, "sps") /\ HasType(u, "pps") BY <2>1, <2>4 DEF Complete
    <3>2. Of("sps", u, 0) = sp /\ Of("pps", u, 0) = pp BY <3>1, OfElse DEF sp, pp
    <3> QED BY <1>13, <2>2, <2>4, <3>2
  <2>5. CASE ~HasConfig(u) BY <1>13, <1>14, <2>2, <2>3, <2>5
  <2> QED BY <2>4, <2>5
<1>18. PicturePacket(p)
  <2>1. p.begins <= 1 BY <1>13, <1>15, BeginsCounted
  <2>2. ~plain.mixed
    <3>1. ASSUME NEW i \in Begins(u), NEW j \in DOMAIN u, Vcl(u[j]), j < i PROVE FALSE
      <4>1. i \in DOMAIN u /\ i <= j BY <3>1 DEF Begins, BeginsFirst
      <4>2. i \in Nat /\ j \in Nat
        <5>1. DOMAIN u = 1..Len(u) OBVIOUS
        <5> QED BY <4>1, <5>1
      <4> QED BY <3>1, <4>1, <4>2
    <3>2. ~ (\E i \in Begins(u), j \in DOMAIN u : Vcl(u[j]) /\ j < i) BY <3>1
    <3> QED BY <1>13, <3>2
  <2>3. p.key => p.begins >= 1 BY <1>13, <1>15, <1>k, BeginsCounted
  <2> QED BY <1>15, <2>1, <2>2, <2>3 DEF PicturePacket
<1>19. health' = "healthy" => keySeen' \/ health = "healthy"
  <2>1. CASE key BY <1>4, <2>1
  <2>2. CASE ~key BY <1>4, <2>2
  <2> QED BY <2>1, <2>2
<1>20. Publishes(p)
  <2>1. keySeen \in BOOLEAN BY DEF VideoTypeOK
  <2>2. /\ keySeen' \in BOOLEAN /\ (p.key => keySeen') /\ (keySeen' => keySeen \/ p.key)
        /\ keySeen => keySeen'
    BY <1>4, <1>8, <1>15, <2>1
  <2>3. loopQueue' = Append(loopQueue, p) BY <1>4 DEF p
  <2> QED BY <1>16, <1>17, <1>18, <1>19, <2>2, <2>3 DEF Publishes, GoodPacket
<1> QED BY <1>4, <1>11, <1>20 DEF sp, pp

(* The pending unit of mode "raw" *)

\* What is true of the pending unit u with the configuration cf, the encoder e
\* and the mark t of a loss: a picture begins in it at most once, and before
\* anything else of it; since the last loss, the configuration in force after
\* it is the one its key frame needs and, past the encoder's pair, the encoder's.
UnitGood(u, cf, e, t) ==
  /\ BeginsFirst(u)
  /\ e.due \in {"pps", "idr"} => ~HasVcl(u)
  /\ e.due = "pps" /\ u # <<>> => u[Len(u)].type = "sps" /\ u[Len(u)].v = e.v
  /\ ~t => /\ e.due = "pps" => u # <<>>
           /\ e.due # "pps" => Complete(u)
           /\ Matches(u, cf)
           /\ e.due \in {"idr", "any"} => KnownAfter(u, cf) = <<e.v, e.v>>

LEMMA NoUnit ==
  ASSUME NEW cf, NEW e
  PROVE  UnitGood(<<>>, cf, e, TRUE)
BY DEF UnitGood, BeginsFirst, HasVcl

LEMMA VclAppend ==
  ASSUME NEW u \in Seq(Nals), NEW n \in Nals
  PROVE  HasVcl(Append(u, n)) <=> HasVcl(u) \/ Vcl(n)
<1> DEFINE w == Append(u, n)
<1>1. /\ w[Len(u) + 1] = n /\ DOMAIN w = 1..(Len(u) + 1) /\ DOMAIN u = 1..Len(u) /\ Len(u) \in Nat
      /\ \A i \in DOMAIN u : w[i] = u[i] BY AppendedFacts
<1> HIDE DEF w
<1>2. \A i \in DOMAIN w : i \in DOMAIN u \/ i = Len(u) + 1 BY <1>1
<1>3. Len(u) + 1 \in DOMAIN w /\ \A i \in DOMAIN u : i \in DOMAIN w BY <1>1
<1>4. HasVcl(w) <=> HasVcl(u) \/ Vcl(n) BY <1>1, <1>2, <1>3 DEF HasVcl
<1> QED BY <1>4 DEF w

LEMMA KeyHasVcl == ASSUME NEW u, IsKey(u) PROVE HasVcl(u)
BY DEF IsKey, HasVcl, Vcl

LEMMA KeyAppend ==
  ASSUME NEW u \in Seq(Nals), NEW n \in Nals, n.type # "idr", IsKey(Append(u, n))
  PROVE  IsKey(u)
<1> DEFINE w == Append(u, n)
<1>1. /\ w[Len(u) + 1] = n /\ DOMAIN w = 1..(Len(u) + 1) /\ DOMAIN u = 1..Len(u) /\ Len(u) \in Nat
      /\ \A i \in DOMAIN u : w[i] = u[i] BY AppendedFacts
<1> HIDE DEF w
<1>2. \A i \in DOMAIN w : i \in DOMAIN u \/ i = Len(u) + 1 BY <1>1
<1>3. IsKey(w) BY DEF w
<1> QED BY <1>1, <1>2, <1>3 DEF IsKey

LEMMA BeginsAppend ==
  ASSUME NEW u \in Seq(Nals), NEW n \in Nals, BeginsFirst(u),
         Vcl(n) /\ n.first => ~HasVcl(u)
  PROVE  BeginsFirst(Append(u, n))
<1> DEFINE w == Append(u, n)
<1>1. /\ w[Len(u) + 1] = n /\ DOMAIN w = 1..(Len(u) + 1) /\ DOMAIN u = 1..Len(u) /\ Len(u) \in Nat
      /\ \A i \in DOMAIN u : w[i] = u[i] BY AppendedFacts
<1> HIDE DEF w
<1>2. SUFFICES ASSUME NEW i \in DOMAIN w, NEW j \in DOMAIN w, Vcl(w[i]), w[i].first, Vcl(w[j])
               PROVE  i <= j
  BY DEF w, BeginsFirst
<1>3. i \in 1..(Len(u) + 1) /\ j \in 1..(Len(u) + 1) BY <1>1, <1>2
<1>4. CASE j = Len(u) + 1 BY <1>1, <1>3, <1>4
<1>5. CASE j # Len(u) + 1
  <2>1. j \in DOMAIN u /\ Vcl(u[j]) BY <1>1, <1>2, <1>3, <1>5
  <2>2. HasVcl(u) BY <2>1 DEF HasVcl
  <2>3. i # Len(u) + 1 BY <1>1, <1>2, <2>2
  <2>4. i \in DOMAIN u /\ Vcl(u[i]) /\ u[i].first BY <1>1, <1>2, <1>3, <2>3
  <2> QED BY <2>1, <2>4 DEF BeginsFirst
<1> QED BY <1>4, <1>5

\* What n is appended to: nothing at a boundary, else the pending unit.
Base(u, n) == IF HasVcl(u) /\ ((Vcl(n) /\ n.first) \/ n.type \in {"aud", "sps", "pps"})
              THEN <<>> ELSE u

\* The due NAL unit n of the encoder e, which is due to send f after it.
DueNal(n, e, f) ==
  /\ n.type # "bad" /\ (n.type # "aud" => n.v = e.v)
  /\ CASE n.type = "sps" -> e.due # "pps"
       [] n.type = "pps" -> e.due = "pps"
       [] e.due = "idr" -> n.type = "idr" /\ n.first
       [] OTHER -> e.due = "any"
  /\ f.v = e.v
  /\ f.due = CASE n.type = "sps" -> "pps"
               [] n.type = "pps" -> "idr"
               [] OTHER -> "any"

LEMMA UnitStep ==
  ASSUME NEW u \in Seq(Nals), NEW n \in Nals, NEW cf, NEW d, NEW t \in BOOLEAN, NEW s \in BOOLEAN,
         NEW e \in [v : Nat \ {0}, due : {"sps", "pps", "idr", "any"}], NEW f,
         UnitGood(u, cf, e, t), DueNal(n, e, f),
         KnownAfter(Base(u, n), d) = KnownAfter(u, cf),
         Base(u, n) = u => d = cf,
         s = (t /\ (n.type # "pps" \/ Of("sps", Append(Base(u, n), n), 0) = 0))
  PROVE  UnitGood(Append(Base(u, n), n), d, f, s)
<1> DEFINE b == Base(u, n)
           w == Append(b, n)
<1>1. b \in Seq(Nals) /\ (b = <<>> \/ b = u) BY DEF Base
<1>2. BeginsFirst(b) /\ ~HasVcl(<<>>) /\ ~HasConfig(<<>>)
  <2>1. BeginsFirst(<<>>) BY DEF BeginsFirst
  <2>2. ~HasVcl(<<>>) /\ ~HasConfig(<<>>) BY DEF HasVcl, HasConfig
  <2> QED BY <1>1, <2>1, <2>2 DEF UnitGood
<1>3. (Vcl(n) /\ n.first) \/ n.type \in {"aud", "sps", "pps"} => ~HasVcl(b) BY <1>2 DEF Base
<1>4. ~HasVcl(u) => b = u BY DEF Base
<1>5. n.type \in {"idr", "slice", "aud", "sps", "pps"} BY DEF Nals, DueNal
<1>n. Vcl(n) <=> n.type \in {"idr", "slice"} BY DEF Vcl
<1>6. /\ n.type = "sps" => e.due # "pps" /\ f.due = "pps"
      /\ n.type = "pps" => e.due = "pps" /\ f.due = "idr"
      /\ n.type \in {"idr", "slice", "aud"} => e.due \in {"idr", "any"} /\ f.due = "any"
      /\ f.v = e.v /\ e.v \in Nat \ {0} /\ (n.type # "aud" => n.v = e.v)
  BY <1>5 DEF DueNal
<1>7. w \in Seq(Nals) /\ w # <<>> /\ w[Len(w)] = n BY <1>1, AppendedFacts
<1>8. Of(n.type, w, 0) = n.v /\ HasType(w, n.type)
      /\ \A else : Of(n.type, w, else) = n.v
  BY <1>1, OfAppendSame
<1>9. \A type : n.type # type => /\ HasType(w, type) <=> HasType(b, type)
                                 /\ \A else : Of(type, w, else) = Of(type, b, else)
  BY <1>1, HasTypeAppendOther, OfAppendOther
<1>10. HasVcl(w) <=> HasVcl(b) \/ Vcl(n) BY <1>1, VclAppend
<1>11. KnownAfter(b, d) = KnownAfter(u, cf) /\ (b = u => d = cf) OBVIOUS
<1>12. s = (t /\ (n.type # "pps" \/ Of("sps", w, 0) = 0)) OBVIOUS
<1>13. BeginsFirst(w) BY <1>1, <1>2, <1>3, BeginsAppend
<1> HIDE DEF b, w
\* A pps that ends a loss, or follows none, follows its sps.
<1>14. ASSUME ~s, n.type = "pps"
       PROVE  /\ b = u /\ u # <<>> /\ HasType(w, "sps") /\ HasType(w, "pps")
              /\ \A else : Of("sps", w, else) = e.v
  <2>1. e.due = "pps" /\ ~HasVcl(u) BY <1>6, <1>14 DEF UnitGood
  <2>2. b = u BY <1>4, <2>1
  <2>3. u # <<>>
    <3>1. CASE ~t BY <2>1, <3>1 DEF UnitGood
    <3>2. CASE t
      <4>1. Of("sps", w, 0) # 0 BY <1>12, <1>14, <3>2
      <4>2. Of("sps", b, 0) # 0 BY <1>9, <1>14, <4>1
      <4>3. Of("sps", <<>>, 0) = 0
        <5>1. ~HasType(<<>>, "sps") BY DEF HasType
        <5> QED BY <5>1, OfNone
      <4> QED BY <2>2, <4>2, <4>3
    <3> QED BY <3>1, <3>2
  <2>4. u[Len(u)].type = "sps" /\ u[Len(u)].v = e.v BY <2>1, <2>3 DEF UnitGood
  <2>5. Len(u) \in DOMAIN u /\ \A j \in DOMAIN u : j <= Len(u) BY <2>3
  <2>6. HasType(u, "sps") BY <2>4, <2>5 DEF HasType
  <2>7. \A else : Of("sps", u, else) = e.v BY <2>4, <2>5, OfLast
  <2> QED BY <1>8, <1>9, <1>14, <2>2, <2>3, <2>6, <2>7
<1>15. ASSUME ~s, n.type # "pps" PROVE ~t BY <1>12, <1>15
<1>16. ASSUME ~s, f.due # "pps" PROVE Complete(w)
  <2>1. CASE n.type = "pps" BY <1>14, <1>16, <2>1 DEF Complete
  <2>2. CASE n.type # "pps"
    <3>1. n.type \in {"idr", "slice", "aud"} BY <1>5, <1>6, <1>16, <2>2
    <3>2. ~t /\ e.due # "pps" BY <1>6, <1>15, <1>16, <2>2, <3>1
    <3>3. Complete(u) BY <3>2 DEF UnitGood
    <3>4. ASSUME HasConfig(w) PROVE HasType(w, "sps") /\ HasType(w, "pps")
      <4>1. HasConfig(w) <=> HasType(w, "sps") \/ HasType(w, "pps") BY DEF HasConfig, HasType
      <4>2. HasConfig(b) <=> HasType(b, "sps") \/ HasType(b, "pps") BY DEF HasConfig, HasType
      <4>3. HasConfig(b) BY <1>9, <3>1, <3>4, <4>1, <4>2
      <4>4. b = u BY <1>1, <1>2, <4>3
      <4>5. HasType(b, "sps") /\ HasType(b, "pps") BY <3>3, <4>3, <4>4 DEF Complete
      <4> QED BY <1>9, <3>1, <4>5
    <3> QED BY <3>4 DEF Complete
  <2> QED BY <2>1, <2>2
<1>17. ASSUME ~s, f.due \in {"idr", "any"} PROVE KnownAfter(w, d) = <<f.v, f.v>>
  <2>1. CASE n.type = "pps"
    <3>1. Of("sps", w, d.psps) = e.v BY <1>14, <1>17, <2>1
    <3>2. Of("pps", w, d.ppps) = e.v BY <1>6, <1>8, <2>1
    <3> QED BY <1>6, <3>1, <3>2 DEF KnownAfter
  <2>2. CASE n.type # "pps"
    <3>1. n.type \in {"idr", "slice", "aud"} BY <1>5, <1>6, <1>17, <2>2
    <3>2. ~t /\ e.due \in {"idr", "any"} BY <1>6, <1>15, <1>17, <2>2, <3>1
    <3>3. KnownAfter(u, cf) = <<e.v, e.v>> BY <3>2 DEF UnitGood
    <3>4. KnownAfter(w, d) = KnownAfter(b, d) BY <1>9, <3>1 DEF KnownAfter
    <3> QED BY <1>6, <1>11, <3>3, <3>4
  <2> QED BY <2>1, <2>2
<1>18. ASSUME ~s, IsKey(w)
       PROVE  /\ KnownAfter(w, d) = <<Of("idr", w, 0), Of("idr", w, 0)>>
              /\ Of("idr", w, 0) # 0
  <2>1. HasVcl(w) BY <1>18, KeyHasVcl
  <2>2. n.type \in {"idr", "slice"} BY <1>3, <1>5, <1>10, <1>n, <2>1
  <2>3. ~t BY <1>15, <1>18, <2>2
  <2>4. CASE n.type = "idr"
    <3>1. Of("idr", w, 0) = e.v BY <1>6, <1>8, <2>4
    <3>2. f.due = "any" BY <1>6, <2>4
    <3> QED BY <1>6, <1>17, <1>18, <3>1, <3>2
  <2>5. CASE n.type = "slice"
    <3>1. IsKey(b) BY <1>1, <1>18, <2>5, KeyAppend DEF w
    <3>2. b = u BY <1>1, <1>2, <3>1, KeyHasVcl
    <3>3. Matches(u, cf) BY <2>3 DEF UnitGood
    <3>4. /\ KnownAfter(u, cf) = <<Of("idr", u, 0), Of("idr", u, 0)>> /\ Of("idr", u, 0) # 0
      BY <3>1, <3>2, <3>3 DEF Matches
    <3>5. Of("idr", w, 0) = Of("idr", u, 0) /\ KnownAfter(w, d) = KnownAfter(b, d)
      BY <1>9, <2>5, <3>2 DEF KnownAfter
    <3> QED BY <1>11, <3>4, <3>5
  <2> QED BY <2>2, <2>4, <2>5
<1>19. f.due \in {"pps", "idr"} => ~HasVcl(w)
  <2>1. f.due \in {"pps", "idr"} => n.type \in {"sps", "pps"} BY <1>5, <1>6
  <2>2. n.type \in {"sps", "pps"} => ~HasVcl(w) BY <1>3, <1>10, <1>n
  <2> QED BY <2>1, <2>2
<1>20. f.due = "pps" => w[Len(w)].type = "sps" /\ w[Len(w)].v = f.v
  <2>1. f.due = "pps" => n.type = "sps" BY <1>5, <1>6
  <2> QED BY <1>6, <1>7, <2>1
<1>21. UnitGood(w, d, f, s)
  <2>1. ~s => Matches(w, d) BY <1>18 DEF Matches
  <2> QED BY <1>7, <1>13, <1>16, <1>17, <1>19, <1>20, <2>1 DEF UnitGood
<1> QED BY <1>21 DEF b, w

QueueInv ==
  /\ \A i \in DOMAIN loopQueue : GoodPacket(loopQueue[i])
  /\ DecodablePacket(latest)
  /\ keySeen => latest.key \/ \E i \in DOMAIN loopQueue : loopQueue[i].key
  /\ health = "healthy" => keySeen
  /\ latest.key /\ streamMode # "legacy" => sequence # 0

ProtocolGood(cf, e) ==
  /\ cf.sps = 0
  /\ e.due \in {"idr", "any"} => cf.packet \in {NoConfig, <<e.v, e.v>>}

LegacyGood(cf, e) ==
  /\ cf.packet = NoConfig
  /\ e.due \in {"pps", "idr", "any"} => cf.sps = e.v
  /\ e.due \in {"idr", "any"} => cf.pps = e.v

SourceGood(m, u, cf, e, t) ==
  /\ m = "raw" => UnitGood(u, cf, e, t)
  /\ m = "protocol" => ProtocolGood(cf, e)
  /\ m \notin {"raw", "protocol"} => LegacyGood(cf, e)

VideoInv == VideoTypeOK /\ QueueInv /\ SourceGood(streamMode, unit, config, encoder, torn)

\* A good packet may be enqueued.
LEMMA EnqueueStep ==
  ASSUME VideoTypeOK, QueueInv, NEW p, Publishes(p), UNCHANGED <<streamMode, sequence, latest>>
  PROVE  QueueInv' /\ loopQueue' \in Seq(Packets) /\ keySeen' \in BOOLEAN /\ latest' \in Packets
<1>1. /\ p \in Packets /\ loopQueue' = Append(loopQueue, p) /\ loopQueue \in Seq(Packets)
      /\ GoodPacket(p) /\ keySeen' \in BOOLEAN /\ (keySeen' => keySeen \/ p.key)
      /\ (keySeen => keySeen') /\ (health' = "healthy" => keySeen' \/ health = "healthy")
      /\ streamMode' = streamMode /\ sequence' = sequence /\ latest' = latest
      /\ latest \in Packets
  BY DEF Publishes, VideoTypeOK
<1>2. /\ loopQueue' \in Seq(Packets) /\ Len(loopQueue) + 1 \in DOMAIN loopQueue'
      /\ loopQueue'[Len(loopQueue) + 1] = p
      /\ DOMAIN loopQueue' = 1..(Len(loopQueue) + 1) /\ DOMAIN loopQueue = 1..Len(loopQueue)
      /\ Len(loopQueue) \in Nat /\ \A i \in DOMAIN loopQueue : loopQueue'[i] = loopQueue[i]
  BY <1>1, AppendedFacts
<1>3. ASSUME NEW i \in DOMAIN loopQueue' PROVE GoodPacket(loopQueue'[i])
  <2>1. CASE i \in DOMAIN loopQueue BY <1>2, <2>1 DEF QueueInv
  <2>2. CASE i \notin DOMAIN loopQueue
    <3>1. i = Len(loopQueue) + 1 BY <1>2, <2>2
    <3> QED BY <1>1, <1>2, <3>1
  <2> QED BY <2>1, <2>2
<1>4. (\A i \in DOMAIN loopQueue : GoodPacket(loopQueue[i]))'
  <2> SUFFICES ASSUME NEW i \in DOMAIN loopQueue' PROVE GoodPacket(loopQueue[i])' OBVIOUS
  <2>1. GoodPacket(loopQueue'[i]) BY <1>3
  <2> QED BY <1>1, <2>1 DEF GoodPacket, DecodablePacket, PicturePacket
<1>5. keySeen' => latest'.key \/ \E i \in DOMAIN loopQueue' : loopQueue'[i].key
  <2>1. CASE keySeen
    <3>1. CASE latest.key BY <1>1, <3>1
    <3>2. CASE ~latest.key
      <4>1. PICK i \in DOMAIN loopQueue : loopQueue[i].key BY <2>1, <3>2 DEF QueueInv
      <4>2. i \in DOMAIN loopQueue' /\ loopQueue'[i] = loopQueue[i] BY <1>2
      <4> QED BY <4>1, <4>2
    <3> QED BY <3>1, <3>2
  <2>2. CASE ~keySeen BY <1>1, <1>2, <2>2
  <2> QED BY <2>1, <2>2
<1>6. DecodablePacket(latest)' BY <1>1 DEF QueueInv, DecodablePacket
<1>7. health' = "healthy" => keySeen' BY <1>1 DEF QueueInv
<1>8. latest'.key /\ streamMode' # "legacy" => sequence' # 0 BY <1>1 DEF QueueInv
<1> QED BY <1>1, <1>2, <1>4, <1>5, <1>6, <1>7, <1>8 DEF QueueInv

\* Nothing is enqueued.
LEMMA QuietStep ==
  ASSUME QueueInv, UNCHANGED <<streamMode, sequence, latest, loopQueue, keySeen>>,
         health' = "healthy" => health = "healthy"
  PROVE  QueueInv'
BY DEF QueueInv, GoodPacket, DecodablePacket, PicturePacket

LEMMA RawStep ==
  ASSUME VideoTypeOK, QueueInv, UNCHANGED <<streamMode, sequence, latest>>, NEW n \in Nals,
         streamMode = "raw", UnitGood(unit, config, encoder, torn), RawNal(n),
         n.type = "bad" \/ DueNal(n, encoder, encoder')
  PROVE  /\ QueueInv' /\ loopQueue' \in Seq(Packets) /\ keySeen' \in BOOLEAN
         /\ latest' \in Packets /\ config' \in Configs /\ torn' \in BOOLEAN
         /\ unit' \in Seq(Nals) /\ UnitGood(unit', config', encoder', torn')
<1>1. /\ unit \in Seq(Nals) /\ torn \in BOOLEAN /\ config \in Configs /\ keySeen \in BOOLEAN
      /\ loopQueue \in Seq(Packets) /\ latest \in Packets
      /\ encoder \in [v : Nat \ {0}, due : {"sps", "pps", "idr", "any"}]
  BY DEF VideoTypeOK
<1>2. torn' = (unit' = <<>> \/ (torn /\ (n.type # "pps" \/ Of("sps", unit', 0) = 0)))
  BY DEF RawNal
<1>3. torn' \in BOOLEAN BY <1>1, <1>2
<1>4. CASE n.type = "bad"
  <2>0. ~Boundary(n) BY <1>4 DEF Boundary, Vcl
  <2>1. unit' = <<>> /\ UNCHANGED <<config, health, keySeen, loopQueue>> BY <1>4, <2>0 DEF RawNal
  <2>2. torn' = TRUE BY <1>2, <2>1
  <2>3. QueueInv' BY <2>1, QuietStep
  <2>4. UnitGood(unit', config', encoder', torn') BY <2>1, <2>2, NoUnit
  <2>5. unit' \in Seq(Nals) BY <2>1
  <2> QED BY <1>1, <1>3, <2>1, <2>3, <2>4, <2>5
<1>5. CASE n.type # "bad"
  <2> DEFINE b == Base(unit, n)
  <2>1. DueNal(n, encoder, encoder') BY <1>5
  <2>2. b = IF Boundary(n) THEN <<>> ELSE unit BY DEF Boundary, Base
  <2>3. unit' = Appended(b, n)
    <3>1. CASE Boundary(n) BY <1>5, <2>2, <3>1 DEF RawNal
    <3>2. CASE ~Boundary(n) BY <1>5, <2>2, <3>2 DEF RawNal
    <3> QED BY <3>1, <3>2
  <2>4. b \in Seq(Nals) BY <1>1, <2>2
  <2>5. Append(b, n) \in Seq(Nals) /\ Append(b, n) # <<>> BY <2>4, AppendedFacts
  <2>6. /\ QueueInv' /\ loopQueue' \in Seq(Packets) /\ keySeen' \in BOOLEAN
        /\ latest' \in Packets /\ config' \in Configs
        /\ KnownAfter(b, config') = KnownAfter(unit, config) /\ (b = unit => config' = config)
    <3>1. CASE Boundary(n)
      <4>1. process_access_unit(unit) BY <1>5, <3>1 DEF RawNal
      <4>2. HasVcl(unit) BY <3>1 DEF Boundary
      <4>3. BeginsFirst(unit) BY DEF UnitGood
      <4>4. ~torn => Complete(unit) /\ Matches(unit, config)
        <5>1. encoder.due # "pps" BY <4>2 DEF UnitGood
        <5> QED BY <5>1 DEF UnitGood
      <4>5. /\ config' \in Configs
            /\ config'.psps = Of("sps", unit, config.psps)
            /\ config'.ppps = Of("pps", unit, config.ppps)
            /\ \E p : Publishes(p)
        BY <1>1, <4>1, <4>3, <4>4, ProcessFacts
      <4>6. QueueInv' /\ loopQueue' \in Seq(Packets) /\ keySeen' \in BOOLEAN /\ latest' \in Packets
        BY <4>5, EnqueueStep
      <4>7. b = <<>> BY <2>2, <3>1
      <4>8. \A type, else : Of(type, <<>>, else) = else
        <5>1. \A type : ~HasType(<<>>, type) BY DEF HasType
        <5> QED BY <5>1, OfNone
      <4>9. KnownAfter(b, config') = KnownAfter(unit, config) BY <4>5, <4>7, <4>8 DEF KnownAfter
      <4>10. unit # <<>> BY <4>2 DEF HasVcl
      <4> QED BY <4>5, <4>6, <4>7, <4>9, <4>10
    <3>2. CASE ~Boundary(n)
      <4>1. UNCHANGED <<config, health, keySeen, loopQueue>> BY <1>5, <3>2 DEF RawNal
      <4>2. QueueInv' BY <4>1, QuietStep
      <4>3. b = unit BY <2>2, <3>2
      <4> QED BY <1>1, <4>1, <4>2, <4>3
    <3> QED BY <3>1, <3>2
  <2>7. unit' \in Seq(Nals) /\ UnitGood(unit', config', encoder', torn')
    <3>1. CASE unit' = <<>>
      <4>1. torn' = TRUE BY <1>2, <3>1
      <4>2. UnitGood(unit', config', encoder', torn') BY <3>1, <4>1, NoUnit
      <4>3. unit' \in Seq(Nals) BY <3>1
      <4> QED BY <4>2, <4>3
    <3>2. CASE unit' # <<>>
      <4>1. unit' = Append(b, n) BY <2>3, <3>2 DEF Appended
      <4>2. torn' = (torn /\ (n.type # "pps" \/ Of("sps", Append(b, n), 0) = 0))
        BY <1>2, <3>2, <4>1
      <4>3. UnitGood(Append(b, n), config', encoder', torn')
        BY <1>1, <1>3, <2>1, <2>6, <4>2, UnitStep
      <4> QED BY <2>5, <4>1, <4>3
    <3> QED BY <3>1, <3>2
  <2> HIDE DEF b
  <2> QED BY <1>3, <2>6, <2>7
<1> QED BY <1>4, <1>5

LEMMA LegacyStep ==
  ASSUME VideoTypeOK, QueueInv, UNCHANGED <<streamMode, sequence, latest>>, NEW n \in Nals,
         streamMode \notin {"raw", "protocol"}, LegacyGood(config, encoder), LegacyNal(n),
         n.type = "bad" \/ DueNal(n, encoder, encoder'),
         n.type = "bad" => encoder' = encoder
  PROVE  /\ QueueInv' /\ loopQueue' \in Seq(Packets) /\ keySeen' \in BOOLEAN
         /\ latest' \in Packets /\ config' \in Configs
         /\ UNCHANGED <<torn, unit>> /\ LegacyGood(config', encoder')
<1> DEFINE cf == [config EXCEPT !.sps = IF n.type = "sps" THEN n.v ELSE @,
                               !.pps = IF n.type = "pps" THEN n.v ELSE @]
           key == (n.type = "idr" /\ n.first) /\ codec_config(cf) # NoConfig
           prefix == IF key THEN codec_config(cf) ELSE NoConfig
           plain == Packet(<<n>>, prefix)
           p == [plain EXCEPT !.key = key]
<1>1. /\ config' = cf /\ keySeen' = (keySeen \/ key) /\ loopQueue' = Append(loopQueue, p)
      /\ health' = IF n.type \in {"sps", "pps"} THEN "config" ELSE IF key THEN "healthy" ELSE health
      /\ UNCHANGED <<unit, torn>>
  BY Zenon DEF LegacyNal, Enqueue
<1>2. /\ config \in Configs /\ n.v \in Nat /\ keySeen \in BOOLEAN
      /\ encoder \in [v : Nat \ {0}, due : {"sps", "pps", "idr", "any"}]
      /\ n.type \in {"idr", "slice", "aud", "bad", "sps", "pps"}
  BY DEF VideoTypeOK, Nals
<1>3. config.sps \in Nat /\ config.pps \in Nat BY <1>2 DEF Configs
<1>4. /\ cf.sps = (IF n.type = "sps" THEN n.v ELSE config.sps)
      /\ cf.pps = (IF n.type = "pps" THEN n.v ELSE config.pps)
      /\ cf.packet = config.packet
  BY <1>2 DEF Configs
<1>5. cf \in Configs BY <1>2, <1>3 DEF Configs
<1> HIDE DEF cf
<1>6. codec_config(cf) \in Nat \X Nat /\ NoConfig \in Nat \X Nat
  BY <1>5, CodecConfigTyped DEF NoConfig
<1>7. prefix \in Nat \X Nat BY <1>6
<1>8. <<n>> \in Seq(Nals) /\ Of("idr", <<n>>, 0) = (IF n.type = "idr" THEN n.v ELSE 0)
  BY OfOne
<1>9. key => n.type = "idr" /\ n.first /\ codec_config(cf) # NoConfig /\ prefix = codec_config(cf)
  OBVIOUS
<1>10. key \in BOOLEAN OBVIOUS
<1> HIDE DEF key, prefix
<1>11. /\ plain \in Packets /\ ~plain.torn /\ plain.made = Of("idr", <<n>>, 0)
       /\ plain.has = IF HasConfig(<<n>>) THEN <<Of("sps", <<n>>, 0), Of("pps", <<n>>, 0)>> ELSE prefix
  BY <1>7, <1>8, PacketFacts
<1> HIDE DEF plain
<1>12. p \in Packets /\ p.key = key /\ p.has = plain.has /\ p.made = plain.made
  BY <1>10, <1>11 DEF Packets
<1>13. DecodablePacket(p)
  <2> SUFFICES ASSUME key PROVE plain.has = <<plain.made, plain.made>>
    BY <1>12 DEF DecodablePacket
  <2>1. n.type = "idr" BY <1>9
  <2>2. encoder.due \in {"idr", "any"} /\ n.v = encoder.v BY <1>2, <2>1 DEF DueNal
  <2>3. cf.sps = encoder.v /\ cf.pps = encoder.v /\ cf.packet = NoConfig /\ encoder.v # 0
    BY <1>2, <1>4, <2>1, <2>2 DEF LegacyGood
  <2>4. codec_config(cf) = <<encoder.v, encoder.v>> BY <2>3 DEF codec_config
  <2>5. ~HasConfig(<<n>>) BY <2>1 DEF HasConfig
  <2> QED BY <1>8, <1>9, <1>11, <2>1, <2>2, <2>4, <2>5
<1>14. Publishes(p)
  <2>1. loopQueue' = Append(loopQueue, p) BY <1>1
  <2>2. /\ keySeen' \in BOOLEAN /\ (p.key => keySeen') /\ (keySeen' => keySeen \/ p.key)
        /\ keySeen => keySeen'
    BY <1>1, <1>2, <1>10, <1>12
  <2>3. health' = "healthy" => keySeen' \/ health = "healthy"
    <3>1. CASE n.type \in {"sps", "pps"} BY <1>1, <3>1
    <3>2. CASE n.type \notin {"sps", "pps"} BY <1>1, <3>2
    <3> QED BY <3>1, <3>2
  <2> HIDE DEF p
  <2> QED BY <1>12, <1>13, <2>1, <2>2, <2>3 DEF Publishes, GoodPacket
<1>15. QueueInv' /\ loopQueue' \in Seq(Packets) /\ keySeen' \in BOOLEAN /\ latest' \in Packets
  <2> HIDE DEF p
  <2> QED BY <1>14, EnqueueStep
<1>16. LegacyGood(cf, encoder')
  <2>1. CASE n.type = "bad" BY <1>4, <2>1 DEF LegacyGood
  <2>2. CASE n.type # "bad"
    <3>1. DueNal(n, encoder, encoder') BY <2>2
    <3>2. CASE n.type = "sps" BY <1>4, <3>1, <3>2 DEF LegacyGood, DueNal
    <3>3. CASE n.type = "pps" BY <1>4, <3>1, <3>3 DEF LegacyGood, DueNal
    <3>4. CASE n.type \notin {"sps", "pps"}
      <4>1. encoder.due \in {"idr", "any"} BY <3>1, <3>4 DEF DueNal
      <4>2. encoder'.v = encoder.v BY <3>1 DEF DueNal
      <4> QED BY <1>4, <3>4, <4>1, <4>2 DEF LegacyGood
    <3> QED BY <3>2, <3>3, <3>4
  <2> QED BY <2>1, <2>2
<1> HIDE DEF p
<1> QED BY <1>1, <1>5, <1>15, <1>16

LEMMA ProtocolConfigStep ==
  ASSUME VideoTypeOK, QueueInv, UNCHANGED <<streamMode, sequence, latest>>, NEW whole \in BOOLEAN,
         ProtocolGood(config, encoder), ProtocolConfig(whole), encoder'.v = encoder.v
  PROVE  /\ QueueInv' /\ UNCHANGED <<loopQueue, keySeen, torn, unit>>
         /\ config' \in Configs /\ ProtocolGood(config', encoder')
<1> DEFINE new == IF whole THEN <<encoder.v, encoder.v>> ELSE NoConfig
<1>1. /\ config' = [config EXCEPT !.packet = new] /\ health' = "config"
      /\ UNCHANGED <<unit, torn, keySeen, loopQueue>>
  BY DEF ProtocolConfig
<1>2. config \in Configs /\ encoder.v \in Nat BY DEF VideoTypeOK
<1>3. new \in Nat \X Nat BY <1>2 DEF NoConfig
<1>4. new \in {NoConfig, <<encoder.v, encoder.v>>} OBVIOUS
<1> HIDE DEF new
<1>5. config' \in Configs /\ config'.sps = config.sps /\ config'.packet = new
  BY <1>1, <1>2, <1>3 DEF Configs
<1>6. ProtocolGood(config', encoder') BY <1>4, <1>5 DEF ProtocolGood
<1>7. QueueInv' BY <1>1, QuietStep
<1> QED BY <1>1, <1>5, <1>6, <1>7

LEMMA ProtocolFrameStep ==
  ASSUME VideoTypeOK, QueueInv, UNCHANGED <<streamMode, sequence, latest>>, NEW n \in Nals,
         streamMode = "protocol", ProtocolGood(config, encoder), ProtocolFrame(n),
         n.type \in {"idr", "slice"} => n.v = encoder.v,
         n.type \in {"idr", "slice", "aud", "bad"},
         encoder.due \in {"idr", "any"}, encoder'.v = encoder.v
  PROVE  /\ QueueInv' /\ loopQueue' \in Seq(Packets) /\ keySeen' \in BOOLEAN
         /\ latest' \in Packets /\ config' \in Configs
         /\ UNCHANGED <<torn, unit>> /\ ProtocolGood(config', encoder')
<1> DEFINE have == IF n.type = "idr" THEN codec_config(config) ELSE NoConfig
           key == have # NoConfig
           cf == Adopt(config, have)
           plain == Packet(<<n>>, have)
           p == [plain EXCEPT !.key = key, !.of = cf.used, !.disc = cf.gen # config.gen]
<1>2. /\ config \in Configs /\ keySeen \in BOOLEAN /\ encoder.v \in Nat /\ encoder.v # 0
      /\ loopQueue \in Seq(Packets) /\ latest \in Packets
  BY DEF VideoTypeOK
<1>3. config.packet \in {NoConfig, <<encoder.v, encoder.v>>} /\ config.sps = 0 BY DEF ProtocolGood
<1>4. CASE n.type = "bad"
  <2>1. health' = "invalid_h264" /\ UNCHANGED <<config, keySeen, loopQueue, unit, torn>>
    BY <1>4 DEF ProtocolFrame
  <2>2. QueueInv' BY <2>1, QuietStep
  <2>3. ProtocolGood(config', encoder') BY <1>3, <2>1 DEF ProtocolGood
  <2> QED BY <1>2, <2>1, <2>2, <2>3
<1>5. CASE n.type # "bad"
  <2>0. config' = cf /\ UNCHANGED <<unit, torn>> BY <1>5, Zenon DEF ProtocolFrame
  <2>1. loopQueue' = Append(loopQueue, p) BY <1>5, Zenon DEF ProtocolFrame, Enqueue
  <2>k. keySeen' = (keySeen \/ key) BY <1>5, Zenon DEF ProtocolFrame
  <2>h. health' = (IF key THEN "healthy" ELSE health) BY <1>5, Zenon DEF ProtocolFrame
  <2>2. codec_config(config) = config.packet BY <1>3 DEF codec_config
  <2>3. have \in Nat \X Nat
    <3>1. codec_config(config) \in Nat \X Nat /\ NoConfig \in Nat \X Nat
      BY <1>2, CodecConfigTyped DEF NoConfig
    <3> QED BY <3>1
  <2>4. key => n.type = "idr" /\ have = <<encoder.v, encoder.v>> BY <1>3, <2>2
  <2>5. key \in BOOLEAN OBVIOUS
  <2> HIDE DEF key, have
  <2>6. cf \in Configs /\ cf.sps = config.sps /\ cf.packet = config.packet BY <1>2, <2>3, AdoptFacts
  <2> HIDE DEF cf
  <2>7. <<n>> \in Seq(Nals) /\ Of("idr", <<n>>, 0) = (IF n.type = "idr" THEN n.v ELSE 0)
    BY OfOne
  <2>8. /\ plain \in Packets /\ ~plain.torn /\ plain.made = Of("idr", <<n>>, 0)
        /\ plain.has = IF HasConfig(<<n>>) THEN <<Of("sps", <<n>>, 0), Of("pps", <<n>>, 0)>> ELSE have
    BY <2>3, <2>7, PacketFacts
  <2> HIDE DEF plain
  <2>9. /\ p.key = key /\ p.has = plain.has /\ p.made = plain.made
    BY <2>8 DEF Packets
  <2>10. p \in Packets
    <3> DEFINE d == cf.gen # config.gen
    <3>1. d \in BOOLEAN /\ cf.used \in Nat \X Nat /\ p = [plain EXCEPT !.key = key, !.of = cf.used, !.disc = d]
      BY <2>6 DEF Configs
    <3> HIDE DEF d, p
    <3> QED BY <2>5, <2>8, <3>1 DEF Packets
  <2>11. DecodablePacket(p)
    <3> SUFFICES ASSUME key PROVE plain.has = <<plain.made, plain.made>>
      BY <2>9 DEF DecodablePacket
    <3>1. ~HasConfig(<<n>>) BY <2>4 DEF HasConfig
    <3> QED BY <2>4, <2>7, <2>8, <3>1
  <2>12. loopQueue' = Append(loopQueue, p) BY <2>1
  <2> HIDE DEF p
  <2>13. /\ keySeen' \in BOOLEAN /\ (p.key => keySeen') /\ (keySeen' => keySeen \/ p.key)
         /\ keySeen => keySeen'
    BY <1>2, <2>k, <2>5, <2>9
  <2>14. health' = "healthy" => keySeen' \/ health = "healthy"
    <3>1. CASE key BY <2>k, <3>1
    <3>2. CASE ~key BY <2>h, <3>2
    <3> QED BY <3>1, <3>2
  <2>15. Publishes(p) BY <2>10, <2>11, <2>12, <2>13, <2>14 DEF Publishes, GoodPacket
  <2>16. QueueInv' /\ loopQueue' \in Seq(Packets) /\ keySeen' \in BOOLEAN /\ latest' \in Packets
    BY <2>15, EnqueueStep
  <2>17. ProtocolGood(config', encoder') BY <1>3, <2>0, <2>6 DEF ProtocolGood
  <2> QED BY <2>0, <2>6, <2>16, <2>17
<1> QED BY <1>4, <1>5

LEMMA VideoInitStep == ASSUME VideoInit PROVE VideoInv
<1>1. /\ unit = <<>> /\ torn = FALSE /\ config = NothingKnown /\ health = "starting"
      /\ keySeen = FALSE /\ sequence = 0 /\ latest = NoPacket
      /\ encoder = [v |-> 1, due |-> "sps"] /\ loopQueue = <<>>
  BY DEF VideoInit
<1>2. config \in Configs /\ latest \in Packets /\ latest.key = FALSE /\ config.sps = 0
      /\ config.packet = NoConfig
  BY <1>1 DEF NothingKnown, NoPacket, NoConfig, Configs, Packets
<1>3. VideoTypeOK
  <2>1. encoder \in [v : Nat \ {0}, due : {"sps", "pps", "idr", "any"}] BY <1>1
  <2>2. unit \in Seq(Nals) /\ loopQueue \in Seq(Packets) BY <1>1
  <2>3. torn \in BOOLEAN /\ keySeen \in BOOLEAN BY <1>1
  <2> QED BY <1>2, <2>1, <2>2, <2>3 DEF VideoTypeOK
<1>4. QueueInv BY <1>1, <1>2 DEF QueueInv, DecodablePacket
<1>5. UnitGood(<<>>, config, encoder, torn)
  <2>1. ~HasVcl(<<>>) /\ ~HasConfig(<<>>) BY DEF HasVcl, HasConfig
  <2>2. ~IsKey(<<>>) /\ BeginsFirst(<<>>) BY DEF IsKey, BeginsFirst
  <2> QED BY <1>1, <2>1, <2>2 DEF UnitGood, Complete, Matches
<1>6. ProtocolGood(config, encoder) /\ LegacyGood(config, encoder)
  BY <1>1, <1>2 DEF ProtocolGood, LegacyGood
<1> QED BY <1>1, <1>3, <1>4, <1>5, <1>6 DEF VideoInv, SourceGood

LEMMA VideoFrame ==
  ASSUME VideoTypeOK, encoder' \in [v : Nat \ {0}, due : {"sps", "pps", "idr", "any"}],
         unit' \in Seq(Nals), torn' \in BOOLEAN, config' \in Configs, keySeen' \in BOOLEAN,
         loopQueue' \in Seq(Packets), latest' \in Packets, QueueInv',
         SourceGood(streamMode', unit', config', encoder', torn')
  PROVE  VideoInv'
<1>1. VideoTypeOK' BY DEF VideoTypeOK
<1>2. SourceGood(streamMode, unit, config, encoder, torn)' OBVIOUS
<1> QED BY <1>1, <1>2 DEF VideoInv

LEMMA ReconfigureStep == ASSUME VideoInv, Reconfigure PROVE VideoInv'
<1>1. /\ encoder.due = "any"
      /\ UNCHANGED <<streamMode, unit, torn, config, health, keySeen, loopQueue, sequence, latest>>
  BY DEF Reconfigure
<1>2. PICK v \in Versions : encoder' = [v |-> v, due |-> "sps"] BY DEF Reconfigure
<1>3. v \in Nat \ {0} BY VideoAssumption
<1>4. /\ encoder' \in [v : Nat \ {0}, due : {"sps", "pps", "idr", "any"}] /\ encoder'.due = "sps"
  BY <1>2, <1>3
<1>5. VideoTypeOK /\ QueueInv' BY <1>1, QuietStep DEF VideoInv
<1>6. SourceGood(streamMode, unit, config, encoder', torn)
  <2>1. SourceGood(streamMode, unit, config, encoder, torn) BY DEF VideoInv
  <2>2. UnitGood(unit, config, encoder, torn) => UnitGood(unit, config, encoder', torn)
    BY <1>1, <1>4 DEF UnitGood
  <2>3. ProtocolGood(config, encoder) => ProtocolGood(config, encoder') BY <1>4 DEF ProtocolGood
  <2>4. LegacyGood(config, encoder) => LegacyGood(config, encoder') BY <1>4 DEF LegacyGood
  <2> QED BY <2>1, <2>2, <2>3, <2>4 DEF SourceGood
<1> QED BY <1>1, <1>4, <1>5, <1>6, VideoFrame DEF VideoTypeOK

LEMMA ParserResyncStep == ASSUME VideoInv, ParserResync PROVE VideoInv'
<1>1. /\ encoder.due = "any" /\ streamMode = "raw" /\ torn' = TRUE
      /\ UNCHANGED <<streamMode, encoder, unit, config, health, keySeen, loopQueue, sequence, latest>>
  BY DEF ParserResync
<1>2. VideoTypeOK /\ QueueInv' BY <1>1, QuietStep DEF VideoInv
<1>3. SourceGood(streamMode, unit, config, encoder, TRUE)
  <2>1. UnitGood(unit, config, encoder, torn) BY <1>1 DEF VideoInv, SourceGood
  <2>2. UnitGood(unit, config, encoder, TRUE) BY <2>1 DEF UnitGood
  <2> QED BY <1>1, <2>2 DEF SourceGood
<1> QED BY <1>1, <1>2, <1>3, VideoFrame DEF VideoTypeOK

LEMMA StartAnewStep == ASSUME VideoInv, StartAnew PROVE VideoInv'
<1>1. /\ encoder' = [encoder EXCEPT !.due = "sps"]
      /\ unit' = <<>> /\ torn' = FALSE /\ config' = NothingKnown /\ health' = "starting"
      /\ keySeen' = FALSE /\ sequence' = 0 /\ latest' = NoPacket /\ loopQueue' = <<>>
  BY DEF StartAnew
<1>2. config' \in Configs /\ latest' \in Packets /\ latest'.key = FALSE /\ config'.sps = 0
      /\ config'.packet = NoConfig
  BY <1>1 DEF NothingKnown, NoPacket, NoConfig, Configs, Packets
<1>3. VideoTypeOK BY DEF VideoInv
<1>4. encoder' \in [v : Nat \ {0}, due : {"sps", "pps", "idr", "any"}] /\ encoder'.due = "sps"
  BY <1>1, <1>3 DEF VideoTypeOK
<1>5. QueueInv' BY <1>1, <1>2 DEF QueueInv, DecodablePacket
<1>6. UnitGood(<<>>, config', encoder', FALSE)
  <2>1. ~HasVcl(<<>>) /\ ~HasConfig(<<>>) BY DEF HasVcl, HasConfig
  <2>2. ~IsKey(<<>>) /\ BeginsFirst(<<>>) BY DEF IsKey, BeginsFirst
  <2> QED BY <1>4, <2>1, <2>2 DEF UnitGood, Complete, Matches
<1>7. ProtocolGood(config', encoder') /\ LegacyGood(config', encoder')
  BY <1>2, <1>4 DEF ProtocolGood, LegacyGood
<1>8. SourceGood(streamMode', unit', config', encoder', torn')
  BY <1>1, <1>6, <1>7 DEF SourceGood
<1>9. unit' \in Seq(Nals) /\ loopQueue' \in Seq(Packets) BY <1>1
<1> QED BY <1>1, <1>2, <1>3, <1>4, <1>5, <1>8, <1>9, VideoFrame

LEMMA PublishStep == ASSUME VideoInv, publish PROVE VideoInv'
<1> DEFINE h == Head(loopQueue)
<1>1. /\ loopQueue # <<>> /\ loopQueue' = Tail(loopQueue)
      /\ sequence' = IF streamMode = "legacy" THEN sequence ELSE Bump(sequence)
      /\ latest' = IF h.key THEN [h EXCEPT !.gen = config.gen] ELSE latest
      /\ UNCHANGED <<streamMode, encoder, unit, torn, config, health, keySeen>>
  BY DEF publish
<1>2. VideoTypeOK /\ QueueInv /\ SourceGood(streamMode, unit, config, encoder, torn) BY DEF VideoInv
<1>3. loopQueue \in Seq(Packets) /\ latest \in Packets /\ config \in Configs BY <1>2 DEF VideoTypeOK
<1>4. /\ Len(loopQueue) \in Nat /\ Len(loopQueue) # 0 /\ DOMAIN loopQueue = 1..Len(loopQueue)
      /\ h = loopQueue[1]
  BY <1>1, <1>3, EmptySeq
<1>5. /\ loopQueue' \in Seq(Packets) /\ Len(loopQueue') = Len(loopQueue) - 1
      /\ \A i \in 1..Len(loopQueue') : loopQueue'[i] = loopQueue[i + 1]
  BY <1>1, <1>3, HeadTailProperties
<1>6. DOMAIN loopQueue' = 1..Len(loopQueue') BY <1>5
<1>7. 1 \in DOMAIN loopQueue /\ h \in Packets /\ GoodPacket(h)
  <2>1. 1 \in DOMAIN loopQueue BY <1>4
  <2>2. h \in Packets BY <1>3, <1>4, <2>1, ElementOfSeq
  <2>3. GoodPacket(loopQueue[1]) BY <1>2, <2>1 DEF QueueInv
  <2> QED BY <1>4, <2>1, <2>2, <2>3
<1> HIDE DEF h
<1>8. \A i \in DOMAIN loopQueue' : i + 1 \in DOMAIN loopQueue /\ loopQueue'[i] = loopQueue[i + 1]
  BY <1>4, <1>5, <1>6
<1>9. /\ latest' \in Packets /\ DecodablePacket(latest')
      /\ h.key => latest'.key
      /\ ~h.key => latest' = latest
  <2>1. CASE h.key
    <3>1. config.gen \in Nat BY <1>3 DEF Configs
    <3>2. latest' = [h EXCEPT !.gen = config.gen] BY <1>1, <2>1
    <3>3. latest' \in Packets BY <1>7, <3>1, <3>2 DEF Packets
    <3>4. /\ latest'.key = h.key /\ latest'.torn = h.torn /\ latest'.has = h.has
          /\ latest'.made = h.made
      BY <1>7, <3>2 DEF Packets
    <3>5. DecodablePacket(latest') BY <1>7, <3>4 DEF GoodPacket, DecodablePacket
    <3> QED BY <2>1, <3>3, <3>4, <3>5
  <2>2. CASE ~h.key
    <3>1. latest' = latest BY <1>1, <2>2
    <3> QED BY <1>2, <1>3, <2>2, <3>1 DEF QueueInv
  <2> QED BY <2>1, <2>2
<1>10. (\A i \in DOMAIN loopQueue : GoodPacket(loopQueue[i]))'
  <2> SUFFICES ASSUME NEW i \in DOMAIN loopQueue' PROVE GoodPacket(loopQueue[i])' OBVIOUS
  <2>1. GoodPacket(loopQueue[i + 1]) BY <1>2, <1>8 DEF QueueInv
  <2>2. GoodPacket(loopQueue'[i]) BY <1>8, <2>1
  <2> QED BY <1>1, <2>2 DEF GoodPacket, DecodablePacket, PicturePacket
<1>11. keySeen' => latest'.key \/ \E i \in DOMAIN loopQueue' : loopQueue'[i].key
  <2> SUFFICES ASSUME keySeen, ~latest'.key PROVE \E i \in DOMAIN loopQueue' : loopQueue'[i].key
    BY <1>1
  <2>1. ~h.key /\ ~latest.key BY <1>9
  <2>2. PICK i \in DOMAIN loopQueue : loopQueue[i].key BY <1>2, <2>1 DEF QueueInv
  <2>3. i # 1 BY <1>4, <2>1, <2>2 DEF h
  <2>4. i - 1 \in 1..Len(loopQueue') /\ (i - 1) + 1 = i BY <1>4, <1>5, <2>3
  <2>5. loopQueue'[i - 1] = loopQueue[i] BY <1>5, <2>4
  <2> QED BY <1>6, <2>2, <2>4, <2>5
<1>12. latest'.key /\ streamMode' # "legacy" => sequence' # 0
  <2> SUFFICES ASSUME streamMode # "legacy" PROVE sequence' # 0 BY <1>1
  <2>1. sequence' = Bump(sequence) BY <1>1
  <2> QED BY <2>1 DEF Bump
<1>13. health' = "healthy" => keySeen' BY <1>1, <1>2 DEF QueueInv
<1>14. DecodablePacket(latest)' BY <1>9 DEF DecodablePacket
<1>15. QueueInv' BY <1>10, <1>11, <1>12, <1>13, <1>14 DEF QueueInv
<1>16. /\ SourceGood(streamMode', unit', config', encoder', torn') BY <1>1, <1>2
<1> QED BY <1>1, <1>2, <1>5, <1>9, <1>15, <1>16, VideoFrame DEF VideoTypeOK

LEMMA PublishVideoStep == ASSUME VideoInv, publish_video PROVE VideoInv'
<1>1. VideoTypeOK /\ QueueInv /\ SourceGood(streamMode, unit, config, encoder, torn) BY DEF VideoInv
<1>2. UNCHANGED <<streamMode, sequence, latest>> BY DEF publish_video
<1>3. /\ encoder \in [v : Nat \ {0}, due : {"sps", "pps", "idr", "any"}]
      /\ unit \in Seq(Nals) /\ torn \in BOOLEAN /\ latest \in Packets /\ keySeen \in BOOLEAN
      /\ loopQueue \in Seq(Packets)
  BY <1>1 DEF VideoTypeOK
<1>4. CASE streamMode = "protocol"
  <2>1. \/ \E whole \in BOOLEAN : ProtocolConfig(whole) /\ encoder' = [encoder EXCEPT !.due = "idr"]
        \/ \E n \in Slices \cup Others :
             /\ encoder.due = "any" \/ (encoder.due = "idr" /\ n.type = "idr")
             /\ ProtocolFrame(n) /\ encoder' = [encoder EXCEPT !.due = "any"]
    BY <1>4 DEF publish_video
  <2>2. ProtocolGood(config, encoder) BY <1>1, <1>4 DEF SourceGood
  <2>3. CASE \E whole \in BOOLEAN : ProtocolConfig(whole) /\ encoder' = [encoder EXCEPT !.due = "idr"]
    <3>1. PICK whole \in BOOLEAN : ProtocolConfig(whole) /\ encoder' = [encoder EXCEPT !.due = "idr"]
      BY <2>3
    <3>2. /\ encoder' \in [v : Nat \ {0}, due : {"sps", "pps", "idr", "any"}]
          /\ encoder'.v = encoder.v
      BY <1>3, <3>1
    <3>3. /\ QueueInv' /\ UNCHANGED <<loopQueue, keySeen, torn, unit>>
          /\ config' \in Configs /\ ProtocolGood(config', encoder')
      BY <1>1, <1>2, <2>2, <3>1, <3>2, ProtocolConfigStep
    <3>4. SourceGood(streamMode', unit', config', encoder', torn') BY <1>2, <1>4, <3>3 DEF SourceGood
    <3> QED BY <1>1, <1>2, <1>3, <3>2, <3>3, <3>4, VideoFrame
  <2>4. CASE \E n \in Slices \cup Others :
               /\ encoder.due = "any" \/ (encoder.due = "idr" /\ n.type = "idr")
               /\ ProtocolFrame(n) /\ encoder' = [encoder EXCEPT !.due = "any"]
    <3>1. PICK n \in Slices \cup Others :
               /\ encoder.due = "any" \/ (encoder.due = "idr" /\ n.type = "idr")
               /\ ProtocolFrame(n) /\ encoder' = [encoder EXCEPT !.due = "any"]
      BY <2>4
    <3>2. /\ n \in Nals /\ n.type \in {"idr", "slice", "aud", "bad"}
          /\ n.type \in {"idr", "slice"} => n.v = encoder.v
      <4>1. CASE n \in Slices
        <5>1. PICK t \in {"idr", "slice"}, f \in BOOLEAN : n = [type |-> t, first |-> f, v |-> encoder.v]
          BY <4>1 DEF Slices
        <5> QED BY <1>3, <5>1 DEF Nals
      <4>2. CASE n \in Others
        <5>1. PICK t \in {"aud", "bad"} : n = [type |-> t, first |-> FALSE, v |-> 0]
          BY <4>2 DEF Others
        <5> QED BY <5>1 DEF Nals
      <4> QED BY <3>1, <4>1, <4>2
    <3>3. /\ encoder' \in [v : Nat \ {0}, due : {"sps", "pps", "idr", "any"}]
          /\ encoder'.v = encoder.v
      BY <1>3, <3>1
    <3>4. encoder.due \in {"idr", "any"} BY <3>1
    <3>5. /\ QueueInv' /\ loopQueue' \in Seq(Packets) /\ keySeen' \in BOOLEAN
          /\ latest' \in Packets /\ config' \in Configs
          /\ UNCHANGED <<torn, unit>> /\ ProtocolGood(config', encoder')
      BY <1>1, <1>2, <1>4, <2>2, <3>1, <3>2, <3>3, <3>4, ProtocolFrameStep
    <3>6. SourceGood(streamMode', unit', config', encoder', torn') BY <1>2, <1>4, <3>5 DEF SourceGood
    <3> QED BY <1>1, <1>3, <3>3, <3>5, <3>6, VideoFrame
  <2> QED BY <2>1, <2>3, <2>4
<1>5. CASE streamMode # "protocol"
  <2>1. PICK n \in Slices \cup Others \cup {Pair("sps"), Pair("pps")} :
             /\ CASE n.type = "sps" -> encoder.due # "pps"
                  [] n.type = "pps" -> encoder.due = "pps"
                  [] encoder.due = "idr" -> n.type = "idr" /\ n.first
                  [] OTHER -> encoder.due = "any"
             /\ encoder' = [encoder EXCEPT !.due = CASE n.type = "sps" -> "pps"
                                                      [] n.type = "pps" -> "idr"
                                                      [] OTHER -> "any"]
             /\ IF streamMode = "raw" THEN RawNal(n) ELSE LegacyNal(n)
    BY <1>5 DEF publish_video
  <2>2. /\ n \in Nals
        /\ n.type \notin {"aud", "bad"} => n.v = encoder.v
    <3>1. CASE n \in Slices
      <4>1. PICK t \in {"idr", "slice"}, f \in BOOLEAN : n = [type |-> t, first |-> f, v |-> encoder.v]
        BY <3>1 DEF Slices
      <4> QED BY <1>3, <4>1 DEF Nals
    <3>2. CASE n \in Others
      <4>1. PICK t \in {"aud", "bad"} : n = [type |-> t, first |-> FALSE, v |-> 0]
        BY <3>2 DEF Others
      <4> QED BY <4>1 DEF Nals
    <3>3. CASE n \in {Pair("sps"), Pair("pps")}
      <4>1. PICK t \in {"sps", "pps"} : n = [type |-> t, first |-> FALSE, v |-> encoder.v]
        BY <3>3 DEF Pair
      <4> QED BY <1>3, <4>1 DEF Nals
    <3> QED BY <2>1, <3>1, <3>2, <3>3
  <2>3. /\ encoder' \in [v : Nat \ {0}, due : {"sps", "pps", "idr", "any"}]
        /\ encoder'.v = encoder.v
        /\ encoder'.due = CASE n.type = "sps" -> "pps" [] n.type = "pps" -> "idr" [] OTHER -> "any"
    BY <1>3, <2>1
  <2>g. (CASE n.type = "sps" -> encoder.due # "pps"
           [] n.type = "pps" -> encoder.due = "pps"
           [] encoder.due = "idr" -> n.type = "idr" /\ n.first
           [] OTHER -> encoder.due = "any")
    BY <2>1, Zenon
  <2>m. streamMode = "raw" => RawNal(n) BY <2>1
  <2>l. streamMode # "raw" => LegacyNal(n) BY <2>1
  <2>4. n.type = "bad" \/ DueNal(n, encoder, encoder')
    <3> SUFFICES ASSUME n.type # "bad" PROVE DueNal(n, encoder, encoder') OBVIOUS
    <3>1. n.type # "aud" => n.v = encoder.v BY <2>2
    <3> QED BY <2>g, <2>3, <3>1 DEF DueNal
  <2>5. n.type = "bad" => encoder' = encoder
    <3> SUFFICES ASSUME n.type = "bad" PROVE encoder' = encoder OBVIOUS
    <3>1. encoder.due = "any" BY <2>g
    <3>2. encoder'.due = "any" BY <2>3
    <3> QED BY <1>3, <2>3, <3>1, <3>2
  <2>6. CASE streamMode = "raw"
    <3>1. UnitGood(unit, config, encoder, torn) BY <1>1, <2>6 DEF SourceGood
    <3>2. /\ QueueInv' /\ loopQueue' \in Seq(Packets) /\ keySeen' \in BOOLEAN
          /\ latest' \in Packets /\ config' \in Configs /\ torn' \in BOOLEAN
          /\ unit' \in Seq(Nals) /\ UnitGood(unit', config', encoder', torn')
      BY <1>1, <1>2, <2>m, <2>2, <2>4, <2>6, <3>1, RawStep
    <3>3. SourceGood(streamMode', unit', config', encoder', torn') BY <1>2, <2>6, <3>2 DEF SourceGood
    <3> QED BY <1>1, <2>3, <3>2, <3>3, VideoFrame
  <2>7. CASE streamMode # "raw"
    <3>1. LegacyGood(config, encoder) BY <1>1, <1>5, <2>7 DEF SourceGood
    <3>2. /\ QueueInv' /\ loopQueue' \in Seq(Packets) /\ keySeen' \in BOOLEAN
          /\ latest' \in Packets /\ config' \in Configs
          /\ UNCHANGED <<torn, unit>> /\ LegacyGood(config', encoder')
      BY <1>1, <1>2, <1>5, <2>l, <2>2, <2>4, <2>5, <2>7, <3>1, LegacyStep
    <3>3. SourceGood(streamMode', unit', config', encoder', torn')
      BY <1>2, <1>5, <2>7, <3>2 DEF SourceGood
    <3> QED BY <1>1, <1>3, <2>3, <3>2, <3>3, VideoFrame
  <2> QED BY <2>6, <2>7
<1> QED BY <1>4, <1>5

LEMMA VideoInvInductive == ASSUME VideoInv, [VideoNext]_videoVars PROVE VideoInv'
<1>1. CASE publish_video BY <1>1, PublishVideoStep
<1>2. CASE Reconfigure BY <1>2, ReconfigureStep
<1>3. CASE ParserResync BY <1>3, ParserResyncStep
<1>4. CASE publish BY <1>4, PublishStep
<1>5. CASE StartAnew BY <1>5, StartAnewStep
<1>6. CASE UNCHANGED videoVars
  <2>1. UNCHANGED <<streamMode, encoder, unit, torn, config, health, keySeen, loopQueue, sequence, latest>>
    BY <1>6 DEF videoVars
  <2>2. VideoTypeOK /\ QueueInv' /\ SourceGood(streamMode, unit, config, encoder, torn)
    BY <2>1, QuietStep DEF VideoInv
  <2>3. SourceGood(streamMode', unit', config', encoder', torn') BY <2>1, <2>2
  <2> QED BY <2>1, <2>2, <2>3, VideoFrame DEF VideoTypeOK
<1> QED BY <1>1, <1>2, <1>3, <1>4, <1>5, <1>6 DEF VideoNext

LEMMA VideoInvEnough == ASSUME VideoInv PROVE PacketsDecodable
<1>1. QueueInv BY DEF VideoInv
<1>2. CachedDecodable BY <1>1 DEF QueueInv, DecodablePacket, CachedDecodable
<1>3. OnePicture BY <1>1 DEF QueueInv, GoodPacket, PicturePacket, OnePicture
<1>4. HealthyHasKey BY <1>1 DEF QueueInv, HealthyHasKey
<1>5. SequenceNeverZero BY <1>1 DEF QueueInv, SequenceNeverZero
<1> QED BY <1>2, <1>3, <1>4, <1>5 DEF PacketsDecodable

\* Whatever the encoder sends, the stream loses or the parser throws away, in
\* all three stream modes (process_access_unit, _process_nal, _process_packet,
\* publish_access_unit): the cached key frame carries the configuration its
\* slices were made with, a packet has one picture, a healthy stream has a key
\* frame, and the sequence number is never 0 once there is one.
THEOREM PacketsCanBeDecoded == VideoSpec => []PacketsDecodable
<1>1. VideoInit => VideoInv BY VideoInitStep
<1>2. VideoInv /\ [VideoNext]_videoVars => VideoInv' BY VideoInvInductive
<1>3. VideoInv => PacketsDecodable BY VideoInvEnough
<1> QED BY <1>1, <1>2, <1>3, PTL DEF VideoSpec

=============================================================================
