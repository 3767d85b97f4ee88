----------------------- MODULE AuditDispatcherProofs -----------------------
(***************************************************************************)
(* Proofs about AuditDispatcher, for every capacity, set of severities and *)
(* set of callers.                                                         *)
(***************************************************************************)
EXTENDS AuditDispatcher, SequenceTheorems, TLAPS

\* The queue is in ticket order, and the writer's ticket comes before it.
QueueOrdered ==
  /\ \A i \in DOMAIN items : items[i].ticket \in 1..next
  /\ \A i, k \in DOMAIN items : i < k => items[i].ticket < items[k].ticket
  /\ Holding => inHand \in 1..next /\ \A i \in DOMAIN items : inHand < items[i].ticket

\* A write that is over is in the history.
Recorded == writer \in {"stored", "failed"} => inHand \in Elems(written)

\* A thread that has ended, or was never started, left no event; a caller sleeps
\* only while there is work, and the writer only in its loop.
Waiting ==
  /\ ~Alive => items = <<>>
  /\ Writer \in asleep => writer = "loop"
  /\ (\E c \in Callers : c \in asleep) => items # <<>> \/ Holding
  /\ \A c \in Callers : target[c] <= next

\* The inductive invariant.
IInv == TypeOK /\ Conservation /\ QueueOrdered /\ PendingExact /\ Recorded
        /\ Waiting /\ NoLostWakeup /\ AnswerKept

-----------------------------------------------------------------------------
(* Lemmas about sequences *)

\* Deleting an entry from the middle of the deque moves the later ones up.
LEMMA RemoveAtFacts ==
  ASSUME NEW S, NEW s \in Seq(S), NEW i \in 1..Len(s)
  PROVE  /\ RemoveAt(s, i) \in Seq(S)
         /\ Len(RemoveAt(s, i)) = Len(s) - 1
         /\ \A k \in 1..(Len(s) - 1) :
              RemoveAt(s, i)[k] = IF k < i THEN s[k] ELSE s[k + 1]
<1> DEFINE a == SubSeq(s, 1, i - 1)
           b == SubSeq(s, i + 1, Len(s))
<1>1. Len(s) \in Nat /\ i \in Nat /\ \A k \in 1..Len(s) : s[k] \in S OBVIOUS
<1>2. a \in Seq(S) /\ Len(a) = i - 1 /\ \A k \in 1..(i - 1) : a[k] = s[k]
  <2>1. \A k \in 1..(i - 1) : s[k] \in S BY <1>1
  <2>2. i - 1 >= 0 BY <1>1
  <2>3. QED BY <2>1, <2>2, SubSeqProperties
<1>3. b \in Seq(S) /\ Len(b) = Len(s) - i /\ \A k \in 1..(Len(s) - i) : b[k] = s[k + i]
  <2>1. i + 1 \in 1..(Len(s) + 1) BY <1>1
  <2>2. QED BY <1>1, <2>1, SubSeqProperties
<1> HIDE DEF a, b
<1>4. a \o b \in Seq(S) /\ Len(a \o b) = Len(s) - 1
  <2>1. a \o b \in Seq(S) BY <1>2, <1>3
  <2>2. Len(a \o b) = Len(a) + Len(b) BY <1>2, <1>3, ConcatProperties
  <2>3. QED BY <1>1, <1>2, <1>3, <2>1, <2>2
<1>5. ASSUME NEW k \in 1..(Len(s) - 1)
      PROVE  (a \o b)[k] = IF k < i THEN s[k] ELSE s[k + 1]
  <2>1. CASE k < i BY <1>1, <1>2, <1>3, <2>1
  <2>2. CASE k >= i
    <3>1. (a \o b)[k] = b[k - (i - 1)] BY <1>1, <1>2, <1>3, <2>2
    <3>2. k - (i - 1) \in 1..(Len(s) - i) BY <1>1, <2>2
    <3>3. b[k - (i - 1)] = s[(k - (i - 1)) + i] BY <1>3, <3>2
    <3>4. (k - (i - 1)) + i = k + 1 BY <1>1
    <3>5. QED BY <1>1, <2>2, <3>1, <3>3, <3>4
  <2>3. k < i \/ k >= i BY <1>1
  <2>4. QED BY <2>1, <2>2, <2>3
<1>6. RemoveAt(s, i) = a \o b BY DEF RemoveAt, a, b
<1>7. QED BY <1>4, <1>5, <1>6

\* The elements of an appended sequence.
LEMMA AppendFacts ==
  ASSUME NEW S, NEW s \in Seq(S), NEW e \in S
  PROVE  /\ Append(s, e) \in Seq(S)
         /\ Len(Append(s, e)) = Len(s) + 1
         /\ \A k \in 1..Len(s) : Append(s, e)[k] = s[k]
         /\ Append(s, e)[Len(s) + 1] = e
         /\ Elems(Append(s, e)) = Elems(s) \cup {e}
<1>1. /\ Append(s, e) \in Seq(S) /\ Len(Append(s, e)) = Len(s) + 1
      /\ \A k \in 1..Len(s) : Append(s, e)[k] = s[k]
      /\ Append(s, e)[Len(s) + 1] = e
  OBVIOUS
<1>2. DOMAIN Append(s, e) = 1..(Len(s) + 1) /\ DOMAIN s = 1..Len(s) /\ Len(s) \in Nat
  BY <1>1
<1>3. Elems(Append(s, e)) = Elems(s) \cup {e}
  BY <1>1, <1>2 DEF Elems
<1>4. QED BY <1>1, <1>3

\* What an enqueued event adds to the queue s.
LEMMA EnqueueFacts ==
  ASSUME NEW s \in Seq(Entry), NEW e \in Severities, NEW gone, next \in Nat, Enqueue(s, e, gone)
  PROVE  /\ items' \in Seq(Entry)
         /\ Len(items') = Len(s) + 1
         /\ \A k \in 1..Len(s) : items'[k] = s[k]
         /\ items'[Len(s) + 1].ticket = next + 1
         /\ Tickets(items') = Tickets(s) \cup {next + 1}
<1> DEFINE n == [ticket |-> next + 1, severity |-> e]
<1>1. n \in Entry /\ n.ticket = next + 1 BY DEF Entry
<1>2. items' = Append(s, n) BY DEF Enqueue
<1> HIDE DEF n
<1>3. /\ items' \in Seq(Entry) /\ Len(items') = Len(s) + 1
      /\ \A k \in 1..Len(s) : items'[k] = s[k]
      /\ items'[Len(s) + 1] = n
  BY <1>1, <1>2, AppendFacts
<1>4. DOMAIN items' = 1..(Len(s) + 1) /\ DOMAIN s = 1..Len(s) /\ Len(s) \in Nat
  BY <1>3
<1>5. Tickets(items') = Tickets(s) \cup {next + 1}
  BY <1>1, <1>3, <1>4 DEF Tickets
<1>6. QED BY <1>1, <1>3, <1>5

\* A new ticket goes behind the others, so the queue stays in ticket order.
LEMMA EnqueueOrdered ==
  ASSUME NEW s \in Seq(Entry), NEW e \in Severities, NEW gone, next \in Nat, Enqueue(s, e, gone),
         \A i \in DOMAIN s : s[i].ticket \in 1..next,
         \A i, k \in DOMAIN s : i < k => s[i].ticket < s[k].ticket,
         inHand \in Nat, Holding => inHand \in 1..next /\ \A i \in DOMAIN s : inHand < s[i].ticket,
         UNCHANGED <<writer, inHand>>
  PROVE  QueueOrdered'
<1>1. /\ items' \in Seq(Entry) /\ Len(items') = Len(s) + 1
      /\ \A k \in 1..Len(s) : items'[k] = s[k]
      /\ items'[Len(s) + 1].ticket = next + 1
  BY EnqueueFacts
<1>2. DOMAIN s = 1..Len(s) /\ DOMAIN items' = 1..(Len(s) + 1) /\ Len(s) \in Nat /\ next' = next + 1
  BY <1>1 DEF Enqueue
<1>3. \A i \in 1..(Len(s) + 1) : i \in 1..Len(s) \/ i = Len(s) + 1 BY <1>2
<1>4. \A i \in 1..Len(s) : items'[i].ticket = s[i].ticket /\ s[i].ticket \in 1..next
  BY <1>1, <1>2
<1>5. \A i \in DOMAIN items' : items'[i].ticket \in 1..next'
  BY <1>1, <1>2, <1>3, <1>4
<1>6. ASSUME NEW i \in DOMAIN items', NEW k \in DOMAIN items', i < k
      PROVE  items'[i].ticket < items'[k].ticket
  <2>1. i \in 1..Len(s) BY <1>2, <1>6
  <2>2. CASE k \in 1..Len(s) BY <1>2, <1>4, <1>6, <2>1, <2>2
  <2>3. CASE k = Len(s) + 1 BY <1>1, <1>4, <2>1, <2>3
  <2>4. QED BY <1>2, <1>3, <2>2, <2>3
<1>7. Holding' => inHand' \in 1..next' /\ \A i \in DOMAIN items' : inHand' < items'[i].ticket
  <2>1. SUFFICES ASSUME Holding
                 PROVE  inHand \in 1..(next + 1) /\ \A i \in DOMAIN items' : inHand < items'[i].ticket
    BY <1>2 DEF Holding
  <2>2. inHand \in 1..next /\ \A i \in 1..Len(s) : inHand < s[i].ticket BY <1>2, <2>1
  <2>3. \A i \in DOMAIN items' : inHand < items'[i].ticket
    BY <1>1, <1>2, <1>3, <1>4, <2>2
  <2>4. QED BY <2>2, <2>3
<1>8. QED BY <1>5, <1>6, <1>7 DEF QueueOrdered

\* The counters and lengths are natural numbers.
LEMMA Numbers ==
  ASSUME IInv
  PROVE  /\ unfinished \in Nat /\ accepted \in Nat /\ processed \in Nat /\ failures \in Nat
         /\ dropped \in Nat /\ next \in Nat /\ inHand \in Nat /\ MaxSize \in Nat
         /\ Len(items) \in Nat /\ Len(evicted) \in Nat /\ Len(written) \in Nat
<1>1. /\ {unfinished, accepted, processed, failures, dropped} \subseteq Nat
      /\ items \in Seq(Entry) /\ evicted \in Seq(Nat) /\ written \in Seq(Nat)
  BY DEF IInv, TypeOK
<1>2. Len(items) \in Nat /\ Len(evicted) \in Nat /\ Len(written) \in Nat
  BY <1>1
<1>3. QED BY <1>1, <1>2, AuditAssumption DEF IInv, TypeOK

\* What the queue holds, and what the callers wait for.
LEMMA QueueFacts ==
  ASSUME IInv
  PROVE  /\ items \in Seq(Entry) /\ DOMAIN items = 1..Len(items) /\ Len(items) \in Nat
         /\ \A i \in DOMAIN items : items[i] \in Entry /\ items[i].ticket \in Nat
         /\ \A c \in Callers : target[c] \in Nat /\ target[c] <= next
<1>1. items \in Seq(Entry) BY DEF IInv, TypeOK
<1>2. DOMAIN items = 1..Len(items) /\ \A i \in DOMAIN items : items[i] \in Entry
  BY <1>1
<1>3. \A i \in DOMAIN items : items[i].ticket \in Nat BY <1>2 DEF Entry
<1>4. QED BY <1>1, <1>2, <1>3 DEF IInv, TypeOK, Waiting

-----------------------------------------------------------------------------
(* submit *)

\* An event accepted with room in the queue; its notify() can only reach the
\* writer if the writer sleeps.
LEMMA AcceptedInv ==
  ASSUME IInv, NEW e \in Severities, SubmitAccepted(e)
  PROVE  IInv'
<1>1. /\ items \in Seq(Entry) /\ next \in Nat /\ Enqueue(items, e, {})
      /\ unfinished' = unfinished + 1 /\ accepted' = accepted + 1 /\ next' = next + 1
      /\ UNCHANGED <<stopping, processed, failures, dropped, writer, inHand, pc, target, answer,
                     written, evicted>>
      /\ Len(items) < MaxSize /\ Alive
  BY DEF SubmitAccepted, Enqueue, thread, calls, history, IInv, TypeOK
<1>2. /\ items' \in Seq(Entry) /\ Len(items') = Len(items) + 1
      /\ \A k \in 1..Len(items) : items'[k] = items[k]
      /\ items'[Len(items) + 1].ticket = next + 1
      /\ Tickets(items') = Tickets(items) \cup {next + 1}
      /\ DOMAIN items' = 1..(Len(items) + 1) /\ DOMAIN items = 1..Len(items) /\ Len(items) \in Nat
  BY <1>1, EnqueueFacts
<1>3. pending' = pending \cup {next + 1} BY <1>1 DEF Enqueue
<1>4. asleep' \subseteq asleep /\ Writer \notin asleep'
  <2>1. CASE asleep = {} BY <2>1 DEF SubmitAccepted, Notify
  <2>2. CASE asleep # {}
    BY <2>2 DEF SubmitAccepted, Notify, IInv, NoLostWakeup
  <2>3. QED BY <2>1, <2>2
<1>5. TypeOK' BY <1>1, <1>2, <1>3, <1>4 DEF IInv, TypeOK
<1>6. Conservation'
  <2>1. evicted' = evicted /\ dropped' = dropped /\ failures' = failures /\ processed' = processed
        /\ (Holding' <=> Holding)
    BY <1>1 DEF Holding
  <2>2. accepted = processed + unfinished + Len(evicted)
        /\ unfinished = Len(items) + (IF Holding THEN 1 ELSE 0)
    BY DEF IInv, Conservation
  <2>3. /\ unfinished \in Nat /\ processed \in Nat /\ Len(items) \in Nat /\ Len(evicted) \in Nat
        /\ accepted \in Nat
    BY Numbers
  <2>7. accepted' = accepted + 1 /\ unfinished' = unfinished + 1 /\ Len(items') = Len(items) + 1
    BY <1>1, <1>2
  <2>8. accepted' = processed + unfinished' + Len(evicted) BY <2>2, <2>3, <2>7
  <2>6. unfinished' = Len(items') + (IF Holding THEN 1 ELSE 0)
    BY <2>2, <2>3, <2>7
  <2>4. Len(items') <= MaxSize BY <1>1, <1>2, Numbers
  <2>9. failures' <= processed' /\ Len(evicted') <= dropped' BY <2>1 DEF IInv, Conservation
  <2>10. accepted' = processed' + unfinished' + Len(evicted') BY <2>1, <2>8
  <2>12. CASE Holding BY <2>1, <2>4, <2>6, <2>9, <2>10, <2>12 DEF Conservation
  <2>13. CASE ~Holding BY <2>1, <2>4, <2>6, <2>9, <2>10, <2>13 DEF Conservation
  <2>5. QED BY <2>12, <2>13
<1>7. QueueOrdered'
  <2>1. inHand \in Nat BY Numbers
  <2>2. /\ \A i \in DOMAIN items : items[i].ticket \in 1..next
        /\ \A i, k \in DOMAIN items : i < k => items[i].ticket < items[k].ticket
        /\ Holding => inHand \in 1..next /\ \A i \in DOMAIN items : inHand < items[i].ticket
    BY DEF IInv, QueueOrdered
  <2>3. QED BY <1>1, <2>1, <2>2, EnqueueOrdered
<1>8. PendingExact' BY <1>1, <1>2, <1>3 DEF IInv, PendingExact, Holding
<1>9. Waiting' /\ NoLostWakeup'
  <2>1. items' # <<>> BY <1>2
  <2>2. \A c \in Callers : target[c] \in Nat /\ target[c] <= next BY DEF IInv, TypeOK, Waiting
  <2>3. QED BY <1>1, <1>4, <2>1, <2>2 DEF Waiting, NoLostWakeup, Alive
<1>10. AnswerKept'
  <2>1. \A c \in Callers : target[c] \in Nat /\ target[c] <= next BY DEF IInv, TypeOK, Waiting
  <2>2. QED BY <1>1, <1>2, <2>1 DEF IInv, AnswerKept
<1>11. Recorded' BY <1>1 DEF IInv, Recorded
<1>12. QED BY <1>5, <1>6, <1>7, <1>8, <1>9, <1>10, <1>11 DEF IInv

\* A replacement takes one ticket out and puts one in: the counts stay, and the
\* evicted ticket is the only one forgotten.
LEMMA ReplacingInv ==
  ASSUME IInv, NEW e \in Severities, SubmitReplacing(e)
  PROVE  IInv'
<1>1. PICK i \in DOMAIN items :
        /\ Enqueue(RemoveAt(items, i), e, {items[i].ticket})
        /\ evicted' = Append(evicted, items[i].ticket)
  BY DEF SubmitReplacing
<1> DEFINE s == RemoveAt(items, i)
           t == items[i].ticket
<1>2. /\ dropped' = dropped + 1 /\ asleep' = {} /\ Alive
      /\ next' = next + 1 /\ accepted' = accepted + 1
      /\ pending' = (pending \ {t}) \cup {next + 1}
      /\ UNCHANGED <<stopping, unfinished, processed, failures, writer, inHand, pc, target, answer,
                     written>>
  BY <1>1 DEF SubmitReplacing, Enqueue, NotifyAll, thread, calls
<1>3. /\ items \in Seq(Entry) /\ DOMAIN items = 1..Len(items) /\ Len(items) \in Nat
      /\ \A k \in DOMAIN items : items[k] \in Entry /\ items[k].ticket \in Nat
  BY QueueFacts
<1>4. /\ s \in Seq(Entry) /\ Len(s) = Len(items) - 1 /\ DOMAIN s = 1..(Len(items) - 1)
      /\ \A k \in 1..(Len(items) - 1) : s[k] = IF k < i THEN items[k] ELSE items[k + 1]
  <2>1. i \in 1..Len(items) BY <1>3
  <2>2. /\ s \in Seq(Entry) /\ Len(s) = Len(items) - 1
        /\ \A k \in 1..(Len(items) - 1) : s[k] = IF k < i THEN items[k] ELSE items[k + 1]
    BY <1>3, <2>1, RemoveAtFacts
  <2>3. QED BY <2>2
<1>5. Enqueue(s, e, {t}) /\ evicted' = Append(evicted, t) BY <1>1
<1> HIDE DEF s
<1>6. /\ next \in Nat /\ inHand \in Nat /\ accepted \in Nat /\ dropped \in Nat
      /\ unfinished \in Nat /\ processed \in Nat /\ Len(evicted) \in Nat
  BY Numbers
<1>7. /\ items' \in Seq(Entry) /\ Len(items') = Len(items)
      /\ Tickets(items') = Tickets(s) \cup {next + 1}
  BY <1>3, <1>4, <1>5, <1>6, EnqueueFacts
<1>8. /\ \A k \in DOMAIN items : items[k].ticket \in 1..next
      /\ \A k, l \in DOMAIN items : k < l => items[k].ticket < items[l].ticket
      /\ Holding => inHand \in 1..next /\ \A k \in DOMAIN items : inHand < items[k].ticket
  BY DEF IInv, QueueOrdered
<1>9. /\ \A k \in DOMAIN s : k \in DOMAIN items /\ k + 1 \in DOMAIN items
      /\ \A k, l \in DOMAIN s : k < l => k < l + 1 /\ k + 1 < l + 1
      /\ \A k, l \in DOMAIN s : k < l /\ l < i => k < i
      /\ \A k \in DOMAIN s : k # i /\ ~(k < i) => k + 1 # i
      /\ \A k \in DOMAIN s : k + 1 # i \/ k < i
  BY <1>3, <1>4
<1>10. Tickets(s) = Tickets(items) \ {t}
  <2>1. ASSUME NEW k \in DOMAIN s PROVE s[k].ticket \in Tickets(items) \ {t}
    <3>1. CASE k < i
      <4>1. s[k] = items[k] /\ items[k].ticket < t BY <1>4, <1>8, <1>9, <3>1
      <4>2. QED BY <1>3, <1>9, <4>1 DEF Tickets
    <3>2. CASE ~(k < i)
      <4>1. s[k] = items[k + 1] /\ i < k + 1 BY <1>3, <1>4, <3>2
      <4>2. t < items[k + 1].ticket BY <1>8, <1>9, <4>1
      <4>3. QED BY <1>3, <1>9, <4>1, <4>2 DEF Tickets
    <3>3. QED BY <3>1, <3>2
  <2>2. ASSUME NEW k \in DOMAIN items, items[k].ticket # t PROVE items[k].ticket \in Tickets(s)
    <3>1. CASE k < i
      <4>1. k \in DOMAIN s /\ s[k] = items[k] BY <1>3, <1>4, <3>1
      <4>2. QED BY <4>1 DEF Tickets
    <3>2. CASE i < k
      <4>1. k - 1 \in DOMAIN s /\ ~(k - 1 < i) /\ (k - 1) + 1 = k BY <1>3, <1>4, <3>2
      <4>2. s[k - 1] = items[k] BY <1>4, <4>1
      <4>3. QED BY <4>1, <4>2 DEF Tickets
    <3>3. k < i \/ i < k BY <1>3, <2>2
    <3>4. QED BY <3>1, <3>2, <3>3
  <2>3. Tickets(s) \subseteq Tickets(items) \ {t} BY <2>1 DEF Tickets
  <2>4. Tickets(items) \ {t} \subseteq Tickets(s) BY <2>2 DEF Tickets
  <2>5. QED BY <2>3, <2>4
<1>11. QueueOrdered'
  <2>1. \A k \in DOMAIN s : \E l \in DOMAIN items : s[k] = items[l]
    BY <1>4, <1>9
  <2>2. /\ \A k \in DOMAIN s : s[k].ticket \in 1..next
        /\ Holding => inHand \in 1..next /\ \A k \in DOMAIN s : inHand < s[k].ticket
    BY <1>8, <2>1
  <2>3. ASSUME NEW k \in DOMAIN s, NEW l \in DOMAIN s, k < l
        PROVE  s[k].ticket < s[l].ticket
    <3>1. CASE l < i
      <4>1. s[k] = items[k] /\ s[l] = items[l] BY <1>4, <1>9, <2>3, <3>1
      <4>2. QED BY <1>8, <1>9, <2>3, <4>1
    <3>2. CASE ~(l < i) /\ k < i
      <4>1. s[k] = items[k] /\ s[l] = items[l + 1] BY <1>4, <3>2
      <4>2. QED BY <1>8, <1>9, <2>3, <4>1
    <3>3. CASE ~(l < i) /\ ~(k < i)
      <4>1. s[k] = items[k + 1] /\ s[l] = items[l + 1] BY <1>4, <3>3
      <4>2. QED BY <1>8, <1>9, <2>3, <4>1
    <3>4. k < i => (l < i \/ ~(l < i)) OBVIOUS
    <3>5. ~(k < i) /\ l < i => FALSE BY <1>9, <2>3
    <3>6. QED BY <3>1, <3>2, <3>3, <3>5
  <2>4. QED BY <1>2, <1>4, <1>5, <1>6, <2>2, <2>3, EnqueueOrdered
<1>12. evicted' \in Seq(Nat) /\ Len(evicted') = Len(evicted) + 1
       /\ Elems(evicted') = Elems(evicted) \cup {t}
  <2>1. evicted \in Seq(Nat) BY DEF IInv, TypeOK
  <2>2. t \in Nat BY <1>3
  <2>3. QED BY <1>5, <2>1, <2>2, AppendFacts
<1>13. TypeOK'
  <2>1. accepted' \in Nat /\ dropped' \in Nat /\ next' \in Nat BY <1>2, <1>6
  <2>4. pending \subseteq Nat /\ next + 1 \in Nat BY <1>6 DEF IInv, TypeOK
  <2>2. pending' \subseteq Nat BY <1>2, <2>4
  <2>3. QED BY <1>2, <1>7, <1>12, <2>1, <2>2 DEF IInv, TypeOK
<1>14. Conservation'
  <2>1. /\ accepted = processed + unfinished + Len(evicted) /\ failures <= processed
        /\ Len(evicted) <= dropped /\ Len(items) <= MaxSize
        /\ unfinished = Len(items) + (IF Holding THEN 1 ELSE 0)
    BY DEF IInv, Conservation
  <2>8. accepted' = accepted + 1 /\ Len(evicted') = Len(evicted) + 1 BY <1>2, <1>12
  <2>9. accepted = processed + unfinished + Len(evicted)
        /\ processed \in Nat /\ unfinished \in Nat /\ Len(evicted) \in Nat
    BY <1>6, <2>1
  <2>2. accepted' = processed + unfinished + Len(evicted') BY <2>8, <2>9
  <2>3. Len(evicted') <= dropped' BY <1>2, <1>6, <1>12, <2>1
  <2>4. Holding' <=> Holding BY <1>2 DEF Holding
  <2>5. CASE Holding BY <1>2, <1>7, <2>1, <2>2, <2>3, <2>4, <2>5 DEF Conservation
  <2>6. CASE ~Holding BY <1>2, <1>7, <2>1, <2>2, <2>3, <2>4, <2>6 DEF Conservation
  <2>7. QED BY <2>5, <2>6
<1>15. Holding => inHand # t BY <1>3, <1>6, <1>8
<1>16. PendingExact'
  <2>1. Holding' <=> Holding BY <1>2 DEF Holding
  <2>2. /\ pending = Tickets(items) \cup (IF Holding THEN {inHand} ELSE {})
        /\ \A k \in 1..next : k \in pending \cup Elems(written) \cup Elems(evicted)
    BY DEF IInv, PendingExact
  <2>3. pending' = Tickets(items') \cup (IF Holding THEN {inHand} ELSE {})
    BY <1>2, <1>7, <1>10, <1>15, <2>2
  <2>4. \A k \in 1..(next + 1) : k \in 1..next \/ k = next + 1 BY <1>6
  <2>5. \A k \in 1..(next + 1) : k \in pending' \cup Elems(written) \cup Elems(evicted')
    BY <1>2, <1>12, <2>2, <2>4
  <2>6. QED BY <1>2, <2>1, <2>3, <2>5 DEF PendingExact
<1>17. Recorded' /\ NoLostWakeup' BY <1>2 DEF IInv, Recorded, NoLostWakeup
<1>18. Waiting'
  <2>1. \A c \in Callers : target[c] \in Nat /\ target[c] <= next BY QueueFacts
  <2>2. \A c \in Callers : target[c] <= next + 1 BY <1>6, <2>1
  <2>3. QED BY <1>2, <2>2 DEF Waiting, Alive
<1>19. AnswerKept'
  <2>1. \A c \in Callers : target[c] \in Nat /\ target[c] <= next BY QueueFacts
  <2>2. \A c \in Callers : next + 1 \notin 1..target[c] BY <1>6, <2>1
  <2>3. \A k : k \in Tickets(items') => k \in Tickets(items) \/ k = next + 1 BY <1>7, <1>10
  <2>4. QED BY <1>2, <2>2, <2>3 DEF IInv, AnswerKept
<1>20. QED BY <1>11, <1>13, <1>14, <1>16, <1>17, <1>18, <1>19 DEF IInv

\* An event that finds the queue full and nothing of lower severity changes only
\* the drop counter.
LEMMA DroppedInv ==
  ASSUME IInv, NEW e \in Severities, SubmitDropped(e)
  PROVE  IInv'
<1>1. /\ dropped' = dropped + 1
      /\ UNCHANGED <<items, pending, next, stopping, unfinished, accepted, processed, failures,
                     asleep, writer, inHand, pc, target, answer, written, evicted>>
  BY DEF SubmitDropped, queue, thread, calls, history
<1>2. dropped \in Nat /\ Len(evicted) \in Nat BY Numbers
<1>3. TypeOK'
  <2>1. dropped' \in Nat BY <1>1, <1>2
  <2>2. QED BY <1>1, <2>1 DEF IInv, TypeOK
<1>4. Conservation'
  <2>1. Len(evicted) <= dropped + 1 BY <1>2 DEF IInv, Conservation
  <2>2. QED BY <1>1, <2>1 DEF IInv, Conservation, Holding
<1>5. QueueOrdered' /\ PendingExact' BY <1>1 DEF IInv, QueueOrdered, PendingExact, Holding
<1>6. Recorded' /\ Waiting' /\ NoLostWakeup'
  BY <1>1 DEF IInv, Recorded, Waiting, NoLostWakeup, Holding, Alive
<1>7. AnswerKept' BY <1>1 DEF IInv, AnswerKept
<1>8. QED BY <1>3, <1>4, <1>5, <1>6, <1>7 DEF IInv

-----------------------------------------------------------------------------
(* The writer *)

\* A started thread finds the queue empty.
LEMMA StartInv ==
  ASSUME IInv, Start
  PROVE  IInv'
<1>1. /\ writer = "none" /\ writer' = "loop"
      /\ UNCHANGED <<items, pending, next, stopping, unfinished, accepted, processed, failures,
                     dropped, asleep, inHand, pc, target, answer, written, evicted>>
  BY DEF Start, queue, counters, calls, history
<1>2. ~Holding /\ ~Holding' BY <1>1 DEF Holding
<1>3. TypeOK' BY <1>1 DEF IInv, TypeOK
<1>4. Conservation' /\ QueueOrdered' /\ PendingExact'
  BY <1>1, <1>2 DEF IInv, Conservation, QueueOrdered, PendingExact
<1>5. Recorded' /\ Waiting' /\ NoLostWakeup'
  BY <1>1, <1>2 DEF IInv, Recorded, Waiting, NoLostWakeup, Alive
<1>6. AnswerKept' BY <1>1 DEF IInv, AnswerKept
<1>7. QED BY <1>3, <1>4, <1>5, <1>6 DEF IInv

\* The writer sleeps only when no caller does: a caller sleeps while there is work.
LEMMA WriterWaitsInv ==
  ASSUME IInv, WriterWaits
  PROVE  IInv'
<1>1. /\ writer = "loop" /\ items = <<>> /\ ~stopping /\ asleep' = asleep \cup {Writer}
      /\ UNCHANGED <<items, pending, next, stopping, unfinished, accepted, processed, failures,
                     dropped, writer, inHand, pc, target, answer, written, evicted>>
  BY DEF WriterWaits, queue, counters, thread, calls, history
<1>2. ~Holding BY <1>1 DEF Holding
<1>3. asleep' = {Writer}
  <2>1. asleep \subseteq Callers \cup {Writer} BY DEF IInv, TypeOK
  <2>2. \A c \in Callers : c \notin asleep BY <1>1, <1>2 DEF IInv, Waiting
  <2>3. QED BY <1>1, <2>1, <2>2
<1>4. \A c \in Callers : c \notin asleep' BY <1>3, AuditAssumption
<1>5. TypeOK' BY <1>1, <1>3 DEF IInv, TypeOK
<1>6. Conservation' /\ QueueOrdered' /\ PendingExact' /\ Recorded'
  BY <1>1 DEF IInv, Conservation, QueueOrdered, PendingExact, Recorded, Holding
<1>7. Waiting' /\ NoLostWakeup'
  BY <1>1, <1>3, <1>4 DEF IInv, Waiting, NoLostWakeup, Alive
<1>8. AnswerKept' BY <1>1 DEF IInv, AnswerKept
<1>9. QED BY <1>5, <1>6, <1>7, <1>8 DEF IInv

\* The event the writer pops stays pending while it is in its hand.
LEMMA WriterTakesInv ==
  ASSUME IInv, WriterTakes
  PROVE  IInv'
<1>1. /\ writer = "loop" /\ Writer \notin asleep /\ items # <<>>
      /\ inHand' = Head(items).ticket /\ items' = Tail(items) /\ writer' = "write"
      /\ UNCHANGED <<pending, next, stopping, unfinished, accepted, processed, failures,
                     dropped, asleep, pc, target, answer, written, evicted>>
  BY DEF WriterTakes, Awake, counters, calls, history
<1>2. ~Holding /\ Holding' BY <1>1 DEF Holding
<1>3. /\ items \in Seq(Entry) /\ DOMAIN items = 1..Len(items) /\ Len(items) \in Nat
      /\ \A i \in DOMAIN items : items[i] \in Entry /\ items[i].ticket \in Nat
  BY QueueFacts
<1>4. /\ items' \in Seq(Entry) /\ Len(items') = Len(items) - 1 /\ Len(items) >= 1
      /\ DOMAIN items' = 1..(Len(items) - 1)
      /\ \A i \in 1..(Len(items) - 1) : items'[i] = items[i + 1]
      /\ inHand' = items[1].ticket
  BY <1>1, <1>3
<1>5. Tickets(items) = Tickets(items') \cup {inHand'}
  <2>1. \A i \in 1..Len(items) : i = 1 \/ (i - 1 \in 1..(Len(items) - 1) /\ (i - 1) + 1 = i)
    BY <1>3
  <2>2. \A i \in 1..(Len(items) - 1) : i + 1 \in 1..Len(items) BY <1>3
  <2>3. Tickets(items) \subseteq Tickets(items') \cup {inHand'}
    <3>1. SUFFICES ASSUME NEW i \in 1..Len(items)
                   PROVE  items[i].ticket \in Tickets(items') \cup {inHand'}
      BY <1>3 DEF Tickets
    <3>2. CASE i = 1 BY <1>4, <3>2
    <3>3. CASE i # 1
      <4>1. i - 1 \in DOMAIN items' /\ items'[i - 1] = items[i] BY <1>4, <2>1, <3>3
      <4>2. QED BY <4>1 DEF Tickets
    <3>4. QED BY <3>2, <3>3
  <2>4. Tickets(items') \subseteq Tickets(items)
    BY <1>3, <1>4, <2>2 DEF Tickets
  <2>5. 1 \in DOMAIN items BY <1>3, <1>4
  <2>6. inHand' \in Tickets(items) BY <1>4, <2>5 DEF Tickets
  <2>7. QED BY <2>3, <2>4, <2>6
<1>6. TypeOK'
  <2>1. inHand' \in Nat BY <1>3, <1>4
  <2>2. QED BY <1>1, <1>4, <2>1 DEF IInv, TypeOK
<1>7. Conservation'
  <2>1. unfinished = Len(items) + 0 /\ Len(items) <= MaxSize BY <1>2 DEF IInv, Conservation
  <2>2. MaxSize \in Nat /\ unfinished \in Nat BY Numbers
  <2>3. unfinished = Len(items') + 1 /\ Len(items') <= MaxSize BY <1>3, <1>4, <2>1, <2>2
  <2>4. QED BY <1>1, <1>2, <2>3 DEF IInv, Conservation
<1>8. QueueOrdered'
  <2>1. \A i \in 1..(Len(items) - 1) : i + 1 \in 1..Len(items) /\ 1 < i + 1 BY <1>3
  <2>2. \A i, k \in 1..(Len(items) - 1) : i < k => i + 1 < k + 1 BY <1>3
  <2>3. 1 \in DOMAIN items BY <1>3, <1>4
  <2>4. /\ \A i \in DOMAIN items : items[i].ticket \in 1..next
        /\ \A i, k \in DOMAIN items : i < k => items[i].ticket < items[k].ticket
    BY DEF IInv, QueueOrdered
  <2>5. \A i \in DOMAIN items' : items'[i].ticket \in 1..next' /\ inHand' < items'[i].ticket
    BY <1>1, <1>3, <1>4, <2>1, <2>3, <2>4
  <2>6. \A i, k \in DOMAIN items' : i < k => items'[i].ticket < items'[k].ticket
    BY <1>3, <1>4, <2>1, <2>2, <2>4
  <2>7. inHand' \in 1..next' BY <1>1, <1>4, <2>3, <2>4
  <2>8. QED BY <2>5, <2>6, <2>7 DEF QueueOrdered
<1>9. PendingExact' BY <1>1, <1>2, <1>5 DEF IInv, PendingExact
<1>10. Recorded' /\ Waiting' /\ NoLostWakeup'
  BY <1>1, <1>2 DEF IInv, Recorded, Waiting, NoLostWakeup, Alive
<1>11. AnswerKept' BY <1>1, <1>5 DEF IInv, AnswerKept
<1>12. QED BY <1>6, <1>7, <1>8, <1>9, <1>10, <1>11 DEF IInv

\* The thread ends with nothing queued.
LEMMA WriterEndsInv ==
  ASSUME IInv, WriterEnds
  PROVE  IInv'
<1>1. /\ writer = "loop" /\ writer' = "ended" /\ items = <<>> /\ Writer \notin asleep
      /\ UNCHANGED <<items, pending, next, stopping, unfinished, accepted, processed, failures,
                     dropped, asleep, inHand, pc, target, answer, written, evicted>>
  BY DEF WriterEnds, Awake, queue, counters, calls, history
<1>2. ~Holding /\ ~Holding' BY <1>1 DEF Holding
<1>3. TypeOK' BY <1>1 DEF IInv, TypeOK
<1>4. Conservation' /\ QueueOrdered' /\ PendingExact'
  BY <1>1, <1>2 DEF IInv, Conservation, QueueOrdered, PendingExact
<1>5. Recorded' /\ Waiting' /\ NoLostWakeup'
  BY <1>1, <1>2 DEF IInv, Recorded, Waiting, NoLostWakeup, Alive
<1>6. AnswerKept' BY <1>1 DEF IInv, AnswerKept
<1>7. QED BY <1>3, <1>4, <1>5, <1>6 DEF IInv

\* A write, stored or failed, is over: its ticket goes to the history.
LEMMA WriteInv ==
  ASSUME IInv, Write
  PROVE  IInv'
<1>1. /\ writer = "write" /\ writer' \in {"stored", "failed"} /\ written' = Append(written, inHand)
      /\ UNCHANGED <<items, pending, next, stopping, unfinished, accepted, processed, failures,
                     dropped, asleep, inHand, pc, target, answer, evicted>>
  BY DEF Write, queue, counters, calls
<1>2. Holding /\ Holding' BY <1>1 DEF Holding
<1>3. written' \in Seq(Nat) /\ Elems(written') = Elems(written) \cup {inHand}
  <2>1. written \in Seq(Nat) /\ inHand \in Nat BY DEF IInv, TypeOK
  <2>2. QED BY <1>1, <2>1, AppendFacts
<1>4. TypeOK' BY <1>1, <1>3 DEF IInv, TypeOK
<1>5. Conservation' /\ QueueOrdered' /\ Recorded'
  BY <1>1, <1>2, <1>3 DEF IInv, Conservation, QueueOrdered, Recorded
<1>6. PendingExact' BY <1>1, <1>2, <1>3 DEF IInv, PendingExact
<1>7. Waiting' /\ NoLostWakeup'
  BY <1>1, <1>2 DEF IInv, Waiting, NoLostWakeup, Alive
<1>8. AnswerKept' BY <1>1 DEF IInv, AnswerKept
<1>9. QED BY <1>4, <1>5, <1>6, <1>7, <1>8 DEF IInv

\* The ticket that stops being pending is not queued: it is older than the queue.
LEMMA WriterDoneInv ==
  ASSUME IInv, WriterDone
  PROVE  IInv'
<1>1. /\ writer \in {"stored", "failed"} /\ writer' = "loop" /\ asleep' = {}
      /\ processed' = processed + 1 /\ unfinished' = unfinished - 1
      /\ failures' = IF writer = "failed" THEN failures + 1 ELSE failures
      /\ pending' = pending \ {inHand}
      /\ UNCHANGED <<items, next, stopping, accepted, dropped, inHand, pc, target, answer,
                     written, evicted>>
  BY DEF WriterDone, NotifyAll, calls, history
<1>2. Holding /\ ~Holding' BY <1>1 DEF Holding
<1>3. /\ unfinished \in Nat /\ accepted \in Nat /\ processed \in Nat /\ failures \in Nat
      /\ Len(items) \in Nat /\ Len(evicted) \in Nat
  BY Numbers
<1>4. /\ accepted = processed + unfinished + Len(evicted) /\ unfinished = Len(items) + 1
      /\ failures <= processed /\ Len(evicted) <= dropped /\ Len(items) <= MaxSize
  BY <1>2 DEF IInv, Conservation
<1>5. unfinished' = Len(items) + 0 /\ unfinished' \in Nat BY <1>1, <1>3, <1>4
<1>6. processed' \in Nat /\ failures' \in Nat /\ failures' <= processed'
  <2>1. failures' = failures \/ failures' = failures + 1 BY <1>1
  <2>2. QED BY <1>1, <1>3, <1>4, <2>1
<1>7. TypeOK' BY <1>1, <1>5, <1>6 DEF IInv, TypeOK
<1>8. Conservation'
  <2>1. accepted = processed' + unfinished' + Len(evicted) BY <1>1, <1>3, <1>4
  <2>2. QED BY <1>1, <1>2, <1>4, <1>5, <1>6, <2>1 DEF Conservation
<1>9. inHand \notin Tickets(items)
  <2>1. \A i \in DOMAIN items : inHand < items[i].ticket
    BY <1>2 DEF IInv, QueueOrdered
  <2>2. inHand \in Nat /\ \A i \in DOMAIN items : items[i].ticket \in Nat
    BY Numbers, QueueFacts
  <2>3. QED BY <2>1, <2>2 DEF Tickets
<1>10. QueueOrdered' BY <1>1, <1>2 DEF IInv, QueueOrdered
<1>11. PendingExact'
  <2>1. pending = Tickets(items) \cup {inHand} BY <1>2 DEF IInv, PendingExact
  <2>2. pending' = Tickets(items) BY <1>1, <1>9, <2>1
  <2>3. inHand \in Elems(written) BY <1>1 DEF IInv, Recorded
  <2>4. \A t \in 1..next : t \in pending' \cup Elems(written) \cup Elems(evicted)
    BY <1>1, <2>3 DEF IInv, PendingExact
  <2>5. QED BY <1>1, <1>2, <2>2, <2>4 DEF PendingExact
<1>12. Recorded' /\ Waiting' /\ NoLostWakeup'
  BY <1>1 DEF IInv, Recorded, Waiting, NoLostWakeup, Alive
<1>13. AnswerKept' BY <1>1 DEF IInv, AnswerKept
<1>14. QED BY <1>7, <1>8, <1>10, <1>11, <1>12, <1>13 DEF IInv

-----------------------------------------------------------------------------
(* barrier, flush, stop *)

\* Every event up to ticket t is out of the queue, and not being written.
Done(t) == \A k \in 1..t : k \notin Tickets(items) /\ ~(writer = "write" /\ inHand = k)

\* A caller's step leaves the queue and the writer alone.  It preserves the
\* invariant when a TRUE answer is meant and the caller sleeps only on work.
LEMMA CallInv ==
  ASSUME IInv, NEW c \in Callers, NEW t \in Nat, t <= next,
         NEW p \in {"idle", "barrier", "flush", "stop"}, NEW a \in BOOLEAN,
         UNCHANGED <<queue, counters, thread, history>>,
         pc' = [pc EXCEPT ![c] = p], answer' = [answer EXCEPT ![c] = a],
         target' = [target EXCEPT ![c] = t],
         asleep' \subseteq asleep \cup {c},
         c \in asleep' => items # <<>> \/ Holding,
         stopping' \in BOOLEAN, stopping' # stopping => asleep' = {},
         p = "idle" /\ a => Done(t)
  PROVE  IInv'
<1>1. UNCHANGED <<items, pending, next, unfinished, accepted, processed, failures, dropped,
                  writer, inHand, written, evicted>>
  BY DEF queue, counters, thread, history
<1>2. /\ pc \in [Callers -> {"idle", "barrier", "flush", "stop"}]
      /\ target \in [Callers -> Nat] /\ answer \in [Callers -> BOOLEAN]
      /\ asleep \subseteq Callers \cup {Writer}
  BY DEF IInv, TypeOK
<1>3. TypeOK' BY <1>1, <1>2 DEF IInv, TypeOK
<1>4. Conservation' /\ QueueOrdered' /\ PendingExact' /\ Recorded'
  BY <1>1 DEF IInv, Conservation, QueueOrdered, PendingExact, Recorded, Holding
<1>5. Waiting'
  <2>1. Writer # c BY AuditAssumption
  <2>2. Writer \in asleep' => Writer \in asleep BY <2>1
  <2>3. \A d \in Callers : d \in asleep' => items # <<>> \/ Holding
    BY DEF IInv, Waiting
  <2>4. \A d \in Callers : target'[d] <= next BY <1>2 DEF IInv, Waiting
  <2>5. QED BY <1>1, <2>2, <2>3, <2>4 DEF IInv, Waiting, Alive, Holding
<1>6. NoLostWakeup'
  <2>1. SUFFICES ASSUME Writer \in asleep'
                 PROVE  items' = <<>> /\ ~stopping' /\ asleep' = {Writer}
    BY DEF NoLostWakeup
  <2>2. Writer \in asleep BY <2>1, AuditAssumption
  <2>3. items = <<>> /\ ~stopping /\ asleep = {Writer} /\ ~Holding
    BY <2>2 DEF IInv, NoLostWakeup, Waiting, Holding
  <2>4. c \notin asleep' BY <2>3
  <2>5. stopping' = stopping BY <2>1
  <2>6. QED BY <1>1, <2>1, <2>3, <2>4, <2>5
<1>7. AnswerKept'
  <2>1. SUFFICES ASSUME NEW d \in Callers, pc'[d] = "idle", answer'[d], NEW k \in 1..target'[d]
                 PROVE  k \notin Tickets(items) /\ ~(writer = "write" /\ inHand = k)
    BY <1>1 DEF AnswerKept
  <2>2. CASE d = c
    <3>1. p = "idle" /\ a /\ k \in 1..t BY <1>2, <2>1, <2>2
    <3>2. QED BY <3>1 DEF Done
  <2>3. CASE d # c
    <3>1. pc[d] = "idle" /\ answer[d] /\ k \in 1..target[d] BY <1>2, <2>1, <2>3
    <3>2. QED BY <3>1 DEF IInv, AnswerKept
  <2>4. QED BY <2>2, <2>3
<1>8. QED BY <1>3, <1>4, <1>5, <1>6, <1>7 DEF IInv

\* Every step of a caller inside barrier, flush or stop.
LEMMA CallerStepInv ==
  ASSUME IInv, NEW c \in Callers, CallerStep(c)
  PROVE  IInv'
<1>1. /\ pc \in [Callers -> {"idle", "barrier", "flush", "stop"}]
      /\ target \in [Callers -> Nat] /\ answer \in [Callers -> BOOLEAN]
      /\ asleep \subseteq Callers \cup {Writer} /\ stopping \in BOOLEAN /\ next \in Nat
      /\ target[c] \in Nat /\ target[c] <= next /\ next <= next
  BY QueueFacts DEF IInv, TypeOK
<1>2. UNCHANGED <<queue, counters, thread, history>> /\ stopping' = stopping
  BY DEF CallerStep
<1>3. ASSUME NEW t \in Nat, Settled(t) PROVE Done(t)
  <2>1. pending = Tickets(items) \cup (IF Holding THEN {inHand} ELSE {})
        /\ pending \subseteq Nat
    BY DEF IInv, PendingExact, TypeOK
  <2>2. \A k \in 1..t : k \notin pending
    <3>1. SUFFICES ASSUME NEW k \in 1..t, k \in pending PROVE FALSE OBVIOUS
    <3>2. k > t BY <1>3, <3>1 DEF Settled
    <3>3. QED BY <3>1, <3>2
  <2>3. writer = "write" => Holding BY DEF Holding
  <2>4. QED BY <2>1, <2>2, <2>3 DEF Done
<1>4. ASSUME NEW t \in Nat, ~Settled(t) PROVE items # <<>> \/ Holding
  <2>1. pending = Tickets(items) \cup (IF Holding THEN {inHand} ELSE {})
    BY DEF IInv, PendingExact
  <2>2. pending # {} BY <1>4 DEF Settled
  <2>3. items = <<>> => Tickets(items) = {} BY DEF Tickets
  <2>4. QED BY <2>1, <2>2, <2>3
<1>5. unfinished = 0 => items = <<>> /\ ~Holding
  <2>1. unfinished = Len(items) + (IF Holding THEN 1 ELSE 0) BY DEF IInv, Conservation
  <2>2. Len(items) \in Nat /\ items \in Seq(Entry) BY QueueFacts
  <2>3. QED BY <2>1, <2>2
<1>6. unfinished # 0 => items # <<>> \/ Holding
  <2>1. unfinished = Len(items) + (IF Holding THEN 1 ELSE 0) BY DEF IInv, Conservation
  <2>2. items = <<>> => Len(items) = 0 OBVIOUS
  <2>3. QED BY <2>1, <2>2
<1>7. items = <<>> /\ writer # "write" => \A t \in Nat : Done(t)
  BY DEF Done, Tickets
<1>8. ASSUME NEW t \in Nat, t <= next, BarrierLoop(c, t) PROVE IInv'
  <2>1. target' = [target EXCEPT ![c] = t] BY <1>8 DEF BarrierLoop
  <2>2. CASE Settled(t)
    <3>1. Answer(c, TRUE) /\ asleep' = asleep BY <1>8, <2>2 DEF BarrierLoop
    <3>2. Done(t) BY <1>3, <2>2
    <3>3. c \in asleep' => items # <<>> \/ Holding BY <3>1 DEF IInv, Waiting
    <3>4. QED BY <1>1, <1>2, <1>8, <2>1, <3>1, <3>2, <3>3, CallInv DEF Answer
  <2>3. CASE ~Settled(t) /\ ~Alive
    <3>1. Answer(c, FALSE) /\ asleep' = asleep BY <1>8, <2>3 DEF BarrierLoop
    <3>2. c \in asleep' => items # <<>> \/ Holding BY <3>1 DEF IInv, Waiting
    <3>3. QED BY <1>1, <1>2, <1>8, <2>1, <3>1, <3>2, CallInv DEF Answer
  <2>4. CASE ~Settled(t) /\ Alive
    <3>1. Wait(c, "barrier") BY <1>8, <2>4 DEF BarrierLoop
    <3>2. items # <<>> \/ Holding BY <1>4, <2>4
    <3>3. answer' = [answer EXCEPT ![c] = answer[c]] /\ answer[c] \in BOOLEAN BY <1>1, <3>1 DEF Wait
    <3>4. QED BY <1>1, <1>2, <1>8, <2>1, <3>1, <3>2, <3>3, CallInv DEF Wait
  <2>5. QED BY <2>2, <2>3, <2>4
<1>9. ASSUME FlushLoop(c) PROVE IInv'
  <2>1. target' = [target EXCEPT ![c] = next] BY <1>9 DEF FlushLoop
  <2>2. CASE unfinished = 0
    <3>1. Answer(c, TRUE) /\ asleep' = asleep BY <1>9, <2>2 DEF FlushLoop
    <3>2. Done(next) BY <1>1, <1>5, <1>7, <2>2 DEF Holding
    <3>3. c \in asleep' => items # <<>> \/ Holding BY <3>1 DEF IInv, Waiting
    <3>4. QED BY <1>1, <1>2, <2>1, <3>1, <3>2, <3>3, CallInv DEF Answer
  <2>3. CASE unfinished # 0
    <3>1. Wait(c, "flush") BY <1>9, <2>3 DEF FlushLoop
    <3>2. answer' = [answer EXCEPT ![c] = answer[c]] /\ answer[c] \in BOOLEAN BY <1>1, <3>1 DEF Wait
    <3>3. QED BY <1>1, <1>2, <1>6, <2>1, <2>3, <3>1, <3>2, CallInv DEF Wait
  <2>4. QED BY <2>2, <2>3
<1>10. ASSUME Expire(c) PROVE IInv'
  <2>1. asleep' = asleep \ {c} BY <1>10 DEF Expire
  <2>2. CASE pc[c] = "barrier"
    <3>1. Answer(c, Settled(target[c])) /\ target' = [target EXCEPT ![c] = target[c]]
      BY <1>1, <1>10, <2>2 DEF Expire
    <3>2. Settled(target[c]) => Done(target[c]) BY <1>1, <1>3
    <3>3. QED BY <1>1, <1>2, <2>1, <3>1, <3>2, CallInv DEF Answer, Settled
  <2>3. CASE pc[c] # "barrier"
    <3>1. Answer(c, unfinished = 0) /\ target' = [target EXCEPT ![c] = next]
      BY <1>10, <2>3 DEF Expire
    <3>2. unfinished = 0 => Done(next) BY <1>1, <1>5, <1>7 DEF Holding
    <3>3. QED BY <1>1, <1>2, <2>1, <3>1, <3>2, CallInv DEF Answer
  <2>4. QED BY <2>2, <2>3
<1>11. ASSUME Joined(c) PROVE IInv'
  <2>1. Answer(c, ~Alive) /\ target' = [target EXCEPT ![c] = next] /\ asleep' = asleep
    BY <1>11 DEF Joined
  <2>2. ~Alive => Done(next) BY <1>1, <1>7 DEF IInv, Waiting, Alive
  <2>3. c \in asleep' => items # <<>> \/ Holding BY <2>1 DEF IInv, Waiting
  <2>4. CASE Alive
    <3>1. Answer(c, FALSE) BY <2>1, <2>4
    <3>2. QED BY <1>1, <1>2, <2>1, <2>3, <3>1, CallInv DEF Answer
  <2>5. CASE ~Alive
    <3>1. Answer(c, TRUE) BY <2>1, <2>5
    <3>2. QED BY <1>1, <1>2, <2>1, <2>2, <2>3, <2>5, <3>1, CallInv DEF Answer
  <2>6. QED BY <2>4, <2>5
<1>12. QED
  BY <1>1, <1>8, <1>9, <1>10, <1>11
  DEF CallerStep, Barrier, BarrierWoken, Flush, FlushWoken

\* stop() wakes everybody.
LEMMA StopStepInv ==
  ASSUME IInv, NEW c \in Callers, StopStep(c)
  PROVE  IInv'
<1>1. /\ pc' = [pc EXCEPT ![c] = "stop"] /\ stopping' = TRUE /\ asleep' = {}
      /\ UNCHANGED <<queue, counters, thread, history>> /\ target' = target /\ answer' = answer
  BY DEF StopStep, Stop, NotifyAll
<1>2. target \in [Callers -> Nat] /\ answer \in [Callers -> BOOLEAN] BY DEF IInv, TypeOK
<1>3. target' = [target EXCEPT ![c] = target[c]] /\ answer' = [answer EXCEPT ![c] = answer[c]]
      /\ target[c] \in Nat /\ answer[c] \in BOOLEAN
  BY <1>1, <1>2
<1>4. target[c] <= next BY QueueFacts
<1>5. QED BY <1>1, <1>3, <1>4, CallInv

-----------------------------------------------------------------------------
(* The invariant *)

\* An empty queue, no thread, no call.
LEMMA InitIInv == Init => IInv
<1>1. SUFFICES ASSUME Init PROVE IInv OBVIOUS
<1>2. ~Alive /\ ~Holding /\ items = <<>> /\ Len(items) = 0 /\ DOMAIN items = {}
  BY <1>1 DEF Init, Alive, Holding
<1>3. TypeOK
  <2>1. <<>> \in Seq(Entry) /\ <<>> \in Seq(Nat) OBVIOUS
  <2>2. items \in Seq(Entry) /\ written \in Seq(Nat) /\ evicted \in Seq(Nat)
    BY <1>1, <2>1 DEF Init
  <2>3. /\ pc \in [Callers -> {"idle", "barrier", "flush", "stop"}]
        /\ target \in [Callers -> Nat] /\ answer \in [Callers -> BOOLEAN]
    BY <1>1 DEF Init
  <2>4. {unfinished, accepted, processed, failures, dropped} \subseteq Nat BY <1>1 DEF Init
  <2>5. QED BY <1>1, <2>2, <2>3, <2>4 DEF Init, TypeOK
<1>4. Conservation BY <1>1, <1>2, AuditAssumption DEF Init, Conservation
<1>5. QueueOrdered /\ Recorded BY <1>1, <1>2 DEF Init, QueueOrdered, Recorded
<1>6. PendingExact BY <1>1, <1>2 DEF Init, PendingExact, Tickets
<1>7. Waiting /\ NoLostWakeup BY <1>1 DEF Init, Waiting, NoLostWakeup
<1>8. AnswerKept BY <1>1 DEF Init, AnswerKept
<1>9. QED BY <1>3, <1>4, <1>5, <1>6, <1>7, <1>8 DEF IInv

\* Every step of the dispatcher preserves the invariant.
LEMMA NextIInv == IInv /\ [Next]_vars => IInv'
<1>1. SUFFICES ASSUME IInv, [Next]_vars PROVE IInv' OBVIOUS
<1>2. ASSUME NEW e \in Severities, SubmitAccepted(e) PROVE IInv' BY <1>1, <1>2, AcceptedInv
<1>3. ASSUME NEW e \in Severities, SubmitReplacing(e) PROVE IInv' BY <1>1, <1>3, ReplacingInv
<1>4. ASSUME NEW e \in Severities, SubmitDropped(e) PROVE IInv' BY <1>1, <1>4, DroppedInv
<1>5. CASE Start BY <1>1, <1>5, StartInv
<1>6. CASE WriterStep
  BY <1>1, <1>6, WriterWaitsInv, WriterTakesInv, WriterEndsInv, WriteInv, WriterDoneInv DEF WriterStep
<1>7. ASSUME NEW c \in Callers, CallerStep(c) PROVE IInv' BY <1>1, <1>7, CallerStepInv
<1>8. ASSUME NEW c \in Callers, StopStep(c) PROVE IInv' BY <1>1, <1>8, StopStepInv
<1>9. CASE UNCHANGED vars
  <2>1. UNCHANGED <<items, pending, next, stopping, unfinished, accepted, processed, failures,
                    dropped, asleep, writer, inHand, pc, target, answer, written, evicted>>
    BY <1>9 DEF vars, queue, counters, thread, calls, history
  <2>2. TypeOK' /\ Conservation' /\ QueueOrdered'
    BY <1>1, <2>1 DEF IInv, TypeOK, Conservation, QueueOrdered, Holding
  <2>3. PendingExact' /\ Recorded' /\ Waiting'
    BY <1>1, <2>1 DEF IInv, PendingExact, Recorded, Waiting, Holding, Alive
  <2>4. NoLostWakeup' /\ AnswerKept' BY <1>1, <2>1 DEF IInv, NoLostWakeup, AnswerKept
  <2>5. QED BY <2>2, <2>3, <2>4 DEF IInv
<1>10. QED BY <1>1, <1>2, <1>3, <1>4, <1>5, <1>6, <1>7, <1>8, <1>9 DEF Next

\* The invariant holds in every reachable state.
LEMMA InvariantHolds == Spec => []IInv
<1>1. QED BY InitIInv, NextIInv, PTL DEF Spec

\* The dispatcher's variables keep their types, in every configuration.
THEOREM AuditTypeCorrect == Spec => []TypeOK
<1>1. IInv => TypeOK BY DEF IInv
<1>2. QED BY <1>1, InvariantHolds, PTL

\* The counters stats() reports add up and the queue stays within its capacity,
\* whatever the mix of evictions, failed writes and stops.
THEOREM CountsAddUp == Spec => []Conservation
<1>1. IInv => Conservation BY DEF IInv
<1>2. QED BY <1>1, InvariantHolds, PTL

\* No accepted event is forgotten: it is pending, written or evicted.
THEOREM NothingForgotten == Spec => []PendingExact
<1>1. IInv => PendingExact BY DEF IInv
<1>2. QED BY <1>1, InvariantHolds, PTL

\* The writer never sleeps while there is work, however many threads share the
\* condition a submission notifies once.
THEOREM WriterNeverMissesWork == Spec => []NoLostWakeup
<1>1. IInv => NoLostWakeup BY DEF IInv
<1>2. QED BY <1>1, InvariantHolds, PTL

\* A TRUE answer of barrier, flush or stop means that the events accepted before
\* it are in the database or evicted.
THEOREM AnswersMeanIt == Spec => []AnswerKept
<1>1. IInv => AnswerKept BY DEF IInv
<1>2. QED BY <1>1, InvariantHolds, PTL

-----------------------------------------------------------------------------
(* The order of what was written, and what was evicted *)

\* The tickets of the events the writer has yet to be called with.
Unwritten == Tickets(items) \cup (IF writer = "write" THEN {inHand} ELSE {})

\* What was written is older than everything that is not, and what was evicted is gone.
PastOrdered ==
  /\ WrittenInOrder
  /\ Elems(written) \cup Elems(evicted) \subseteq 1..next
  /\ \A w \in Elems(written), t \in Unwritten : w < t
  /\ Elems(evicted) \cap Unwritten = {}

\* Nothing is to be written but tickets that were given out.
LEMMA UnwrittenGiven ==
  ASSUME IInv PROVE Unwritten \subseteq 1..next
BY DEF IInv, QueueOrdered, Unwritten, Tickets, Holding

\* A step that writes and evicts nothing, and adds at most a new ticket.
LEMMA PastStays ==
  ASSUME IInv, PastOrdered, written' = written, evicted' = evicted,
         \/ next' = next /\ Unwritten' \subseteq Unwritten
         \/ next' = next + 1 /\ Unwritten' \subseteq Unwritten \cup {next + 1}
  PROVE  PastOrdered'
<1>0. next \in Nat BY Numbers
<1>1. WrittenInOrder' BY DEF PastOrdered, WrittenInOrder, Elems
<1>2. Elems(written)' = Elems(written) /\ Elems(evicted)' = Elems(evicted) BY DEF Elems
<1>3. (Elems(written) \cup Elems(evicted))' \subseteq 1..next'
  BY <1>0, <1>2 DEF PastOrdered
<1>4. \A w \in Elems(written)', t \in Unwritten' : w < t
  BY <1>0, <1>2 DEF PastOrdered
<1>5. Elems(evicted)' \cap Unwritten' = {}
  BY <1>0, <1>2 DEF PastOrdered
<1>6. QED BY <1>1, <1>3, <1>4, <1>5 DEF PastOrdered

\* The queue after a replacement: the other entries, in their order, and the new one.
LEMMA ReplacedQueue ==
  ASSUME IInv, NEW e \in Severities, NEW i \in DOMAIN items,
         Enqueue(RemoveAt(items, i), e, {items[i].ticket})
  PROVE  /\ \A k \in DOMAIN items' :
              \/ \E l \in DOMAIN items : l # i /\ items'[k] = items[l]
              \/ items'[k] = [ticket |-> next + 1, severity |-> e]
         /\ Tickets(items)' \subseteq (Tickets(items) \ {items[i].ticket}) \cup {next + 1}
<1> DEFINE s == RemoveAt(items, i)
           n == [ticket |-> next + 1, severity |-> e]
<1>1. /\ items \in Seq(Entry) /\ DOMAIN items = 1..Len(items) /\ Len(items) \in Nat
      /\ \A k \in DOMAIN items : items[k].ticket \in Nat
      /\ next \in Nat
  BY QueueFacts, Numbers
<1>2. /\ s \in Seq(Entry) /\ Len(s) = Len(items) - 1
      /\ \A k \in 1..(Len(items) - 1) : s[k] = IF k < i THEN items[k] ELSE items[k + 1]
  <2>1. i \in 1..Len(items) BY <1>1
  <2>2. QED BY <1>1, <2>1, RemoveAtFacts
<1>3. n \in Entry /\ items' = Append(s, n)
  BY <1>1 DEF Enqueue, Entry
<1> HIDE DEF s, n
<1>4. /\ Len(items') = Len(s) + 1 /\ items' \in Seq(Entry)
      /\ \A k \in 1..Len(s) : items'[k] = s[k]
      /\ items'[Len(s) + 1] = n
  BY <1>2, <1>3, AppendFacts
<1>5. ASSUME NEW k \in DOMAIN items'
      PROVE  (\E l \in DOMAIN items : l # i /\ items'[k] = items[l]) \/ items'[k] = n
  <2>1. k \in 1..Len(items) /\ (k \in 1..(Len(items) - 1) \/ k = Len(items))
    BY <1>1, <1>2, <1>4
  <2>2. CASE k = Len(items) BY <1>1, <1>2, <1>4, <2>2
  <2>3. CASE k \in 1..(Len(items) - 1) /\ k < i
    BY <1>1, <1>2, <1>4, <2>3
  <2>4. CASE k \in 1..(Len(items) - 1) /\ ~(k < i)
    <3>1. items'[k] = items[k + 1] /\ k + 1 \in DOMAIN items /\ k + 1 # i
      BY <1>1, <1>2, <1>4, <2>4
    <3>2. QED BY <3>1
  <2>5. QED BY <2>1, <2>2, <2>3, <2>4
<1>6. \A l \in DOMAIN items : l # i => items[l].ticket # items[i].ticket
  <2>1. ASSUME NEW l \in DOMAIN items, l # i PROVE items[l].ticket # items[i].ticket
    <3>1. l < i \/ i < l BY <1>1, <2>1
    <3>2. QED BY <1>1, <2>1, <3>1 DEF IInv, QueueOrdered
  <2>2. QED BY <2>1
<1>7. Tickets(items)' \subseteq (Tickets(items) \ {items[i].ticket}) \cup {next + 1}
  <2>1. n.ticket = next + 1 BY DEF n
  <2>2. QED BY <1>5, <1>6, <2>1 DEF Tickets
<1>8. QED BY <1>5, <1>7 DEF n

\* An evicted event leaves the queue before it is written.
LEMMA EvictedPast ==
  ASSUME IInv, PastOrdered, NEW e \in Severities, SubmitReplacing(e)
  PROVE  PastOrdered'
<1>1. PICK i \in DOMAIN items :
        /\ Enqueue(RemoveAt(items, i), e, {items[i].ticket})
        /\ evicted' = Append(evicted, items[i].ticket)
  BY DEF SubmitReplacing
<1> DEFINE t == items[i].ticket
<1>2. written' = written /\ next' = next + 1 /\ writer' = writer /\ inHand' = inHand /\ next \in Nat
  BY <1>1, Numbers DEF SubmitReplacing, Enqueue, thread
<1>3. t \in Tickets(items) /\ t \in Unwritten /\ t \in 1..next
  BY UnwrittenGiven DEF Unwritten, Tickets
<1>4. Elems(evicted)' = Elems(evicted) \cup {t}
  <2>1. evicted \in Seq(Nat) /\ t \in Nat BY <1>2, <1>3 DEF IInv, TypeOK
  <2>2. QED BY <1>1, <2>1, AppendFacts
<1>5. Unwritten' \subseteq (Unwritten \ {t}) \cup {next + 1}
  <2>1. Tickets(items)' \subseteq (Tickets(items) \ {t}) \cup {next + 1} BY <1>1, ReplacedQueue
  <2>2. writer = "write" => inHand < t /\ inHand \in Nat
    BY <1>2 DEF IInv, QueueOrdered, Holding, TypeOK
  <2>3. writer = "write" => inHand # t BY <1>2, <1>3, <2>2
  <2>4. QED BY <1>2, <2>1, <2>3 DEF Unwritten
<1> HIDE DEF t
<1>6. Elems(written)' = Elems(written) BY <1>2 DEF Elems
<1>7. WrittenInOrder'
  <2>1. \A w \in Elems(written) : w \in Nat /\ w < t /\ t \in Nat
    BY <1>2, <1>3 DEF PastOrdered
  <2>2. t \notin Elems(written) BY <2>1
  <2>3. Elems(written)' \cap Elems(evicted)' = {}
    BY <1>4, <1>6, <2>2 DEF PastOrdered, WrittenInOrder
  <2>4. QED BY <1>2, <2>3 DEF PastOrdered, WrittenInOrder
<1>8. (Elems(written) \cup Elems(evicted))' \subseteq 1..next'
  BY <1>2, <1>3, <1>4, <1>6 DEF PastOrdered
<1>9. \A w \in Elems(written)', k \in Unwritten' : w < k
  BY <1>2, <1>5, <1>6 DEF PastOrdered
<1>10. Elems(evicted)' \cap Unwritten' = {}
  BY <1>2, <1>4, <1>5, <1>3 DEF PastOrdered
<1>11. QED BY <1>7, <1>8, <1>9, <1>10 DEF PastOrdered

\* The event written next is older than the queue and younger than the past.
LEMMA WritePast ==
  ASSUME IInv, PastOrdered, Write
  PROVE  PastOrdered'
<1>1. /\ writer = "write" /\ writer' \in {"stored", "failed"} /\ items' = items /\ next' = next
      /\ evicted' = evicted /\ inHand' = inHand /\ written' = Append(written, inHand) /\ next \in Nat
  BY Numbers DEF Write, queue
<1>2. inHand \in 1..next /\ inHand \in Nat /\ inHand \in Unwritten
  BY <1>1, UnwrittenGiven DEF Unwritten
<1>3. /\ written \in Seq(Nat) /\ Len(written') = Len(written) + 1 /\ Len(written) \in Nat
      /\ DOMAIN written = 1..Len(written) /\ DOMAIN written' = 1..(Len(written) + 1)
      /\ \A k \in 1..Len(written) : written'[k] = written[k]
      /\ written'[Len(written) + 1] = inHand
      /\ Elems(written)' = Elems(written) \cup {inHand}
  <2>1. written \in Seq(Nat) BY DEF IInv, TypeOK
  <2>2. written' \in Seq(Nat) /\ Len(written') = Len(written) + 1
        /\ (\A k \in 1..Len(written) : written'[k] = written[k])
        /\ written'[Len(written) + 1] = inHand
        /\ Elems(written') = Elems(written) \cup {inHand}
    BY <1>1, <1>2, <2>1, AppendFacts
  <2>3. QED BY <2>1, <2>2
<1>4. \A w \in Elems(written) : w < inHand BY <1>2 DEF PastOrdered
<1>5. Unwritten' = Tickets(items) BY <1>1 DEF Unwritten
<1>6. \A t \in Tickets(items) : inHand < t
  BY <1>1 DEF IInv, QueueOrdered, Holding, Tickets
<1>7. WrittenInOrder'
  <2>1. ASSUME NEW i \in DOMAIN written', NEW k \in DOMAIN written', i < k
        PROVE  written'[i] < written'[k]
    <3>1. i \in 1..Len(written) /\ (k \in 1..Len(written) \/ k = Len(written) + 1)
      BY <1>3, <2>1
    <3>2. CASE k \in 1..Len(written)
      BY <1>3, <2>1, <3>1, <3>2 DEF PastOrdered, WrittenInOrder
    <3>3. CASE k = Len(written) + 1
      <4>1. written[i] \in Elems(written) BY <1>3, <3>1 DEF Elems
      <4>2. QED BY <1>3, <1>4, <3>1, <3>3, <4>1
    <3>4. QED BY <3>1, <3>2, <3>3
  <2>2. Elems(written)' \cap Elems(evicted)' = {}
    BY <1>1, <1>2, <1>3 DEF PastOrdered, WrittenInOrder
  <2>3. QED BY <2>1, <2>2 DEF WrittenInOrder
<1>8. (Elems(written) \cup Elems(evicted))' \subseteq 1..next'
  BY <1>1, <1>2, <1>3 DEF PastOrdered
<1>9. \A w \in Elems(written)', t \in Unwritten' : w < t
  BY <1>3, <1>5, <1>6 DEF PastOrdered, Unwritten
<1>10. Elems(evicted)' \cap Unwritten' = {}
  BY <1>1, <1>5 DEF PastOrdered, Unwritten
<1>11. QED BY <1>7, <1>8, <1>9, <1>10 DEF PastOrdered

\* Every step keeps the past in order.
LEMMA NextPast == IInv /\ PastOrdered /\ [Next]_vars => PastOrdered'
<1> SUFFICES ASSUME IInv, PastOrdered, [Next]_vars PROVE PastOrdered' OBVIOUS
<1>1. ASSUME NEW e \in Severities, SubmitAccepted(e) PROVE PastOrdered'
  <2>1. written' = written /\ evicted' = evicted /\ next' = next + 1 /\ writer' = writer /\ inHand' = inHand
    BY <1>1 DEF SubmitAccepted, Enqueue, thread, history
  <2>2. Tickets(items)' = Tickets(items) \cup {next + 1}
    BY <1>1, QueueFacts, Numbers, EnqueueFacts DEF SubmitAccepted
  <2>3. Unwritten' \subseteq Unwritten \cup {next + 1} BY <2>1, <2>2 DEF Unwritten
  <2>4. QED BY <2>1, <2>3, PastStays
<1>2. ASSUME NEW e \in Severities, SubmitDropped(e) PROVE PastOrdered'
  BY <1>2, PastStays DEF SubmitDropped, queue, thread, history, Unwritten
<1>3. CASE Start \/ WriterWaits \/ WriterEnds \/ WriterDone
  <2>1. writer' # "write" \/ writer' = writer
    BY <1>3 DEF Start, WriterWaits, WriterEnds, WriterDone, queue, thread
  <2>2. items' = items /\ inHand' = inHand /\ next' = next /\ written' = written /\ evicted' = evicted
    BY <1>3 DEF Start, WriterWaits, WriterEnds, WriterDone, queue, thread, history
  <2>3. Unwritten' \subseteq Unwritten BY <2>1, <2>2 DEF Unwritten
  <2>4. QED BY <2>2, <2>3, PastStays
<1>4. CASE WriterTakes
  <2>1. /\ items # <<>> /\ inHand' = Head(items).ticket /\ items' = Tail(items)
        /\ written' = written /\ evicted' = evicted /\ next' = next
    BY <1>4 DEF WriterTakes, history
  <2>2. /\ items \in Seq(Entry) /\ Len(items) \in Nat /\ DOMAIN items = 1..Len(items)
    BY QueueFacts
  <2>3. /\ DOMAIN items' = 1..(Len(items) - 1) /\ \A k \in 1..(Len(items) - 1) : items'[k] = items[k + 1]
        /\ inHand' = items[1].ticket /\ 1 \in DOMAIN items
    BY <2>1, <2>2
  <2>4. \A k \in DOMAIN items' : k + 1 \in DOMAIN items /\ items'[k] = items[k + 1]
    BY <2>2, <2>3
  <2>5. Unwritten' \subseteq Unwritten BY <2>3, <2>4 DEF Unwritten, Tickets
  <2>6. QED BY <2>1, <2>5, PastStays
<1>5. ASSUME NEW c \in Callers, CallerStep(c) \/ StopStep(c) PROVE PastOrdered'
  <2>1. UNCHANGED <<items, next, writer, inHand, written, evicted>>
    BY <1>5 DEF CallerStep, StopStep, queue, thread, history
  <2>2. QED BY <2>1, PastStays DEF Unwritten
<1>6. CASE UNCHANGED vars
  <2>1. UNCHANGED <<items, next, writer, inHand, written, evicted>>
    BY <1>6 DEF vars, queue, thread, history
  <2>2. QED BY <2>1, PastStays DEF Unwritten
<1>7. QED BY <1>1, <1>2, <1>3, <1>4, <1>5, <1>6, EvictedPast, WritePast DEF Next, WriterStep

\* Of the events in a full queue, the one that goes is the oldest of the least
\* severe, and it is less severe than the one that comes.
LEMMA LeastSevereGoes ==
  ASSUME IInv, Next, NEW t \in Tickets(items), evicted' = Append(evicted, t)
  PROVE  \E i \in DOMAIN items :
           /\ items[i].ticket = t
           /\ \A k \in DOMAIN items' : items[i].severity <= items'[k].severity
           /\ \A k \in 1..(i - 1) : items[k].severity > items[i].severity
<1>1. evicted' # evicted
  <2>1. evicted \in Seq(Nat) BY DEF IInv, TypeOK
  <2>2. Len(Append(evicted, t)) = Len(evicted) + 1 /\ Len(evicted) \in Nat BY <2>1
  <2>3. QED BY <2>2
<1>2. PICK e \in Severities : SubmitReplacing(e)
  BY <1>1 DEF Next, SubmitAccepted, SubmitDropped, Start, WriterStep, WriterWaits, WriterTakes, WriterEnds,
     Write, WriterDone, CallerStep, StopStep, history
<1>3. PICK i \in DOMAIN items :
        /\ Replaces(e, i)
        /\ Enqueue(RemoveAt(items, i), e, {items[i].ticket})
        /\ evicted' = Append(evicted, items[i].ticket)
  BY <1>2 DEF SubmitReplacing
<1>4. items[i].ticket = t
  <2>1. evicted \in Seq(Nat) /\ items[i].ticket \in Nat /\ t \in Nat
    BY QueueFacts DEF IInv, TypeOK, Tickets
  <2>2. /\ Append(evicted, t)[Len(evicted) + 1] = t
        /\ Append(evicted, items[i].ticket)[Len(evicted) + 1] = items[i].ticket
    BY <2>1, AppendFacts
  <2>3. QED BY <1>3, <2>2
<1>5. /\ DOMAIN items = 1..Len(items) /\ Len(items) \in Nat
      /\ \A k \in DOMAIN items : items[k].severity \in Nat
      /\ e \in Nat
  BY QueueFacts, AuditAssumption DEF Entry
<1>6. \A k \in DOMAIN items : items[i].severity <= items[k].severity
  BY <1>3, <1>5 DEF Replaces, Lower
<1>7. items[i].severity < e BY <1>3 DEF Replaces, Lower
<1>8. \A k \in DOMAIN items' : items[i].severity <= items'[k].severity
  <2>1. \A k \in DOMAIN items' :
          (\E l \in DOMAIN items : items'[k] = items[l]) \/ items'[k] = [ticket |-> next + 1, severity |-> e]
    BY <1>3, ReplacedQueue
  <2>2. QED BY <1>5, <1>6, <1>7, <2>1
<1>9. \A k \in 1..(i - 1) : items[k].severity > items[i].severity
  <2>1. \A k \in 1..(i - 1) : k \in DOMAIN items /\ ~(i <= k) BY <1>5
  <2>2. QED BY <1>3, <1>5, <1>7, <2>1 DEF Replaces, Lower
<1>10. QED BY <1>4, <1>8, <1>9

\* The queue is one: what is written is in order, what is evicted is the least severe.
THEOREM QueueIsDisciplined == Spec => QueueDiscipline
<1>1. Init => PastOrdered
  BY DEF Init, PastOrdered, WrittenInOrder, Elems, Unwritten, Tickets
<1>2. IInv /\ [Next]_vars
        => [\A t \in Tickets(items) : evicted' = Append(evicted, t) =>
              \E i \in DOMAIN items :
                /\ items[i].ticket = t
                /\ \A k \in DOMAIN items' : items[i].severity <= items'[k].severity
                /\ \A k \in 1..(i - 1) : items[k].severity > items[i].severity]_vars
  BY LeastSevereGoes
<1>3. PastOrdered => WrittenInOrder BY DEF PastOrdered
<1>4. QED
  BY <1>1, <1>2, <1>3, NextPast, InvariantHolds, PTL DEF Spec, QueueDiscipline, LeastSevereEvicted
=============================================================================
