--------------------------- MODULE AuditDispatcher ---------------------------
(***************************************************************************)
(* The bounded audit queue of app/audit_dispatcher.py: any thread submits  *)
(* events, one daemon thread writes them.  All of them, and the threads    *)
(* that wait in barrier and flush, share one threading.Condition; a step   *)
(* is what happens between two releases of it, and asleep is the set of    *)
(* threads inside Condition.wait().  A submission to a queue that has room *)
(* wakes only one of them.                                                 *)
(*                                                                         *)
(* One dispatcher lives as long as the application (runtime.lifespan): it  *)
(* is started once and stopped at shutdown.                                *)
(***************************************************************************)
EXTENDS Integers, Sequences, SequencesExt

CONSTANTS
  Callers,      \* threads that call barrier, flush or stop
  Writer,       \* the writer thread
  Severities,   \* priorities of _SEVERITY_PRIORITY
  MaxSize,      \* _maxsize
  MaxEvents     \* bound on the events submitted

ASSUME AuditAssumption ==
  /\ Writer \notin Callers
  /\ Severities \subseteq Nat
  /\ MaxSize \in Nat \ {0}
  /\ MaxEvents \in Nat

VARIABLES
  items,        \* _items: the queued (ticket, event) pairs, oldest first
  pending,      \* _pending_tickets
  next,         \* _next_ticket
  stopping,     \* _stopping
  unfinished, accepted, processed, failures, dropped,   \* the counters; _dropped summed
  asleep,       \* the threads inside _condition.wait()
  writer,       \* where the writer thread is
  inHand,       \* the ticket the writer popped last
  pc,           \* the call each caller is in
  target,       \* target_ticket of a barrier; _next_ticket when a call answers
  answer,       \* the last answer each caller got
  written,      \* history: the tickets the writer was called with, in order
  evicted       \* history: the tickets replaced in a full queue

counters == <<unfinished, accepted, processed, failures, dropped>>
queue == <<items, pending, next>>
thread == <<writer, inHand>>
calls == <<pc, target, answer>>
history == <<written, evicted>>
vars == <<queue, stopping, counters, asleep, thread, calls, history>>

Entry == [ticket: Nat, severity: Severities]
Alive == writer \notin {"none", "ended"}
Holding == writer \in {"write", "stored", "failed"}
Tickets(s) == {s[i].ticket : i \in DOMAIN s}
Elems(s) == {s[i] : i \in DOMAIN s}

-----------------------------------------------------------------------------
(* submit *)

\* notify() wakes one waiting thread, notify_all() every one.
Notify == IF asleep = {} THEN UNCHANGED asleep
                         ELSE \E x \in asleep : asleep' = asleep \ {x}
NotifyAll == asleep' = {}

\* Faulty: an evicted ticket stays pending.
EnqueueKeepsTicket(s, e, gone) ==
  /\ next' = next + 1
  /\ items' = Append(s, [ticket |-> next + 1, severity |-> e])
  /\ pending' = pending \cup {next + 1}
  /\ accepted' = accepted + 1

\* _enqueue_locked onto s, with the tickets gone discarded.
Enqueue(s, e, gone) ==
  /\ next' = next + 1
  /\ items' = Append(s, [ticket |-> next + 1, severity |-> e])
  /\ pending' = (pending \ gone) \cup {next + 1}
  /\ accepted' = accepted + 1

Lower(e) == {i \in DOMAIN items : items[i].severity < e}
\* Faulty: the oldest entry of any lower severity.
ReplacesFirst(e, i) == i \in Lower(e) /\ \A k \in Lower(e) : i <= k
\* The oldest entry of the lowest severity, if that is lower than the incoming one's.
Replaces(e, i) ==
  /\ i \in Lower(e)
  /\ \A k \in Lower(e) : items[i].severity < items[k].severity
                       \/ (items[i].severity = items[k].severity /\ i <= k)

Bounded == accepted + dropped < MaxEvents

SubmitAccepted(e) ==
  /\ Bounded
  /\ Alive /\ ~stopping /\ Len(items) < MaxSize
  /\ Enqueue(items, e, {})
  /\ unfinished' = unfinished + 1
  /\ Notify
  /\ UNCHANGED <<stopping, processed, failures, dropped, thread, calls, history>>

\* Faulty: the replacement takes the place of the evicted entry.
SubmitInPlace(e) ==
  /\ Bounded
  /\ Alive /\ ~stopping /\ Len(items) >= MaxSize
  /\ \E i \in DOMAIN items :
       /\ Replaces(e, i)
       /\ next' = next + 1 /\ accepted' = accepted + 1
       /\ pending' = (pending \ {items[i].ticket}) \cup {next + 1}
       /\ evicted' = Append(evicted, items[i].ticket)
       /\ items' = [items EXCEPT ![i] = [ticket |-> next + 1, severity |-> e]]
  /\ dropped' = dropped + 1
  /\ NotifyAll
  /\ UNCHANGED <<stopping, unfinished, processed, failures, thread, calls, written>>

SubmitReplacing(e) ==
  /\ Bounded
  /\ Alive /\ ~stopping /\ Len(items) >= MaxSize
  /\ \E i \in DOMAIN items :
       /\ Replaces(e, i)
       /\ Enqueue(RemoveAt(items, i), e, {items[i].ticket})
       /\ evicted' = Append(evicted, items[i].ticket)
  /\ dropped' = dropped + 1
  /\ NotifyAll
  /\ UNCHANGED <<stopping, unfinished, processed, failures, thread, calls, written>>

SubmitDropped(e) ==
  /\ Bounded
  /\ Alive /\ ~stopping => Len(items) >= MaxSize /\ Lower(e) = {}
  /\ dropped' = dropped + 1
  /\ UNCHANGED <<queue, stopping, unfinished, accepted, processed, failures, asleep, thread,
                 calls, history>>

-----------------------------------------------------------------------------
(* The writer thread: _run *)

Start ==
  /\ writer = "none" /\ ~stopping
  /\ writer' = "loop"
  /\ UNCHANGED <<queue, stopping, counters, asleep, inHand, calls, history>>

Awake(x) == x \notin asleep

WriterWaits ==
  /\ writer = "loop" /\ Awake(Writer)
  /\ items = <<>> /\ ~stopping
  /\ asleep' = asleep \cup {Writer}
  /\ UNCHANGED <<queue, stopping, counters, thread, calls, history>>

\* Faulty: the ticket is settled when the event is popped, not when it is written.
WriterSettlesEarly ==
  /\ writer = "loop" /\ Awake(Writer)
  /\ items # <<>>
  /\ inHand' = Head(items).ticket
  /\ items' = Tail(items)
  /\ pending' = pending \ {Head(items).ticket}
  /\ writer' = "write"
  /\ UNCHANGED <<next, stopping, counters, asleep, calls, history>>

WriterTakes ==
  /\ writer = "loop" /\ Awake(Writer)
  /\ items # <<>>
  /\ inHand' = Head(items).ticket
  /\ items' = Tail(items)
  /\ writer' = "write"
  /\ UNCHANGED <<pending, next, stopping, counters, asleep, calls, history>>

\* Faulty: the thread returns as soon as it is told to stop.
WriterEndsAtOnce ==
  /\ writer = "loop" /\ Awake(Writer)
  /\ stopping
  /\ writer' = "ended"
  /\ UNCHANGED <<queue, stopping, counters, asleep, inHand, calls, history>>

WriterEnds ==
  /\ writer = "loop" /\ Awake(Writer)
  /\ stopping /\ items = <<>>
  /\ writer' = "ended"
  /\ UNCHANGED <<queue, stopping, counters, asleep, inHand, calls, history>>

\* The writer callback, outside the lock; it may raise.
Write ==
  /\ writer = "write"
  /\ writer' \in {"stored", "failed"}
  /\ written' = Append(written, inHand)
  /\ UNCHANGED <<queue, stopping, counters, asleep, inHand, calls, evicted>>

\* Faulty: a failed write is not counted as processed.
WriterCountsStored ==
  /\ writer \in {"stored", "failed"}
  /\ writer' = "loop"
  /\ processed' = IF writer = "stored" THEN processed + 1 ELSE processed
  /\ failures' = IF writer = "failed" THEN failures + 1 ELSE failures
  /\ pending' = pending \ {inHand}
  /\ unfinished' = unfinished - 1
  /\ NotifyAll
  /\ UNCHANGED <<items, next, stopping, accepted, dropped, inHand, calls, history>>

\* Faulty: nobody is told that an event is done.
WriterSilent ==
  /\ writer \in {"stored", "failed"}
  /\ writer' = "loop"
  /\ processed' = processed + 1
  /\ failures' = IF writer = "failed" THEN failures + 1 ELSE failures
  /\ pending' = pending \ {inHand}
  /\ unfinished' = unfinished - 1
  /\ UNCHANGED <<items, next, stopping, accepted, dropped, asleep, inHand, calls, history>>

WriterDone ==
  /\ writer \in {"stored", "failed"}
  /\ writer' = "loop"
  /\ processed' = processed + 1
  /\ failures' = IF writer = "failed" THEN failures + 1 ELSE failures
  /\ pending' = pending \ {inHand}
  /\ unfinished' = unfinished - 1
  /\ NotifyAll
  /\ UNCHANGED <<items, next, stopping, accepted, dropped, inHand, calls, history>>

-----------------------------------------------------------------------------
(* barrier, flush, stop *)

Answer(c, a) ==
  /\ pc' = [pc EXCEPT ![c] = "idle"]
  /\ answer' = [answer EXCEPT ![c] = a]

Wait(c, call) ==
  /\ pc' = [pc EXCEPT ![c] = call]
  /\ asleep' = asleep \cup {c}
  /\ UNCHANGED answer

Settled(t) == \A k \in pending : k > t

\* One pass of barrier's loop for the target t.
BarrierLoop(c, t) ==
  /\ target' = [target EXCEPT ![c] = t]
  /\ IF Settled(t) THEN Answer(c, TRUE) /\ UNCHANGED asleep
     ELSE IF ~Alive THEN Answer(c, FALSE) /\ UNCHANGED asleep
     ELSE Wait(c, "barrier")

FlushLoop(c) ==
  /\ target' = [target EXCEPT ![c] = next]
  /\ IF unfinished = 0 THEN Answer(c, TRUE) /\ UNCHANGED asleep ELSE Wait(c, "flush")

Barrier(c) == pc[c] = "idle" /\ BarrierLoop(c, next)
BarrierWoken(c) == pc[c] = "barrier" /\ Awake(c) /\ BarrierLoop(c, target[c])
Flush(c) == pc[c] = "idle" /\ FlushLoop(c)
FlushWoken(c) == pc[c] = "flush" /\ Awake(c) /\ FlushLoop(c)

\* The deadline passes: the loop's condition is looked at once more.
Expire(c) ==
  /\ pc[c] \in {"barrier", "flush"}
  /\ Answer(c, IF pc[c] = "barrier" THEN Settled(target[c]) ELSE unfinished = 0)
  /\ target' = IF pc[c] = "barrier" THEN target ELSE [target EXCEPT ![c] = next]
  /\ asleep' = asleep \ {c}

\* Faulty: the flag is set and the writer is not woken.
StopSilent(c) ==
  /\ pc[c] = "idle"
  /\ stopping' = TRUE
  /\ pc' = [pc EXCEPT ![c] = "stop"]
  /\ UNCHANGED <<target, answer, asleep>>

Stop(c) ==
  /\ pc[c] = "idle"
  /\ stopping' = TRUE
  /\ NotifyAll
  /\ pc' = [pc EXCEPT ![c] = "stop"]
  /\ UNCHANGED <<target, answer>>

\* thread.join ends with the thread, or at the deadline.
Joined(c) ==
  /\ pc[c] = "stop"
  /\ Answer(c, ~Alive)
  /\ target' = [target EXCEPT ![c] = next]
  /\ UNCHANGED asleep

CallerStep(c) ==
  /\ \/ Barrier(c) \/ BarrierWoken(c) \/ Flush(c) \/ FlushWoken(c) \/ Expire(c) \/ Joined(c)
     /\ UNCHANGED stopping
  /\ UNCHANGED <<queue, counters, thread, history>>

StopStep(c) == Stop(c) /\ UNCHANGED <<queue, counters, thread, history>>

-----------------------------------------------------------------------------
Init ==
  /\ items = <<>> /\ pending = {} /\ next = 0
  /\ stopping = FALSE
  /\ unfinished = 0 /\ accepted = 0 /\ processed = 0 /\ failures = 0 /\ dropped = 0
  /\ asleep = {}
  /\ writer = "none" /\ inHand = 0
  /\ pc = [c \in Callers |-> "idle"]
  /\ target = [c \in Callers |-> 0]
  /\ answer = [c \in Callers |-> FALSE]
  /\ written = <<>> /\ evicted = <<>>

WriterStep == WriterWaits \/ WriterTakes \/ WriterEnds \/ Write \/ WriterDone

Next ==
  \/ \E e \in Severities : SubmitAccepted(e) \/ SubmitReplacing(e) \/ SubmitDropped(e)
  \/ Start
  \/ WriterStep
  \/ \E c \in Callers : CallerStep(c) \/ StopStep(c)

Spec == Init /\ [][Next]_vars

\* A thread that is runnable runs, and a write to the database ends; callers may
\* never call and deadlines need not pass.
Resumes(c) == (BarrierWoken(c) \/ FlushWoken(c)) /\ UNCHANGED <<stopping, queue, counters, thread, history>>
FairSpec == Spec /\ WF_vars(WriterStep) /\ \A c \in Callers : WF_vars(Resumes(c))

-----------------------------------------------------------------------------
(* Properties *)

\* Every variable keeps its type.
TypeOK ==
  /\ items \in Seq(Entry) /\ pending \subseteq Nat /\ next \in Nat
  /\ stopping \in BOOLEAN
  /\ {unfinished, accepted, processed, failures, dropped} \subseteq Nat
  /\ asleep \subseteq Callers \cup {Writer}
  /\ writer \in {"none", "loop", "write", "stored", "failed", "ended"}
  /\ inHand \in Nat
  /\ pc \in [Callers -> {"idle", "barrier", "flush", "stop"}]
  /\ target \in [Callers -> Nat] /\ answer \in [Callers -> BOOLEAN]
  /\ written \in Seq(Nat) /\ evicted \in Seq(Nat)

\* No event is lost uncounted: what stats() reports adds up, whatever the mix of
\* evictions, failed writes and stops.
Conservation ==
  /\ accepted = processed + unfinished + Len(evicted)
  /\ unfinished = Len(items) + (IF Holding THEN 1 ELSE 0)
  /\ failures <= processed
  /\ Len(evicted) <= dropped
  /\ Len(items) <= MaxSize

\* The pending tickets are those queued or in the writer's hand, and every other
\* ticket given out has been written or evicted: no event is forgotten.
PendingExact ==
  /\ pending = Tickets(items) \cup (IF Holding THEN {inHand} ELSE {})
  /\ \A t \in 1..next : t \in pending \cup Elems(written) \cup Elems(evicted)

\* A barrier, flush or stop that answers TRUE means it: every event accepted before
\* has been written or evicted (a read of the audit log after the barrier sees it).
AnswerKept ==
  \A c \in Callers : pc[c] = "idle" /\ answer[c] =>
    \A t \in 1..target[c] : t \notin Tickets(items) /\ ~(writer = "write" /\ inHand = t)

\* Events reach the database in the order they were accepted, each at most once,
\* and an evicted one never does.
WrittenInOrder ==
  /\ \A i, k \in DOMAIN written : i < k => written[i] < written[k]
  /\ Elems(written) \cap Elems(evicted) = {}

\* The one notify() of a submission cannot be swallowed by a waiting barrier: while
\* there is work, the writer is not asleep.
NoLostWakeup == Writer \in asleep => items = <<>> /\ ~stopping /\ asleep = {Writer}

\* "When full, a higher-severity event may replace the oldest lower-severity event;
\* otherwise the incoming event is dropped": nothing left in the queue is of lower
\* severity than what was evicted, nor of the same severity and older.
LeastSevereEvicted ==
  [][\A t \in Tickets(items) : evicted' = Append(evicted, t) =>
       \E i \in DOMAIN items :
         /\ items[i].ticket = t
         /\ \A k \in DOMAIN items' : items[i].severity <= items'[k].severity
         /\ \A k \in 1..(i - 1) : items[k].severity > items[i].severity]_vars

\* Every accepted event is settled: written, tried or evicted.
EventSettled == \A t \in 1..MaxEvents : t \in pending ~> t \notin pending

\* barrier and flush are woken when they are done; they never need their deadline.
CallReturns == \A c \in Callers : pc[c] \in {"barrier", "flush"} ~> pc[c] = "idle"

\* The queue is one: written in order, evicted by severity and age.
QueueDiscipline == []WrittenInOrder /\ LeastSevereEvicted

\* With a writer that is scheduled, events are settled and callers return.
EverythingSettles == EventSettled /\ CallReturns
=============================================================================
