------------------------- MODULE ControlLeaseProofs -------------------------
(***************************************************************************)
(* Proofs about ControlLease, for every set of accounts, sockets, viewers  *)
(* and requests and every value of the intervals and bounds.               *)
(***************************************************************************)
EXTENDS ControlLease, TLAPS

\* The inductive invariant.
IInv == TypeOK /\ FenceInv

-----------------------------------------------------------------------------
(* Lemmas about the operators *)

\* Pruning, or deleting an account's rows, leaves the row or nothing.
LEMMA RowShrinks ==
  /\ Pruned \in {row, NoLease}
  /\ \A u : WithoutRowsOf(u) \in {row, NoLease}
BY DEF Pruned, WithoutRowsOf

\* Renewing leaves the row, an extended row of the same client, or nothing.
LEMMA RenewKeepsClient ==
  ASSUME WorldOK, LockOK, NEW j \in Job
  PROVE  /\ RenewedRow(j) \in Row \cup {NoLease}
         /\ RenewedRow(j) # NoLease
              => row # NoLease /\ RenewedRow(j).client = row.client
<1>1. CASE Renews(j)
  <2>1. row \in Row /\ row # NoLease BY <1>1 DEF Renews, LockOK
  <2>2. RenewedRow(j) = [row EXCEPT !.expires = now + TTL] BY <1>1 DEF RenewedRow
  <2>3. now + TTL \in Nat BY ControlLeaseAssumption DEF WorldOK
  <2>4. QED BY <2>1, <2>2, <2>3 DEF Row
<1>2. CASE ~Renews(j)
  BY <1>2, RowShrinks DEF RenewedRow, LockOK
<1>3. QED BY <1>1, <1>2

\* Noting an outcome changes only the outcome.
LEMMA JobFields ==
  ASSUME NEW j \in Job, NEW ok \in BOOLEAN, NEW e \in Nat
  PROVE  /\ Noted(j, ok, e) \in Job
         /\ Noted(j, ok, e).user = j.user
         /\ Noted(j, ok, e).client = j.client
         /\ Noted(j, ok, e).ok = ok
         /\ Noted(j, ok, e).epoch = e
BY DEF Noted, Job

\* A new call carries its arguments and no outcome.
LEMMA CallFields ==
  ASSUME NEW k \in Kinds \cup {"close", "none"}, NEW u \in Users \cup {NoOne},
         NEW c \in Clients \cup {NoOne}, NEW f \in BOOLEAN, NEW t \in Nat
  PROVE  /\ Call(k, u, c, f, t) \in Job
         /\ Call(k, u, c, f, t).user = u
         /\ Call(k, u, c, f, t).client = c
         /\ Call(k, u, c, f, t).ok = FALSE
         /\ NoJob \in Job
BY DEF Call, NoJob, Job

\* Marking and clearing set the cached epoch; a recheck's stamp leaves it alone.
LEMMA LeaseFields ==
  ASSUME NEW l \in Lease, NEW e \in Nat, NEW k \in Checks, WorldOK
  PROVE  /\ Marked(l, e) \in Lease /\ Marked(l, e).epoch = e
         /\ Cleared(l) \in Lease /\ Cleared(l).epoch = -1
         /\ Stamped(l, k) \in Lease /\ Stamped(l, k).epoch = l.epoch
<1>1. now + Verify \in Nat /\ now + Recheck \in Nat
  BY ControlLeaseAssumption DEF WorldOK
<1>2. [l.stamp EXCEPT ![k] = now + Recheck] \in [Checks -> Nat]
  BY <1>1 DEF Lease
<1>3. Marked(l, e) \in Lease /\ Marked(l, e).epoch = e
  BY <1>1 DEF Marked, Lease
<1>4. Cleared(l) \in Lease /\ Cleared(l).epoch = -1
  BY DEF Cleared, Lease
<1>5. Stamped(l, k) \in Lease /\ Stamped(l, k).epoch = l.epoch
  BY <1>2 DEF Stamped, Lease
<1>6. QED BY <1>3, <1>4, <1>5

\* Sockets are no requests, and no socket's owner or client is the nobody.
LEMMA Disjoint ==
  /\ \A s \in Sockets : /\ s \in Callers /\ s \notin Requests /\ s \in Clients
                        /\ Owner[s] \in Users
  /\ \A h \in Requests : h \in Callers /\ h \notin Sockets
  /\ NoOne \notin Clients /\ NoOne \notin Callers
BY ControlLeaseAssumption DEF Callers, Clients

\* The history variables keep their types.
LEMMA HistoryStep ==
  ASSUME HistoryOK, WorldOK', Record PROVE HistoryOK'
BY DEF HistoryOK, WorldOK, Record

-----------------------------------------------------------------------------
(* The two frame lemmas: steps that leave epoch, device lock and grant alone *)

\* The row stays with its client or vanishes.
Shrunk == row' # NoLease => row # NoLease /\ row'.client = row.client

\* What a step may do to one caller c, which was not, and does not get, inside
\* the device lock.
QuietFor(c) ==
  /\ epoch' = epoch /\ grant' = grant /\ dev' = dev /\ Shrunk
  /\ WorldOK' /\ row' \in Row \cup {NoLease}
  /\ pc' = [pc EXCEPT ![c] = pc'[c]] /\ pc'[c] \in SocketPcs
  /\ pc[c] \notin Inside /\ pc'[c] \notin Inside
  /\ job' = [job EXCEPT ![c] = job'[c]] /\ job'[c] \in Job
  /\ lease' \in [Sockets -> Lease]
  /\ \A s \in Sockets : s # c => lease'[s] = lease[s]

\* A quiet step of a socket preserves the invariant if its own job, cached epoch
\* and carried epoch are in order.
LEMMA QuietSocket ==
  ASSUME IInv, NEW s \in Sockets, QuietFor(s),
         pc'[s] \notin {"new", "idle", "closing", "closed"}
           => job'[s].user = Owner[s] /\ job'[s].client = s,
         Fenced(s, lease'[s].epoch),
         CarriesEpoch(s)' => Fenced(s, job'[s].epoch)
  PROVE  WorldOK' /\ LockOK' /\ CallersOK' /\ LeasesOK' /\ FenceInv'
<1> USE Disjoint DEF IInv, TypeOK, QuietFor
<1>1. WorldOK' /\ LeasesOK' BY DEF LeasesOK
<1>2. LockOK' BY DEF LockOK
<1>3. CallersOK' BY DEF CallersOK
<1>4. JobsOwned' BY DEF FenceInv, JobsOwned, CallersOK
<1>5. MutualExclusion' BY DEF FenceInv, MutualExclusion, CallersOK
<1>6. RowIsGrant' BY DEF FenceInv, RowIsGrant, CallersOK, Shrunk, Inside
<1>7. EpochsFenced' BY DEF FenceInv, EpochsFenced, Fenced, CallersOK, CarriesEpoch
<1>8. QED BY <1>1, <1>2, <1>3, <1>4, <1>5, <1>6, <1>7 DEF FenceInv

\* The same for a request, which has no lease state.
LEMMA QuietRequest ==
  ASSUME IInv, NEW h \in Requests, QuietFor(h), pc'[h] \in RequestPcs,
         pc'[h] = "acquire" => job'[h].user \in Users /\ job'[h].client \in Clients
  PROVE  WorldOK' /\ LockOK' /\ CallersOK' /\ LeasesOK' /\ FenceInv'
<1> USE Disjoint DEF IInv, TypeOK, QuietFor
<1>1. WorldOK' /\ LeasesOK' BY DEF LeasesOK
<1>2. LockOK' BY DEF LockOK
<1>3. CallersOK' BY DEF CallersOK
<1>4. JobsOwned' BY DEF FenceInv, JobsOwned, CallersOK, Inside
<1>5. MutualExclusion' BY DEF FenceInv, MutualExclusion, CallersOK
<1>6. RowIsGrant' BY DEF FenceInv, RowIsGrant, CallersOK, Shrunk, Inside
<1>7. EpochsFenced' BY DEF FenceInv, EpochsFenced, Fenced, CallersOK, CarriesEpoch
<1>8. QED BY <1>1, <1>2, <1>3, <1>4, <1>5, <1>6, <1>7 DEF FenceInv

\* A step of nobody: time, administration, the sweep.
LEMMA QuietWorld ==
  ASSUME IInv, UNCHANGED <<epoch, dev, grant, pc, job, lease>>, Shrunk,
         WorldOK', row' \in Row \cup {NoLease}
  PROVE  WorldOK' /\ LockOK' /\ CallersOK' /\ LeasesOK' /\ FenceInv'
<1> USE DEF IInv, TypeOK
<1>1. LockOK' /\ CallersOK' /\ LeasesOK' BY DEF LockOK, CallersOK, LeasesOK
<1>2. JobsOwned' /\ MutualExclusion' /\ EpochsFenced'
  BY DEF FenceInv, JobsOwned, MutualExclusion, EpochsFenced, Fenced, CarriesEpoch
<1>3. RowIsGrant' BY DEF FenceInv, RowIsGrant, Shrunk
<1>4. QED BY <1>1, <1>2, <1>3 DEF FenceInv

-----------------------------------------------------------------------------
(* Every step preserves the invariant *)

\* A socket's own entries of the invariant, as the cases below use them.
LEMMA OwnEntries ==
  ASSUME IInv, NEW s \in Sockets
  PROVE  /\ s \in Callers /\ pc[s] \in SocketPcs /\ job[s] \in Job /\ lease[s] \in Lease
         /\ pc[s] \notin {"new", "idle", "closing", "closed"}
              => job[s].user = Owner[s] /\ job[s].client = s
         /\ Fenced(s, lease[s].epoch)
         /\ CarriesEpoch(s) => Fenced(s, job[s].epoch)
         /\ pc[s] \in Inside <=> dev = s
         /\ job[s].ok \in BOOLEAN /\ job[s].epoch \in Nat /\ job[s].at \in Nat
BY Disjoint DEF IInv, TypeOK, CallersOK, LeasesOK, FenceInv, JobsOwned, EpochsFenced,
                MutualExclusion, Job

\* Outside the device lock nobody is between a row's write and its bump.
LEMMA RowOfGrant ==
  ASSUME IInv, dev = NoOne, row # NoLease
  PROVE  row.client = grant
BY Disjoint DEF IInv, FenceInv, RowIsGrant, MutualExclusion, Inside

\* Renewing succeeds only for the grantee of the current epoch.
LEMMA RenewMeansGrant ==
  ASSUME IInv, NEW s \in Sockets, dev = NoOne, Renews(job[s]), job[s].client = s
  PROVE  grant = s
BY RowOfGrant DEF Renews

Core == WorldOK' /\ LockOK' /\ CallersOK' /\ LeasesOK' /\ FenceInv'

\* Where a step takes socket s: place l, job j, lease state m.
Moves(s, l, j, m) == /\ pc' = [pc EXCEPT ![s] = l]
                     /\ job' = [job EXCEPT ![s] = j]
                     /\ lease' = [lease EXCEPT ![s] = m]
Fits(s, l, j, m) ==
  /\ l \in SocketPcs \ Inside /\ j \in Job /\ m \in Lease
  /\ l \notin {"new", "idle", "closing", "closed"} => j.user = Owner[s] /\ j.client = s
  /\ Fenced(s, m.epoch)
  /\ (l = "send" \/ (l \in {"renewed", "acquired"} /\ j.ok))
       => Fenced(s, j.epoch)
SameFence == UNCHANGED <<epoch, grant, dev>> /\ WorldOK'
RowKept == row' \in Row \cup {NoLease} /\ Shrunk

\* A step of one socket that writes only its own pc, job and cached lease, and keeps
\* the fence of the lock layer, preserves the core of the invariant.
LEMMA SocketMove ==
  ASSUME IInv, NEW s \in Sockets, NEW l, NEW j, NEW m, pc[s] \notin Inside,
         Moves(s, l, j, m), Fits(s, l, j, m), SameFence, RowKept
  PROVE  Core
<1>1. /\ pc \in [Callers -> SocketPcs] /\ job \in [Callers -> Job]
      /\ lease \in [Sockets -> Lease] /\ s \in Callers
  BY Disjoint DEF IInv, TypeOK, CallersOK, LeasesOK
<1>2. pc'[s] = l /\ job'[s] = j /\ lease'[s] = m
  BY <1>1 DEF Moves
<1>3. QuietFor(s)
  BY <1>1, <1>2 DEF Moves, Fits, SameFence, RowKept, QuietFor
<1>4. QED
  BY <1>2, <1>3, QuietSocket DEF Fits, Core, CarriesEpoch

\* Steps that leave the row alone, or delete it.
LEMMA RowUntouched ==
  ASSUME IInv, row' \in {row, NoLease} PROVE RowKept
BY DEF RowKept, Shrunk, IInv, TypeOK, LockOK

\* The clock, the rights and the counters keep their types when nothing writes them.
LEMMA WorldUntouched ==
  ASSUME IInv, UNCHANGED world PROVE WorldOK'
BY DEF IInv, TypeOK, WorldOK, world

\* The empty job of an idle caller is a job.
LEMMA NoJobOK == NoJob \in Job
BY DEF NoJob, Job

\* The steps of a socket outside the device lock, and its entry when it closes.
LEMMA SocketStepCore ==
  ASSUME IInv, NEW s \in Sockets, SocketStep(s) \/ Connect(s) \/ Disconnect(s),
         ~ (CloseCheck(s) /\ pc'[s] = "owned")
  PROVE  Core
<1> USE DEF Goto, SetLease, Note, Begin
<1>0. /\ pc[s] \in SocketPcs /\ job[s] \in Job /\ lease[s] \in Lease
      /\ job = [job EXCEPT ![s] = job[s]] /\ lease = [lease EXCEPT ![s] = lease[s]]
      /\ pc[s] \notin {"new", "idle", "closing", "closed"}
           => job[s].user = Owner[s] /\ job[s].client = s
      /\ Fenced(s, lease[s].epoch)
      /\ CarriesEpoch(s) => Fenced(s, job[s].epoch)
      /\ job[s].ok \in BOOLEAN /\ job[s].epoch \in Nat /\ job[s].at \in Nat
      /\ epoch \in Nat /\ now \in Nat /\ WorldOK /\ s \in Clients /\ Owner[s] \in Users
      /\ {"idle", "session", "permission", "handle", "renew", "renewed", "keepalive", "send",
          "sent", "reply", "closing", "close", "closed", "acquire", "acquired", "release",
          "released"} \subseteq SocketPcs \ Inside
  BY OwnEntries, Disjoint DEF IInv, TypeOK, CallersOK, LeasesOK, LockOK, WorldOK, SocketPcs, RequestPcs, Inside
<1>a. \A ok \in BOOLEAN, e \in Nat :
        /\ Noted(job[s], ok, e) \in Job
        /\ Noted(job[s], ok, e).user = job[s].user
        /\ Noted(job[s], ok, e).client = job[s].client
        /\ Noted(job[s], ok, e).ok = ok /\ Noted(job[s], ok, e).epoch = e
  BY <1>0, JobFields
<1>b. \A e \in Nat : Marked(lease[s], e) \in Lease /\ Marked(lease[s], e).epoch = e
  BY <1>0, LeaseFields, "session" \in Checks DEF Checks
<1>c. Cleared(lease[s]) \in Lease /\ Fenced(s, Cleared(lease[s]).epoch)
  <2>1. Cleared(lease[s]) \in Lease /\ Cleared(lease[s]).epoch = -1
    BY <1>0, LeaseFields, "session" \in Checks DEF Checks
  <2>2. QED BY <2>1, <1>0 DEF Fenced
<1>d. /\ Call("close", Owner[s], s, FALSE, job[s].at) \in Job
      /\ Call("close", Owner[s], s, FALSE, job[s].at).user = Owner[s]
      /\ Call("close", Owner[s], s, FALSE, job[s].at).client = s
  BY <1>0 DEF Call, Job
<1>1. CASE Connect(s)
  <2>1. pc[s] \notin Inside BY <1>1 DEF Connect, Inside
  <2>2. SameFence /\ RowKept
    BY <1>1, RowUntouched, RowShrinks, WorldUntouched DEF Connect, SameFence, lockState, Pass
  <2>3. Moves(s, "idle", job[s], lease[s])
    BY <1>0, <1>1 DEF Connect, Moves
  <2>4. Fits(s, "idle", job[s], lease[s])
    BY <1>0, <1>1 DEF Fits, Connect
  <2>5. QED BY <2>1, <2>2, <2>3, <2>4, SocketMove
<1>2. ASSUME NEW k \in Checks, CheckPassed(s, k) PROVE Core
  <2> DEFINE m == IF Fresh(s, k) THEN lease[s] ELSE Stamped(lease[s], k)
  <2>1. pc[s] \notin Inside BY <1>2 DEF CheckPassed, Inside, Checks
  <2>2. SameFence /\ RowKept
    BY <1>2, RowUntouched, WorldUntouched DEF CheckPassed, SameFence, lockState
  <2>3. m \in Lease /\ m.epoch = lease[s].epoch BY <1>0, LeaseFields
  <2> HIDE DEF m
  <2>4. lease' = [lease EXCEPT ![s] = m] BY <1>2 DEF CheckPassed, m
  <2>5. pc[s] \in Checks BY <1>2 DEF CheckPassed
  <2>6. CASE k # "session" /\ job[s].kind = "timeout"
    <3>1. Moves(s, "idle", NoJob, m)
      BY <1>2, <2>4, <2>6 DEF CheckPassed, Finish, Moves
    <3>2. Fits(s, "idle", NoJob, m)
      BY <1>0, <2>3, NoJobOK DEF Fits
    <3>3. QED BY <2>1, <2>2, <3>1, <3>2, SocketMove
  <2>7. CASE k = "session"
    <3>1. Moves(s, "permission", job[s], m)
      BY <1>0, <1>2, <2>4, <2>7 DEF CheckPassed, Moves
    <3>2. Fits(s, "permission", job[s], m)
      BY <1>0, <2>3, <2>5 DEF Fits, Checks
    <3>3. QED BY <2>1, <2>2, <3>1, <3>2, SocketMove
  <2>8. CASE k # "session" /\ job[s].kind # "timeout"
    <3>1. Moves(s, "handle", job[s], m)
      BY <1>0, <1>2, <2>4, <2>8 DEF CheckPassed, Moves
    <3>2. Fits(s, "handle", job[s], m)
      BY <1>0, <2>3, <2>5 DEF Fits, Checks
    <3>3. QED BY <2>1, <2>2, <3>1, <3>2, SocketMove
  <2>9. QED BY <2>6, <2>7, <2>8
<1>3. ASSUME NEW k \in Checks, CheckFailed(s, k) PROVE Core
  <2>1. pc[s] \notin Inside BY <1>3 DEF CheckFailed, Inside, Checks
  <2>2. SameFence /\ RowKept
    BY <1>3, RowUntouched, WorldUntouched DEF CheckFailed, SameFence, lockState
  <2>3. Moves(s, "closing", job[s], lease[s]) BY <1>0, <1>3 DEF CheckFailed, Moves
  <2>4. Fits(s, "closing", job[s], lease[s]) BY <1>0 DEF Fits
  <2>5. QED BY <2>1, <2>2, <2>3, <2>4, SocketMove
<1>4. CASE DispatchText(s)
  <2>1. pc[s] \notin Inside BY <1>4 DEF DispatchText, Inside
  <2>2. SameFence /\ RowKept
    BY <1>4, RowUntouched, RowShrinks, WorldUntouched DEF DispatchText, SameFence, lockState, Pass
  <2>3. Moves(s, job[s].kind, job[s], lease[s])
    BY <1>0, <1>4 DEF DispatchText, Moves
  <2>4. Fits(s, job[s].kind, job[s], lease[s])
    BY <1>0, <1>4 DEF Fits, DispatchText
  <2>5. QED BY <2>1, <2>2, <2>3, <2>4, SocketMove
<1>5. CASE DispatchBytes(s)
  <2>p. pc[s] = "handle" BY <1>5 DEF DispatchBytes
  <2>1. pc[s] \notin Inside BY <1>5 DEF DispatchBytes, Inside
  <2>2. SameFence /\ RowKept
    BY <1>5, RowUntouched, RowShrinks, WorldUntouched DEF DispatchBytes, SameFence, lockState, Pass
  <2>3. CASE Verified(s)
    <3>1. Moves(s, "send", Noted(job[s], FALSE, epoch), lease[s])
      BY <1>0, <1>5, <2>3 DEF DispatchBytes, Moves
    <3>2. Fits(s, "send", Noted(job[s], FALSE, epoch), lease[s])
      BY <1>0, <2>p, <2>3, <1>a DEF Fits, Verified, Fenced
    <3>3. QED BY <2>1, <2>2, <3>1, <3>2, SocketMove
  <2>4. CASE ~Verified(s)
    <3>1. Moves(s, "renew", Noted(job[s], FALSE, epoch), lease[s])
      BY <1>0, <1>5, <2>4 DEF DispatchBytes, Moves
    <3>2. Fits(s, "renew", Noted(job[s], FALSE, epoch), lease[s])
      BY <1>0, <2>p, <2>4, <1>a DEF Fits, CarriesEpoch
    <3>3. QED BY <2>1, <2>2, <3>1, <3>2, SocketMove
  <2>5. QED BY <2>3, <2>4
<1>6. CASE Renew(s)
  <2>q. dev = NoOne BY <1>6 DEF Renew, Pass
  <2>p. pc[s] = "renew" BY <1>6 DEF Renew
  <2>1. pc[s] \notin Inside BY <1>6 DEF Renew, Inside
  <2>2. SameFence /\ RowKept
    BY <1>0, <1>6, RenewKeepsClient, WorldUntouched
    DEF Renew, SameFence, Pass, RowKept, Shrunk, IInv, TypeOK
  <2>r. Renews(job[s]) \in BOOLEAN BY DEF Renews
  <2>3. CASE Renews(job[s])
    <3>1. Moves(s, "renewed", Noted(job[s], TRUE, epoch), lease[s])
      BY <1>0, <1>6, <2>3 DEF Renew, Moves
    <3>0. grant = s BY <1>0, <2>p, <2>3, <2>q, RenewMeansGrant
    <3>a. /\ Noted(job[s], TRUE, epoch) \in Job
          /\ Noted(job[s], TRUE, epoch).user = Owner[s]
          /\ Noted(job[s], TRUE, epoch).client = s
          /\ Noted(job[s], TRUE, epoch).epoch = epoch
      BY <1>0, <2>p, <1>a
    <3>2. Fits(s, "renewed", Noted(job[s], TRUE, epoch), lease[s])
      BY <1>0, <3>a, <3>0 DEF Fits, Fenced
    <3>3. QED BY <2>1, <2>2, <3>1, <3>2, SocketMove
  <2>4. CASE ~Renews(job[s])
    <3>1. Moves(s, "renewed", Noted(job[s], FALSE, epoch), lease[s])
      BY <1>0, <1>6, <2>4, <2>r DEF Renew, Moves
    <3>2. Fits(s, "renewed", Noted(job[s], FALSE, epoch), lease[s])
      BY <1>0, <2>p, <2>4, <1>a DEF Fits, CarriesEpoch
    <3>3. QED BY <2>1, <2>2, <3>1, <3>2, SocketMove
  <2>5. QED BY <2>3, <2>4
<1>7. CASE AfterRenew(s)
  <2>p. pc[s] = "renewed" BY <1>7 DEF AfterRenew
  <2>1. pc[s] \notin Inside BY <1>7 DEF AfterRenew, Inside
  <2>2. SameFence /\ RowKept
    BY <1>7, RowUntouched, RowShrinks, WorldUntouched DEF AfterRenew, SameFence, lockState, Pass
  <2>3. CASE job[s].ok
    <3>1. Moves(s, "send", job[s], Marked(lease[s], job[s].epoch))
      BY <1>0, <1>7, <2>3 DEF AfterRenew, Moves
    <3>2. Fits(s, "send", job[s], Marked(lease[s], job[s].epoch))
      BY <1>0, <2>p, <2>3, <1>b DEF Fits, CarriesEpoch
    <3>3. QED BY <2>1, <2>2, <3>1, <3>2, SocketMove
  <2>4. CASE ~job[s].ok
    <3>1. Moves(s, "reply", job[s], Cleared(lease[s]))
      BY <1>0, <1>7, <2>4 DEF AfterRenew, Moves
    <3>2. Fits(s, "reply", job[s], Cleared(lease[s]))
      BY <1>0, <2>p, <2>4, <1>c DEF Fits, CarriesEpoch
    <3>3. QED BY <2>1, <2>2, <3>1, <3>2, SocketMove
  <2>5. QED BY <2>3, <2>4
<1>8. CASE Keepalive(s)
  <2>q. dev = NoOne BY <1>8 DEF Keepalive, Pass
  <2>p. pc[s] = "keepalive" BY <1>8 DEF Keepalive
  <2>1. pc[s] \notin Inside BY <1>8 DEF Keepalive, Inside
  <2>2. SameFence /\ RowKept
    BY <1>0, <1>8, RenewKeepsClient, WorldUntouched
    DEF Keepalive, SameFence, Pass, RowKept, Shrunk, IInv, TypeOK
  <2>3. CASE Renews(job[s])
    <3>1. Moves(s, "reply", job[s], Marked(lease[s], epoch))
      BY <1>0, <1>8, <2>3 DEF Keepalive, Moves
    <3>2. Fits(s, "reply", job[s], Marked(lease[s], epoch))
      <4>1. grant = s BY <1>0, <2>p, <2>3, <2>q, RenewMeansGrant
      <4>2. Fenced(s, Marked(lease[s], epoch).epoch) BY <1>0, <1>b, <4>1 DEF Fenced
      <4>3. QED BY <1>0, <2>p, <1>b, <4>2 DEF Fits
    <3>3. QED BY <2>1, <2>2, <3>1, <3>2, SocketMove
  <2>4. CASE ~Renews(job[s])
    <3>1. Moves(s, "reply", job[s], Cleared(lease[s]))
      BY <1>0, <1>8, <2>4 DEF Keepalive, Moves
    <3>2. Fits(s, "reply", job[s], Cleared(lease[s]))
      BY <1>0, <2>p, <2>4, <1>c DEF Fits, CarriesEpoch
    <3>3. QED BY <2>1, <2>2, <3>1, <3>2, SocketMove
  <2>5. QED BY <2>3, <2>4
<1>9. CASE AfterAcquire(s)
  <2>p. pc[s] = "acquired" BY <1>9 DEF AfterAcquire
  <2>1. pc[s] \notin Inside BY <1>9 DEF AfterAcquire, Inside
  <2>2. SameFence /\ RowKept
    BY <1>9, RowUntouched, RowShrinks, WorldUntouched DEF AfterAcquire, SameFence, lockState, Pass
  <2>3. CASE job[s].ok
    <3>1. Moves(s, "reply", job[s], Marked(lease[s], job[s].epoch))
      BY <1>0, <1>9, <2>3 DEF AfterAcquire, Moves
    <3>2. Fits(s, "reply", job[s], Marked(lease[s], job[s].epoch))
      BY <1>0, <2>p, <2>3, <1>b DEF Fits, CarriesEpoch
    <3>3. QED BY <2>1, <2>2, <3>1, <3>2, SocketMove
  <2>4. CASE ~job[s].ok
    <3>1. Moves(s, "reply", job[s], Cleared(lease[s]))
      BY <1>0, <1>9, <2>4 DEF AfterAcquire, Moves
    <3>2. Fits(s, "reply", job[s], Cleared(lease[s]))
      BY <1>0, <2>p, <2>4, <1>c DEF Fits, CarriesEpoch
    <3>3. QED BY <2>1, <2>2, <3>1, <3>2, SocketMove
  <2>5. QED BY <2>3, <2>4
<1>10. CASE AfterRelease(s)
  <2>p. pc[s] = "released" BY <1>10 DEF AfterRelease
  <2>1. pc[s] \notin Inside BY <1>10 DEF AfterRelease, Inside
  <2>2. SameFence /\ RowKept
    BY <1>10, RowUntouched, RowShrinks, WorldUntouched DEF AfterRelease, SameFence, lockState, Pass
  <2>3. CASE job[s].kind = "close"
    <3>1. Moves(s, "closed", job[s], lease[s])
      BY <1>0, <1>10, <2>3 DEF AfterRelease, Moves
    <3>2. Fits(s, "closed", job[s], lease[s])
      BY <1>0, <2>p, <2>3 DEF Fits, CarriesEpoch
    <3>3. QED BY <2>1, <2>2, <3>1, <3>2, SocketMove
  <2>4. CASE job[s].kind # "close"
    <3>1. Moves(s, "reply", job[s], Cleared(lease[s]))
      BY <1>0, <1>10, <2>4 DEF AfterRelease, Moves
    <3>2. Fits(s, "reply", job[s], Cleared(lease[s]))
      BY <1>0, <2>p, <2>4, <1>c DEF Fits, CarriesEpoch
    <3>3. QED BY <2>1, <2>2, <3>1, <3>2, SocketMove
  <2>5. QED BY <2>3, <2>4
<1>11. CASE SendAccepted(s)
  <2>1. pc[s] \notin Inside BY <1>11 DEF SendAccepted, Inside
  <2>2. SameFence /\ RowKept
    BY <1>11, RowUntouched, RowShrinks, WorldUntouched DEF SendAccepted, SameFence, lockState, Pass
  <2>3. Moves(s, "sent", job[s], lease[s])
    BY <1>0, <1>11 DEF SendAccepted, Moves
  <2>4. Fits(s, "sent", job[s], lease[s])
    BY <1>0, <1>11 DEF Fits, SendAccepted
  <2>5. QED BY <2>1, <2>2, <2>3, <2>4, SocketMove
<1>12. CASE SendRefused(s)
  <2>1. pc[s] \notin Inside BY <1>12 DEF SendRefused, Inside
  <2>2. SameFence /\ RowKept
    BY <1>12, RowUntouched, RowShrinks, WorldUntouched DEF SendRefused, SameFence, lockState, Pass
  <2>3. Moves(s, "reply", job[s], lease[s])
    BY <1>0, <1>12 DEF SendRefused, Moves
  <2>4. Fits(s, "reply", job[s], lease[s])
    BY <1>0, <1>12 DEF Fits, SendRefused
  <2>5. QED BY <2>1, <2>2, <2>3, <2>4, SocketMove
<1>13. CASE AfterSend(s)
  <2>1. pc[s] \notin Inside BY <1>13 DEF AfterSend, Inside
  <2>2. SameFence /\ RowKept
    BY <1>13, RowUntouched, RowShrinks, WorldUntouched DEF AfterSend, SameFence, lockState, Pass
  <2>3. Moves(s, "idle", NoJob, lease[s])
    BY <1>0, <1>13 DEF AfterSend, Finish, Moves
  <2>4. Fits(s, "idle", NoJob, lease[s])
    BY <1>0, <1>13, NoJobOK DEF Fits, AfterSend
  <2>5. QED BY <2>1, <2>2, <2>3, <2>4, SocketMove
<1>14. CASE Reply(s)
  <2>1. pc[s] \notin Inside BY <1>14 DEF Reply, Inside
  <2>2. SameFence /\ RowKept
    BY <1>14, RowUntouched, RowShrinks, WorldUntouched DEF Reply, SameFence, lockState, Pass
  <2>3. Moves(s, "idle", NoJob, lease[s])
    BY <1>0, <1>14 DEF Reply, Finish, Moves
  <2>4. Fits(s, "idle", NoJob, lease[s])
    BY <1>0, <1>14, NoJobOK DEF Fits, Reply
  <2>5. QED BY <2>1, <2>2, <2>3, <2>4, SocketMove
<1>15. CASE Disconnect(s)
  <2>1. pc[s] \notin Inside BY <1>15 DEF Disconnect, Inside
  <2>2. SameFence /\ RowKept
    BY <1>15, RowUntouched, RowShrinks, WorldUntouched DEF Disconnect, SameFence, lockState, Pass
  <2>3. Moves(s, "closing", Call("none", NoOne, NoOne, FALSE, now), lease[s])
    BY <1>0, <1>15 DEF Disconnect, Moves
  <2>4. Fits(s, "closing", Call("none", NoOne, NoOne, FALSE, now), lease[s])
    BY <1>0, <1>15, CallFields DEF Fits, Disconnect
  <2>5. QED BY <2>1, <2>2, <2>3, <2>4, SocketMove
<1>16. CASE BeginClose(s)
  <2>p. pc[s] = "closing" BY <1>16 DEF BeginClose
  <2>1. pc[s] \notin Inside BY <1>16 DEF BeginClose, Inside
  <2>2. SameFence /\ RowKept
    BY <1>16, RowUntouched, RowShrinks, WorldUntouched DEF BeginClose, SameFence, lockState, Pass
  <2>3. Moves(s, "close", Call("close", Owner[s], s, FALSE, job[s].at), lease[s])
    BY <1>0, <1>16 DEF BeginClose, Moves
  <2>4. Fits(s, "close", Call("close", Owner[s], s, FALSE, job[s].at), lease[s])
    BY <1>0, <2>p, <1>d DEF Fits, CarriesEpoch
  <2>5. QED BY <2>1, <2>2, <2>3, <2>4, SocketMove
<1>17. CASE CloseCheck(s) /\ pc'[s] # "owned"
  <2>1. pc[s] \notin Inside BY <1>17 DEF CloseCheck, Inside
  <2>0. s \in Callers /\ pc \in [Callers -> SocketPcs]
    BY Disjoint DEF IInv, TypeOK, CallersOK
  <2>2. SameFence /\ RowKept
    BY <1>17, <2>0, RowUntouched, RowShrinks, WorldUntouched DEF CloseCheck, SameFence, Pass
  <2>3. Moves(s, "closed", job[s], lease[s])
    BY <1>0, <1>17, <2>0 DEF CloseCheck, Moves
  <2>4. Fits(s, "closed", job[s], lease[s])
    BY <1>0, <1>17 DEF Fits, CloseCheck
  <2>5. QED BY <2>1, <2>2, <2>3, <2>4, SocketMove
<1>18. QED
  BY <1>1, <1>2, <1>3, <1>4, <1>5, <1>6, <1>7, <1>8, <1>9, <1>10, <1>11, <1>12, <1>13,
     <1>14, <1>15, <1>16, <1>17 DEF SocketStep

\* A message that arrives at an idle socket.
LEMMA ReceiveCore ==
  ASSUME IInv, NEW s \in Sockets, NEW k \in Kinds, NEW f \in BOOLEAN, Receive(s, k, f)
  PROVE  Core
<1> DEFINE j == Call(k, Owner[s], s, f, now)
<1>1. /\ lease[s] \in Lease /\ lease = [lease EXCEPT ![s] = lease[s]]
      /\ Fenced(s, lease[s].epoch)
      /\ s \in Clients /\ Owner[s] \in Users
  BY OwnEntries, Disjoint DEF IInv, TypeOK, LeasesOK
<1>2. j \in Job /\ j.user = Owner[s] /\ j.client = s
  BY <1>1 DEF Call, Job, IInv, TypeOK, WorldOK
<1> HIDE DEF j
<1>3. pc[s] \notin Inside BY DEF Receive, Inside
<1>4. SameFence /\ RowKept
  <2>1. WorldOK' BY DEF Receive, IInv, TypeOK, WorldOK
  <2>2. QED BY <2>1, RowUntouched DEF Receive, SameFence, lockState
<1>5. Moves(s, "session", j, lease[s])
  BY <1>1 DEF Receive, Moves, Goto, Begin, j
<1>6. Fits(s, "session", j, lease[s])
  BY <1>1, <1>2 DEF Fits, SocketPcs, Inside
<1>7. QED BY <1>3, <1>4, <1>5, <1>6, SocketMove

\* A request moves outside the device lock.
RequestMoves(h, l, j) == /\ pc' = [pc EXCEPT ![h] = l]
                         /\ job' = [job EXCEPT ![h] = j]
                         /\ lease' = lease

\* A step of one REST request that keeps the fence of the lock layer preserves the
\* core of the invariant.
LEMMA RequestMove ==
  ASSUME IInv, NEW h \in Requests, NEW l \in RequestPcs \ Inside, NEW j \in Job,
         pc[h] \notin Inside, RequestMoves(h, l, j), SameFence, RowKept,
         l = "acquire" => j.user \in Users /\ j.client \in Clients
  PROVE  Core
<1>1. /\ pc \in [Callers -> SocketPcs] /\ job \in [Callers -> Job]
      /\ lease \in [Sockets -> Lease] /\ h \in Callers
  BY Disjoint DEF IInv, TypeOK, CallersOK, LeasesOK
<1>2. pc'[h] = l /\ job'[h] = j
  BY <1>1 DEF RequestMoves
<1>3. QuietFor(h)
  BY <1>1, <1>2 DEF RequestMoves, SameFence, RowKept, QuietFor, SocketPcs
<1>4. QED
  BY <1>2, <1>3, QuietRequest DEF Core

\* What RequestCalls offers is well-typed.
LEMMA RequestCallsOK ==
  ASSUME NEW call \in RequestCalls
  PROVE  /\ call.pc \in {"acquire", "release"}
         /\ call.user \in Users \cup {NoOne} /\ call.client \in Clients \cup {NoOne}
         /\ call.force \in BOOLEAN
         /\ call.pc = "acquire" => call.user \in Users /\ call.client \in Clients
BY DEF RequestCalls, RequestCall, Clients

\* A REST request that begins or ends preserves the core of the invariant.
LEMMA RequestCore ==
  ASSUME IInv, NEW h \in Requests,
         RequestDone(h) \/ \E call \in RequestCalls : Request(h, call)
  PROVE  Core
<1>1. CASE RequestDone(h)
  <2>1. pc[h] \notin Inside BY <1>1 DEF RequestDone, Inside
  <2>2. SameFence /\ RowKept
    BY <1>1, RowUntouched, RowShrinks, WorldUntouched DEF RequestDone, SameFence
  <2>3. RequestMoves(h, "idle", NoJob)
    BY <1>1 DEF RequestDone, RequestMoves, Finish, Begin, Goto
  <2>4. QED BY <2>1, <2>2, <2>3, RequestMove, NoJobOK DEF RequestPcs, Inside
<1>2. ASSUME NEW call \in RequestCalls, Request(h, call) PROVE Core
  <2> DEFINE j == Call("none", call.user, call.client, call.force, now)
  <2>1. pc[h] \notin Inside BY <1>2 DEF Request, Inside
  <2>2. SameFence /\ RowKept
    <3>1. WorldOK' BY <1>2 DEF Request, IInv, TypeOK, WorldOK
    <3>2. QED BY <1>2, <3>1, RowUntouched DEF Request, SameFence, lockState
  <2>3. j \in Job /\ j.user = call.user /\ j.client = call.client
    BY RequestCallsOK DEF Call, Job, IInv, TypeOK, WorldOK
  <2> HIDE DEF j
  <2>4. RequestMoves(h, call.pc, j)
    BY <1>2 DEF Request, RequestMoves, Begin, Goto, j
  <2>5. call.pc \in RequestPcs \ Inside
        /\ (call.pc = "acquire" => j.user \in Users /\ j.client \in Clients)
    BY <2>3, RequestCallsOK DEF RequestPcs, Inside
  <2>6. QED BY <2>1, <2>2, <2>3, <2>4, <2>5, RequestMove
<1>3. QED BY <1>1, <1>2

\* Time, administration and the sweep.
LEMMA WorldCore ==
  ASSUME IInv, \/ \E u \in Users : Disable(u) \/ \E r \in Rights : SetRight(u, r)
               \/ Sweep
               \/ Tick
  PROVE  Core
<1>1. ASSUME NEW u \in Users, Disable(u) PROVE Core
  <2>1. WorldOK' BY <1>1 DEF Disable, IInv, TypeOK, WorldOK, Rights
  <2>2. RowKept BY <1>1, RowUntouched, RowShrinks DEF Disable
  <2>3. QED BY <1>1, <2>1, <2>2, QuietWorld DEF Disable, RowKept, Core
<1>2. ASSUME NEW u \in Users, NEW r \in Rights, SetRight(u, r) PROVE Core
  <2>1. WorldOK' BY <1>2 DEF SetRight, IInv, TypeOK, WorldOK
  <2>2. RowKept BY <1>2, RowUntouched DEF SetRight
  <2>3. QED BY <1>2, <2>1, <2>2, QuietWorld DEF SetRight, RowKept, Core
<1>3. CASE Sweep
  <2>1. RowKept BY <1>3, RowUntouched, RowShrinks DEF Sweep
  <2>2. QED BY <1>3, <2>1, WorldUntouched, QuietWorld DEF Sweep, RowKept, Core
<1>4. CASE Tick
  <2>1. WorldOK' BY <1>4 DEF Tick, IInv, TypeOK, WorldOK
  <2>2. RowKept BY <1>4, RowUntouched DEF Tick
  <2>3. QED BY <1>4, <2>1, <2>2, QuietWorld DEF Tick, RowKept, Core
<1>5. QED BY <1>1, <1>2, <1>3, <1>4

-----------------------------------------------------------------------------
(* The steps inside the device lock *)

\* Of two callers, at most one is inside the lock.
LEMMA OneInside ==
  ASSUME IInv, NEW c \in Callers
  PROVE  /\ dev = NoOne => \A x \in Callers : pc[x] \notin Inside
         /\ pc[c] \in Inside => dev = c /\ \A x \in Callers : pc[x] \in Inside => x = c
BY Disjoint DEF IInv, FenceInv, MutualExclusion

\* The caller's job when it acquires names an account and a client.
LEMMA JobOfAcquire ==
  ASSUME IInv, NEW c \in Callers, pc[c] \in {"acquire", "bump"}
  PROVE  job[c].user \in Users /\ job[c].client \in Clients /\ (c \in Sockets => job[c].client = c)
BY Disjoint DEF IInv, FenceInv, JobsOwned, Callers

\* Refused calls of the lock layer are quiet.
LEMMA RefusedCore ==
  ASSUME IInv, NEW c \in Callers, AcquireRefused(c) \/ ReleaseRefused(c)
  PROVE  Core
<1> DEFINE l == IF pc[c] = "acquire" THEN "acquired" ELSE "released"
<1>0. job[c] \in Job /\ epoch \in Nat BY DEF IInv, TypeOK, CallersOK, LockOK
<1>1. /\ pc[c] \notin Inside /\ l \in RequestPcs \ Inside
      /\ Noted(job[c], FALSE, epoch) \in Job /\ Noted(job[c], FALSE, epoch).ok = FALSE
      /\ Noted(job[c], FALSE, epoch).user = job[c].user
      /\ Noted(job[c], FALSE, epoch).client = job[c].client
  <2>1. pc[c] \notin Inside /\ l \in RequestPcs \ Inside
    BY DEF AcquireRefused, ReleaseRefused, Inside, RequestPcs
  <2>2. QED BY <1>0, <2>1, JobFields
<1>2. SameFence /\ RowKept
  BY RowUntouched, RowShrinks, WorldUntouched DEF AcquireRefused, ReleaseRefused, SameFence, Pass
<1>3. /\ pc' = [pc EXCEPT ![c] = l] /\ lease' = lease
      /\ job' = [job EXCEPT ![c] = Noted(job[c], FALSE, epoch)]
  BY DEF AcquireRefused, ReleaseRefused, Goto, Note
<1>4. CASE c \in Requests
  <2>1. l # "acquire" OBVIOUS
  <2>2. RequestMoves(c, l, Noted(job[c], FALSE, epoch)) BY <1>3 DEF RequestMoves
  <2> HIDE DEF l
  <2>3. QED BY <1>1, <1>2, <1>4, <2>1, <2>2, RequestMove
<1>5. CASE c \in Sockets
  <2>1. /\ lease[c] \in Lease /\ lease = [lease EXCEPT ![c] = lease[c]]
        /\ Fenced(c, lease[c].epoch)
        /\ job[c].user = Owner[c] /\ job[c].client = c
    BY <1>5, OwnEntries DEF IInv, TypeOK, LeasesOK, AcquireRefused, ReleaseRefused
  <2>2. Moves(c, l, Noted(job[c], FALSE, epoch), lease[c])
    BY <1>3, <2>1 DEF Moves
  <2>3. l \in {"acquired", "released"} OBVIOUS
  <2> HIDE DEF l
  <2>4. Fits(c, l, Noted(job[c], FALSE, epoch), lease[c])
    BY <1>1, <2>1, <2>3 DEF Fits, SocketPcs
  <2>5. QED BY <1>1, <1>2, <1>5, <2>2, <2>4, SocketMove
<1>6. QED BY <1>4, <1>5 DEF Callers

\* An acquire writes the row and stays inside the lock until its bump.
LEMMA AcquireGrantedCore ==
  ASSUME IInv, NEW c \in Callers, AcquireGranted(c)
  PROVE  Core
<1>1. /\ dev = NoOne /\ dev' = c /\ pc[c] = "acquire" /\ pc' = [pc EXCEPT ![c] = "bump"]
      /\ UNCHANGED <<epoch, job, lease, grant, world>>
      /\ row' = [user |-> job[c].user, client |-> job[c].client, expires |-> now + TTL]
  BY DEF AcquireGranted, Enter, Goto
<1>2. /\ pc \in [Callers -> SocketPcs] /\ pc'[c] = "bump"
      /\ \A x \in Callers : x # c => pc'[x] = pc[x] /\ pc[x] \notin Inside
  BY <1>1, OneInside DEF IInv, TypeOK, CallersOK
<1>3. row' \in Row /\ row'.client = job[c].client
  <2>1. now + TTL \in Nat BY ControlLeaseAssumption DEF IInv, TypeOK, WorldOK
  <2>2. QED BY <1>1, <2>1, JobOfAcquire DEF Row
<1>4. WorldOK' BY <1>1, WorldUntouched
<1>5. LockOK' /\ LeasesOK' BY <1>1, <1>3 DEF IInv, TypeOK, LockOK, LeasesOK
<1>6. CallersOK' BY <1>1 DEF IInv, TypeOK, CallersOK, SocketPcs, RequestPcs
<1>7. JobsOwned' BY <1>1, <1>2, Disjoint DEF IInv, FenceInv, JobsOwned
<1>8. MutualExclusion' BY <1>1, <1>2 DEF MutualExclusion, Inside
<1>9. RowIsGrant' BY <1>1, <1>2, <1>3 DEF RowIsGrant, Inside
<1>10. EpochsFenced'
  BY <1>1, <1>2, Disjoint DEF IInv, FenceInv, EpochsFenced, Fenced, CarriesEpoch
<1>11. QED BY <1>4, <1>5, <1>6, <1>7, <1>8, <1>9, <1>10 DEF Core, FenceInv

\* The bump of an acquire makes its client the grantee; every other epoch is now old.
LEMMA AcquireBumpCore ==
  ASSUME IInv, NEW c \in Callers, AcquireBump(c)
  PROVE  Core
<1>1. /\ dev' = NoOne /\ epoch' = epoch + 1 /\ grant' = job[c].client /\ pc[c] = "bump"
      /\ pc' = [pc EXCEPT ![c] = "acquired"] /\ UNCHANGED <<row, lease, world>>
      /\ job' = [job EXCEPT ![c] = Noted(job[c], TRUE, epoch + 1)]
  BY DEF AcquireBump, Goto, Note
<1>2. /\ pc \in [Callers -> SocketPcs] /\ pc'[c] = "acquired" /\ epoch + 1 \in Nat /\ epoch \in Nat
      /\ job \in [Callers -> Job] /\ job'[c] = Noted(job[c], TRUE, epoch + 1)
      /\ \A x \in Callers : x # c => pc'[x] = pc[x] /\ job'[x] = job[x] /\ pc[x] \notin Inside
  BY <1>1, OneInside DEF IInv, TypeOK, CallersOK, LockOK, Inside
<1>3. /\ job'[c] \in Job /\ job'[c].user = job[c].user /\ job'[c].client = job[c].client
      /\ job'[c].epoch = epoch'
  <2>1. job[c] \in Job BY <1>2
  <2>2. /\ Noted(job[c], TRUE, epoch + 1) \in Job
        /\ Noted(job[c], TRUE, epoch + 1).user = job[c].user
        /\ Noted(job[c], TRUE, epoch + 1).client = job[c].client
        /\ Noted(job[c], TRUE, epoch + 1).epoch = epoch + 1
    BY <1>2, <2>1, JobFields
  <2>3. QED BY <1>1, <1>2, <2>2
<1>4. WorldOK' BY <1>1, WorldUntouched
<1>5. LockOK' /\ LeasesOK'
  BY <1>1, <1>2, JobOfAcquire DEF IInv, TypeOK, LockOK, LeasesOK
<1>6. CallersOK'
  <2>1. "acquired" \in SocketPcs /\ "acquired" \in RequestPcs BY DEF SocketPcs, RequestPcs
  <2>2. job' \in [Callers -> Job] BY <1>1, <1>2, <1>3
  <2>3. pc' \in [Callers -> SocketPcs] BY <1>1, <1>2, <2>1
  <2>4. \A h \in Requests : pc'[h] \in RequestPcs
    BY <1>1, <1>2, <2>1, Disjoint DEF IInv, TypeOK, CallersOK
  <2>5. QED BY <2>2, <2>3, <2>4 DEF CallersOK
<1>7. JobsOwned' BY <1>1, <1>2, <1>3, Disjoint DEF IInv, FenceInv, JobsOwned
<1>8. MutualExclusion' BY <1>1, <1>2, Disjoint DEF MutualExclusion, Inside
<1>9. RowIsGrant'
  BY <1>1, <1>2 DEF IInv, FenceInv, RowIsGrant, Inside
<1>10. EpochsFenced'
  <2> SUFFICES ASSUME NEW s \in Sockets
               PROVE  Fenced(s, lease[s].epoch)' /\ (CarriesEpoch(s)' => Fenced(s, job[s].epoch)')
    BY DEF EpochsFenced
  <2>1. Fenced(s, lease[s].epoch) /\ (CarriesEpoch(s) => Fenced(s, job[s].epoch))
        /\ lease[s].epoch \in Int /\ job[s].epoch \in Nat /\ s \in Callers
    BY OwnEntries DEF Lease
  <2>2. Fenced(s, lease[s].epoch)'
    BY <1>1, <1>2, <2>1 DEF Fenced
  <2>3. CASE s = c
    BY <1>1, <1>3, <2>2, <2>3, JobOfAcquire DEF Fenced
  <2>4. CASE s # c
    BY <1>1, <1>2, <2>1, <2>2, <2>4 DEF Fenced, CarriesEpoch
  <2>5. QED BY <2>3, <2>4
<1>11. QED BY <1>4, <1>5, <1>6, <1>7, <1>8, <1>9, <1>10 DEF Core, FenceInv

\* A release deletes the row and stays inside the lock until its bump.
LEMMA ReleaseGrantedCore ==
  ASSUME IInv, NEW c \in Callers, ReleaseGranted(c)
  PROVE  Core
<1>1. /\ dev' = c /\ pc[c] \in {"release", "owned"} /\ pc' = [pc EXCEPT ![c] = "unbump"]
      /\ row' = NoLease /\ UNCHANGED <<epoch, job, lease, grant, world>>
      /\ \A x \in Callers : x # c => pc[x] \notin Inside
  BY OneInside DEF ReleaseGranted, Enter, Goto, Inside
<1>2. /\ pc \in [Callers -> SocketPcs] /\ pc'[c] = "unbump"
      /\ \A x \in Callers : x # c => pc'[x] = pc[x]
  BY <1>1 DEF IInv, TypeOK, CallersOK
<1>3. WorldOK' BY <1>1, WorldUntouched
<1>4. LockOK' /\ LeasesOK' BY <1>1 DEF IInv, TypeOK, LockOK, LeasesOK
<1>5. CallersOK' BY <1>1, <1>2 DEF IInv, TypeOK, CallersOK, SocketPcs, RequestPcs
<1>6. JobsOwned' BY <1>1, <1>2, Disjoint DEF IInv, FenceInv, JobsOwned
<1>7. MutualExclusion' BY <1>1, <1>2 DEF MutualExclusion, Inside
<1>8. RowIsGrant' BY <1>1, <1>2 DEF RowIsGrant
<1>9. EpochsFenced'
  BY <1>1, <1>2, Disjoint DEF IInv, FenceInv, EpochsFenced, Fenced, CarriesEpoch
<1>10. QED BY <1>3, <1>4, <1>5, <1>6, <1>7, <1>8, <1>9 DEF Core, FenceInv

\* The bump of a release makes every epoch old, and nobody the grantee.
LEMMA ReleaseBumpCore ==
  ASSUME IInv, NEW c \in Callers, ReleaseBump(c)
  PROVE  Core
<1>1. /\ dev' = NoOne /\ epoch' = epoch + 1 /\ grant' = NoOne /\ pc[c] = "unbump"
      /\ pc' = [pc EXCEPT ![c] = "released"] /\ UNCHANGED <<row, lease, world>>
      /\ job' = [job EXCEPT ![c] = Noted(job[c], TRUE, epoch + 1)]
  BY DEF ReleaseBump, Goto, Note
<1>2. /\ pc \in [Callers -> SocketPcs] /\ pc'[c] = "released" /\ epoch + 1 \in Nat /\ epoch \in Nat
      /\ job \in [Callers -> Job] /\ job'[c] = Noted(job[c], TRUE, epoch + 1)
      /\ \A x \in Callers : x # c => pc'[x] = pc[x] /\ job'[x] = job[x] /\ pc[x] \notin Inside
  BY <1>1, OneInside DEF IInv, TypeOK, CallersOK, LockOK, Inside
<1>3. /\ job'[c] \in Job /\ job'[c].user = job[c].user /\ job'[c].client = job[c].client
  <2>1. job[c] \in Job BY <1>2
  <2>2. /\ Noted(job[c], TRUE, epoch + 1) \in Job
        /\ Noted(job[c], TRUE, epoch + 1).user = job[c].user
        /\ Noted(job[c], TRUE, epoch + 1).client = job[c].client
    BY <1>2, <2>1, JobFields
  <2>3. QED BY <1>2, <2>2
<1>4. WorldOK' BY <1>1, WorldUntouched
<1>5. LockOK' /\ LeasesOK' BY <1>1, <1>2 DEF IInv, TypeOK, LockOK, LeasesOK
<1>6. CallersOK'
  <2>1. "released" \in SocketPcs /\ "released" \in RequestPcs BY DEF SocketPcs, RequestPcs
  <2>2. job' \in [Callers -> Job] BY <1>1, <1>2, <1>3
  <2>3. pc' \in [Callers -> SocketPcs] BY <1>1, <1>2, <2>1
  <2>4. \A h \in Requests : pc'[h] \in RequestPcs
    BY <1>1, <1>2, <2>1, Disjoint DEF IInv, TypeOK, CallersOK
  <2>5. QED BY <2>2, <2>3, <2>4 DEF CallersOK
<1>7. JobsOwned' BY <1>1, <1>2, <1>3, Disjoint DEF IInv, FenceInv, JobsOwned
<1>8. MutualExclusion' BY <1>1, <1>2, Disjoint DEF MutualExclusion, Inside
<1>9. RowIsGrant'
  <2>1. row = NoLease BY <1>1 DEF IInv, FenceInv, RowIsGrant
  <2>2. QED BY <1>1, <2>1 DEF RowIsGrant
<1>10. EpochsFenced'
  <2> SUFFICES ASSUME NEW s \in Sockets
               PROVE  Fenced(s, lease[s].epoch)' /\ (CarriesEpoch(s)' => Fenced(s, job[s].epoch)')
    BY DEF EpochsFenced
  <2>1. Fenced(s, lease[s].epoch) /\ (CarriesEpoch(s) => Fenced(s, job[s].epoch))
        /\ lease[s].epoch \in Int /\ job[s].epoch \in Nat /\ s \in Callers
    BY OwnEntries DEF Lease
  <2>2. Fenced(s, lease[s].epoch)'
    BY <1>1, <1>2, <2>1 DEF Fenced
  <2>3. CASE s = c
    BY <1>2, <2>2, <2>3 DEF CarriesEpoch
  <2>4. CASE s # c
    BY <1>1, <1>2, <2>1, <2>2, <2>4 DEF Fenced, CarriesEpoch
  <2>5. QED BY <2>3, <2>4
<1>11. QED BY <1>4, <1>5, <1>6, <1>7, <1>8, <1>9, <1>10 DEF Core, FenceInv

\* A closing socket that still owns the row stays inside the lock to release it.
LEMMA CloseOwnedCore ==
  ASSUME IInv, NEW s \in Sockets, CloseCheck(s), pc'[s] = "owned"
  PROVE  Core
<1>0. s \in Callers /\ pc \in [Callers -> SocketPcs]
  BY Disjoint DEF IInv, TypeOK, CallersOK
<1>1. /\ dev = NoOne /\ dev' = s /\ pc[s] = "close" /\ pc' = [pc EXCEPT ![s] = "owned"]
      /\ row' = Pruned /\ UNCHANGED <<epoch, job, lease, grant, world>>
      /\ \A x \in Callers : pc[x] \notin Inside
  BY <1>0, OneInside DEF CloseCheck, Enter, Pass, Goto
<1>2. \A x \in Callers : x # s => pc'[x] = pc[x]
  BY <1>0, <1>1
<1>3. RowKept BY <1>1, RowUntouched, RowShrinks
<1>4. WorldOK' BY <1>1, WorldUntouched
<1>5. LockOK' /\ LeasesOK' BY <1>0, <1>1, <1>3 DEF IInv, TypeOK, LockOK, LeasesOK, RowKept
<1>6. CallersOK' BY <1>0, <1>1, <1>2, Disjoint DEF IInv, TypeOK, CallersOK, SocketPcs
<1>7. JobsOwned' BY <1>1, <1>2, Disjoint DEF IInv, FenceInv, JobsOwned
<1>8. MutualExclusion' BY <1>0, <1>1, <1>2 DEF MutualExclusion, Inside
<1>9. RowIsGrant'
  BY <1>0, <1>1, <1>2, <1>3 DEF IInv, FenceInv, RowIsGrant, Inside, RowKept, Shrunk
<1>10. EpochsFenced'
  BY <1>0, <1>1, <1>2, Disjoint DEF IInv, FenceInv, EpochsFenced, Fenced, CarriesEpoch
<1>11. QED BY <1>4, <1>5, <1>6, <1>7, <1>8, <1>9, <1>10 DEF Core, FenceInv

-----------------------------------------------------------------------------
(* The theorems *)

\* A process that has just started satisfies the inductive invariant.
LEMMA InitIInv == Init => IInv
<1> SUFFICES ASSUME Init PROVE IInv OBVIOUS
<1>1. TypeOK
  <2>1. WorldOK /\ LockOK /\ HistoryOK
    BY DEF Init, WorldOK, LockOK, HistoryOK
  <2>2. CallersOK
    BY NoJobOK, Disjoint DEF Init, CallersOK, SocketPcs, RequestPcs
  <2>3. LeasesOK BY DEF Init, LeasesOK, Lease
  <2>4. QED BY <2>1, <2>2, <2>3 DEF TypeOK
<1>2. JobsOwned /\ MutualExclusion /\ RowIsGrant
  BY Disjoint DEF Init, JobsOwned, MutualExclusion, RowIsGrant, Inside
<1>3. EpochsFenced BY Disjoint DEF Init, EpochsFenced, Fenced, CarriesEpoch
<1>4. QED BY <1>1, <1>2, <1>3 DEF IInv, FenceInv

\* Every step of the lock layer, the sockets, the requests and the administration
\* preserves the inductive invariant.
LEMMA NextIInv == IInv /\ [Next]_vars => IInv'
<1> SUFFICES ASSUME IInv, [Next]_vars PROVE IInv' OBVIOUS
<1>1. CASE Next
  <2>1. Core
    <3>1. ASSUME NEW c \in Callers, LockStep(c) PROVE Core
      BY <3>1, RefusedCore, AcquireGrantedCore, AcquireBumpCore, ReleaseGrantedCore,
         ReleaseBumpCore DEF LockStep
    <3>2. ASSUME NEW s \in Sockets, SocketStep(s) \/ Connect(s) \/ Disconnect(s) PROVE Core
      BY <3>2, SocketStepCore, CloseOwnedCore
    <3>3. ASSUME NEW s \in Sockets, NEW k \in Kinds, NEW f \in BOOLEAN, Receive(s, k, f)
          PROVE Core
      BY <3>3, ReceiveCore
    <3>4. ASSUME NEW h \in Requests,
                 RequestDone(h) \/ \E call \in RequestCalls : Request(h, call)
          PROVE Core
      BY <3>4, RequestCore
    <3>5. QED BY <1>1, <3>1, <3>2, <3>3, <3>4, WorldCore DEF Next, Step
  <2>2. HistoryOK' BY <1>1, <2>1, HistoryStep DEF Next, Core, IInv, TypeOK
  <2>3. QED BY <2>1, <2>2 DEF Core, IInv, TypeOK
<1>2. CASE UNCHANGED vars
  <2>1. Core
    <3>1. RowKept /\ WorldOK' BY <1>2, RowUntouched, WorldUntouched DEF vars, world
    <3>2. QED BY <1>2, <3>1, QuietWorld DEF vars, RowKept, Core
  <2>2. HistoryOK' BY <1>2 DEF vars, IInv, TypeOK, HistoryOK
  <2>3. QED BY <2>1, <2>2 DEF Core, IInv, TypeOK
<1>3. QED BY <1>1, <1>2

\* The types and the fence of the lock layer hold in every reachable state.
THEOREM Invariance == Spec => []IInv
<1>1. QED BY InitIInv, NextIInv, PTL DEF Spec

\* Type correctness, of every reachable state.
THEOREM TypeCorrect == Spec => []TypeOK
<1>1. IInv => TypeOK BY DEF IInv
<1>2. QED BY Invariance, <1>1, PTL

\* The fence: cached and carried epochs are current only for the grantee.
THEOREM FenceHolds == Spec => []FenceInv
<1>1. IInv => FenceInv BY DEF IInv
<1>2. QED BY Invariance, <1>1, PTL

\* Only send_control_for_epoch, with the fence open and the device lock free, takes
\* a socket from waiting to send to having sent.
LEMMA SentByFence ==
  ASSUME IInv, Next, NEW s \in Sockets, Accepts(s)
  PROVE  dev = NoOne /\ job[s].epoch = epoch
<1>1. s \in Callers /\ pc \in [Callers -> SocketPcs] /\ pc[s] = "send" /\ pc'[s] = "sent"
  BY OwnEntries DEF IInv, TypeOK, CallersOK, Accepts
<1> DEFINE Elsewhere(c) == \E l \in SocketPcs : pc' = [pc EXCEPT ![c] = l] /\ (c # s \/ l # "sent")
<1>2. ASSUME NEW c \in Callers, Elsewhere(c) PROVE FALSE
  BY <1>1, <1>2
<1> HIDE DEF Elsewhere
<1>3. ASSUME NEW c \in Callers, LockStep(c) PROVE FALSE
  <2>1. pc[c] # "send" BY <1>3 DEF LockStep, AcquireRefused, AcquireGranted, AcquireBump,
                            ReleaseRefused, ReleaseGranted, ReleaseBump
  <2>2. \E l \in SocketPcs : pc' = [pc EXCEPT ![c] = l]
    BY <1>3 DEF LockStep, AcquireRefused, AcquireGranted, AcquireBump, ReleaseRefused,
                ReleaseGranted, ReleaseBump, Goto, SocketPcs, RequestPcs
  <2>3. QED BY <1>1, <1>2, <2>1, <2>2 DEF Elsewhere
<1>4. ASSUME NEW x \in Sockets, SocketStep(x) PROVE SendAccepted(s)
  <2>1. x \in Callers BY OwnEntries
  <2>2. CASE SendAccepted(x)
    <3>1. x = s BY <1>1, <2>1, <2>2 DEF SendAccepted, Goto
    <3>2. QED BY <2>2, <3>1
  <2>3. CASE SendRefused(x)
    BY <1>1, <1>2, <2>1, <2>3 DEF SendRefused, Goto, Elsewhere, SocketPcs
  <2>4. CASE ~SendAccepted(x) /\ ~SendRefused(x)
    <3>1. pc[x] # "send"
      BY <1>4, <2>4 DEF SocketStep, CheckPassed, CheckFailed, DispatchText, DispatchBytes, Renew,
           AfterRenew, Keepalive, AfterAcquire, AfterRelease, AfterSend, Reply, BeginClose,
           CloseCheck, Checks
    <3>2. x # s BY <1>1, <3>1
    <3>3. ASSUME NEW l, pc' = [pc EXCEPT ![x] = l] PROVE FALSE
      BY <1>1, <3>2, <3>3
    <3>4. \E l : pc' = [pc EXCEPT ![x] = l]
      BY <1>4, <2>4 DEF SocketStep, CheckPassed, CheckFailed, DispatchText, DispatchBytes, Renew,
           AfterRenew, Keepalive, AfterAcquire, AfterRelease, AfterSend, Reply, BeginClose,
           CloseCheck, Goto, Finish
    <3>5. QED BY <3>3, <3>4
  <2>5. QED BY <2>2, <2>3, <2>4
<1>5. ASSUME NEW x \in Sockets,
             \/ Connect(x) \/ Disconnect(x)
             \/ \E k \in Kinds, f \in BOOLEAN : Receive(x, k, f)
      PROVE FALSE
  BY <1>1, <1>2, <1>5, OwnEntries
     DEF Connect, Disconnect, Receive, Goto, Elsewhere, SocketPcs, RequestPcs
<1>6. ASSUME NEW h \in Requests,
             RequestDone(h) \/ \E call \in RequestCalls : Request(h, call)
      PROVE FALSE
  BY <1>1, <1>6, Disjoint DEF RequestDone, Request, Finish, Goto
<1>7. ASSUME pc' = pc PROVE FALSE
  BY <1>1, <1>7
<1>8. SendAccepted(s)
  BY <1>3, <1>4, <1>5, <1>6, <1>7 DEF Next, Step, Disable, SetRight, Sweep, Tick
<1>9. QED BY <1>8 DEF SendAccepted, Pass

\* One controller at a time: an input is accepted only from the last grantee, and
\* only when the table names no other client.
THEOREM OneControllerHolds == Spec => OneController
<1>1. IInv /\ [Next]_vars
        => [\A s \in Sockets : Accepts(s) => grant = s /\ (row = NoLease \/ HeldBy(s))]_vars
  <2> SUFFICES ASSUME IInv, Next, NEW s \in Sockets, Accepts(s)
               PROVE  grant = s /\ (row = NoLease \/ HeldBy(s))
    OBVIOUS
  <2>1. dev = NoOne /\ job[s].epoch = epoch BY SentByFence
  <2>2. grant = s BY <2>1, OwnEntries DEF Accepts, CarriesEpoch, Fenced, IInv, TypeOK, LockOK
  <2>3. QED BY <2>1, <2>2, RowOfGrant DEF HeldBy
<1>2. QED BY <1>1, Invariance, PTL DEF Spec, OneController

-----------------------------------------------------------------------------
(* The lease and the clock: who loses it, and when what is cached ends *)

\* What a socket may still rely on, and since when: nothing cached outlives the
\* row, its holder's last hold or the last successful recheck by more than the
\* intervals and the time one message takes.
AfterSession == {"permission", "handle", "renew", "renewed", "send"}
AfterPermission == AfterSession \ {"permission"}
Holds(s) == pc[s] = "bump" \/ (pc[s] \in {"renewed", "acquired"} /\ job[s].ok)
AllowedAt(s, k) == allowedAt[Owner[s]][k]

OnTime(s) ==
  /\ heldAt[s] <= now
  /\ Busy(s) => job[s].at <= now /\ now <= job[s].at + Lag
RightsOnTime(s) ==
  /\ \A k \in Checks : AllowedAt(s, k) <= now /\ lease[s].stamp[k] <= AllowedAt(s, k) + Recheck
  /\ pc[s] \in AfterSession => job[s].at <= AllowedAt(s, "session") + Recheck
  /\ pc[s] \in AfterPermission => job[s].at <= AllowedAt(s, "permission") + Recheck
HoldOnTime(s) ==
  /\ lease[s].until <= now + Verify /\ lease[s].until <= heldAt[s] + Verify + Lag
  /\ Holds(s) => job[s].at <= heldAt[s] /\ (HeldBy(s) => job[s].at + TTL <= row.expires)
  /\ pc[s] = "send" => job[s].at <= heldAt[s] + Verify + Lag
  /\ HeldBy(s) /\ lease[s].epoch = epoch => lease[s].until <= row.expires

\* A row in a socket's name is its account's, and goes before the socket does.
OwnRow(s) ==
  /\ HeldBy(s) => row.user = Owner[s]
  /\ pc[s] \in {"closed", "released"} => ~HeldBy(s)
RequestsAreNoSockets == \A h \in Requests : job[h].client \notin Sockets

LeaseInv ==
  /\ IInv /\ RequestsAreNoSockets
  /\ \A s \in Sockets : OwnRow(s) /\ OnTime(s) /\ RightsOnTime(s) /\ HoldOnTime(s)

-----------------------------------------------------------------------------
(* What a step is to a socket *)

\* The numbers in a socket's state.
LEMMA Numbers ==
  ASSUME IInv, NEW s \in Sockets
  PROVE  /\ now \in Nat /\ heldAt[s] \in Nat /\ job[s].at \in Nat
         /\ lease[s].until \in Nat /\ lease[s].epoch \in Int
         /\ \A k \in Checks : lease[s].stamp[k] \in Nat /\ AllowedAt(s, k) \in Nat
         /\ row # NoLease => row.expires \in Nat
         /\ {TTL, Verify, Recheck, Lag} \subseteq Nat /\ Verify + Lag <= TTL
<1>1. now \in Nat /\ heldAt[s] \in Nat /\ job[s].at \in Nat
  BY OwnEntries DEF IInv, TypeOK, WorldOK, HistoryOK
<1>2. lease[s].until \in Nat /\ lease[s].epoch \in Int /\ lease[s].stamp \in [Checks -> Nat]
  BY OwnEntries DEF Lease
<1>3. allowedAt[Owner[s]] \in [Checks -> Nat]
  BY Disjoint DEF IInv, TypeOK, HistoryOK
<1>4. row # NoLease => row.expires \in Nat
  BY DEF IInv, TypeOK, LockOK, Row
<1>5. QED BY <1>1, <1>2, <1>3, <1>4, ControlLeaseAssumption DEF AllowedAt

\* The history of a socket stays or becomes the present.
LEMMA HistoryFacts ==
  ASSUME IInv, Record, NEW s \in Sockets
  PROVE  /\ heldAt'[s] \in {heldAt[s], now'}
         /\ (HeldBy(s) /\ ~Expired)' => heldAt'[s] = now'
         /\ \A k \in Checks : /\ AllowedAt(s, k)' \in {AllowedAt(s, k), now'}
                              /\ Passes(Owner[s], k)' => AllowedAt(s, k)' = now'
<1>1. heldAt'[s] = IF (HeldBy(s) /\ ~Expired)' THEN now' ELSE heldAt[s]
  BY DEF Record
<1>2. allowedAt'[Owner[s]] = [k \in Checks |-> IF Passes(Owner[s], k)' THEN now' ELSE allowedAt[Owner[s]][k]]
  BY Disjoint DEF Record
<1>3. QED BY <1>1, <1>2 DEF AllowedAt

\* A step of the socket itself.
OwnStep(s) ==
  \/ LockStep(s) \/ SocketStep(s) \/ Connect(s) \/ Disconnect(s)
  \/ \E k \in Kinds, f \in BOOLEAN : Receive(s, k, f)
\* What a step of anybody else is to it.
Kept(s) ==
  /\ pc'[s] = pc[s] /\ job'[s] = job[s] /\ lease'[s] = lease[s]
  /\ epoch' \in {epoch, epoch + 1}
  /\ HeldBy(s)' => HeldBy(s) /\ row'.user = row.user /\ row'.expires = row.expires

\* The row stays as it is or goes.
LEMMA RowStays ==
  ASSUME row' \in {row, NoLease}, NEW s
  PROVE  HeldBy(s)' => HeldBy(s) /\ row'.user = row.user /\ row'.expires = row.expires
BY DEF HeldBy

\* A renewal extends the row of its own client only.
LEMMA RenewedRowStays ==
  ASSUME IInv, NEW j, NEW s, Renews(j) => j.client # s, row' = RenewedRow(j)
  PROVE  HeldBy(s)' => HeldBy(s) /\ row'.user = row.user /\ row'.expires = row.expires
<1>1. CASE Renews(j)
  <2>1. row \in Row /\ row.client # s BY <1>1 DEF Renews, IInv, TypeOK, LockOK
  <2>2. row'.client = row.client BY <1>1, <2>1 DEF RenewedRow, Row
  <2>3. QED BY <2>1, <2>2 DEF HeldBy
<1>2. CASE ~Renews(j)
  BY <1>2, RowShrinks, RowStays DEF RenewedRow
<1>3. QED BY <1>1, <1>2

\* Steps of the lock layer are somebody else's to all but their caller.
LEMMA LockStepKept ==
  ASSUME LeaseInv, NEW s \in Sockets, NEW c \in Callers, c # s, LockStep(c)
  PROVE  Kept(s) /\ now' = now /\ rights' = rights
<1>1. pc'[s] = pc[s] /\ job'[s] = job[s] /\ lease'[s] = lease[s] /\ now' = now /\ rights' = rights
  BY Disjoint DEF LeaseInv, IInv, TypeOK, CallersOK, LeasesOK, LockStep, AcquireRefused, AcquireGranted,
     AcquireBump, ReleaseRefused, ReleaseGranted, ReleaseBump, Goto, Note, world
<1>2. epoch' \in {epoch, epoch + 1}
  BY DEF LockStep, AcquireRefused, AcquireGranted, AcquireBump, ReleaseRefused, ReleaseGranted, ReleaseBump
<1>3. CASE AcquireGranted(c)
  <2>1. job[c].client # s
    BY <1>3, JobOfAcquire DEF LeaseInv, RequestsAreNoSockets, AcquireGranted, Callers
  <2>2. row'.client = job[c].client BY <1>3 DEF AcquireGranted
  <2>3. QED BY <1>1, <1>2, <2>1, <2>2 DEF Kept, HeldBy
<1>4. CASE ~AcquireGranted(c)
  <2>1. row' \in {row, NoLease}
    BY <1>4, RowShrinks DEF LockStep, AcquireRefused, AcquireBump, ReleaseRefused, ReleaseGranted, ReleaseBump
  <2>2. QED BY <1>1, <1>2, <2>1, RowStays DEF Kept
<1>5. QED BY <1>3, <1>4

\* So are those of other sockets.
LEMMA SocketStepKept ==
  ASSUME LeaseInv, NEW s \in Sockets, NEW x \in Sockets, x # s,
         SocketStep(x) \/ Connect(x) \/ Disconnect(x) \/ \E k \in Kinds, f \in BOOLEAN : Receive(x, k, f)
  PROVE  Kept(s) /\ now' = now /\ rights' = rights
<1>1. x \in Callers /\ s \in Callers BY Disjoint
<1>2. pc'[s] = pc[s]
  <2>1. \E l : pc' = [pc EXCEPT ![x] = l]
    BY DEF SocketStep, Connect, Disconnect, Receive, CheckPassed, CheckFailed, DispatchText, DispatchBytes,
       Renew, AfterRenew, Keepalive, AfterAcquire, AfterRelease, SendAccepted, SendRefused, AfterSend, Reply,
       BeginClose, CloseCheck, Goto, Finish
  <2>2. QED BY <1>1, <2>1 DEF LeaseInv, IInv, TypeOK, CallersOK
<1>3. job'[s] = job[s]
  <2>1. job' = job \/ \E j : job' = [job EXCEPT ![x] = j]
    BY DEF SocketStep, Connect, Disconnect, Receive, CheckPassed, CheckFailed, DispatchText, DispatchBytes,
       Renew, AfterRenew, Keepalive, AfterAcquire, AfterRelease, SendAccepted, SendRefused, AfterSend, Reply,
       BeginClose, CloseCheck, Note, Begin, Finish
  <2>2. QED BY <1>1, <2>1 DEF LeaseInv, IInv, TypeOK, CallersOK
<1>4. lease'[s] = lease[s]
  <2>1. lease' = lease \/ \E l : lease' = [lease EXCEPT ![x] = l]
    BY DEF SocketStep, Connect, Disconnect, Receive, CheckPassed, CheckFailed, DispatchText, DispatchBytes,
       Renew, AfterRenew, Keepalive, AfterAcquire, AfterRelease, SendAccepted, SendRefused, AfterSend, Reply,
       BeginClose, CloseCheck, SetLease
  <2>2. QED BY <2>1 DEF LeaseInv, IInv, TypeOK, LeasesOK
<1>5. epoch' = epoch /\ now' = now /\ rights' = rights
  BY DEF SocketStep, Connect, Disconnect, Receive, CheckPassed, CheckFailed, DispatchText, DispatchBytes,
     Renew, AfterRenew, Keepalive, AfterAcquire, AfterRelease, SendAccepted, SendRefused, AfterSend, Reply,
     BeginClose, CloseCheck, world, lockState
<1>6. CASE Renew(x) \/ Keepalive(x)
  <2>1. row' = RenewedRow(job[x]) /\ job[x].client # s
    BY <1>6, OwnEntries DEF LeaseInv, Renew, Keepalive
  <2>2. QED BY <1>2, <1>3, <1>4, <1>5, <2>1, RenewedRowStays DEF Kept, LeaseInv
<1>7. CASE ~(Renew(x) \/ Keepalive(x))
  <2>1. row' \in {row, NoLease}
    BY <1>7, RowShrinks DEF SocketStep, Connect, Disconnect, Receive, CheckPassed, CheckFailed, DispatchText,
       DispatchBytes, AfterRenew, AfterAcquire, AfterRelease, SendAccepted, SendRefused, AfterSend, Reply,
       BeginClose, CloseCheck, lockState
  <2>2. QED BY <1>2, <1>3, <1>4, <1>5, <2>1, RowStays DEF Kept
<1>8. QED BY <1>6, <1>7

\* And those of requests and of nobody.
LEMMA WorldKept ==
  ASSUME LeaseInv, NEW s \in Sockets,
         \/ \E h \in Requests : RequestDone(h) \/ \E call \in RequestCalls : Request(h, call)
         \/ \E u \in Users : Disable(u) \/ \E r \in Rights : SetRight(u, r)
         \/ Sweep \/ Tick
  PROVE  Kept(s) /\ (now' = now \/ Tick)
<1>1. row' \in {row, NoLease} /\ epoch' = epoch /\ lease' = lease /\ (now' = now \/ Tick)
  BY RowShrinks DEF RequestDone, Request, Disable, SetRight, Sweep, Tick, world, lockState
<1>2. pc'[s] = pc[s] /\ job'[s] = job[s]
  BY Disjoint DEF LeaseInv, IInv, TypeOK, CallersOK, RequestDone, Request, Disable, SetRight, Sweep, Tick,
     Begin, Finish, Goto
<1>3. QED BY <1>1, <1>2, RowStays DEF Kept

\* Every step is the socket's own or keeps what is the socket's.
LEMMA WhoMoves ==
  ASSUME LeaseInv, Next, NEW s \in Sockets
  PROVE  (OwnStep(s) /\ now' = now /\ rights' = rights) \/ (Kept(s) /\ (now' = now \/ Tick))
<1>0. s \in Callers BY Disjoint
<1>1. ASSUME NEW c \in Callers, LockStep(c) PROVE (OwnStep(s) /\ now' = now /\ rights' = rights) \/ (Kept(s) /\ now' = now)
  <2>1. CASE c = s
    <3>1. now' = now /\ rights' = rights
      BY <1>1 DEF LockStep, AcquireRefused, AcquireGranted, AcquireBump, ReleaseRefused, ReleaseGranted,
         ReleaseBump, world
    <3>2. QED BY <1>1, <2>1, <3>1 DEF OwnStep
  <2>2. QED BY <1>1, <2>1, LockStepKept
<1>2. ASSUME NEW x \in Sockets,
             SocketStep(x) \/ Connect(x) \/ Disconnect(x) \/ \E k \in Kinds, f \in BOOLEAN : Receive(x, k, f)
      PROVE  (OwnStep(s) /\ now' = now /\ rights' = rights) \/ (Kept(s) /\ now' = now)
  <2>1. CASE x = s
    <3>1. now' = now /\ rights' = rights
      BY <1>2 DEF SocketStep, Connect, Disconnect, Receive, CheckPassed, CheckFailed, DispatchText,
         DispatchBytes, Renew, AfterRenew, Keepalive, AfterAcquire, AfterRelease, SendAccepted, SendRefused,
         AfterSend, Reply, BeginClose, CloseCheck, world
    <3>2. QED BY <1>2, <2>1, <3>1 DEF OwnStep
  <2>2. QED BY <1>2, <2>1, SocketStepKept
<1>3. QED BY <1>1, <1>2, WorldKept DEF Next, Step

-----------------------------------------------------------------------------
(* Every step keeps what is on time *)

\* What somebody else does, a tick included, leaves a socket on time.
LEMMA KeptOnTime ==
  ASSUME LeaseInv, Record, NEW s \in Sockets, Kept(s), now' = now \/ Tick
  PROVE  (OwnRow(s) /\ OnTime(s) /\ RightsOnTime(s) /\ HoldOnTime(s))'
<1>1. OwnRow(s) /\ OnTime(s) /\ RightsOnTime(s) /\ HoldOnTime(s) /\ IInv
  BY DEF LeaseInv
<1>2. now' \in Nat /\ now <= now' /\ (Busy(s) => now' <= job[s].at + Lag)
  BY <1>1, Numbers, Disjoint DEF Tick, OnTime
<1>3. OwnRow(s)' BY <1>1 DEF OwnRow, Kept
<1>4. heldAt[s] <= heldAt'[s] /\ heldAt'[s] <= now' /\ heldAt'[s] \in Nat
  BY <1>1, <1>2, Numbers, HistoryFacts DEF OnTime
<1>5. \A k \in Checks : /\ AllowedAt(s, k) <= AllowedAt(s, k)' /\ AllowedAt(s, k)' <= now'
                        /\ AllowedAt(s, k)' \in Nat
  BY <1>1, <1>2, Numbers, HistoryFacts DEF RightsOnTime
<1>6. OnTime(s)' BY <1>1, <1>2, <1>4, Numbers DEF OnTime, Kept, Busy
<1>7. RightsOnTime(s)'
  <2>1. \A k \in Checks : lease[s].stamp[k] <= AllowedAt(s, k)' + Recheck
    BY <1>1, <1>5, Numbers DEF RightsOnTime
  <2>2. pc[s] \in AfterSession => job[s].at <= AllowedAt(s, "session")' + Recheck
    BY <1>1, <1>5, Numbers DEF RightsOnTime, Checks
  <2>3. pc[s] \in AfterPermission => job[s].at <= AllowedAt(s, "permission")' + Recheck
    BY <1>1, <1>5, Numbers DEF RightsOnTime, Checks
  <2>4. QED BY <1>5, <2>1, <2>2, <2>3 DEF RightsOnTime, Kept
<1>8. HoldOnTime(s)'
  <2>1. lease[s].until <= now' + Verify /\ lease[s].until <= heldAt'[s] + Verify + Lag
    BY <1>1, <1>2, <1>4, Numbers DEF HoldOnTime
  <2>2. Holds(s) => job[s].at <= heldAt'[s] /\ (HeldBy(s)' => job[s].at + TTL <= row'.expires)
    BY <1>1, <1>4, Numbers DEF HoldOnTime, Kept
  <2>3. pc[s] = "send" => job[s].at <= heldAt'[s] + Verify + Lag
    BY <1>1, <1>4, Numbers DEF HoldOnTime
  <2>4. lease[s].epoch = epoch' => lease[s].epoch = epoch
    BY <1>1, OwnEntries, Numbers DEF Kept, Fenced, IInv, TypeOK, LockOK
  <2>5. HeldBy(s)' /\ lease[s].epoch = epoch' => lease[s].until <= row'.expires
    BY <1>1, <2>4 DEF HoldOnTime, Kept
  <2>6. Holds(s)' <=> Holds(s) BY DEF Holds, Kept
  <2>7. QED BY <2>1, <2>2, <2>3, <2>5, <2>6 DEF HoldOnTime, Kept
<1>9. QED BY <1>3, <1>6, <1>7, <1>8

\* What one of its own steps needs to keep a socket on time, whatever it does.
LEMMA OwnTimes ==
  ASSUME LeaseInv, Record, NEW s \in Sockets, now' = now, rights' = rights
  PROVE  /\ OwnRow(s) /\ OnTime(s) /\ RightsOnTime(s) /\ HoldOnTime(s)
         /\ heldAt'[s] \in Nat /\ heldAt[s] <= heldAt'[s] /\ heldAt'[s] <= now
         /\ (HeldBy(s) /\ ~Expired)' => heldAt'[s] = now
         /\ \A k \in Checks : /\ AllowedAt(s, k)' \in Nat /\ AllowedAt(s, k)' <= now
                              /\ AllowedAt(s, k) <= AllowedAt(s, k)'
                              /\ Passes(Owner[s], k) => AllowedAt(s, k)' = now
<1>1. OwnRow(s) /\ OnTime(s) /\ RightsOnTime(s) /\ HoldOnTime(s) /\ IInv
  BY DEF LeaseInv
<1>2. \A k \in Checks : Passes(Owner[s], k)' <=> Passes(Owner[s], k)
  BY DEF Passes
<1>3. QED BY <1>1, <1>2, Numbers, HistoryFacts DEF OnTime, RightsOnTime

\* Noting an outcome, marking and clearing, as times.
LEMMA TimesOfRecords ==
  ASSUME IInv, NEW s \in Sockets
  PROVE  /\ \A ok \in BOOLEAN, e \in Nat :
              /\ Noted(job[s], ok, e).at = job[s].at /\ Noted(job[s], ok, e).ok = ok
              /\ Noted(job[s], ok, e).kind = job[s].kind
         /\ \A e \in Nat : /\ Marked(lease[s], e).until = now + Verify /\ Marked(lease[s], e).epoch = e
                           /\ Marked(lease[s], e).stamp = lease[s].stamp
         /\ Cleared(lease[s]).until = 0 /\ Cleared(lease[s]).epoch = -1
         /\ Cleared(lease[s]).stamp = lease[s].stamp
         /\ \A k \in Checks : /\ Stamped(lease[s], k).until = lease[s].until
                              /\ Stamped(lease[s], k).epoch = lease[s].epoch
                              /\ Stamped(lease[s], k).stamp = [lease[s].stamp EXCEPT ![k] = now + Recheck]
<1>1. job[s] \in Job /\ lease[s] \in Lease BY OwnEntries
<1>2. QED BY <1>1 DEF Noted, Marked, Cleared, Stamped, Job, Lease

\* A step of the socket that marks nothing: it leaves or clears its cached lease,
\* begins or goes on with a call, and changes the row only by deleting it.
Plain(s) ==
  /\ lease'[s] \in {lease[s], Cleared(lease[s])}
  /\ row' \in {row, NoLease} /\ (epoch' = epoch \/ row' = NoLease)
  /\ Busy(s)' => (Busy(s) /\ job'[s].at = job[s].at) \/ job'[s].at = now
  /\ ~Holds(s)' /\ pc'[s] # "send"
  /\ pc'[s] \in AfterSession => pc[s] \in AfterSession /\ job'[s].at = job[s].at
  /\ pc'[s] \in AfterPermission => pc[s] \in AfterPermission
  /\ pc'[s] \in {"closed", "released"} => ~HeldBy(s) \/ row' = NoLease
Timed(s) == OwnRow(s) /\ OnTime(s) /\ RightsOnTime(s) /\ HoldOnTime(s)

\* Such a step leaves it on time.
LEMMA PlainStep ==
  ASSUME LeaseInv, Record, NEW s \in Sockets, now' = now, rights' = rights, Plain(s)
  PROVE  Timed(s)'
<1>1. HeldBy(s)' => HeldBy(s) /\ row' = row /\ epoch' = epoch BY DEF HeldBy, Plain
<1>2. /\ lease'[s].stamp = lease[s].stamp /\ lease'[s].until \in {lease[s].until, 0}
      /\ lease'[s].epoch = epoch => lease'[s] = lease[s]
  BY TimesOfRecords DEF Plain, LeaseInv, IInv, TypeOK, LockOK
<1>3. OwnRow(s)' BY <1>1, OwnTimes DEF OwnRow, HeldBy, Plain
<1>4. OnTime(s)' BY OwnTimes, Numbers DEF OnTime, Plain, LeaseInv
<1>5. RightsOnTime(s)'
  <2>1. \A k \in Checks : AllowedAt(s, k)' <= now' /\ lease'[s].stamp[k] <= AllowedAt(s, k)' + Recheck
    BY <1>2, OwnTimes, Numbers DEF RightsOnTime, LeaseInv
  <2>2. pc'[s] \in AfterSession => job'[s].at <= AllowedAt(s, "session")' + Recheck
    BY OwnTimes, Numbers DEF RightsOnTime, LeaseInv, Checks, Plain
  <2>3. pc'[s] \in AfterPermission => job'[s].at <= AllowedAt(s, "permission")' + Recheck
    BY OwnTimes, Numbers DEF RightsOnTime, LeaseInv, Checks, Plain, AfterPermission
  <2>4. QED BY <2>1, <2>2, <2>3 DEF RightsOnTime
<1>6. HoldOnTime(s)'
  <2>1. lease'[s].until <= now' + Verify /\ lease'[s].until <= heldAt'[s] + Verify + Lag
    BY <1>2, OwnTimes, Numbers DEF HoldOnTime, LeaseInv
  <2>2. HeldBy(s)' /\ lease'[s].epoch = epoch' => lease'[s].until <= row'.expires
    BY <1>1, <1>2, OwnTimes DEF HoldOnTime
  <2>3. QED BY <2>1, <2>2 DEF HoldOnTime, Plain
<1>7. QED BY <1>3, <1>4, <1>5, <1>6 DEF Timed

\* The effect of a socket's step on its own pc, job and lease.
LEMMA OwnEffect ==
  ASSUME IInv, NEW s \in Sockets, NEW l, NEW j, NEW m
  PROVE  /\ Goto(s, l) => pc'[s] = l
         /\ Begin(s, j) => job'[s] = j
         /\ SetLease(s, m) => lease'[s] = m
BY Disjoint DEF IInv, TypeOK, CallersOK, LeasesOK, Goto, Begin, SetLease

\* What a caller notes, its call remaining what it was.
LEMMA NoteEffect ==
  ASSUME IInv, NEW s \in Sockets, NEW ok \in BOOLEAN, NEW e \in Nat, Note(s, ok, e)
  PROVE  /\ job'[s].at = job[s].at /\ job'[s].ok = ok /\ job'[s].epoch = e
         /\ job'[s].kind = job[s].kind
<1>1. job'[s] = Noted(job[s], ok, e)
  BY Disjoint DEF Note, IInv, TypeOK, CallersOK
<1>2. /\ Noted(job[s], ok, e).at = job[s].at /\ Noted(job[s], ok, e).ok = ok
      /\ Noted(job[s], ok, e).kind = job[s].kind
  BY TimesOfRecords
<1>3. Noted(job[s], ok, e).epoch = e BY OwnEntries, JobFields
<1>4. QED BY <1>1, <1>2, <1>3

\* Refusals and releases.
LEMMA RefusedPlain ==
  ASSUME LeaseInv, NEW s \in Sockets,
         \/ AcquireRefused(s) \/ ReleaseRefused(s) \/ ReleaseGranted(s) \/ ReleaseBump(s)
  PROVE  Plain(s)
<1>0. IInv /\ s \in Callers /\ epoch \in Nat /\ pc \in [Callers -> SocketPcs] /\ OwnRow(s) /\ OnTime(s)
  BY Disjoint DEF LeaseInv, IInv, TypeOK, CallersOK, LockOK
<1> USE <1>0 DEF Plain, Holds, Busy, AfterSession, AfterPermission
<1>1. CASE AcquireRefused(s)
  <2>1. pc'[s] = "acquired" /\ job'[s].at = job[s].at /\ job'[s].ok = FALSE
    BY <1>1, NoteEffect DEF AcquireRefused, Goto
  <2>2. QED BY <1>1, <2>1, RowShrinks DEF AcquireRefused
<1>2. CASE ReleaseRefused(s)
  <2>1. pc'[s] = "released" /\ job'[s].at = job[s].at
    BY <1>2, NoteEffect DEF ReleaseRefused, Goto
  <2>2. ~HeldBy(s)
    BY <1>2, OwnEntries DEF ReleaseRefused, Releases, OwnRow, HeldBy
  <2>3. QED BY <1>2, <2>1, <2>2 DEF ReleaseRefused
<1>3. CASE ReleaseGranted(s)
  <2>1. pc'[s] = "unbump" /\ job'[s] = job[s] BY <1>3 DEF ReleaseGranted, Goto
  <2>2. QED BY <1>3, <2>1 DEF ReleaseGranted
<1>4. CASE ReleaseBump(s)
  <2>0. epoch + 1 \in Nat BY <1>0
  <2>1. pc'[s] = "released" /\ job'[s].at = job[s].at
    BY <1>4, <2>0, NoteEffect DEF ReleaseBump, Goto
  <2>2. row = NoLease BY <1>4 DEF ReleaseBump, IInv, FenceInv, RowIsGrant
  <2>3. QED BY <1>4, <2>1, <2>2 DEF ReleaseBump
<1>5. QED BY <1>1, <1>2, <1>3, <1>4

\* The socket's own steps that mark nothing.
PlainSteps(s) ==
  \/ CheckFailed(s, "session") \/ CheckFailed(s, "permission") \/ DispatchText(s)
  \/ AfterRelease(s) \/ SendAccepted(s) \/ SendRefused(s) \/ AfterSend(s) \/ Reply(s)
  \/ BeginClose(s) \/ CloseCheck(s) \/ Connect(s) \/ Disconnect(s)
  \/ \E k \in Kinds, f \in BOOLEAN : Receive(s, k, f)

\* They are plain indeed.
LEMMA SocketPlain ==
  ASSUME LeaseInv, NEW s \in Sockets, PlainSteps(s)
  PROVE  Plain(s)
<1>0. IInv /\ s \in Callers /\ OwnRow(s) /\ OnTime(s) BY Disjoint DEF LeaseInv
<1>a. row' \in {row, NoLease} /\ epoch' = epoch
  BY RowShrinks DEF PlainSteps, CheckFailed, DispatchText, AfterRelease, SendAccepted, SendRefused,
     AfterSend, Reply, BeginClose, CloseCheck, Connect, Disconnect, Receive, lockState
<1>b. lease'[s] \in {lease[s], Cleared(lease[s])}
  <2>1. CASE AfterRelease(s) BY <1>0, <2>1, OwnEffect DEF AfterRelease
  <2>2. CASE ~AfterRelease(s)
    BY <2>2 DEF PlainSteps, CheckFailed, DispatchText, SendAccepted, SendRefused,
       AfterSend, Reply, BeginClose, CloseCheck, Connect, Disconnect, Receive
  <2>3. QED BY <2>1, <2>2
<1>c. job[s].at \in Nat /\ now \in Nat BY <1>0, Numbers
<1> USE <1>0, <1>a, <1>b DEF Plain, Holds, Busy, AfterSession, AfterPermission
<1>1. CASE CheckFailed(s, "session") \/ CheckFailed(s, "permission")
  <2>1. pc'[s] = "closing" /\ job'[s] = job[s] /\ Busy(s) BY <1>1, OwnEffect DEF CheckFailed
  <2>2. QED BY <2>1
<1>2. CASE DispatchText(s)
  <2>1. pc'[s] \in {"acquire", "keepalive", "release"} /\ job'[s] = job[s] /\ Busy(s)
    BY <1>2, OwnEffect DEF DispatchText
  <2>2. QED BY <2>1
<1>3. CASE AfterRelease(s)
  <2>1. pc'[s] \in {"closed", "reply"} /\ job'[s] = job[s] /\ Busy(s) /\ ~HeldBy(s)
    BY <1>3, OwnEffect DEF AfterRelease, OwnRow
  <2>2. QED BY <2>1
<1>4. CASE SendAccepted(s) \/ SendRefused(s)
  <2>1. pc'[s] \in {"sent", "reply"} /\ job'[s] = job[s] /\ Busy(s)
    BY <1>4, OwnEffect DEF SendAccepted, SendRefused
  <2>2. QED BY <2>1
<1>5. CASE AfterSend(s) \/ Reply(s)
  <2>1. pc'[s] = "idle" BY <1>5, OwnEffect DEF AfterSend, Reply, Finish
  <2>2. QED BY <2>1
<1>6. CASE BeginClose(s)
  <2>1. pc'[s] = "close" /\ job'[s] = Call("close", Owner[s], s, FALSE, job[s].at) /\ pc[s] = "closing"
    BY <1>6, OwnEffect DEF BeginClose
  <2>2. job'[s].at = job[s].at /\ Busy(s) BY <2>1 DEF Call
  <2>3. QED BY <2>1, <2>2
<1>7. CASE CloseCheck(s)
  <2>1. pc'[s] \in {"owned", "closed"} /\ job'[s] = job[s] /\ Busy(s)
    BY <1>7, OwnEffect DEF CloseCheck
  <2>2. pc'[s] = "closed" => ~HeldBy(s) \/ row' = NoLease
    <3>1. CASE row' = NoLease BY <3>1
    <3>2. CASE row' # NoLease
      <4>1. row' = row /\ Pruned = row BY <1>7, <3>2, RowShrinks DEF CloseCheck
      <4>2. pc'[s] = "closed" => ~(row.user = Owner[s] /\ row.client = s)
        BY <1>7, <3>2, <4>1, OwnEffect DEF CloseCheck
      <4>3. QED BY <4>2 DEF OwnRow, HeldBy
    <3>3. QED BY <3>1, <3>2
  <2>3. QED BY <2>1, <2>2
<1>8. CASE Connect(s)
  <2>1. pc'[s] = "idle" BY <1>8, OwnEffect DEF Connect
  <2>2. QED BY <2>1
<1>9. CASE Disconnect(s)
  <2>1. pc'[s] = "closing" /\ job'[s] = Call("none", NoOne, NoOne, FALSE, now)
    BY <1>9, OwnEffect DEF Disconnect
  <2>2. job'[s].at = now BY <2>1 DEF Call
  <2>3. QED BY <2>1, <2>2
<1>10. ASSUME NEW k \in Kinds, NEW f \in BOOLEAN, Receive(s, k, f) PROVE Plain(s)
  <2>1. pc'[s] = "session" /\ job'[s] = Call(k, Owner[s], s, f, now)
    BY <1>10, OwnEffect DEF Receive
  <2>2. job'[s].at = now BY <2>1 DEF Call
  <2>3. QED BY <2>1, <2>2
<1>11. QED BY <1>1, <1>2, <1>3, <1>4, <1>5, <1>6, <1>7, <1>8, <1>9, <1>10 DEF PlainSteps

\* A passed recheck counts from its stamp, or from now.
LEMMA CheckPassedTimed ==
  ASSUME LeaseInv, Record, NEW s \in Sockets, NEW k \in Checks, CheckPassed(s, k)
  PROVE  Timed(s)'
<1>0. IInv /\ now' = now /\ rights' = rights /\ row' = row /\ epoch' = epoch /\ Busy(s) /\ k \in {"session", "permission"}
  BY DEF LeaseInv, CheckPassed, world, lockState, Busy, Checks
<1>1. /\ lease'[s].until = lease[s].until /\ lease'[s].epoch = lease[s].epoch
      /\ \A x \in Checks : lease'[s].stamp[x] = IF x = k /\ ~Fresh(s, k) THEN now + Recheck ELSE lease[s].stamp[x]
  <2>1. CASE Fresh(s, k)
    <3>1. lease'[s] = lease[s] BY <1>0, <2>1, OwnEffect DEF CheckPassed
    <3>2. QED BY <2>1, <3>1
  <2>2. CASE ~Fresh(s, k)
    <3>1. lease'[s] = Stamped(lease[s], k) BY <1>0, <2>2, OwnEffect DEF CheckPassed
    <3>2. lease[s].stamp \in [Checks -> Nat] BY <1>0, OwnEntries DEF Lease
    <3>3. /\ Stamped(lease[s], k).until = lease[s].until /\ Stamped(lease[s], k).epoch = lease[s].epoch
          /\ Stamped(lease[s], k).stamp = [lease[s].stamp EXCEPT ![k] = now + Recheck]
      BY <1>0, TimesOfRecords
    <3>4. QED BY <2>2, <3>1, <3>2, <3>3
  <2>3. QED BY <2>1, <2>2
<1>2. ~Fresh(s, k) => AllowedAt(s, k)' = now BY <1>0, OwnTimes DEF CheckPassed
<1>3. job[s].at <= AllowedAt(s, k)' + Recheck
  <2>1. CASE Fresh(s, k)
    BY <1>0, <2>1, OwnTimes, Numbers DEF Fresh, RightsOnTime, OnTime
  <2>2. CASE ~Fresh(s, k)
    BY <1>0, <1>2, <2>2, OwnTimes, Numbers DEF OnTime
  <2>3. QED BY <2>1, <2>2
<1>4. /\ pc[s] = k
      /\ \/ k = "session" /\ pc'[s] = "permission" /\ job'[s] = job[s]
         \/ k = "permission" /\ pc'[s] = "handle" /\ job'[s] = job[s]
         \/ k = "permission" /\ pc'[s] = "idle"
  BY <1>0, OwnEffect DEF CheckPassed, Finish
<1>5. OwnRow(s)' BY <1>0, <1>4, OwnTimes DEF OwnRow, HeldBy
<1>6. OnTime(s)' BY <1>0, <1>4, OwnTimes DEF OnTime, Busy
<1>7. RightsOnTime(s)'
  <2>1. \A x \in Checks : AllowedAt(s, x)' <= now' /\ lease'[s].stamp[x] <= AllowedAt(s, x)' + Recheck
    BY <1>0, <1>1, <1>2, OwnTimes, Numbers DEF RightsOnTime
  <2>2. pc'[s] \in AfterSession => job'[s].at <= AllowedAt(s, "session")' + Recheck
    BY <1>0, <1>3, <1>4, OwnTimes, Numbers DEF RightsOnTime, AfterSession, Checks
  <2>3. pc'[s] \in AfterPermission => job'[s].at <= AllowedAt(s, "permission")' + Recheck
    BY <1>0, <1>3, <1>4 DEF AfterPermission, AfterSession
  <2>4. QED BY <2>1, <2>2, <2>3 DEF RightsOnTime
<1>8. HoldOnTime(s)'
  BY <1>0, <1>1, <1>4, OwnTimes, Numbers DEF HoldOnTime, Holds, HeldBy
<1>9. QED BY <1>5, <1>6, <1>7, <1>8 DEF Timed

\* What the steps below leave alone, and what of it stays on time.
LEMMA RightsKept ==
  ASSUME LeaseInv, Record, NEW s \in Sockets, now' = now, rights' = rights,
         lease'[s].stamp = lease[s].stamp, job'[s].at = job[s].at, Busy(s),
         pc'[s] \in AfterSession => pc[s] \in AfterPermission
  PROVE  OnTime(s)' /\ RightsOnTime(s)'
<1>1. OnTime(s)' BY OwnTimes DEF OnTime
<1>2. \A k \in Checks : AllowedAt(s, k)' <= now' /\ lease'[s].stamp[k] <= AllowedAt(s, k)' + Recheck
  BY OwnTimes, Numbers DEF RightsOnTime, LeaseInv
<1>3. pc'[s] \in AfterSession => job'[s].at <= AllowedAt(s, "session")' + Recheck
  BY OwnTimes, Numbers DEF RightsOnTime, LeaseInv, Checks, AfterPermission
<1>4. pc'[s] \in AfterPermission => job'[s].at <= AllowedAt(s, "permission")' + Recheck
  BY OwnTimes, Numbers DEF RightsOnTime, LeaseInv, Checks, AfterPermission
<1>5. QED BY <1>1, <1>2, <1>3, <1>4 DEF RightsOnTime

\* The row of an acquire is the caller's for the whole of its time to live.
LEMMA AcquireTimed ==
  ASSUME LeaseInv, Record, NEW s \in Sockets, AcquireGranted(s)
  PROVE  Timed(s)'
<1>0. /\ IInv /\ now' = now /\ rights' = rights /\ lease'[s] = lease[s] /\ job'[s] = job[s] /\ epoch' = epoch
      /\ pc[s] = "acquire" /\ pc'[s] = "bump" /\ job[s].user = Owner[s] /\ job[s].client = s
  BY OwnEntries, OwnEffect DEF LeaseInv, AcquireGranted, world
<1>1. row' \in Row /\ row' # NoLease /\ row'.client = s /\ row'.user = Owner[s] /\ row'.expires = now + TTL
  BY <1>0, Disjoint, ControlLeaseAssumption, Numbers DEF AcquireGranted, Row
<1>2. heldAt'[s] = now BY <1>0, <1>1, OwnTimes, Numbers DEF HeldBy, Expired
<1>3. OwnRow(s)' BY <1>0, <1>1 DEF OwnRow
<1>4. OnTime(s)' /\ RightsOnTime(s)' BY <1>0, RightsKept DEF Busy, AfterSession
<1>5. HoldOnTime(s)'
  <2>1. lease'[s].until <= now' + Verify /\ lease'[s].until <= heldAt'[s] + Verify + Lag
    BY <1>0, <1>2, OwnTimes, Numbers DEF HoldOnTime
  <2>2. job'[s].at <= heldAt'[s] /\ job'[s].at + TTL <= row'.expires
    BY <1>0, <1>1, <1>2, OwnTimes, Numbers DEF OnTime, Busy
  <2>3. lease'[s].until <= row'.expires
    BY <1>0, <1>1, OwnTimes, Numbers DEF HoldOnTime
  <2>4. QED BY <1>0, <2>1, <2>2, <2>3 DEF HoldOnTime
<1>6. QED BY <1>3, <1>4, <1>5 DEF Timed

\* Its bump makes what was cached before of no use.
LEMMA BumpTimed ==
  ASSUME LeaseInv, Record, NEW s \in Sockets, AcquireBump(s)
  PROVE  Timed(s)'
<1>0. /\ IInv /\ now' = now /\ rights' = rights /\ lease'[s] = lease[s] /\ epoch' = epoch + 1 /\ row' = row
      /\ pc[s] = "bump" /\ pc'[s] = "acquired" /\ epoch \in Nat /\ epoch + 1 \in Nat
  BY OwnEffect DEF LeaseInv, AcquireBump, world, IInv, TypeOK, LockOK
<1>1. job'[s].at = job[s].at BY <1>0, NoteEffect DEF AcquireBump
<1>2. lease'[s].epoch # epoch' BY <1>0, OwnEntries, Numbers DEF Fenced
<1>3. OwnRow(s)' BY <1>0, OwnTimes DEF OwnRow, HeldBy
<1>4. OnTime(s)' /\ RightsOnTime(s)' BY <1>0, <1>1, RightsKept DEF Busy, AfterSession
<1>5. HoldOnTime(s)'
  BY <1>0, <1>1, <1>2, OwnTimes, Numbers DEF HoldOnTime, Holds, HeldBy
<1>6. QED BY <1>3, <1>4, <1>5 DEF Timed

\* An input whose verification is cached may count on it.
LEMMA DispatchTimed ==
  ASSUME LeaseInv, Record, NEW s \in Sockets, DispatchBytes(s)
  PROVE  Timed(s)'
<1>0. /\ IInv /\ now' = now /\ rights' = rights /\ lease'[s] = lease[s] /\ epoch' = epoch /\ row' = row
      /\ pc[s] = "handle" /\ epoch \in Nat
      /\ (pc'[s] = "send" /\ Verified(s)) \/ pc'[s] = "renew"
  BY OwnEffect DEF LeaseInv, DispatchBytes, world, lockState, IInv, TypeOK, LockOK
<1>1. job'[s].at = job[s].at BY <1>0, NoteEffect DEF DispatchBytes
<1>2. OwnRow(s)' BY <1>0, OwnTimes DEF OwnRow, HeldBy
<1>3. OnTime(s)' /\ RightsOnTime(s)'
  BY <1>0, <1>1, RightsKept DEF Busy, AfterSession, AfterPermission
<1>4. pc'[s] = "send" => job'[s].at <= heldAt'[s] + Verify + Lag
  BY <1>0, <1>1, OwnTimes, Numbers DEF Verified, OnTime, HoldOnTime, Busy
<1>5. HoldOnTime(s)'
  BY <1>0, <1>1, <1>4, OwnTimes, Numbers DEF HoldOnTime, Holds, HeldBy
<1>6. QED BY <1>2, <1>3, <1>5 DEF Timed

\* A renewal extends the row, or the caller does not hold it.
LEMMA RenewedFacts ==
  ASSUME IInv, NEW s \in Sockets, job[s].user = Owner[s], job[s].client = s, row' = RenewedRow(job[s])
  PROVE  /\ Renews(job[s]) => /\ row' \in Row /\ row' # NoLease /\ row'.client = s /\ row'.user = Owner[s]
                              /\ row'.expires = now + TTL
         /\ ~Renews(job[s]) => row' \in {row, NoLease}
<1>1. CASE Renews(job[s])
  <2>1. row \in Row /\ row.client = s /\ row.user = Owner[s] BY <1>1 DEF Renews, IInv, TypeOK, LockOK
  <2>2. now + TTL \in Nat BY Numbers
  <2>3. row' = [row EXCEPT !.expires = now + TTL] BY <1>1 DEF RenewedRow
  <2>4. QED BY <1>1, <2>1, <2>2, <2>3, ControlLeaseAssumption DEF Row
<1>2. CASE ~Renews(job[s])
  BY <1>2, RowShrinks DEF RenewedRow
<1>3. QED BY <1>1, <1>2

\* The renewal before an input.
LEMMA RenewTimed ==
  ASSUME LeaseInv, Record, NEW s \in Sockets, Renew(s)
  PROVE  Timed(s)'
<1>0. /\ IInv /\ now' = now /\ rights' = rights /\ lease'[s] = lease[s] /\ epoch' = epoch
      /\ pc[s] = "renew" /\ pc'[s] = "renewed" /\ row' = RenewedRow(job[s]) /\ epoch \in Nat
      /\ job[s].user = Owner[s] /\ job[s].client = s /\ Renews(job[s]) \in BOOLEAN
  BY OwnEntries, OwnEffect DEF LeaseInv, Renew, world, IInv, TypeOK, LockOK, Renews, Active
<1>1. job'[s].at = job[s].at /\ job'[s].ok = Renews(job[s]) BY <1>0, NoteEffect DEF Renew
<1>2. OnTime(s)' /\ RightsOnTime(s)'
  BY <1>0, <1>1, RightsKept DEF Busy, AfterSession, AfterPermission
<1>3. CASE Renews(job[s])
  <2>1. /\ row' \in Row /\ row' # NoLease /\ row'.client = s /\ row'.user = Owner[s]
        /\ row'.expires = now + TTL
    BY <1>0, <1>3, RenewedFacts
  <2>2. heldAt'[s] = now BY <1>0, <2>1, OwnTimes, Numbers DEF HeldBy, Expired
  <2>3. OwnRow(s)' BY <1>0, <2>1 DEF OwnRow
  <2>4. lease'[s].until <= now' + Verify /\ lease'[s].until <= heldAt'[s] + Verify + Lag
    BY <1>0, <2>2, OwnTimes, Numbers DEF HoldOnTime
  <2>5. job'[s].at <= heldAt'[s] /\ job'[s].at + TTL <= row'.expires /\ lease'[s].until <= row'.expires
    BY <1>0, <1>1, <2>1, <2>2, <2>4, OwnTimes, Numbers DEF OnTime, Busy
  <2>6. HoldOnTime(s)' BY <1>0, <2>4, <2>5 DEF HoldOnTime
  <2>7. QED BY <1>2, <2>3, <2>6 DEF Timed
<1>4. CASE ~Renews(job[s])
  <2>1. row' \in {row, NoLease} BY <1>0, <1>4, RenewedFacts
  <2>2. Plain(s)
    BY <1>0, <1>1, <1>4, <2>1 DEF Plain, Busy, Holds, AfterSession, AfterPermission
  <2>3. QED BY <1>0, <2>2, PlainStep
<1>5. QED BY <1>3, <1>4

\* A verification is cached as from now: of a row that lasts longer.
LEMMA MarkedTimed ==
  ASSUME LeaseInv, Record, NEW s \in Sockets, now' = now, rights' = rights, epoch' = epoch,
         NEW e \in Nat, lease'[s] = Marked(lease[s], e), job'[s].at = job[s].at, Busy(s),
         pc'[s] \in AfterSession => pc[s] \in AfterPermission, pc'[s] \in {"send", "reply"},
         job[s].at <= heldAt'[s],
         HeldBy(s)' => row'.user = Owner[s] /\ row'.expires \in Nat /\ job[s].at + TTL <= row'.expires
  PROVE  Timed(s)'
<1>1. /\ lease'[s].until = now + Verify /\ lease'[s].stamp = lease[s].stamp
  BY TimesOfRecords DEF LeaseInv
<1>2. OwnRow(s)' BY DEF OwnRow
<1>3. OnTime(s)' /\ RightsOnTime(s)' BY <1>1, RightsKept
<1>4. now <= job[s].at + Lag BY OwnTimes DEF OnTime
<1>5. HoldOnTime(s)'
  <2>1. lease'[s].until <= now' + Verify /\ lease'[s].until <= heldAt'[s] + Verify + Lag
    BY <1>1, <1>4, OwnTimes, Numbers DEF LeaseInv
  <2>2. job'[s].at <= heldAt'[s] + Verify + Lag
    BY OwnTimes, Numbers DEF LeaseInv
  <2>3. HeldBy(s)' => lease'[s].until <= row'.expires
    BY <1>1, <1>4, Numbers DEF LeaseInv
  <2>4. QED BY <2>1, <2>2, <2>3 DEF HoldOnTime, Holds
<1>6. QED BY <1>2, <1>3, <1>5 DEF Timed

\* What a renewal or an acquire answered is cached.
LEMMA AfterCallTimed ==
  ASSUME LeaseInv, Record, NEW s \in Sockets, AfterRenew(s) \/ AfterAcquire(s)
  PROVE  Timed(s)'
<1>0. /\ IInv /\ now' = now /\ rights' = rights /\ job'[s] = job[s] /\ epoch' = epoch /\ row' = row
      /\ pc[s] \in {"renewed", "acquired"} /\ Busy(s) /\ job[s].epoch \in Nat /\ job[s].at \in Nat
      /\ pc'[s] \in {"send", "reply"} /\ (pc'[s] = "send" => pc[s] = "renewed" /\ job[s].ok)
  BY OwnEntries, OwnEffect DEF LeaseInv, AfterRenew, AfterAcquire, world, lockState, Busy
<1>1. CASE job[s].ok
  <2>1. lease'[s] = Marked(lease[s], job[s].epoch)
    BY <1>0, <1>1, OwnEffect DEF AfterRenew, AfterAcquire
  <2>2. job[s].at <= heldAt'[s]
    BY <1>0, <1>1, OwnTimes, Numbers DEF HoldOnTime, Holds
  <2>3. HeldBy(s)' => row'.user = Owner[s] /\ row'.expires \in Nat /\ job[s].at + TTL <= row'.expires
    BY <1>0, <1>1, OwnTimes, Numbers DEF HoldOnTime, Holds, OwnRow, HeldBy
  <2>4. pc'[s] \in AfterSession => pc[s] \in AfterPermission
    BY <1>0 DEF AfterSession, AfterPermission
  <2>5. QED BY <1>0, <2>1, <2>2, <2>3, <2>4, MarkedTimed
<1>2. CASE ~job[s].ok
  <2>1. lease'[s] = Cleared(lease[s]) BY <1>0, <1>2, OwnEffect DEF AfterRenew, AfterAcquire
  <2>2. Plain(s)
    BY <1>0, <1>2, <2>1 DEF Plain, Busy, Holds, AfterSession, AfterPermission
  <2>3. QED BY <1>0, <2>2, PlainStep
<1>3. QED BY <1>1, <1>2

\* A keepalive renews and caches in one step.
LEMMA KeepaliveTimed ==
  ASSUME LeaseInv, Record, NEW s \in Sockets, Keepalive(s)
  PROVE  Timed(s)'
<1>0. /\ IInv /\ now' = now /\ rights' = rights /\ job'[s] = job[s] /\ epoch' = epoch
      /\ pc[s] = "keepalive" /\ pc'[s] = "reply" /\ row' = RenewedRow(job[s]) /\ epoch \in Nat
      /\ job[s].user = Owner[s] /\ job[s].client = s /\ Busy(s)
  BY OwnEntries, OwnEffect DEF LeaseInv, Keepalive, world, IInv, TypeOK, LockOK, Busy
<1>1. CASE Renews(job[s])
  <2>1. /\ row' \in Row /\ row' # NoLease /\ row'.client = s /\ row'.user = Owner[s]
        /\ row'.expires = now + TTL
    BY <1>0, <1>1, RenewedFacts
  <2>2. lease'[s] = Marked(lease[s], epoch) BY <1>0, <1>1, OwnEffect DEF Keepalive
  <2>3. heldAt'[s] = now BY <1>0, <2>1, OwnTimes, Numbers DEF HeldBy, Expired
  <2>4. job[s].at <= now /\ job[s].at \in Nat /\ now + TTL \in Nat BY <1>0, OwnTimes, Numbers DEF OnTime
  <2>5. job[s].at <= heldAt'[s] /\ job[s].at + TTL <= row'.expires /\ row'.expires \in Nat
    BY <1>0, <2>1, <2>3, <2>4, Numbers
  <2>6. pc'[s] \notin AfterSession BY <1>0 DEF AfterSession
  <2>7. QED BY <1>0, <2>1, <2>2, <2>5, <2>6, MarkedTimed
<1>2. CASE ~Renews(job[s])
  <2>1. row' \in {row, NoLease} BY <1>0, <1>2, RenewedFacts
  <2>2. lease'[s] = Cleared(lease[s]) BY <1>0, <1>2, OwnEffect DEF Keepalive
  <2>3. Plain(s)
    BY <1>0, <2>1, <2>2 DEF Plain, Busy, Holds, AfterSession, AfterPermission
  <2>4. QED BY <1>0, <2>3, PlainStep
<1>3. QED BY <1>1, <1>2

\* Whatever a socket does itself keeps it on time.
LEMMA OwnTimed ==
  ASSUME LeaseInv, Record, NEW s \in Sockets, OwnStep(s), now' = now, rights' = rights
  PROVE  Timed(s)'
<1>1. CASE LockStep(s)
  BY <1>1, RefusedPlain, PlainStep, AcquireTimed, BumpTimed DEF LockStep
<1>2. CASE PlainSteps(s)
  BY <1>2, SocketPlain, PlainStep
<1>3. CASE \E k \in Checks : CheckPassed(s, k)
  BY <1>3, CheckPassedTimed
<1>4. CASE DispatchBytes(s) \/ Renew(s) \/ AfterRenew(s) \/ AfterAcquire(s) \/ Keepalive(s)
  BY <1>4, DispatchTimed, RenewTimed, AfterCallTimed, KeepaliveTimed
<1>5. QED BY <1>1, <1>2, <1>3, <1>4 DEF OwnStep, SocketStep, PlainSteps, Checks

\* The calls of the routes name the client "http", a viewer or nobody.
LEMMA CallsAreNoSockets ==
  ASSUME NEW call \in RequestCalls PROVE call.client \notin Sockets /\ NoJob.client \notin Sockets
<1>1. call.client = Http \/ call.client \in Viewers \/ call.client = NoOne
  BY DEF RequestCalls
<1>2. QED BY <1>1, Disjoint, ControlLeaseAssumption DEF NoJob, Clients

\* So no request ever acts for a socket.
LEMMA RequestsStay ==
  ASSUME LeaseInv, Next PROVE RequestsAreNoSockets'
<1> SUFFICES ASSUME NEW h \in Requests PROVE job'[h].client \notin Sockets
  BY DEF RequestsAreNoSockets
<1>0. /\ h \in Callers /\ h \notin Sockets /\ job[h].client \notin Sockets /\ job[h] \in Job
      /\ job \in [Callers -> Job] /\ epoch \in Nat /\ epoch + 1 \in Nat
      /\ NoOne \notin Sockets
  BY Disjoint DEF LeaseInv, RequestsAreNoSockets, IInv, TypeOK, CallersOK, LockOK
<1>1. CASE job'[h] = job[h]
  BY <1>0, <1>1
<1>2. ASSUME NEW c \in Callers, LockStep(c) PROVE job'[h].client \notin Sockets
  <2>1. job' = job \/ \E ok \in BOOLEAN, e \in Nat : Note(c, ok, e)
    BY <1>0, <1>2 DEF LockStep, AcquireRefused, AcquireGranted, AcquireBump, ReleaseRefused, ReleaseGranted,
       ReleaseBump
  <2>2. ASSUME NEW ok \in BOOLEAN, NEW e \in Nat, Note(c, ok, e) PROVE job'[h].client \notin Sockets
    <3>1. CASE c = h
      <4>1. job'[h] = Noted(job[h], ok, e) BY <1>0, <2>2, <3>1 DEF Note
      <4>2. QED BY <1>0, <4>1, JobFields
    <3>2. CASE c # h
      <4>1. job'[h] = job[h] BY <1>0, <2>2, <3>2 DEF Note
      <4>2. QED BY <1>1, <4>1
    <3>3. QED BY <3>1, <3>2
  <2>3. QED BY <1>0, <2>1, <2>2
<1>3. ASSUME NEW x \in Sockets,
             SocketStep(x) \/ Connect(x) \/ Disconnect(x) \/ \E k \in Kinds, f \in BOOLEAN : Receive(x, k, f)
      PROVE job'[h].client \notin Sockets
  <2>1. job' = job \/ \E j : job' = [job EXCEPT ![x] = j]
    BY <1>3 DEF SocketStep, Connect, Disconnect, Receive, CheckPassed, CheckFailed, DispatchText, DispatchBytes,
       Renew, AfterRenew, Keepalive, AfterAcquire, AfterRelease, SendAccepted, SendRefused, AfterSend, Reply,
       BeginClose, CloseCheck, Note, Begin, Finish
  <2>2. QED BY <1>0, <2>1
<1>4. ASSUME NEW g \in Requests, RequestDone(g) \/ \E call \in RequestCalls : Request(g, call)
      PROVE job'[h].client \notin Sockets
  <2>0. NoJob.client \notin Sockets BY <1>0 DEF NoJob
  <2>1. CASE RequestDone(g)
    <3>1. job'[h] \in {job[h], NoJob} BY <1>0, <2>1 DEF RequestDone, Finish, Begin
    <3>2. QED BY <1>0, <2>0, <3>1
  <2>2. ASSUME NEW call \in RequestCalls, Request(g, call) PROVE job'[h].client \notin Sockets
    <3>1. job'[h] \in {job[h], Call("none", call.user, call.client, call.force, now)}
      BY <1>0, <2>2 DEF Request, Begin
    <3>2. Call("none", call.user, call.client, call.force, now).client = call.client BY DEF Call
    <3>3. QED BY <1>0, <3>1, <3>2, CallsAreNoSockets
  <2>3. QED BY <1>4, <2>1, <2>2
<1>5. CASE (\E u \in Users : Disable(u) \/ \E r \in Rights : SetRight(u, r)) \/ Sweep \/ Tick
  BY <1>0, <1>5 DEF Disable, SetRight, Sweep, Tick
<1>6. QED BY <1>2, <1>3, <1>4, <1>5 DEF Next, Step

\* A process that has just started has promised nothing.
LEMMA InitLease == Init => LeaseInv
<1> SUFFICES ASSUME Init PROVE LeaseInv OBVIOUS
<1>1. IInv BY InitIInv
<1>2. RequestsAreNoSockets
  BY Disjoint DEF Init, RequestsAreNoSockets, NoJob, Callers
<1>3. ASSUME NEW s \in Sockets PROVE OwnRow(s) /\ OnTime(s) /\ RightsOnTime(s) /\ HoldOnTime(s)
  <2>1. /\ pc[s] = "new" /\ now = 0 /\ heldAt[s] = 0 /\ row = NoLease /\ epoch = 0
        /\ lease[s].until = 0 /\ lease[s].epoch = -1
        /\ \A k \in Checks : lease[s].stamp[k] = 0 /\ AllowedAt(s, k) = 0
    BY Disjoint DEF Init, AllowedAt
  <2>2. OwnRow(s) BY <2>1 DEF OwnRow, HeldBy
  <2>3. OnTime(s) BY <2>1 DEF OnTime, Busy
  <2>4. RightsOnTime(s)
    BY <2>1, ControlLeaseAssumption DEF RightsOnTime, AfterSession, AfterPermission
  <2>5. HoldOnTime(s)
    BY <2>1, ControlLeaseAssumption DEF HoldOnTime, Holds, HeldBy
  <2>6. QED BY <2>2, <2>3, <2>4, <2>5
<1>4. QED BY <1>1, <1>2, <1>3 DEF LeaseInv

\* Every step keeps every socket on time.
LEMMA NextLease == LeaseInv /\ [Next]_vars => LeaseInv'
<1> SUFFICES ASSUME LeaseInv, [Next]_vars PROVE LeaseInv' OBVIOUS
<1>1. IInv' BY NextIInv DEF LeaseInv
<1>2. CASE Next
  <2>1. ASSUME NEW s \in Sockets PROVE (OwnRow(s) /\ OnTime(s) /\ RightsOnTime(s) /\ HoldOnTime(s))'
    <3>1. Record BY <1>2 DEF Next
    <3>2. CASE OwnStep(s) /\ now' = now /\ rights' = rights
      BY <3>1, <3>2, OwnTimed DEF Timed
    <3>3. CASE Kept(s) /\ (now' = now \/ Tick)
      BY <3>1, <3>3, KeptOnTime
    <3>4. QED BY <1>2, <3>2, <3>3, WhoMoves
  <2>2. QED BY <1>1, <1>2, <2>1, RequestsStay DEF LeaseInv
<1>3. CASE UNCHANGED vars
  BY <1>1, <1>3 DEF LeaseInv, vars, RequestsAreNoSockets, OwnRow, OnTime, RightsOnTime, HoldOnTime, AllowedAt,
     Holds, HeldBy, Busy
<1>4. QED BY <1>2, <1>3

\* In every reachable state, nothing a socket relies on is older than allowed.
THEOREM LeaseOnTime == Spec => []LeaseInv
<1>1. QED BY InitLease, NextLease, PTL DEF Spec

-----------------------------------------------------------------------------
(* Who loses a lease *)

\* An unexpired row of an active account.
Standing == row # NoLease /\ ~Expired /\ Active(row.user)
LostByRight ==
  \/ row' # NoLease /\ row'.client = row.client
  \/ row' # NoLease /\ \E c \in Callers :
       /\ pc[c] = "acquire" /\ pc'[c] = "bump"
       /\ job[c].force \/ (job[c].user = row.user /\ row.client = Http)
  \/ row' = NoLease /\ \E c \in Callers :
       /\ pc[c] \in {"release", "owned"} /\ pc'[c] = "unbump"
       /\ job[c].force \/ job[c].client = row.client
  \/ row' = NoLease /\ "active" \notin rights'[row.user]

\* Pruning leaves it alone, and so does what an inactive account's acquire deletes.
LEMMA StandingStays ==
  ASSUME Standing
  PROVE  Pruned = row /\ \A u : ~Active(u) => WithoutRowsOf(u) = row
BY DEF Standing, Pruned, WithoutRowsOf

\* The lock layer.
LEMMA LockLosesByRight ==
  ASSUME IInv, Standing, NEW c \in Callers, LockStep(c), row' # row PROVE LostByRight
<1>0. pc \in [Callers -> SocketPcs] BY DEF IInv, TypeOK, CallersOK
<1>1. CASE AcquireRefused(c)
  BY <1>1, StandingStays DEF AcquireRefused
<1>2. CASE AcquireGranted(c)
  <2>1. pc[c] = "acquire" /\ pc'[c] = "bump" BY <1>0, <1>2 DEF AcquireGranted, Goto
  <2>2. row' # NoLease /\ row'.client = job[c].client
    <3>1. job[c].user \in Users /\ job[c].client \in Clients
      BY <2>1, JobOfAcquire
    <3>2. now + TTL \in Nat BY ControlLeaseAssumption DEF IInv, TypeOK, WorldOK
    <3>3. row' = [user |-> job[c].user, client |-> job[c].client, expires |-> now + TTL]
      BY <1>2 DEF AcquireGranted
    <3>4. row' \in Row BY <3>1, <3>2, <3>3 DEF Row
    <3>5. QED BY <3>3, <3>4, ControlLeaseAssumption
  <2>3. job[c].force \/ (row.user = job[c].user /\ row.client \in {job[c].client, Http})
    BY <1>2 DEF AcquireGranted, Refuses, Standing
  <2>4. QED BY <2>1, <2>2, <2>3 DEF LostByRight
<1>3. CASE ReleaseGranted(c)
  <2>1. pc[c] \in {"release", "owned"} /\ pc'[c] = "unbump" /\ row' = NoLease
    BY <1>0, <1>3 DEF ReleaseGranted, Goto
  <2>2. job[c].force \/ job[c].client = row.client
    BY <1>3 DEF ReleaseGranted, Releases, Standing
  <2>3. QED BY <2>1, <2>2 DEF LostByRight
<1>4. CASE AcquireBump(c) \/ ReleaseRefused(c) \/ ReleaseBump(c)
  BY <1>4 DEF AcquireBump, ReleaseRefused, ReleaseBump
<1>5. QED BY <1>1, <1>2, <1>3, <1>4 DEF LockStep

\* A socket's renewal keeps the row with its client.
LEMMA RenewalLosesNothing ==
  ASSUME IInv, Standing, NEW j \in Job, row' = RenewedRow(j), row' # row PROVE LostByRight
<1>1. CASE Renews(j)
  <2>1. row \in Row BY DEF Standing, IInv, TypeOK, LockOK
  <2>2. now + TTL \in Nat BY ControlLeaseAssumption DEF IInv, TypeOK, WorldOK
  <2>3. row' = [row EXCEPT !.expires = now + TTL] BY <1>1 DEF RenewedRow
  <2>4. row' \in Row /\ row'.client = row.client BY <2>1, <2>2, <2>3 DEF Row
  <2>5. QED BY <2>4, ControlLeaseAssumption DEF LostByRight
<1>2. CASE ~Renews(j)
  BY <1>2, StandingStays DEF RenewedRow, Standing
<1>3. QED BY <1>1, <1>2

\* Every step that takes a standing row away has the right to.
LEMMA LosesByRight ==
  ASSUME IInv, Standing, Next, row' # row PROVE LostByRight
<1>1. ASSUME NEW s \in Sockets,
             SocketStep(s) \/ Connect(s) \/ Disconnect(s) \/ \E k \in Kinds, f \in BOOLEAN : Receive(s, k, f)
      PROVE LostByRight
  <2>1. CASE Renew(s) \/ Keepalive(s)
    BY <2>1, RenewalLosesNothing, OwnEntries DEF Renew, Keepalive
  <2>2. CASE ~(Renew(s) \/ Keepalive(s))
    BY <1>1, <2>2, StandingStays DEF SocketStep, Connect, Disconnect, Receive, CheckPassed, CheckFailed,
       DispatchText, DispatchBytes, AfterRenew, AfterAcquire, AfterRelease, SendAccepted, SendRefused,
       AfterSend, Reply, BeginClose, CloseCheck, lockState
  <2>3. QED BY <2>1, <2>2
<1>2. ASSUME NEW u \in Users, Disable(u) PROVE LostByRight
  <2>1. row' = NoLease /\ row.user = u BY <1>2 DEF Disable, WithoutRowsOf
  <2>2. "active" \notin rights'[u]
    BY <1>2 DEF Disable, IInv, TypeOK, WorldOK
  <2>3. QED BY <2>1, <2>2 DEF LostByRight
<1>3. CASE \/ \E h \in Requests : RequestDone(h) \/ \E call \in RequestCalls : Request(h, call)
           \/ \E u \in Users, r \in Rights : SetRight(u, r)
           \/ Sweep \/ Tick
  BY <1>3, StandingStays DEF RequestDone, Request, SetRight, Sweep, Tick, lockState
<1>4. QED BY <1>1, <1>2, <1>3, LockLosesByRight DEF Next, Step

\* A lease is lost by right, and a socket that has closed holds none.
THEOREM LeasesLostByRight == Spec => LeaseChangesByRight
<1>1. LeaseInv /\ [Next]_vars => [Standing /\ row' # row => LostByRight]_vars
  BY LosesByRight DEF LeaseInv
<1>2. LeaseInv => ClosedHoldsNothing
  BY DEF LeaseInv, OwnRow, ClosedHoldsNothing
<1>3. QED BY <1>1, <1>2, LeaseOnTime, PTL DEF Spec, LeaseChangesByRight, LeaseLostByRight, Standing, LostByRight

\* An input the device takes is on time: the row was its sender's, and its
\* sender's account had its rights, not long ago.
LEMMA SentOnTime ==
  ASSUME LeaseInv, NEW s \in Sockets, Accepts(s)
  PROVE  /\ now < heldAt[s] + Verify + 2 * Lag + 1
         /\ \A k \in Checks : now < allowedAt[Owner[s]][k] + Recheck + Lag + 1
<1>0. pc[s] = "send" /\ Busy(s) BY DEF Accepts, Busy
<1>1. OnTime(s) /\ RightsOnTime(s) /\ HoldOnTime(s) /\ IInv BY DEF LeaseInv
<1>2. now <= job[s].at + Lag BY <1>0, <1>1 DEF OnTime
<1>3. now < heldAt[s] + Verify + 2 * Lag + 1
  BY <1>0, <1>1, <1>2, Numbers DEF HoldOnTime
<1>4. \A k \in Checks : job[s].at <= AllowedAt(s, k) + Recheck
  BY <1>0, <1>1 DEF RightsOnTime, AfterSession, AfterPermission, Checks
<1>5. \A k \in Checks : now < AllowedAt(s, k) + Recheck + Lag + 1
  BY <1>1, <1>2, <1>4, Numbers
<1>6. QED BY <1>3, <1>5 DEF AllowedAt

\* Authority ends in time, for every value of the intervals and of the lag.
THEOREM AuthorityEndsInTime == Spec => AuthorityEnds
<1>1. LeaseInv /\ [Next]_vars
        => [\A s \in Sockets : Accepts(s) => now < heldAt[s] + Verify + 2 * Lag + 1]_vars
  BY SentOnTime
<1>2. LeaseInv /\ [Next]_vars
        => [\A s \in Sockets : Accepts(s) =>
              \A k \in Checks : now < allowedAt[Owner[s]][k] + Recheck + Lag + 1]_vars
  BY SentOnTime
<1>3. LeaseInv => CacheWithinLease
  BY DEF LeaseInv, HoldOnTime, CacheWithinLease
<1>4. QED
  BY <1>1, <1>2, <1>3, LeaseOnTime, PTL DEF Spec, AuthorityEnds, AuthorityBounded, RightsBounded
=============================================================================
