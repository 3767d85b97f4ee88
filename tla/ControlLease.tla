---------------------------- MODULE ControlLease ----------------------------
(***************************************************************************)
(* The control lease of one device: who may inject input.                  *)
(*                                                                         *)
(* Two records of the holder exist and are written at different moments.   *)
(* The row of the SQLite table control_locks (variable row) is durable and *)
(* may also be deleted by account administration; the fencing epoch kept   *)
(* in the memory of the process (variable epoch) changes only under the    *)
(* device's threading.Lock (variable dev).  A control WebSocket caches a   *)
(* verification of the row together with the epoch it saw, so an input is  *)
(* checked, parked on an await, and sent later from a worker thread.       *)
(*                                                                         *)
(* Callers are the control sockets (each handles one message at a time)    *)
(* and HTTP/administration requests.  A socket's acquire, keepalive,       *)
(* release and close call the lock layer synchronously on the event loop   *)
(* (no other coroutine runs meanwhile), as the mirror manager does when it *)
(* stops a viewer or the stream; a socket's renew and send, and the calls  *)
(* of the REST routes, run in worker threads.  A tick is one second.       *)
(***************************************************************************)
EXTENDS Integers, FiniteSets

CONSTANTS
  Users,        \* accounts
  Admins,       \* the accounts whose role is "admin"
  Sockets,      \* control WebSocket connections, each used once (uuid4 client id)
  Viewers,      \* video WebSocket clients, whose ids the admin pages show
  Owner,        \* the account of each socket and viewer
  Http,         \* the client id "http" of the REST routes
  Requests,     \* slots for concurrent REST requests
  NoLease,      \* no row in control_locks
  NoOne,        \* nobody
  TTL,          \* ttl_seconds of the row (90)
  Verify,       \* CONTROL_LEASE_VERIFY_INTERVAL (5)
  Recheck,      \* CONTROL_PERMISSION_RECHECK_INTERVAL (5)
  Lag,          \* bound: ticks that may pass while a caller handles one message
  MaxTime,      \* bound on the clock
  MaxCalls,     \* bound on messages and requests
  MaxChanges    \* bound on administrative changes

Clients == Sockets \cup Viewers \cup {Http}
Callers == Sockets \cup Requests
Row == [user: Users, client: Clients, expires: Nat]

ASSUME ControlLeaseAssumption ==
  /\ Admins \subseteq Users
  /\ Owner \in [Sockets \cup Viewers -> Users]
  /\ NoOne \notin Clients \cup Callers \cup Users
  /\ Sockets \cap (Requests \cup Viewers \cup {Http}) = {}
  /\ NoLease \notin Row
  /\ {TTL, Verify, Recheck, Lag, MaxTime, MaxCalls, MaxChanges} \subseteq Nat
  /\ Verify + Lag <= TTL

VARIABLES
  now,          \* wall and monotonic clock
  rights,       \* per account: "active", "permitted" (can_control), "session"
  row,          \* the device's row of control_locks
  epoch,        \* _control_lock_epochs[device]
  dev,          \* the caller inside _control_device_lock(device)
  pc,           \* where each caller is
  job,          \* the call each caller is making
  lease,        \* ControlLeaseState and session_verified_until of each socket
  calls,        \* messages and requests so far
  changes,      \* administrative changes so far
  grant,        \* history: the client the current epoch was given to
  heldAt,       \* history: when each socket last held an unexpired row
  allowedAt     \* history: when each account last passed each recheck

vars == <<now, rights, row, epoch, dev, pc, job, lease, calls, changes, grant, heldAt, allowedAt>>

Kinds == {"timeout", "bytes", "acquire", "keepalive", "release"}
Checks == {"session", "permission"}
RequestPcs == {"idle", "acquire", "bump", "acquired", "release", "unbump", "released"}
SocketPcs == RequestPcs \cup {"new", "session", "permission", "handle", "renew", "renewed",
                              "keepalive", "send", "sent", "reply", "closing", "close",
                              "owned", "closed"}

Job == [kind: Kinds \cup {"close", "none"}, user: Users \cup {NoOne}, client: Clients \cup {NoOne},
        force: BOOLEAN, ok: BOOLEAN, epoch: Nat, at: Nat]
NoJob == [kind |-> "none", user |-> NoOne, client |-> NoOne,
          force |-> FALSE, ok |-> FALSE, epoch |-> 0, at |-> 0]
Call(k, u, c, f, t) == [kind |-> k, user |-> u, client |-> c,
                        force |-> f, ok |-> FALSE, epoch |-> 0, at |-> t]

Lease == [epoch: Int, until: Nat, stamp: [Checks -> Nat]]
Rights == {"active", "permitted", "session"}

-----------------------------------------------------------------------------
(* Derived state *)

Active(u) == "active" \in rights[u]
Passes(u, check) == IF check = "session" THEN "session" \in rights[u]
                                         ELSE {"active", "permitted"} \subseteq rights[u]
CanControl(u) == Passes(u, "permission")

Expired == row # NoLease /\ row.expires < now
HeldBy(c) == row # NoLease /\ row.client = c
WithoutRowsOf(u) == IF row # NoLease /\ row.user = u THEN NoLease ELSE row
Pruned == IF Expired \/ (row # NoLease /\ ~Active(row.user)) THEN NoLease ELSE row

\* The event loop runs one of these calls to its end before any other coroutine.
OnLoop(c) ==
  IF c \in Sockets
  THEN pc[c] \in {"acquire", "bump", "keepalive", "release", "unbump", "close", "owned"}
  ELSE pc[c] \in {"release", "unbump"} /\ job[c].client # Http
LoopFree == \A c \in Callers : ~OnLoop(c)

\* Faulty: a stamp, once set, never runs out.
FreshForEver(s, check) == lease[s].stamp[check] > 0
Fresh(s, check) == now < lease[s].stamp[check]
\* Faulty: the cache trusts the epoch alone.
VerifiedByEpoch(s) == lease[s].epoch = epoch
Verified(s) == lease[s].epoch = epoch /\ now < lease[s].until
Marked(l, e) == [epoch |-> e, until |-> now + Verify, stamp |-> l.stamp]
Cleared(l) == [epoch |-> -1, until |-> 0, stamp |-> l.stamp]
Stamped(l, check) == [l EXCEPT !.stamp = [@ EXCEPT ![check] = now + Recheck]]
SetLease(s, l) == lease' = [lease EXCEPT ![s] = l]
Goto(c, l) == pc' = [pc EXCEPT ![c] = l]
Noted(j, ok, e) == [j EXCEPT !.ok = ok, !.epoch = e]
Note(c, ok, e) == job' = [job EXCEPT ![c] = Noted(job[c], ok, e)]
Begin(c, j) == job' = [job EXCEPT ![c] = j]
Finish(c) == Begin(c, NoJob) /\ Goto(c, "idle")

world == <<now, rights, calls, changes>>

-----------------------------------------------------------------------------
(* The lock layer: storage.*_lock inside the device lock of mirror_runtime *)

Enter(c) == dev = NoOne /\ dev' = c
Pass == dev = NoOne /\ dev' = dev       \* entered and left in one step

Refuses(j) ==                           \* acquire_lock answers ok = False
  \/ ~Active(j.user)
  \/ /\ row # NoLease
     /\ ~Expired
     /\ ~j.force
     /\ ~ (row.user = j.user /\ row.client \in {j.client, Http})

AcquireRefused(c) ==
  /\ pc[c] = "acquire" /\ Pass /\ Refuses(job[c])
  /\ row' = IF Active(job[c].user) THEN row ELSE WithoutRowsOf(job[c].user)
  /\ Note(c, FALSE, epoch) /\ Goto(c, "acquired")
  /\ UNCHANGED <<world, epoch, lease, grant>>

AcquireGranted(c) ==
  /\ pc[c] = "acquire" /\ Enter(c) /\ ~Refuses(job[c])
  /\ row' = [user |-> job[c].user, client |-> job[c].client, expires |-> now + TTL]
  /\ Goto(c, "bump")
  /\ UNCHANGED <<world, epoch, job, lease, grant>>

\* Faulty: the row is written and the epoch is not bumped.
AcquireNoBump(c) ==
  /\ pc[c] = "bump"
  /\ dev' = NoOne
  /\ grant' = job[c].client
  /\ Note(c, TRUE, epoch) /\ Goto(c, "acquired")
  /\ UNCHANGED <<world, row, epoch, lease>>

AcquireBump(c) ==
  /\ pc[c] = "bump"
  /\ dev' = NoOne
  /\ epoch' = epoch + 1
  /\ grant' = job[c].client
  /\ Note(c, TRUE, epoch + 1) /\ Goto(c, "acquired")
  /\ UNCHANGED <<world, row, lease>>

Renews(j) == /\ Active(j.user)
             /\ row # NoLease /\ ~Expired
             /\ row.user = j.user /\ row.client = j.client

\* Faulty: a renewal that does not extend the row.
RenewedNotExtended(j) == IF Active(j.user) THEN row ELSE WithoutRowsOf(j.user)

RenewedRow(j) ==
  IF Renews(j) THEN [row EXCEPT !.expires = now + TTL]
  ELSE IF ~Active(j.user) THEN WithoutRowsOf(j.user)
  ELSE IF Expired THEN NoLease ELSE row

Renew(s) ==
  /\ pc[s] = "renew" /\ Pass
  /\ row' = RenewedRow(job[s])
  /\ Note(s, Renews(job[s]), epoch) /\ Goto(s, "renewed")
  /\ UNCHANGED <<world, epoch, lease, grant>>

Keepalive(s) ==
  /\ pc[s] = "keepalive" /\ Pass
  /\ row' = RenewedRow(job[s])
  /\ SetLease(s, IF Renews(job[s]) THEN Marked(lease[s], epoch) ELSE Cleared(lease[s]))
  /\ Goto(s, "reply")
  /\ UNCHANGED <<world, epoch, job, grant>>

\* Faulty: any client of the account may release.
ReleasesByUser(j) == row # NoLease /\ ~Expired /\ ~j.force => row.user = j.user

Releases(j) == row # NoLease /\ ~Expired /\ ~j.force
                 => row.user = j.user /\ row.client = j.client

ReleaseRefused(c) ==
  /\ pc[c] = "release" /\ Pass /\ ~Releases(job[c])
  /\ Note(c, FALSE, epoch) /\ Goto(c, "released")
  /\ UNCHANGED <<world, row, epoch, lease, grant>>

\* From "owned" the closing socket already is inside the device lock.
ReleaseGranted(c) ==
  /\ \/ pc[c] = "release" /\ Enter(c)
     \/ pc[c] = "owned" /\ dev' = dev
  /\ Releases(job[c])
  /\ row' = NoLease
  /\ Goto(c, "unbump")
  /\ UNCHANGED <<world, epoch, job, lease, grant>>

\* Faulty: an early return inside the device lock that does not leave it.
ReleaseKeepsLock(c) ==
  /\ pc[c] = "unbump"
  /\ epoch' = epoch + 1
  /\ grant' = NoOne
  /\ Note(c, TRUE, epoch + 1) /\ Goto(c, "released")
  /\ UNCHANGED <<world, row, dev, lease>>

ReleaseBump(c) ==
  /\ pc[c] = "unbump"
  /\ dev' = NoOne
  /\ epoch' = epoch + 1
  /\ grant' = NoOne
  /\ Note(c, TRUE, epoch + 1) /\ Goto(c, "released")
  /\ UNCHANGED <<world, row, lease>>

-----------------------------------------------------------------------------
(* The control socket: control_socket, handle_control_text, _bytes *)

lockState == <<row, epoch, dev, grant>>

Connect(s) ==
  /\ pc[s] = "new" /\ LoopFree
  /\ CanControl(Owner[s]) /\ Passes(Owner[s], "session")
  /\ Goto(s, "idle")
  /\ UNCHANGED <<world, lockState, job, lease>>

\* A message, or the receive timeout after Recheck idle seconds, by when both
\* stamps of the rechecks have run out.
Receive(s, kind, force) ==
  /\ pc[s] = "idle" /\ LoopFree
  /\ IF kind = "timeout" THEN \A k \in Checks : ~Fresh(s, k) ELSE calls < MaxCalls
  /\ calls' = IF kind = "timeout" THEN calls ELSE calls + 1
  /\ kind = "release" => force = (Owner[s] \in Admins)
  /\ force => kind \in {"acquire", "release"}
  /\ Begin(s, Call(kind, Owner[s], s, force, now))
  /\ Goto(s, "session")
  /\ UNCHANGED <<now, rights, changes, lockState, lease>>

\* Each of the two rechecks asks the database only when its own stamp has run out.
CheckPassed(s, check) ==
  /\ pc[s] = check
  /\ Fresh(s, check) \/ Passes(Owner[s], check)
  /\ SetLease(s, IF Fresh(s, check) THEN lease[s] ELSE Stamped(lease[s], check))
  /\ IF check = "session" THEN Goto(s, "permission") /\ UNCHANGED job
     ELSE IF job[s].kind = "timeout" THEN Finish(s)
     ELSE Goto(s, "handle") /\ UNCHANGED job
  /\ UNCHANGED <<world, lockState>>

CheckFailed(s, check) ==
  /\ pc[s] = check
  /\ ~Fresh(s, check) /\ ~Passes(Owner[s], check)
  /\ Goto(s, "closing")
  /\ UNCHANGED <<world, lockState, job, lease>>

DispatchText(s) ==
  /\ pc[s] = "handle" /\ LoopFree
  /\ job[s].kind \in {"acquire", "keepalive", "release"}
  /\ Goto(s, job[s].kind)
  /\ UNCHANGED <<world, lockState, job, lease>>

\* Faulty: the input carries the epoch last cached, not the current one.
DispatchCachedEpoch(s) ==
  /\ pc[s] = "handle" /\ LoopFree
  /\ job[s].kind = "bytes"
  /\ Note(s, FALSE, lease[s].epoch)
  /\ Goto(s, IF Verified(s) THEN "send" ELSE "renew")
  /\ UNCHANGED <<world, lockState, lease>>

\* The epoch is read on the event loop, outside the device lock.
DispatchBytes(s) ==
  /\ pc[s] = "handle" /\ LoopFree
  /\ job[s].kind = "bytes"
  /\ Note(s, FALSE, epoch)
  /\ Goto(s, IF Verified(s) THEN "send" ELSE "renew")
  /\ UNCHANGED <<world, lockState, lease>>

AfterRenew(s) ==
  /\ pc[s] = "renewed" /\ LoopFree
  /\ SetLease(s, IF job[s].ok THEN Marked(lease[s], job[s].epoch) ELSE Cleared(lease[s]))
  /\ Goto(s, IF job[s].ok THEN "send" ELSE "reply")
  /\ UNCHANGED <<world, lockState, job>>

AfterAcquire(s) ==
  /\ pc[s] = "acquired" /\ LoopFree
  /\ SetLease(s, IF job[s].ok THEN Marked(lease[s], job[s].epoch) ELSE Cleared(lease[s]))
  /\ Goto(s, "reply")
  /\ UNCHANGED <<world, lockState, job>>

AfterRelease(s) ==
  /\ pc[s] = "released" /\ LoopFree
  /\ SetLease(s, IF job[s].kind = "close" THEN lease[s] ELSE Cleared(lease[s]))
  /\ Goto(s, IF job[s].kind = "close" THEN "closed" ELSE "reply")
  /\ UNCHANGED <<world, lockState, job>>

\* Faulty: send_control without the fence.
SendUnfenced(s) ==
  /\ pc[s] = "send" /\ Pass
  /\ Goto(s, "sent")
  /\ UNCHANGED <<world, row, epoch, grant, job, lease>>

\* send_control_for_epoch: the fence is compared inside the device lock.
SendAccepted(s) ==
  /\ pc[s] = "send" /\ Pass
  /\ job[s].epoch = epoch
  /\ Goto(s, "sent")
  /\ UNCHANGED <<world, row, epoch, grant, job, lease>>

\* The fence has moved, or the mirror session is not running.
SendRefused(s) ==
  /\ pc[s] = "send" /\ Pass
  /\ Goto(s, "reply")
  /\ UNCHANGED <<world, row, epoch, grant, job, lease>>

AfterSend(s) ==
  /\ pc[s] = "sent" /\ LoopFree
  /\ Finish(s)
  /\ UNCHANGED <<world, lockState, lease>>

\* The answer quotes storage.get_lock, which deletes a dead row.
Reply(s) ==
  /\ pc[s] = "reply"
  /\ row' = Pruned
  /\ Finish(s)
  /\ UNCHANGED <<world, epoch, dev, grant, lease>>

Disconnect(s) ==
  /\ pc[s] \in {"idle", "send"} /\ LoopFree     \* or get_or_create raised KeyError
  /\ Begin(s, Call("none", NoOne, NoOne, FALSE, now))
  /\ Goto(s, "closing")
  /\ UNCHANGED <<world, lockState, lease>>

\* The finally block: release_control_lock(only_if_owned) on the event loop.
BeginClose(s) ==
  /\ pc[s] = "closing" /\ LoopFree
  /\ Begin(s, Call("close", Owner[s], s, FALSE, job[s].at))
  /\ Goto(s, "close")
  /\ UNCHANGED <<world, lockState, lease>>

\* Faulty: the socket closes without looking at the row.
CloseForgets(s) ==
  /\ pc[s] = "close" /\ Pass
  /\ Goto(s, "closed")
  /\ UNCHANGED <<world, row, epoch, grant, job, lease>>

CloseCheck(s) ==
  /\ pc[s] = "close"
  /\ row' = Pruned
  /\ IF Pruned # NoLease /\ Pruned.user = Owner[s] /\ Pruned.client = s
     THEN Enter(s) /\ Goto(s, "owned")
     ELSE Pass /\ Goto(s, "closed")
  /\ UNCHANGED <<world, epoch, grant, job, lease>>

-----------------------------------------------------------------------------
(* REST requests, administration, time *)

\* The calls the routes and the mirror manager make, with their arguments.
RequestCall == [pc: {"acquire", "release"}, user: Users \cup {NoOne},
                client: Clients \cup {NoOne}, force: BOOLEAN]
RequestCalls == {r \in RequestCall :
  \/ /\ r.pc = "acquire" /\ r.user \in Users /\ CanControl(r.user)
     /\ \/ r.client = Http                                         \* acquire, takeover
        \/ r.client \in Viewers /\ Owner[r.client] = r.user /\ r.force   \* transfer
  \/ /\ r.pc = "release" /\ r.user \in Users
     /\ \/ r.client = Http /\ Active(r.user) /\ r.force = (r.user \in Admins)
        \/ r.client \in Viewers /\ Owner[r.client] = r.user /\ ~r.force \* viewer stopped
  \/ r.pc = "release" /\ r.user = NoOne /\ r.client = NoOne /\ r.force} \* stream stopped

Request(h, call) ==
  /\ pc[h] = "idle" /\ LoopFree /\ calls < MaxCalls
  /\ calls' = calls + 1
  /\ Begin(h, Call("none", call.user, call.client, call.force, now))
  /\ Goto(h, call.pc)
  /\ UNCHANGED <<now, rights, changes, lockState, lease>>

RequestDone(h) ==
  /\ pc[h] \in {"acquired", "released"}
  /\ row' = Pruned
  /\ Finish(h)
  /\ UNCHANGED <<world, epoch, dev, grant, lease>>

\* Expiry, permission and session withdrawal, and their restoration.
SetRight(u, r) ==
  /\ changes < MaxChanges
  /\ changes' = changes + 1
  /\ rights' = [rights EXCEPT ![u] = IF r \in @ THEN @ \ {r} ELSE @ \cup {r}]
  /\ UNCHANGED <<now, calls, row, epoch, dev, grant, pc, job, lease>>

\* Disabling or deleting an account deletes its sessions and its rows, not the epoch.
Disable(u) ==
  /\ changes < MaxChanges
  /\ changes' = changes + 1
  /\ rights' = [rights EXCEPT ![u] = @ \ {"active", "session"}]
  /\ row' = WithoutRowsOf(u)
  /\ UNCHANGED <<now, calls, epoch, dev, grant, pc, job, lease>>

\* The sweep of expired accounts, a get_lock of any reader (MirrorSession.snapshot),
\* or an expired account acquiring on another device.
Sweep ==
  /\ Pruned # row
  /\ row' = Pruned
  /\ UNCHANGED <<world, epoch, dev, grant, pc, job, lease>>

Busy(c) == pc[c] \notin {"new", "idle", "closed"}

Tick ==
  /\ now < MaxTime
  /\ \A c \in Callers : Busy(c) => now < job[c].at + Lag
  /\ now' = now + 1
  /\ UNCHANGED <<rights, row, epoch, dev, grant, pc, job, lease, calls, changes>>

-----------------------------------------------------------------------------
Init ==
  /\ now = 0
  /\ rights = [u \in Users |-> Rights]
  /\ row = NoLease /\ epoch = 0 /\ dev = NoOne
  /\ pc = [c \in Callers |-> IF c \in Sockets THEN "new" ELSE "idle"]
  /\ job = [c \in Callers |-> NoJob]
  /\ lease = [s \in Sockets |-> [epoch |-> -1, until |-> 0, stamp |-> [k \in Checks |-> 0]]]
  /\ calls = 0 /\ changes = 0
  /\ grant = NoOne
  /\ heldAt = [s \in Sockets |-> 0]
  /\ allowedAt = [u \in Users |-> [k \in Checks |-> 0]]

\* Steps of the lock layer that sockets and requests share.
LockStep(c) == \/ AcquireRefused(c) \/ AcquireGranted(c) \/ AcquireBump(c)
               \/ ReleaseRefused(c) \/ ReleaseGranted(c) \/ ReleaseBump(c)

SocketStep(s) == \/ \E k \in Checks : CheckPassed(s, k) \/ CheckFailed(s, k)
                 \/ DispatchText(s) \/ DispatchBytes(s)
                 \/ Renew(s) \/ AfterRenew(s) \/ Keepalive(s)
                 \/ AfterAcquire(s) \/ AfterRelease(s)
                 \/ SendAccepted(s) \/ SendRefused(s) \/ AfterSend(s)
                 \/ Reply(s) \/ BeginClose(s) \/ CloseCheck(s)

Step ==
  \/ \E c \in Callers : LockStep(c)
  \/ \E s \in Sockets : SocketStep(s) \/ Connect(s) \/ Disconnect(s)
  \/ \E s \in Sockets, k \in Kinds, f \in BOOLEAN : Receive(s, k, f)
  \/ \E h \in Requests : RequestDone(h) \/ \E call \in RequestCalls : Request(h, call)
  \/ \E u \in Users : Disable(u) \/ \E r \in Rights : SetRight(u, r)
  \/ Sweep
  \/ Tick

\* The history variables follow every step.
Record ==
  /\ heldAt' = [s \in Sockets |-> IF (HeldBy(s) /\ ~Expired)' THEN now' ELSE heldAt[s]]
  /\ allowedAt' = [u \in Users |-> [k \in Checks |->
                     IF Passes(u, k)' THEN now' ELSE allowedAt[u][k]]]

Next == Step /\ Record

Spec == Init /\ [][Next]_vars

\* A scheduled coroutine or worker thread eventually runs; clients need not send.
Fairness == /\ \A c \in Callers : WF_vars(LockStep(c) /\ Record)
            /\ \A s \in Sockets : WF_vars(SocketStep(s) /\ Record)
            /\ \A h \in Requests : WF_vars(RequestDone(h) /\ Record)

FairSpec == Spec /\ Fairness

-----------------------------------------------------------------------------
(* Properties *)

\* Every variable keeps its type.
WorldOK == /\ now \in Nat /\ calls \in Nat /\ changes \in Nat
           /\ rights \in [Users -> SUBSET Rights]
LockOK == /\ row \in Row \cup {NoLease}
          /\ epoch \in Nat
          /\ dev \in Callers \cup {NoOne}
          /\ grant \in Clients \cup {NoOne}
CallersOK == /\ pc \in [Callers -> SocketPcs]
             /\ \A h \in Requests : pc[h] \in RequestPcs
             /\ job \in [Callers -> Job]
LeasesOK == lease \in [Sockets -> Lease]
HistoryOK == /\ heldAt \in [Sockets -> Nat]
             /\ allowedAt \in [Users -> [Checks -> Nat]]
TypeOK == WorldOK /\ LockOK /\ CallersOK /\ LeasesOK /\ HistoryOK

Accepts(s) == pc[s] = "send" /\ pc'[s] = "sent"

\* What the fence rests on: one caller inside the device lock; the row names the
\* grantee of the current epoch, except between an acquire's write and its bump;
\* and no cached or in-flight epoch equals the current one unless its socket is
\* that grantee.
Inside == {"bump", "unbump", "owned"}
CarriesEpoch(s) == pc[s] = "send" \/ (pc[s] \in {"renewed", "acquired"} /\ job[s].ok)

JobsOwned ==
  /\ \A s \in Sockets : pc[s] \notin {"new", "idle", "closing", "closed"}
                          => job[s].user = Owner[s] /\ job[s].client = s
  /\ \A h \in Requests : pc[h] \in {"acquire", "bump"}
                           => job[h].user \in Users /\ job[h].client \in Clients
MutualExclusion == \A c \in Callers : pc[c] \in Inside <=> dev = c
RowIsGrant ==
  /\ row # NoLease =>
       \/ \E c \in Callers : pc[c] = "bump" /\ row.client = job[c].client
       \/ (\A c \in Callers : pc[c] # "bump") /\ row.client = grant
  /\ \A c \in Callers : pc[c] = "unbump" => row = NoLease
Fenced(s, e) == e < epoch \/ (e = epoch /\ grant = s)
EpochsFenced ==
  \A s \in Sockets : /\ Fenced(s, lease[s].epoch)
                     /\ CarriesEpoch(s) => Fenced(s, job[s].epoch)

FenceInv == JobsOwned /\ MutualExclusion /\ RowIsGrant /\ EpochsFenced

\* "One controller at a time": when the device takes an input of a socket, that
\* socket is the last one control was given to, and the table names no other
\* holder, however the input's check, a takeover and account changes interleave
\* (the fence compared by send_control_for_epoch).
OneController ==
  [][\A s \in Sockets : Accepts(s) => grant = s /\ (row = NoLease \/ HeldBy(s))]_vars

\* An unexpired lease of an active account passes to another client only by a
\* forced acquire, or from the account's REST lease to its socket; it is deleted
\* only for its own client, by a forced release, or with its account.  So a
\* socket that closes late never takes away its successor's lease.
LeaseLostByRight ==
  [][(row # NoLease /\ ~Expired /\ Active(row.user) /\ row' # row) =>
       \/ row' # NoLease /\ row'.client = row.client
       \/ row' # NoLease /\ \E c \in Callers :
            /\ pc[c] = "acquire" /\ pc'[c] = "bump"
            /\ job[c].force \/ (job[c].user = row.user /\ row.client = Http)
       \/ row' = NoLease /\ \E c \in Callers :
            /\ pc[c] \in {"release", "owned"} /\ pc'[c] = "unbump"
            /\ job[c].force \/ job[c].client = row.client
       \/ row' = NoLease /\ "active" \notin rights'[row.user]]_vars

\* When the finally block of a socket is over, the device is not left locked
\* to it for the rest of the TTL.
ClosedHoldsNothing == \A s \in Sockets : pc[s] = "closed" => ~HeldBy(s)

\* A cached verification never outlives the row it stands for, so a client that
\* keeps sending renews in time and does not lose its lease to expiry.
CacheWithinLease ==
  \A s \in Sockets : HeldBy(s) /\ lease[s].epoch = epoch => lease[s].until <= row.expires

\* The row may vanish without a new epoch (expiry sweep, disabled account); the
\* old holder's inputs stop within the verification interval and the time two
\* messages take to be handled.
AuthorityBounded ==
  [][\A s \in Sockets : Accepts(s) => now < heldAt[s] + Verify + 2 * Lag + 1]_vars

\* Inputs of a signed-out session or a revoked permission stop within the recheck
\* interval and the time one message takes to be handled.
RightsBounded ==
  [][\A s \in Sockets : Accepts(s) =>
       \A k \in Checks : now < allowedAt[Owner[s]][k] + Recheck + Lag + 1]_vars

\* Every message is answered: neither the device lock nor the event loop is held for ever.
EveryMessageAnswered ==
  \A s \in Sockets : Busy(s) ~> pc[s] \in {"idle", "closed"}

\* admin_transfer_control: "Move the device control lease to a currently connected
\* viewer."  While the transferred lease stands, the target account's control
\* socket can use it.  (Refuted: the lease is given to the video client's id, which
\* no control socket bears.)
TransferGivesControl ==
  [][\A s \in Sockets :
       /\ pc[s] = "renew" /\ pc'[s] = "renewed"
       /\ row # NoLease /\ ~Expired
       /\ row.client \in Viewers /\ row.user = Owner[s] /\ Active(row.user)
       => job'[s].ok]_vars

\* A lease is lost by right, and leaves its holder when the holder closes.
LeaseChangesByRight == LeaseLostByRight /\ []ClosedHoldsNothing

\* What a socket has cached of its authority ends in time: before the row it
\* stands for, soon after the row, and soon after the rights.
AuthorityEnds == []CacheWithinLease /\ AuthorityBounded /\ RightsBounded
=============================================================================
