---------------------------- MODULE MirrorProofs ----------------------------
(***************************************************************************)
(* Proofs about the life of a mirror session and about the guard of the    *)
(* tablet it mirrors, for every number of pages, transports, devices and   *)
(* coroutines.  A transport that streams has exactly one owner, whatever   *)
(* is cancelled, late or ends by itself.  target_guard keeps two           *)
(* coroutines off one session, although the address that names the lock    *)
(* may change while they wait for it, and a session moves only when its    *)
(* transport is gone.  No page is told of what came after its right to     *)
(* view was gone, and pages follow the broadcasts in their order.          *)
(***************************************************************************)
EXTENDS MirrorLifecycle, MirrorTargets, EventBroadcast, TLAPS

(* The life of a session. *)


Views == {"away", "asked", "held", "granted", "armed", "attached", "ended", "left"}
Placed == {"attached", "ended", "held", "granted", "armed"}
StartKinds == {"start", "quality", "forced"}
StopKinds == {"admin", "sweep", "grace", "expiry"}
Ops == [kind : {"none"} \cup StartKinds \cup StopKinds,
        by : Watchers \cup {NoWatcher}, goal : {"none", "start", "stop", "cancel"},
        pc : {"none", "take", "stopwait", "cleanup", "adb", "worker", "health", "rotation"},
        t : Transports \cup {NoTransport}, old : Transports \cup {NoTransport}]
Phases == [Transports -> {"off", "connecting", "open", "closing"}]
Workers == [Transports -> {"none", "connecting", "check", "publish", "discard", "ok", "failed"}]

\* What an operation is for decides where it can be.
OpOK ==
  /\ op \in Ops
  /\ op.kind = "none" => op = NoOp
  /\ op.goal = "none" <=> op.kind = "none"
  /\ op.goal = "stop" <=> op.kind \in StopKinds
  /\ op.goal = "stop" => op.pc \in {"take", "stopwait", "cleanup"}
  /\ op.goal = "cancel" => op.pc \in {"take", "stopwait", "worker"}

ThreadsTyped ==
  /\ running \in BOOLEAN /\ scrcpy \in Transports \cup {NoTransport} /\ fresh \in SUBSET Transports
  /\ phase \in Phases /\ worker \in Workers

Starting == op.goal = "start" /\ op.pc = "worker"
Cancelling == op.goal = "cancel" /\ op.pc = "worker"

\* What the session publishes streams, is of the present generation and runs, unless
\* it is just being handed over or retired.
Published ==
  /\ running => scrcpy # NoTransport
  /\ scrcpy # NoTransport =>
       /\ phase[scrcpy] = "open" /\ worker[scrcpy] \in {"ok", "none"}
       /\ scrcpy \in fresh \/ op.pc = "take"
       /\ \/ running \/ op.pc = "take"
          \/ Starting /\ op.t = scrcpy /\ worker[scrcpy] = "ok"

\* Where an operation is, nothing is published, or nothing can be.
OpAgrees ==
  /\ op.pc = "take" => fresh = {}
  /\ op.pc = "stopwait" \/ Cancelling \/ (op.goal = "start" /\ op.pc \in {"cleanup", "adb"})
       => scrcpy = NoTransport
  /\ Starting => /\ op.t \in Transports /\ ~running
                 /\ worker[op.t] = "ok" /\ op.t \in fresh => scrcpy = op.t
  /\ Cancelling /\ op.old # NoTransport => phase[op.old] = "open" /\ worker[op.old] \in {"ok", "none"}

\* A worker thread of the present generation is the one that is waited for.
WorkerOK(t) ==
  /\ worker[t] = "connecting" => phase[t] = "connecting"
  /\ worker[t] \in {"check", "publish"} => phase[t] = "open"
  /\ worker[t] \in {"connecting", "check", "publish"} /\ t \in fresh => Starting /\ op.t = t

Owned(t) ==
  phase[t] = "open" => worker[t] \in {"check", "publish"} \/ scrcpy = t \/ (Cancelling /\ op.old = t)

TransportInv ==
  OpOK /\ ThreadsTyped /\ Published /\ OpAgrees /\ \A t \in Transports : WorkerOK(t) /\ Owned(t)

\* A change of quality is marked, and only the page that asked for it has a place.
QualityInv ==
  /\ view \in [Watchers -> Views] /\ reconfiguring \in BOOLEAN
  /\ op.kind = "quality" => reconfiguring /\ \A v \in Watchers : view[v] \in Placed => v = op.by

LifeInv == TransportInv /\ QualityInv

-----------------------------------------------------------------------------
LEMMA NoOpIsOne == NoOp \in Ops /\ NoOp.kind = "none" /\ NoOp.goal = "none" /\ NoOp.pc = "none"
BY DEF NoOp, Ops

LEMMA OpFields ==
  ASSUME TransportInv
  PROVE  /\ op \in Ops /\ op.t \in Transports \cup {NoTransport} /\ op.old \in Transports \cup {NoTransport}
         /\ op.pc \in {"none", "take", "stopwait", "cleanup", "adb", "worker", "health", "rotation"}
         /\ op.goal \in {"none", "start", "stop", "cancel"}
         /\ op.kind = "none" => op.goal = "none" /\ op.pc = "none"
         /\ NoTransport \notin Transports
BY NoOpIsOne, LifecycleAssumption DEF TransportInv, OpOK, Ops

LEMMA OwnsFromInv == LifeInv => SessionOwnsTransport
<1> SUFFICES ASSUME LifeInv PROVE SessionOwnsTransport OBVIOUS
<1>1. OneOwner
  <2> SUFFICES ASSUME NEW t \in Transports, phase[t] = "open"
               PROVE  /\ worker[t] \in {"check", "publish"} \/ scrcpy = t \/ (Cancelling /\ op.old = t)
                      /\ ~(worker[t] \in {"check", "publish"} /\ scrcpy = t)
                      /\ ~(scrcpy = t /\ Cancelling /\ op.old = t)
                      /\ ~(worker[t] \in {"check", "publish"} /\ Cancelling /\ op.old = t)
    BY DEF OneOwner, Cancelling
  <2>1. t # NoTransport BY LifecycleAssumption
  <2>2. QED BY <2>1 DEF LifeInv, TransportInv, Owned, Published, OpAgrees
<1>2. PublishedFresh /\ RunningHasTransport
  BY DEF LifeInv, TransportInv, Published, PublishedFresh, RunningHasTransport
<1>3. RestartAlone BY DEF LifeInv, QualityInv, RestartAlone, Attached, Reserved, Placed
<1>4. QED BY <1>1, <1>2, <1>3 DEF SessionOwnsTransport

LEMMA LifeInit == LifecycleInit => LifeInv
<1> SUFFICES ASSUME LifecycleInit PROVE LifeInv OBVIOUS
<1>1. OpOK BY NoOpIsOne DEF LifecycleInit, OpOK, StopKinds
<1>2. ThreadsTyped BY DEF LifecycleInit, ThreadsTyped, Phases, Workers
<1>3. Published /\ OpAgrees
  BY NoOpIsOne DEF LifecycleInit, Published, OpAgrees, Starting, Cancelling
<1>4. \A t \in Transports : WorkerOK(t) /\ Owned(t) BY DEF LifecycleInit, WorkerOK, Owned
<1>5. QualityInv BY NoOpIsOne DEF LifecycleInit, QualityInv, Views
<1>6. QED BY <1>1, <1>2, <1>3, <1>4, <1>5 DEF LifeInv, TransportInv

-----------------------------------------------------------------------------
(* What an operation does to its own place: nothing, end, begin, go on.    *)

LEMMA TransportsKept ==
  ASSUME TransportInv, UNCHANGED <<running, scrcpy, fresh, op, phase, worker>>
  PROVE  TransportInv'
BY DEF TransportInv, OpOK, ThreadsTyped, Published, OpAgrees, WorkerOK, Owned, Starting, Cancelling

LEMMA OpEnds ==
  ASSUME TransportInv, op.pc \notin {"take", "worker"}, op' = NoOp,
         UNCHANGED <<running, scrcpy, fresh, phase, worker>>
  PROVE  TransportInv'
<1>1. OpOK' BY NoOpIsOne DEF OpOK, StopKinds
<1>2. ThreadsTyped' BY DEF TransportInv, ThreadsTyped
<1>3. Published' BY DEF TransportInv, Published, Starting
<1>4. OpAgrees' BY NoOpIsOne DEF OpAgrees, Starting, Cancelling
<1>5. \A t \in Transports : (WorkerOK(t) /\ Owned(t))'
  BY DEF TransportInv, WorkerOK, Owned, Starting, Cancelling
<1>6. QED BY <1>1, <1>2, <1>3, <1>4, <1>5 DEF TransportInv

LEMMA OpBegins ==
  ASSUME TransportInv, op.goal \in {"none", "stop"}, op.pc # "take",
         op' \in Ops, op'.kind # "none",
         \/ op'.goal = "start" /\ op'.kind \in StartKinds
         \/ op'.goal = "stop" /\ op'.kind \in StopKinds,
         \/ op'.pc = "take" /\ fresh' = {}
         \/ op'.pc = "cleanup" /\ fresh' = fresh /\ (op'.goal = "start" => ~running),
         UNCHANGED <<running, scrcpy, phase, worker>>
  PROVE  TransportInv'
<1>1. OpOK' BY DEF OpOK, StartKinds, StopKinds
<1>2. ThreadsTyped' BY DEF TransportInv, ThreadsTyped
<1>3. Published' BY DEF TransportInv, Published, Starting
<1>4. OpAgrees' BY DEF TransportInv, Published, OpAgrees, Starting, Cancelling
<1>5. \A t \in Transports : (WorkerOK(t) /\ Owned(t))'
  BY DEF TransportInv, WorkerOK, Owned, Starting, Cancelling
<1>6. QED BY <1>1, <1>2, <1>3, <1>4, <1>5 DEF TransportInv

LEMMA OpGoesOn ==
  ASSUME TransportInv, op.goal = "start", op' \in Ops, op'.kind = op.kind, op'.goal = "start",
         \/ op.pc = "health" /\ op'.pc = "rotation"
         \/ op.pc = "cleanup" /\ op'.pc = "adb"
         \/ op.pc = "stopwait" /\ op'.pc = "cleanup",
         UNCHANGED <<running, scrcpy, fresh, phase, worker>>
  PROVE  TransportInv'
<1>1. OpOK' BY DEF TransportInv, OpOK
<1>2. ThreadsTyped' BY DEF TransportInv, ThreadsTyped
<1>3. Published' BY DEF TransportInv, Published, Starting
<1>4. OpAgrees' BY DEF TransportInv, OpAgrees, Starting, Cancelling
<1>5. \A t \in Transports : (WorkerOK(t) /\ Owned(t))'
  BY DEF TransportInv, WorkerOK, Owned, Starting, Cancelling
<1>6. QED BY <1>1, <1>2, <1>3, <1>4, <1>5 DEF TransportInv

\* No change of quality begins, and nobody gets a place.
LEMMA QualityKept ==
  ASSUME QualityInv, view' \in [Watchers -> Views], reconfiguring' \in BOOLEAN,
         op'.kind = "quality" => /\ op.kind = "quality" /\ op'.by = op.by
                                 /\ reconfiguring => reconfiguring'
                                 /\ \A v \in Watchers : view'[v] \in Placed => view[v] \in Placed
  PROVE  QualityInv'
BY DEF QualityInv

-----------------------------------------------------------------------------
(* Pages. *)

LEMMA PageStep ==
  ASSUME LifeInv, NEW v \in Watchers,
         RequestStart(v) \/ HandleReply(v) \/ LeaveViewer(v) \/ ExpirePlace(v)
  PROVE  LifeInv'
<1>1. /\ UNCHANGED <<running, scrcpy, fresh, reconfiguring, op, phase, worker>>
      /\ \E to \in Views : /\ view' = [view EXCEPT ![v] = to]
                           /\ to \in Placed => view[v] \in Placed \/ ~reconfiguring
  BY DEF RequestStart, HandleReply, LeaveViewer, ExpirePlace, transportVars, Placed, Views
<1>2. QualityInv' BY <1>1 DEF LifeInv, QualityInv
<1>3. QED BY <1>1, <1>2, TransportsKept DEF LifeInv

LEMMA ViewerStep ==
  ASSUME LifeInv, NEW v \in Watchers, AttachViewer(v) \/ ScheduleStop(v) PROVE LifeInv'
<1>1. /\ AtAwait /\ UNCHANGED <<running, scrcpy, fresh, reconfiguring, phase, worker>>
      /\ op' = IF op.kind = "grace" THEN NoOp ELSE op
      /\ \E to \in Views : /\ view' = [view EXCEPT ![v] = to]
                           /\ to \in Placed => ~reconfiguring
  BY DEF AttachViewer, ScheduleStop, transportVars, Placed, Views
<1>2. QualityInv' BY <1>1, NoOpIsOne DEF LifeInv, QualityInv
<1>3. TransportInv'
  <2>1. CASE op.kind = "grace"
    <3>1. op.pc \notin {"take", "worker"} BY <2>1, <1>1 DEF AtAwait, LifeInv, TransportInv, OpOK, StopKinds
    <3>2. QED BY <2>1, <3>1, <1>1, OpEnds DEF LifeInv
  <2>2. CASE op.kind # "grace" BY <2>2, <1>1, TransportsKept DEF LifeInv
  <2>3. QED BY <2>1, <2>2
<1>4. QED BY <1>2, <1>3 DEF LifeInv

LEMMA EnterStartStep ==
  ASSUME TransportInv, op.kind = "none", NEW kind \in StartKinds, NEW v \in Watchers \cup {NoWatcher},
         EnterStart(kind, v), UNCHANGED <<running, scrcpy, phase, worker>>
  PROVE  TransportInv' /\ op'.kind = kind /\ op'.by = v
<1>1. /\ op' \in Ops /\ op'.kind = kind /\ op'.by = v /\ op'.goal = "start"
      /\ op'.pc = (IF running THEN "take" ELSE "cleanup")
  BY NoOpIsOne DEF EnterStart, NoOp, Ops, StartKinds
<1>2. fresh' = (IF running THEN {} ELSE fresh) BY DEF EnterStart
<1>3. op.goal = "none" /\ op.pc = "none" BY OpFields
<1>4. kind # "none" BY DEF StartKinds
<1>5. QED BY <1>1, <1>2, <1>3, <1>4, OpBegins

LEMMA JoinStep == ASSUME LifeInv, NEW v \in Watchers, JoinOrStart(v) PROVE LifeInv'
<1>1. op.kind = "none" /\ UNCHANGED <<running, scrcpy, reconfiguring, phase, worker>>
  BY DEF JoinOrStart, LockFree, transportVars
<1>2. CASE view' = Answered(v, TRUE) /\ UNCHANGED <<op, fresh>>
  <2>1. view' \in [Watchers -> Views] BY <1>2 DEF Answered, Views, LifeInv, QualityInv
  <2>2. QualityInv' BY <1>1, <1>2, <2>1, QualityKept DEF LifeInv, QualityInv
  <2>3. QED BY <1>1, <1>2, <2>2, TransportsKept DEF LifeInv
<1>3. CASE EnterStart("start", v) /\ UNCHANGED view
  <2>1. TransportInv' /\ op'.kind = "start" BY <1>1, <1>3, EnterStartStep DEF LifeInv, StartKinds
  <2>2. QualityInv' BY <2>1, <1>1, <1>3 DEF LifeInv, QualityInv
  <2>3. QED BY <2>1, <2>2 DEF LifeInv
<1>4. QED BY <1>2, <1>3 DEF JoinOrStart

LEMMA BeginQualityStep ==
  ASSUME LifeInv, NEW v \in Watchers \cup {NoWatcher}, BeginQuality(v) PROVE LifeInv'
<1>1. /\ op.kind = "none" /\ UNCHANGED <<view, running, scrcpy, phase, worker>>
      /\ EnterStart("quality", v) /\ reconfiguring' = TRUE
      /\ IF v = NoWatcher THEN ~Watched ELSE view[v] = "attached" /\ Attached = {v} /\ Reserved = {}
  BY DEF BeginQuality, LockFree, transportVars
<1>2. TransportInv' /\ op'.by = v BY <1>1, EnterStartStep DEF LifeInv, StartKinds
<1>3. \A w \in Watchers : view[w] \in Placed => w \in Attached \cup Reserved
  BY DEF Placed, Attached, Reserved
<1>4. \A w \in Watchers : view[w] \in Placed => w = v BY <1>1, <1>3 DEF Watched
<1>5. QualityInv' BY <1>1, <1>2, <1>4 DEF LifeInv, QualityInv
<1>6. QED BY <1>2, <1>5 DEF LifeInv

LEMMA ForcedStep == ASSUME LifeInv, RequestForced \/ BeginForced PROVE LifeInv'
<1>1. UNCHANGED <<view, running, scrcpy, reconfiguring, phase, worker>>
  BY DEF RequestForced, BeginForced, transportVars
<1>2. CASE UNCHANGED <<op, fresh>>
  <2>1. QualityInv' BY <1>1, <1>2 DEF LifeInv, QualityInv
  <2>2. QED BY <1>1, <1>2, <2>1, TransportsKept DEF LifeInv
<1>3. CASE op.kind = "none" /\ EnterStart("forced", NoWatcher)
  <2>1. TransportInv' /\ op'.kind = "forced" BY <1>1, <1>3, EnterStartStep DEF LifeInv, StartKinds
  <2>2. QualityInv' BY <2>1, <1>1 DEF LifeInv, QualityInv
  <2>3. QED BY <2>1, <2>2 DEF LifeInv
<1>4. QED BY <1>2, <1>3 DEF RequestForced, BeginForced, LockFree

-----------------------------------------------------------------------------
(* Stops. *)

LEMMA EnterStopStep ==
  ASSUME LifeInv, op.goal \in {"none", "stop"}, op.pc # "take", NEW kind \in StopKinds, EnterStop(kind),
         UNCHANGED <<view, running, scrcpy, reconfiguring, phase, worker>>
  PROVE  LifeInv'
<1>1. /\ op' \in Ops /\ op'.kind = kind /\ op'.goal = "stop"
      /\ \/ op'.pc = "take" /\ fresh' = {}
         \/ op'.pc = "cleanup" /\ fresh' = fresh
  BY NoOpIsOne DEF EnterStop, NoOp, Ops, StopKinds
<1>2. kind # "none" /\ kind # "quality" BY DEF StopKinds
<1>3. TransportInv' BY <1>1, <1>2, OpBegins DEF LifeInv
<1>4. QualityInv' BY <1>1, <1>2 DEF LifeInv, QualityInv
<1>5. QED BY <1>3, <1>4 DEF LifeInv

LEMMA StopStep ==
  ASSUME LifeInv, AdminStop \/ SweepStop \/ \E k \in {"grace", "expiry"} : TimerStop(k) PROVE LifeInv'
<1>1. /\ UNCHANGED <<view, running, scrcpy, reconfiguring, phase, worker>>
      /\ op.goal \in {"none", "stop"} /\ op.pc # "take"
      /\ UNCHANGED <<op, fresh>> \/ \E kind \in StopKinds : EnterStop(kind)
  <2>1. /\ UNCHANGED <<view, running, scrcpy, reconfiguring, phase, worker>>
        /\ UNCHANGED <<op, fresh>> \/ \E kind \in StopKinds : EnterStop(kind)
    BY DEF AdminStop, SweepStop, TimerStop, StopIfUnwatched, transportVars, StopKinds
  <2>2. op.pc # "take" /\ (op.kind = "none" \/ op.kind \in {"grace", "expiry"})
    BY DEF AdminStop, SweepStop, TimerStop, AtAwait, LockFree, TimerOp
  <2>3. op.goal \in {"none", "stop"} BY <2>2, OpFields DEF LifeInv, TransportInv, OpOK, StopKinds
  <2>4. QED BY <2>1, <2>2, <2>3
<1>2. CASE UNCHANGED <<op, fresh>>
  <2>1. QualityInv' BY <1>1, <1>2 DEF LifeInv, QualityInv
  <2>2. QED BY <1>1, <1>2, <2>1, TransportsKept DEF LifeInv
<1>3. CASE \E kind \in StopKinds : EnterStop(kind) BY <1>1, <1>3, EnterStopStep
<1>4. QED BY <1>1, <1>2, <1>3

-----------------------------------------------------------------------------
(* Operations. *)

\* The answer to a caller keeps the pages, and a change of quality ends with it.
LEMMA ReturnKeeps ==
  ASSUME LifeInv, NEW ok \in BOOLEAN, NEW up \in BOOLEAN, Return(ok, up) \/ Raise
  PROVE  QualityInv' /\ op' = NoOp
<1>1. view \in [Watchers -> Views] /\ reconfiguring \in BOOLEAN BY DEF LifeInv, QualityInv
<1>2. op' = NoOp /\ reconfiguring' \in BOOLEAN BY <1>1 DEF Return, Raise
<1>3. \A b \in BOOLEAN : Answered(op.by, b) \in [Watchers -> Views] BY <1>1 DEF Answered, Views
<1>4. EndClients \in [Watchers -> Views] BY <1>1 DEF EndClients, Without, Views
<1>5. view' = view \/ view' = EndClients \/ \E b \in BOOLEAN : view' = Answered(op.by, b)
  BY DEF Return, Raise
<1>6. view' \in [Watchers -> Views] BY <1>1, <1>3, <1>4, <1>5
<1>7. QED BY <1>2, <1>6, NoOpIsOne, QualityKept DEF LifeInv

\* The transport that is retired is stopped, or kept by a cancelled start.
LEMMA TakeStep == ASSUME LifeInv, Take PROVE LifeInv'
<1>f. /\ op \in Ops /\ op.pc = "take" /\ scrcpy \in Transports \cup {NoTransport} /\ phase \in Phases
      /\ NoTransport \notin Transports
  BY OpFields DEF Take, LifeInv, TransportInv, ThreadsTyped
<1>1. scrcpy' = NoTransport /\ running' = FALSE /\ UNCHANGED <<fresh, reconfiguring, worker>>
  BY DEF Take
<1>2. /\ op' \in Ops /\ op'.kind = op.kind /\ op'.by = op.by /\ op'.goal = op.goal /\ op'.t = op.t
      /\ op'.old = scrcpy
      /\ \/ op.goal = "cancel" /\ op'.pc = "worker" /\ phase' = phase
         \/ /\ op.goal # "cancel" /\ op'.pc = "stopwait"
            /\ phase' = IF scrcpy = NoTransport THEN phase ELSE [phase EXCEPT ![scrcpy] = "closing"]
  <2>1. CASE op.goal = "cancel" /\ op' = [op EXCEPT !.pc = "worker", !.old = scrcpy] /\ UNCHANGED phase
    BY <2>1, <1>f DEF Ops
  <2>2. CASE op.goal # "cancel" /\ op' = [op EXCEPT !.pc = "stopwait", !.old = scrcpy] /\ StopTransport(scrcpy)
    BY <2>2, <1>f DEF Ops, StopTransport
  <2>3. QED BY <2>1, <2>2 DEF Take
<1>3. phase' \in Phases /\ \A t \in Transports : phase'[t] = phase[t] \/ (t = scrcpy /\ phase'[t] = "closing")
  BY <1>2, <1>f DEF Phases
<1>4. OpOK' BY <1>2, <1>f, OpFields DEF LifeInv, TransportInv, OpOK
<1>5. ThreadsTyped' BY <1>1, <1>3 DEF LifeInv, TransportInv, ThreadsTyped
<1>6. Published' BY <1>1 DEF Published
<1>7. OpAgrees'
  <2>1. fresh = {} BY <1>f DEF LifeInv, TransportInv, OpAgrees
  <2>2. scrcpy # NoTransport => phase[scrcpy] = "open" /\ worker[scrcpy] \in {"ok", "none"}
    BY DEF LifeInv, TransportInv, Published
  <2>3. QED BY <2>1, <2>2, <1>1, <1>2, <1>f DEF OpAgrees, Starting, Cancelling
<1>8. \A t \in Transports : (WorkerOK(t) /\ Owned(t))'
  <2> SUFFICES ASSUME NEW t \in Transports PROVE WorkerOK(t)' /\ Owned(t)' OBVIOUS
  <2>1. WorkerOK(t) /\ Owned(t) /\ fresh = {} BY <1>f DEF LifeInv, TransportInv, OpAgrees
  <2>2. t = scrcpy => worker[t] \in {"ok", "none"} BY <1>f DEF LifeInv, TransportInv, Published
  <2>3. WorkerOK(t)' BY <2>1, <2>2, <1>1, <1>3 DEF WorkerOK
  <2>4. Owned(t)'
    <3>1. phase'[t] = "open" => phase[t] = "open" BY <1>3
    <3>2. ~Cancelling BY <1>f DEF Cancelling
    <3>3. scrcpy = t /\ phase'[t] = "open" => op.goal = "cancel" /\ op'.pc = "worker"
      BY <1>2, <1>f DEF Phases
    <3>4. QED BY <2>1, <3>1, <3>2, <3>3, <1>1, <1>2 DEF Owned, Cancelling
  <2>5. QED BY <2>3, <2>4
<1>9. QualityInv'
  <2>1. view' \in [Watchers -> Views] /\ (op.goal # "stop" => view' = view)
    BY DEF Take, LifeInv, QualityInv, Views
  <2>2. op.kind = "quality" => op.goal # "stop" BY DEF LifeInv, TransportInv, OpOK, StopKinds
  <2>3. QED BY <2>1, <2>2, <1>1, <1>2, QualityKept DEF LifeInv, QualityInv
<1>10. QED BY <1>4, <1>5, <1>6, <1>7, <1>8, <1>9 DEF LifeInv, TransportInv

LEMMA WaitedStep == ASSUME LifeInv, StopWaited \/ CleanupWaited PROVE LifeInv'
<1>u. UNCHANGED <<running, scrcpy, phase, worker>> BY DEF StopWaited, CleanupWaited, transportVars
<1>f. op \in Ops BY OpFields DEF LifeInv
<1>1. CASE StopWaited /\ op.goal = "start"
  <2>1. op.pc = "stopwait" /\ op' = [op EXCEPT !.pc = "cleanup", !.old = NoTransport]
        /\ UNCHANGED <<fresh, reconfiguring, view>>
    BY <1>1 DEF StopWaited, Raise
  <2>2. op' \in Ops /\ op'.kind = op.kind /\ op'.goal = op.goal /\ op'.by = op.by /\ op'.pc = "cleanup"
    BY <2>1, <1>f DEF Ops
  <2>3. TransportInv' BY <1>1, <1>u, <2>1, <2>2, OpGoesOn DEF LifeInv
  <2>4. QualityInv' BY <2>1, <2>2, QualityKept DEF LifeInv, QualityInv
  <2>5. QED BY <2>3, <2>4 DEF LifeInv
<1>2. CASE StopWaited /\ op.goal # "start"
  <2>1. op.pc = "stopwait" /\ fresh' = fresh
        /\ ((op' = NoOp /\ view' = EndClients /\ UNCHANGED reconfiguring) \/ Raise)
    BY <1>2 DEF StopWaited
  <2>2. op' = NoOp BY <2>1 DEF Raise
  <2>3. QualityInv'
    <3>1. CASE Raise BY <3>1, ReturnKeeps
    <3>2. CASE view' = EndClients /\ UNCHANGED reconfiguring
      <4>1. view' \in [Watchers -> Views] BY <3>2 DEF EndClients, Without, Views, LifeInv, QualityInv
      <4>2. QED BY <4>1, <3>2, <2>2, NoOpIsOne, QualityKept DEF LifeInv, QualityInv
    <3>3. QED BY <2>1, <3>1, <3>2
  <2>4. op.pc # "worker" /\ op.pc # "take" BY <2>1
  <2>5. QED BY <1>u, <2>1, <2>2, <2>3, <2>4, OpEnds DEF LifeInv
<1>3. CASE CleanupWaited
  <2>1. op.pc = "cleanup" /\ UNCHANGED <<view, reconfiguring>>
        /\ \/ op.goal = "stop" /\ op' = [op EXCEPT !.pc = "take"] /\ fresh' = {}
           \/ op.goal # "stop" /\ op' = [op EXCEPT !.pc = "adb"] /\ fresh' = fresh
    BY <1>3 DEF CleanupWaited
  <2>2. op.goal \in {"start", "stop"} BY <2>1, OpFields DEF LifeInv, TransportInv, OpOK
  <2>3. /\ op' \in Ops /\ op'.kind = op.kind /\ op'.goal = op.goal /\ op'.by = op.by
        /\ \/ op.goal = "stop" /\ op'.pc = "take" /\ fresh' = {}
           \/ op.goal = "start" /\ op'.pc = "adb" /\ fresh' = fresh
    BY <2>1, <2>2, <1>f DEF Ops
  <2>4. TransportInv'
    <3>1. CASE op.goal = "stop"
      <4>1. op'.kind \in StopKinds /\ op'.kind # "none" BY <3>1, <2>3 DEF LifeInv, TransportInv, OpOK, StopKinds
      <4>2. QED BY <3>1, <4>1, <1>u, <2>1, <2>3, OpBegins DEF LifeInv
    <3>2. CASE op.goal = "start" BY <3>2, <1>u, <2>1, <2>3, OpGoesOn DEF LifeInv
    <3>3. QED BY <2>2, <3>1, <3>2
  <2>5. QualityInv' BY <2>1, <2>3, QualityKept DEF LifeInv, QualityInv
  <2>6. QED BY <2>4, <2>5 DEF LifeInv
<1>4. QED BY <1>1, <1>2, <1>3

\* The new generation belongs to the transport the worker starts.
LEMMA AdbStep == ASSUME LifeInv, AdbAnswers PROVE LifeInv'
<1>f. /\ op \in Ops /\ op.pc = "adb" /\ op.goal = "start" /\ scrcpy = NoTransport /\ ~running /\ running \in BOOLEAN
      /\ phase \in Phases /\ worker \in Workers /\ NoTransport \notin Transports
  BY OpFields DEF AdbAnswers, LifeInv, TransportInv, OpOK, OpAgrees, Published, ThreadsTyped
<1>1. CASE running' = FALSE /\ Return(FALSE, FALSE) /\ UNCHANGED <<fresh, phase, worker, exited>>
  <2>1. QualityInv' /\ op' = NoOp BY <1>1, ReturnKeeps
  <2>2. running' = running /\ scrcpy' = scrcpy BY <1>1, <1>f DEF AdbAnswers
  <2>3. QED BY <2>1, <2>2, <1>1, <1>f, OpEnds DEF LifeInv
<1>2. CASE \E t \in Transports :
             /\ AtRest(t)
             /\ fresh' = {t} /\ exited' = exited \ {t}
             /\ phase' = [phase EXCEPT ![t] = "connecting"]
             /\ worker' = [worker EXCEPT ![t] = "connecting"]
             /\ op' = [op EXCEPT !.pc = "worker", !.t = t]
             /\ UNCHANGED <<view, running, reconfiguring>>
  <2>1. PICK t \in Transports :
          /\ fresh' = {t} /\ phase' = [phase EXCEPT ![t] = "connecting"]
          /\ worker' = [worker EXCEPT ![t] = "connecting"]
          /\ op' = [op EXCEPT !.pc = "worker", !.t = t]
          /\ UNCHANGED <<view, running, reconfiguring>>
    BY <1>2
  <2>2. scrcpy' = NoTransport /\ running' = running BY <2>1, <1>f DEF AdbAnswers
  <2>3. /\ op' \in Ops /\ op'.kind = op.kind /\ op'.by = op.by /\ op'.goal = "start" /\ op'.pc = "worker" /\ op'.t = t
    BY <2>1, <1>f DEF Ops
  <2>4. /\ phase' \in Phases /\ worker' \in Workers /\ phase'[t] = "connecting" /\ worker'[t] = "connecting"
        /\ \A r \in Transports \ {t} : phase'[r] = phase[r] /\ worker'[r] = worker[r]
    BY <2>1, <1>f DEF Phases, Workers
  <2>5. OpOK' BY <2>3, <1>f DEF LifeInv, TransportInv, OpOK
  <2>6. ThreadsTyped' BY <2>1, <2>2, <2>4, <1>f DEF ThreadsTyped
  <2>7. Published' BY <2>2, <1>f DEF Published
  <2>8. OpAgrees' BY <2>2, <2>3, <2>4, <1>f DEF OpAgrees, Starting, Cancelling
  <2>9. \A r \in Transports : (WorkerOK(r) /\ Owned(r))'
    <3> SUFFICES ASSUME NEW r \in Transports PROVE WorkerOK(r)' /\ Owned(r)' OBVIOUS
    <3>1. WorkerOK(r) /\ Owned(r) BY DEF LifeInv, TransportInv
    <3>2. CASE r = t BY <3>2, <2>3, <2>4 DEF WorkerOK, Owned, Starting
    <3>3. CASE r # t BY <3>1, <3>3, <2>1, <2>3, <2>4, <1>f DEF WorkerOK, Owned, Cancelling
    <3>4. QED BY <3>2, <3>3
  <2>10. QualityInv' BY <2>1, <2>3, QualityKept DEF LifeInv, QualityInv
  <2>11. QED BY <2>5, <2>6, <2>7, <2>8, <2>9, <2>10 DEF LifeInv, TransportInv
<1>3. QED BY <1>1, <1>2 DEF AdbAnswers

\* The worker's result is taken only for a transport that is still of this generation.
LEMMA ServerStep == ASSUME LifeInv, ServerAnswers PROVE LifeInv'
<1> DEFINE ok == worker[op.t] = "ok" /\ op.t \in fresh
<1>f. /\ op \in Ops /\ op.goal = "start" /\ op.pc = "worker" /\ op.t \in Transports /\ ~running
      /\ worker[op.t] \in {"ok", "failed"} /\ worker \in Workers
      /\ worker[op.t] = "ok" /\ op.t \in fresh => scrcpy = op.t
      /\ NoTransport \notin Transports
  BY OpFields DEF ServerAnswers, LifeInv, TransportInv, OpOK, OpAgrees, Starting, ThreadsTyped
<1>1. /\ worker' = [worker EXCEPT ![op.t] = "none"] /\ UNCHANGED <<scrcpy, fresh, phase>> /\ running' = ok
      /\ \/ ok /\ op' = [op EXCEPT !.pc = "health"] /\ UNCHANGED <<view, reconfiguring>>
         \/ ~ok /\ Return(FALSE, FALSE)
  BY DEF ServerAnswers
<1>2. worker' \in Workers /\ worker'[op.t] = "none" /\ \A r \in Transports \ {op.t} : worker'[r] = worker[r]
  BY <1>1, <1>f DEF Workers
<1>3. /\ ok => op' \in Ops /\ op'.kind = op.kind /\ op'.by = op.by /\ op'.goal = "start" /\ op'.pc = "health"
      /\ ~ok => op' = NoOp
      /\ QualityInv'
  <2>1. CASE ok
    <3>1. op' \in Ops /\ op'.kind = op.kind /\ op'.by = op.by /\ op'.goal = "start" /\ op'.pc = "health"
      BY <2>1, <1>1, <1>f DEF Ops
    <3>2. QED BY <2>1, <3>1, <1>1, QualityKept DEF LifeInv, QualityInv
  <2>2. CASE ~ok BY <2>2, <1>1, ReturnKeeps
  <2>3. QED BY <2>1, <2>2
<1>4. OpOK'
  <2>1. CASE ok BY <2>1, <1>3, <1>f DEF LifeInv, TransportInv, OpOK
  <2>2. CASE ~ok BY <2>2, <1>3, NoOpIsOne DEF OpOK, StopKinds
  <2>3. QED BY <2>1, <2>2
<1>5. ThreadsTyped' BY <1>1, <1>2 DEF LifeInv, TransportInv, ThreadsTyped
<1>6. ~ok => scrcpy = NoTransport
  BY <1>f DEF LifeInv, TransportInv, Published
<1>7. ok => scrcpy = op.t /\ phase[op.t] = "open" BY <1>f DEF LifeInv, TransportInv, Published
<1> HIDE DEF ok
<1>8. Published'
  <2>1. CASE ok
    <3>1. scrcpy' = op.t /\ phase'[op.t] = "open" /\ worker'[op.t] = "none" /\ running' BY <2>1, <1>7, <1>1, <1>2
    <3>2. op.t \in fresh' BY <2>1, <1>1 DEF ok
    <3>3. QED BY <3>1, <3>2, <1>f DEF Published
  <2>2. CASE ~ok BY <2>2, <1>6, <1>1 DEF Published
  <2>3. QED BY <2>1, <2>2
<1>9. OpAgrees' BY <1>3, NoOpIsOne DEF OpAgrees, Starting, Cancelling
<1>10. \A r \in Transports : (WorkerOK(r) /\ Owned(r))'
  <2> SUFFICES ASSUME NEW r \in Transports PROVE WorkerOK(r)' /\ Owned(r)' OBVIOUS
  <2>1. WorkerOK(r) /\ Owned(r) BY DEF LifeInv, TransportInv
  <2>2. CASE r = op.t BY <2>1, <2>2, <1>1, <1>2, <1>f DEF WorkerOK, Owned, Cancelling
  <2>3. CASE r # op.t BY <2>1, <2>3, <1>1, <1>2, <1>f DEF WorkerOK, Owned, Cancelling
  <2>4. QED BY <2>2, <2>3
<1>11. QED BY <1>3, <1>4, <1>5, <1>8, <1>9, <1>10 DEF LifeInv, TransportInv

LEMMA HealthStep == ASSUME LifeInv, HealthKnown \/ RotationRead PROVE LifeInv'
<1>f. /\ op \in Ops /\ op.goal = "start" /\ op.pc \in {"health", "rotation"} /\ running \in BOOLEAN
      /\ ~running => scrcpy = NoTransport
  <2>1. op.pc \in {"health", "rotation"} BY DEF HealthKnown, RotationRead
  <2>2. QED BY <2>1, OpFields DEF LifeInv, TransportInv, OpOK, Published, Starting, ThreadsTyped
<1>1. CASE /\ HealthKnown /\ op' = [op EXCEPT !.pc = "rotation"]
           /\ UNCHANGED <<view, reconfiguring, running, scrcpy, phase>>
  <2>1. /\ op' \in Ops /\ op'.kind = op.kind /\ op'.by = op.by /\ op'.goal = op.goal /\ op'.pc = "rotation"
        /\ op.pc = "health" /\ UNCHANGED <<fresh, worker>>
    BY <1>1, <1>f DEF HealthKnown, Ops
  <2>2. TransportInv' BY <1>1, <1>f, <2>1, OpGoesOn DEF LifeInv
  <2>3. QualityInv' BY <1>1, <2>1, QualityKept DEF LifeInv, QualityInv
  <2>4. QED BY <2>2, <2>3 DEF LifeInv
<1>2. CASE (\E ok, up \in BOOLEAN : Return(ok, up)) /\ UNCHANGED <<running, scrcpy, phase, fresh, worker>>
  <2>1. QualityInv' /\ op' = NoOp BY <1>2, ReturnKeeps
  <2>2. QED BY <2>1, <1>2, <1>f, OpEnds DEF LifeInv
<1>3. \/ /\ HealthKnown /\ op' = [op EXCEPT !.pc = "rotation"]
         /\ UNCHANGED <<view, reconfiguring, running, scrcpy, phase>>
      \/ (\E ok, up \in BOOLEAN : Return(ok, up)) /\ UNCHANGED <<running, scrcpy, phase, fresh, worker>>
  <2>1. CASE RotationRead BY <2>1, <1>f DEF RotationRead, transportVars
  <2>2. CASE HealthKnown
    <3>1. UNCHANGED <<fresh, worker>> BY <2>2 DEF HealthKnown
    <3>2. CASE op' = [op EXCEPT !.pc = "rotation"] /\ UNCHANGED <<view, reconfiguring, running, scrcpy, phase>>
      BY <2>2, <3>2
    <3>3. CASE Return(running, running) /\ running /\ UNCHANGED <<running, scrcpy, phase>>
      BY <3>1, <3>3, <1>f
    <3>4. CASE /\ Return(running, running) /\ ~running
               /\ running' = FALSE /\ scrcpy' = NoTransport /\ StopTransport(scrcpy)
      BY <3>1, <3>4, <1>f DEF StopTransport
    <3>5. QED BY <2>2, <3>2, <3>3, <3>4 DEF HealthKnown
  <2>3. QED BY <2>1, <2>2
<1>4. QED BY <1>1, <1>2, <1>3

\* A cancelled start retires what it has started.
LEMMA CancelStep == ASSUME LifeInv, CancelStart PROVE LifeInv'
<1>u. AtAwait /\ op.goal = "start" /\ UNCHANGED <<running, scrcpy, phase, worker>>
  BY DEF CancelStart, transportVars
<1>f. op \in Ops /\ op.pc # "take" BY <1>u, OpFields DEF LifeInv, AtAwait
<1>1. CASE op.pc \in {"worker", "health"}
  <2>1. /\ op' = [op EXCEPT !.goal = "cancel", !.pc = "take"] /\ fresh' = {} /\ UNCHANGED <<reconfiguring, view>>
    BY <1>1 DEF CancelStart
  <2>2. op' \in Ops /\ op'.kind = op.kind /\ op'.by = op.by /\ op'.goal = "cancel" /\ op'.pc = "take"
    BY <2>1, <1>f DEF Ops
  <2>3. OpOK' BY <2>2, <1>u DEF LifeInv, TransportInv, OpOK
  <2>4. ThreadsTyped' BY <1>u, <2>1 DEF LifeInv, TransportInv, ThreadsTyped
  <2>5. Published' BY <1>u, <2>2 DEF LifeInv, TransportInv, Published
  <2>6. OpAgrees' BY <2>1, <2>2 DEF OpAgrees, Starting, Cancelling
  <2>7. \A r \in Transports : (WorkerOK(r) /\ Owned(r))'
    BY <1>u, <2>1, <2>2 DEF LifeInv, TransportInv, WorkerOK, Owned, Cancelling
  <2>8. QualityInv' BY <2>1, <2>2, QualityKept DEF LifeInv, QualityInv
  <2>9. QED BY <2>3, <2>4, <2>5, <2>6, <2>7, <2>8 DEF LifeInv, TransportInv
<1>2. CASE op.pc \notin {"worker", "health"}
  <2>1. Raise /\ fresh' = fresh BY <1>2 DEF CancelStart
  <2>2. QualityInv' /\ op' = NoOp BY <2>1, ReturnKeeps
  <2>3. QED BY <1>u, <1>f, <1>2, <2>1, <2>2, OpEnds DEF LifeInv
<1>3. QED BY <1>1, <1>2

LEMMA WorkerWaitedStep == ASSUME LifeInv, WorkerWaited PROVE LifeInv'
<1>f. /\ op \in Ops /\ op.goal = "cancel" /\ op.pc = "worker" /\ scrcpy = NoTransport
      /\ phase \in Phases /\ worker \in Workers /\ NoTransport \notin Transports
      /\ op.old \in Transports \cup {NoTransport}
  BY OpFields DEF WorkerWaited, LifeInv, TransportInv, OpAgrees, Cancelling, ThreadsTyped
<1>1. /\ op' = [op EXCEPT !.pc = "stopwait", !.old = op.old] /\ scrcpy' = NoTransport
      /\ phase' = (IF op.old = NoTransport THEN phase ELSE [phase EXCEPT ![op.old] = "closing"])
      /\ worker' = [worker EXCEPT ![op.t] = IF @ \in {"ok", "failed"} THEN "none" ELSE @]
      /\ UNCHANGED <<view, running, fresh, reconfiguring>>
  BY <1>f DEF WorkerWaited, StopTransport
<1>2. op' \in Ops /\ op'.kind = op.kind /\ op'.by = op.by /\ op'.goal = "cancel" /\ op'.pc = "stopwait"
  BY <1>1, <1>f DEF Ops
<1>3. /\ phase' \in Phases /\ worker' \in Workers
      /\ \A r \in Transports :
           /\ phase'[r] = IF r = op.old THEN "closing" ELSE phase[r]
           /\ worker'[r] = worker[r] \/ (worker[r] \in {"ok", "failed"} /\ worker'[r] = "none")
  BY <1>1, <1>f DEF Phases, Workers
<1>4. OpOK' BY <1>2, <1>f DEF LifeInv, TransportInv, OpOK
<1>5. ThreadsTyped' BY <1>1, <1>3 DEF LifeInv, TransportInv, ThreadsTyped
<1>6. Published' BY <1>1, <1>f DEF LifeInv, TransportInv, Published
<1>7. OpAgrees' BY <1>1, <1>2 DEF OpAgrees, Starting, Cancelling
<1>8. \A r \in Transports : (WorkerOK(r) /\ Owned(r))'
  <2> SUFFICES ASSUME NEW r \in Transports PROVE WorkerOK(r)' /\ Owned(r)' OBVIOUS
  <2>1. WorkerOK(r) /\ Owned(r) BY DEF LifeInv, TransportInv
  <2>2. r = op.old => worker[r] \in {"ok", "none"} BY <1>f DEF LifeInv, TransportInv, OpAgrees, Cancelling
  <2>3. WorkerOK(r)' BY <2>1, <2>2, <1>1, <1>3, <1>f DEF WorkerOK, Starting
  <2>4. Owned(r)' BY <2>1, <1>1, <1>3, <1>f DEF Owned, Cancelling
  <2>5. QED BY <2>3, <2>4
<1>9. QualityInv' BY <1>1, <1>2, QualityKept DEF LifeInv, QualityInv
<1>10. QED BY <1>4, <1>5, <1>6, <1>7, <1>8, <1>9 DEF LifeInv, TransportInv

-----------------------------------------------------------------------------
(* Threads and transports. *)

\* A thread does something to its own transport, which is not the published one.
LEMMA ThreadMoves ==
  ASSUME LifeInv, NEW t \in Transports, UNCHANGED <<sessionVars, op>>,
         phase' \in Phases, worker' \in Workers, scrcpy # t, ~(Cancelling /\ op.old = t),
         \A r \in Transports \ {t} : phase'[r] = phase[r] /\ worker'[r] = worker[r],
         Starting /\ op.t = t => worker'[t] # "ok" \/ worker[t] = "ok",
         WorkerOK(t)', phase'[t] = "open" => worker'[t] \in {"check", "publish"}
  PROVE  LifeInv'
<1>u. UNCHANGED <<view, running, scrcpy, fresh, reconfiguring, op>> BY DEF sessionVars
<1>f. scrcpy \in Transports \cup {NoTransport} /\ op.old \in Transports \cup {NoTransport}
  BY OpFields DEF LifeInv, TransportInv, ThreadsTyped
<1>1. OpOK' /\ QualityInv' BY <1>u DEF LifeInv, TransportInv, OpOK, QualityInv
<1>2. ThreadsTyped' BY <1>u DEF LifeInv, TransportInv, ThreadsTyped
<1>3. Published' BY <1>u, <1>f DEF LifeInv, TransportInv, Published, Starting
<1>4. OpAgrees'
  <2>1. Starting => op.t \in Transports /\ (worker'[op.t] = "ok" => worker[op.t] = "ok")
    BY DEF LifeInv, TransportInv, OpAgrees
  <2>2. Cancelling /\ op.old # NoTransport => phase'[op.old] = phase[op.old] /\ worker'[op.old] = worker[op.old]
    BY <1>f
  <2>3. QED BY <2>1, <2>2, <1>u DEF LifeInv, TransportInv, OpAgrees, Starting, Cancelling
<1>5. \A r \in Transports : (WorkerOK(r) /\ Owned(r))'
  <2> SUFFICES ASSUME NEW r \in Transports PROVE WorkerOK(r)' /\ Owned(r)' OBVIOUS
  <2>1. CASE r = t BY <2>1 DEF Owned
  <2>2. CASE r # t BY <2>2, <1>u DEF LifeInv, TransportInv, WorkerOK, Owned, Starting, Cancelling
  <2>3. QED BY <2>1, <2>2
<1>6. QED BY <1>1, <1>2, <1>3, <1>4, <1>5 DEF LifeInv, TransportInv

\* A transport whose worker is at work is neither published nor kept.
LEMMA AtWork ==
  ASSUME LifeInv, NEW t \in Transports, worker[t] \notin {"ok", "none"}
  PROVE  scrcpy # t /\ ~(Cancelling /\ op.old = t)
<1>1. t # NoTransport BY LifecycleAssumption
<1>2. QED BY <1>1 DEF LifeInv, TransportInv, Published, OpAgrees

LEMMA StartServerStep == ASSUME LifeInv, NEW t \in Transports, StartServer(t) PROVE LifeInv'
<1>f. phase \in Phases /\ worker \in Workers /\ WorkerOK(t) BY DEF LifeInv, TransportInv, ThreadsTyped
<1>1. /\ worker[t] = "connecting" /\ UNCHANGED <<sessionVars, op>>
      /\ \/ phase' = [phase EXCEPT ![t] = "open"] /\ worker' = [worker EXCEPT ![t] = "check"]
         \/ phase' = [phase EXCEPT ![t] = "off"] /\ worker' = [worker EXCEPT ![t] = "failed"]
  BY DEF StartServer
<1>2. /\ phase' \in Phases /\ worker' \in Workers
      /\ \A r \in Transports \ {t} : phase'[r] = phase[r] /\ worker'[r] = worker[r]
      /\ \/ phase'[t] = "open" /\ worker'[t] = "check"
         \/ phase'[t] = "off" /\ worker'[t] = "failed"
  BY <1>1, <1>f DEF Phases, Workers
<1>3. WorkerOK(t)' BY <1>1, <1>2, <1>f DEF WorkerOK, sessionVars, Starting
<1>4. scrcpy # t /\ ~(Cancelling /\ op.old = t) BY <1>1, AtWork
<1>5. QED BY <1>1, <1>2, <1>3, <1>4, ThreadMoves

\* What a worker does with a transport that has started but is not to be published.
LEMMA DiscardStep ==
  ASSUME LifeInv, NEW t \in Transports, worker[t] \in {"check", "publish"}, Discard(t), UNCHANGED <<sessionVars, op>>
  PROVE  LifeInv'
<1>f. phase \in Phases /\ worker \in Workers BY DEF LifeInv, TransportInv, ThreadsTyped
<1>1. phase' = [phase EXCEPT ![t] = "closing"] /\ worker' = [worker EXCEPT ![t] = "discard"] BY DEF Discard
<1>2. /\ phase' \in Phases /\ worker' \in Workers
      /\ \A r \in Transports \ {t} : phase'[r] = phase[r] /\ worker'[r] = worker[r]
      /\ phase'[t] = "closing" /\ worker'[t] = "discard"
  BY <1>1, <1>f DEF Phases, Workers
<1>3. WorkerOK(t)' BY <1>2 DEF WorkerOK
<1>4. scrcpy # t /\ ~(Cancelling /\ op.old = t) BY AtWork
<1>5. QED BY <1>2, <1>3, <1>4, ThreadMoves

LEMMA CheckStartStep == ASSUME LifeInv, NEW t \in Transports, CheckStart(t) PROVE LifeInv'
<1>f. phase \in Phases /\ worker \in Workers /\ WorkerOK(t) BY DEF LifeInv, TransportInv, ThreadsTyped
<1>1. worker[t] = "check" /\ UNCHANGED <<sessionVars, op>> BY DEF CheckStart
<1>2. CASE worker' = [worker EXCEPT ![t] = "publish"] /\ UNCHANGED phase
  <2>1. /\ worker' \in Workers /\ \A r \in Transports \ {t} : worker'[r] = worker[r]
        /\ worker'[t] = "publish"
    BY <1>2, <1>f DEF Workers
  <2>2. WorkerOK(t)' BY <1>1, <1>2, <2>1, <1>f DEF WorkerOK, sessionVars, Starting
  <2>3. scrcpy # t /\ ~(Cancelling /\ op.old = t) BY <1>1, AtWork
  <2>4. QED BY <1>1, <1>2, <1>f, <2>1, <2>2, <2>3, ThreadMoves
<1>3. CASE Discard(t) BY <1>1, <1>3, DiscardStep
<1>4. QED BY <1>2, <1>3 DEF CheckStart

\* Only the start that is waited for publishes, and nothing else is published then.
LEMMA PublishStep == ASSUME LifeInv, NEW t \in Transports, PublishTransport(t) PROVE LifeInv'
<1>f. /\ phase \in Phases /\ worker \in Workers /\ WorkerOK(t) /\ worker[t] = "publish" /\ phase[t] = "open"
      /\ fresh \in SUBSET Transports /\ running \in BOOLEAN
  BY DEF LifeInv, TransportInv, ThreadsTyped, PublishTransport, WorkerOK
<1>u. UNCHANGED <<view, running, fresh, reconfiguring, forced, timers, op>> BY DEF PublishTransport
<1>1. CASE t \in fresh
  <2>1. scrcpy' = t /\ worker' = [worker EXCEPT ![t] = "ok"] /\ UNCHANGED phase BY <1>1 DEF PublishTransport
  <2>2. Starting /\ op.t = t /\ ~running /\ scrcpy = NoTransport /\ ~Cancelling
    <3>1. Starting /\ op.t = t BY <1>1, <1>f DEF WorkerOK
    <3>2. ~running BY <3>1 DEF LifeInv, TransportInv, OpAgrees
    <3>3. scrcpy = NoTransport BY <3>1, <3>2, <1>f DEF LifeInv, TransportInv, Published, Starting
    <3>4. QED BY <3>1, <3>2, <3>3 DEF Starting, Cancelling
  <2>3. /\ worker' \in Workers /\ worker'[t] = "ok"
        /\ \A r \in Transports \ {t} : worker'[r] = worker[r]
    BY <2>1, <1>f DEF Workers
  <2>4. OpOK' /\ QualityInv' BY <1>u DEF LifeInv, TransportInv, OpOK, QualityInv
  <2>5. ThreadsTyped' BY <1>u, <2>1, <2>3, <1>f DEF ThreadsTyped
  <2>6. Published' BY <1>u, <1>1, <2>1, <2>2, <2>3, <1>f DEF Published, Starting
  <2>7. OpAgrees' BY <1>u, <2>1, <2>2, <1>1 DEF LifeInv, TransportInv, OpAgrees, Starting, Cancelling
  <2>8. \A r \in Transports : (WorkerOK(r) /\ Owned(r))'
    <3> SUFFICES ASSUME NEW r \in Transports PROVE WorkerOK(r)' /\ Owned(r)' OBVIOUS
    <3>1. WorkerOK(r) /\ Owned(r) /\ r # NoTransport BY LifecycleAssumption DEF LifeInv, TransportInv
    <3>2. CASE r = t BY <3>2, <2>1, <2>3 DEF WorkerOK, Owned
    <3>3. CASE r # t
      BY <3>1, <3>3, <1>u, <2>1, <2>2, <2>3 DEF WorkerOK, Owned, Starting, Cancelling
    <3>4. QED BY <3>2, <3>3
  <2>9. QED BY <2>4, <2>5, <2>6, <2>7, <2>8 DEF LifeInv, TransportInv
<1>2. CASE t \notin fresh
  <2>1. Discard(t) /\ UNCHANGED <<sessionVars, op>> BY <1>2, <1>u DEF PublishTransport, sessionVars
  <2>2. QED BY <2>1, <1>f, DiscardStep
<1>3. QED BY <1>1, <1>2

LEMMA DiscardedStep == ASSUME LifeInv, NEW t \in Transports, Discarded(t) PROVE LifeInv'
<1>f. phase \in Phases /\ worker \in Workers BY DEF LifeInv, TransportInv, ThreadsTyped
<1>1. /\ worker[t] = "discard" /\ phase[t] = "off" /\ worker' = [worker EXCEPT ![t] = "failed"]
      /\ UNCHANGED <<sessionVars, op, phase>>
  BY DEF Discarded
<1>2. worker' \in Workers /\ worker'[t] = "failed" /\ \A r \in Transports \ {t} : worker'[r] = worker[r]
  BY <1>1, <1>f DEF Workers
<1>3. WorkerOK(t)' BY <1>2 DEF WorkerOK
<1>4. scrcpy # t /\ ~(Cancelling /\ op.old = t) BY <1>1, AtWork
<1>5. QED BY <1>1, <1>2, <1>3, <1>4, <1>f, ThreadMoves

\* Nobody waits for the result any more.
LEMMA ForgetStep == ASSUME LifeInv, NEW t \in Transports, ForgetStart(t) PROVE LifeInv'
<1>f. phase \in Phases /\ worker \in Workers BY DEF LifeInv, TransportInv, ThreadsTyped
<1>1. /\ worker[t] \in {"ok", "failed"} /\ op.t # t /\ worker' = [worker EXCEPT ![t] = "none"]
      /\ UNCHANGED <<view, running, scrcpy, fresh, reconfiguring, op, phase>>
  BY DEF ForgetStart, sessionVars
<1>2. worker' \in Workers /\ worker'[t] = "none" /\ \A r \in Transports \ {t} : worker'[r] = worker[r]
  BY <1>1, <1>f DEF Workers
<1>3. OpOK' /\ QualityInv' BY <1>1 DEF LifeInv, TransportInv, OpOK, QualityInv
<1>4. ThreadsTyped' BY <1>1, <1>2 DEF LifeInv, TransportInv, ThreadsTyped
<1>5. Published' BY <1>1, <1>2 DEF LifeInv, TransportInv, ThreadsTyped, Published, Starting
<1>6. OpAgrees'
  <2>1. op.old \in Transports \cup {NoTransport} BY OpFields DEF LifeInv
  <2>2. Cancelling /\ op.old # NoTransport => worker'[op.old] \in {"ok", "none"}
    BY <2>1, <1>2 DEF LifeInv, TransportInv, OpAgrees
  <2>3. QED BY <2>2, <1>1, <1>2 DEF LifeInv, TransportInv, OpAgrees, Starting, Cancelling
<1>7. \A r \in Transports : (WorkerOK(r) /\ Owned(r))'
  BY <1>1, <1>2 DEF LifeInv, TransportInv, WorkerOK, Owned, Starting, Cancelling
<1>8. QED BY <1>3, <1>4, <1>5, <1>6, <1>7 DEF LifeInv, TransportInv

LEMMA CloseStep == ASSUME LifeInv, NEW t \in Transports, Close(t) PROVE LifeInv'
<1>f. phase \in Phases /\ worker \in Workers /\ WorkerOK(t) /\ t # NoTransport
  BY LifecycleAssumption DEF LifeInv, TransportInv, ThreadsTyped
<1>1. /\ phase[t] = "closing" /\ phase' = [phase EXCEPT ![t] = "off"] /\ UNCHANGED <<sessionVars, op, worker>>
  BY DEF Close
<1>2. phase' \in Phases /\ phase'[t] = "off" /\ \A r \in Transports \ {t} : phase'[r] = phase[r]
  BY <1>1, <1>f DEF Phases
<1>3. WorkerOK(t)' BY <1>1, <1>2, <1>f DEF WorkerOK
<1>4. scrcpy # t /\ ~(Cancelling /\ op.old = t)
  BY <1>1, <1>f DEF LifeInv, TransportInv, Published, OpAgrees
<1>5. QED BY <1>1, <1>2, <1>3, <1>4, <1>f, ThreadMoves

\* The end of the published transport is the end of its generation.
LEMMA StreamEndedStep == ASSUME LifeInv, NEW t \in Transports, StreamEnded(t) PROVE LifeInv'
<1>f. phase \in Phases /\ worker \in Workers /\ t # NoTransport /\ op.pc # "take"
  BY LifecycleAssumption DEF LifeInv, TransportInv, ThreadsTyped, StreamEnded, AtAwait
<1>u. UNCHANGED <<reconfiguring, op, worker>> BY DEF StreamEnded
<1>1. CASE t \in fresh /\ scrcpy = t
  <2>1. /\ running' = FALSE /\ scrcpy' = NoTransport /\ fresh' = {} /\ view' = EndClients
        /\ phase' = [phase EXCEPT ![t] = "closing"]
    BY <1>1, <1>f DEF StreamEnded, StopTransport
  <2>2. phase' \in Phases /\ phase'[t] = "closing" /\ \A r \in Transports \ {t} : phase'[r] = phase[r]
    BY <2>1, <1>f DEF Phases
  <2>3. OpOK' BY <1>u DEF LifeInv, TransportInv, OpOK
  <2>4. ThreadsTyped' BY <1>u, <2>1, <2>2 DEF LifeInv, TransportInv, ThreadsTyped
  <2>5. Published' BY <2>1 DEF Published
  <2>6. ~Cancelling /\ worker[t] \in {"ok", "none"}
    BY <1>1, <1>f DEF LifeInv, TransportInv, OpAgrees, Published
  <2>7. OpAgrees' BY <1>u, <1>f, <2>1, <2>6 DEF LifeInv, TransportInv, OpAgrees, Starting, Cancelling
  <2>8. \A r \in Transports : (WorkerOK(r) /\ Owned(r))'
    <3> SUFFICES ASSUME NEW r \in Transports PROVE WorkerOK(r)' /\ Owned(r)' OBVIOUS
    <3>1. WorkerOK(r) /\ Owned(r) BY DEF LifeInv, TransportInv
    <3>2. CASE r = t BY <3>2, <2>2, <2>6, <1>u DEF WorkerOK, Owned
    <3>3. CASE r # t BY <3>1, <3>3, <1>1, <1>u, <2>1, <2>2, <2>6 DEF WorkerOK, Owned
    <3>4. QED BY <3>2, <3>3
  <2>9. QualityInv'
    <3>1. view \in [Watchers -> Views] BY DEF LifeInv, QualityInv
    <3>2. /\ view' \in [Watchers -> Views]
          /\ \A v \in Watchers : view'[v] = view[v] \/ view[v] = "attached"
      BY <2>1, <3>1 DEF EndClients, Without, Views
    <3>3. QED BY <3>2, <1>u, QualityKept DEF LifeInv, QualityInv, Placed
  <2>10. QED BY <2>3, <2>4, <2>5, <2>7, <2>8, <2>9 DEF LifeInv, TransportInv
<1>2. CASE ~(t \in fresh /\ scrcpy = t)
  <2>1. UNCHANGED <<running, scrcpy, fresh, view, phase>> BY <1>2 DEF StreamEnded
  <2>2. QualityInv' BY <1>u, <2>1 DEF LifeInv, QualityInv
  <2>3. QED BY <1>u, <2>1, <2>2, TransportsKept DEF LifeInv
<1>3. QED BY <1>1, <1>2

LEMMA QuietStep ==
  ASSUME LifeInv, (\E t \in Transports : Exit(t)) \/ CleanupDone \/ UNCHANGED lifecycleVars
  PROVE  LifeInv'
<1>1. UNCHANGED <<view, running, scrcpy, fresh, reconfiguring, op, phase, worker>>
  BY DEF Exit, CleanupDone, lifecycleVars, sessionVars, transportVars
<1>2. QualityInv' BY <1>1 DEF LifeInv, QualityInv
<1>3. QED BY <1>1, <1>2, TransportsKept DEF LifeInv

LEMMA LifeStep == ASSUME LifeInv, [LifecycleNext]_lifecycleVars PROVE LifeInv'
<1>1. CASE \E v \in Watchers :
             \/ RequestStart(v) \/ JoinOrStart(v) \/ HandleReply(v) \/ AttachViewer(v)
             \/ LeaveViewer(v) \/ ScheduleStop(v) \/ ExpirePlace(v)
  BY <1>1, PageStep, ViewerStep, JoinStep
<1>2. CASE \E v \in Watchers \cup {NoWatcher} : BeginQuality(v) BY <1>2, BeginQualityStep
<1>3. CASE RequestForced \/ BeginForced BY <1>3, ForcedStep
<1>4. CASE AdminStop \/ SweepStop \/ \E k \in {"grace", "expiry"} : TimerStop(k) BY <1>4, StopStep
<1>5. CASE Operation \/ CancelStart
  BY <1>5, TakeStep, WaitedStep, AdbStep, ServerStep, HealthStep, WorkerWaitedStep, CancelStep DEF Operation
<1>6. CASE \E t \in Transports : Thread(t)
  BY <1>6, StartServerStep, CheckStartStep, PublishStep, DiscardedStep, ForgetStep, CloseStep, StreamEndedStep
  DEF Thread
<1>7. CASE (\E t \in Transports : Exit(t)) \/ CleanupDone \/ UNCHANGED lifecycleVars BY <1>7, QuietStep
<1>8. QED BY <1>1, <1>2, <1>3, <1>4, <1>5, <1>6, <1>7 DEF LifecycleNext

-----------------------------------------------------------------------------
\* Every transport that streams has one owner that will use or stop it, what the
\* session publishes is fresh, what it calls running is published, and a restart for
\* other options is alone: MirrorSession under cancellation, time-outs and late threads.
THEOREM TransportsAreOwned == LifecycleSpec => []SessionOwnsTransport
<1>1. LifecycleInit => LifeInv BY LifeInit
<1>2. LifeInv /\ [LifecycleNext]_lifecycleVars => LifeInv' BY LifeStep
<1>3. QED BY <1>1, <1>2, OwnsFromInv, PTL DEF LifecycleSpec

-----------------------------------------------------------------------------
(* The guard of the target. *)


Kinds == {"idle", "start", "quality", "stop", "stopidle", "restart", "move", "remove"}
Work == [kind : Kinds, d : Devices \cup {NoTarget}, s : Objects \cup {NoTarget},
         pc : {"idle", "call", "wait", "held", "work"},
         key : Addresses \cup {NoTarget}, goal : Addresses \cup {NoTarget}]
Holding == {"held", "work"}

\* What the code of a coroutine refers to is there.
Formed(t) ==
  /\ t.pc \in {"wait", "held", "work"} => t.s \in Objects
  /\ t.pc = "call" => t.d \in Devices
  /\ t.kind = "move" => t.goal # NoTarget
AllFormed == \A k \in Tasks : Formed(task[k])

\* The lock a coroutine holds is the one of the address its session has now,
KeyIsAddress == \A k \in Tasks : task[k].pc \in Holding => task[k].key = address[task[k].s]

\* nobody else holds it,
KeyHeldOnce ==
  \A j, k \in Tasks : j # k /\ task[j].pc \in Holding /\ task[k].pc \in Holding => task[j].key # task[k].key

\* and a session that is being moved is not available.
MoversTookIt ==
  \A k \in Tasks : task[k].pc = "work" /\ task[k].kind = "move" => ~available[task[k].s]

GuardInv == TargetsTypeOK /\ AllFormed /\ KeyIsAddress /\ KeyHeldOnce /\ MoversTookIt

-----------------------------------------------------------------------------
LEMMA CoversFromKeys == GuardInv => GuardCoversSession
BY DEF GuardInv, KeyIsAddress, KeyHeldOnce, GuardCoversSession, Holding

LEMMA Idle == NoTask \in Work /\ NoTask.pc = "idle" /\ NoTask.kind = "idle" /\ Formed(NoTask)
BY DEF NoTask, Work, Kinds, Formed

LEMMA TaskIsWork == TargetsTypeOK => task \in [Tasks -> Work]
BY DEF TargetsTypeOK, Work, Kinds

\* A coroutine does its next thing, the others stay: what has to be shown of it.
LEMMA OneTaskMoves ==
  ASSUME GuardInv, NEW k \in Tasks, NEW x \in Work, task' = [task EXCEPT ![k] = x], Formed(x),
         x.pc \in Holding => /\ x.key = address'[x.s]
                             /\ \A j \in Tasks \ {k} : task[j].pc \in Holding => task[j].key # x.key,
         x.pc = "work" /\ x.kind = "move" => ~available'[x.s],
         \A j \in Tasks \ {k} : task[j].pc \in Holding =>
           /\ address'[task[j].s] = address[task[j].s]
           /\ ~available[task[j].s] => ~available'[task[j].s]
  PROVE  task' \in [Tasks -> Work] /\ (AllFormed /\ KeyIsAddress /\ KeyHeldOnce /\ MoversTookIt)'
<1>1. task \in [Tasks -> Work] BY TaskIsWork DEF GuardInv
<1>2. task' \in [Tasks -> Work] /\ task'[k] = x /\ \A j \in Tasks \ {k} : task'[j] = task[j] BY <1>1
<1>3. AllFormed' BY <1>2 DEF GuardInv, AllFormed, Formed
<1>4. KeyIsAddress' BY <1>2 DEF GuardInv, KeyIsAddress
<1>5. KeyHeldOnce' BY <1>2 DEF GuardInv, KeyHeldOnce
<1>6. MoversTookIt' BY <1>2 DEF GuardInv, MoversTookIt, Holding
<1>7. QED BY <1>2, <1>3, <1>4, <1>5, <1>6

\* Once no coroutine moves and the sessions keep their addresses, all is as before.
LEMMA NoTaskMoves ==
  ASSUME GuardInv, UNCHANGED <<task, address, available>>
  PROVE  (AllFormed /\ KeyIsAddress /\ KeyHeldOnce /\ MoversTookIt)'
BY DEF GuardInv, AllFormed, Formed, KeyIsAddress, KeyHeldOnce, MoversTookIt

\* Waiting for a lock takes nothing from those who hold one.
LEMMA QueueKeeps ==
  ASSUME GuardInv, NEW k \in Tasks, NEW kind \in Kinds, NEW d \in Devices, NEW s \in Objects,
         NEW key \in Addresses \cup {NoTarget}, NEW goal \in Addresses \cup {NoTarget},
         QueueFor(k, kind, d, s, key, goal), kind = "move" => goal # NoTarget,
         \A j \in Tasks : task[j].pc \in Holding =>
           /\ address'[task[j].s] = address[task[j].s]
           /\ ~available[task[j].s] => ~available'[task[j].s]
  PROVE  task' \in [Tasks -> Work] /\ (AllFormed /\ KeyIsAddress /\ KeyHeldOnce /\ MoversTookIt)'
<1> DEFINE x == [kind |-> kind, d |-> d, s |-> s, pc |-> "wait", key |-> key, goal |-> goal]
<1>1. x \in Work /\ Formed(x) /\ x.pc = "wait" BY DEF Work, Formed
<1>2. task' = [task EXCEPT ![k] = x] BY DEF QueueFor
<1> HIDE DEF x
<1>3. x.pc \notin Holding /\ x.pc # "work" BY <1>1 DEF Holding
<1>4. QED BY <1>1, <1>2, <1>3, OneTaskMoves

\* Neither does ending.
LEMMA DoneKeeps ==
  ASSUME GuardInv, NEW k \in Tasks, TaskDone(k),
         \A j \in Tasks \ {k} : task[j].pc \in Holding =>
           /\ address'[task[j].s] = address[task[j].s]
           /\ ~available[task[j].s] => ~available'[task[j].s]
  PROVE  task' \in [Tasks -> Work] /\ (AllFormed /\ KeyIsAddress /\ KeyHeldOnce /\ MoversTookIt)'
<1>1. NoTask \in Work /\ NoTask.pc \notin Holding /\ NoTask.pc # "work" /\ Formed(NoTask)
  BY Idle DEF Holding
<1>2. task' = [task EXCEPT ![k] = NoTask] BY DEF TaskDone
<1>3. QED BY <1>1, <1>2, OneTaskMoves

\* From holding the lock to working under it.
LEMMA WorkKeeps ==
  ASSUME GuardInv, NEW k \in Tasks, task[k].pc = "held", TaskWorks(k), UNCHANGED address,
         \A s \in Objects : ~available[s] => ~available'[s],
         task[k].kind = "move" => ~available'[task[k].s]
  PROVE  task' \in [Tasks -> Work] /\ (AllFormed /\ KeyIsAddress /\ KeyHeldOnce /\ MoversTookIt)'
<1> DEFINE t == task[k]
           x == [t EXCEPT !.pc = "work"]
<1>1. t \in Work /\ Formed(t) /\ t.pc = "held" BY TaskIsWork DEF GuardInv, AllFormed
<1>2. /\ x \in Work /\ Formed(x) /\ x.pc = "work" /\ x.s = t.s /\ x.key = t.key /\ x.kind = t.kind
  BY <1>1 DEF Work, Formed
<1>3. task' = [task EXCEPT ![k] = x] BY DEF TaskWorks
<1>4. x.key = address'[x.s] BY <1>1, <1>2 DEF GuardInv, KeyIsAddress, Holding
<1>5. \A j \in Tasks \ {k} : task[j].pc \in Holding => task[j].key # x.key
  BY <1>1, <1>2 DEF GuardInv, KeyHeldOnce, Holding
<1>6. \A j \in Tasks : task[j].pc \in Holding => task[j].s \in Objects
  BY DEF GuardInv, AllFormed, Formed, Holding
<1>7. x.kind = "move" => ~available'[x.s] BY <1>2
<1> HIDE DEF x
<1>8. QED BY <1>2, <1>3, <1>4, <1>5, <1>6, <1>7, OneTaskMoves

-----------------------------------------------------------------------------
LEMMA GuardInit == TargetsInit => GuardInv
<1> SUFFICES ASSUME TargetsInit PROVE GuardInv OBVIOUS
<1>1. \A k \in Tasks : task[k] = NoTask BY DEF TargetsInit
<1>2. task \in [Tasks -> Work] BY Idle DEF TargetsInit
<1>3. TargetsTypeOK
  <2>1. \A s \in Objects : ~IsListed(s) BY TargetsAssumption DEF TargetsInit, IsListed
  <2>2. QED BY <1>2, <2>1 DEF TargetsInit, TargetsTypeOK, Work, Kinds
<1>4. QED BY <1>1, <1>3, Idle
  DEF GuardInv, AllFormed, KeyIsAddress, KeyHeldOnce, MoversTookIt, Holding

\* Sessions only leave the dict, or nothing but the streams changes: types.
LEMMA KeptTypes ==
  ASSUME GuardInv, task' \in [Tasks -> Work], UNCHANGED <<row, sessions, address>>,
         available' \in [Objects -> BOOLEAN], streaming' \in [Objects -> {"off", "on", "closing"}]
  PROVE  TargetsTypeOK'
BY DEF GuardInv, TargetsTypeOK, IsListed, Work, Kinds

LEMMA RequestStep ==
  ASSUME GuardInv, NEW k \in Tasks, NEW d \in Devices, NEW kind \in {"start", "quality", "stop", "stopidle"},
         RequestTask(k, kind, d)
  PROVE  GuardInv'
<1> DEFINE s == sessions[d]
<1>t. /\ sessions \in [Devices -> Objects \cup {NoTarget}] /\ row \in [Devices -> Addresses \cup {NoTarget}]
      /\ address \in [Objects -> Addresses \cup {NoTarget}] /\ available \in [Objects -> BOOLEAN]
      /\ kind \in Kinds /\ kind # "move"
  BY DEF GuardInv, TargetsTypeOK, Kinds
<1>u. UNCHANGED <<row, streaming>> BY DEF RequestTask
<1>1. CASE s # NoTarget /\ available[s]
  <2>1. QueueFor(k, kind, d, s, address[s], NoTarget) /\ UNCHANGED <<sessions, address, available>>
    BY <1>1 DEF RequestTask
  <2>2. s \in Objects /\ address[s] \in Addresses \cup {NoTarget} BY <1>1, <1>t
  <2> HIDE DEF s
  <2>3. task' \in [Tasks -> Work] /\ (AllFormed /\ KeyIsAddress /\ KeyHeldOnce /\ MoversTookIt)'
    BY <2>1, <2>2, <1>t, QueueKeeps
  <2>4. TargetsTypeOK' BY <2>1, <2>3, <1>u, KeptTypes DEF GuardInv, TargetsTypeOK
  <2>5. QED BY <2>3, <2>4 DEF GuardInv
<1>2. CASE ~(s # NoTarget /\ available[s])
  <2>1. PICK n \in Objects :
          /\ row[d] # NoTarget /\ IsUnused(n)
          /\ sessions' = [sessions EXCEPT ![d] = n]
          /\ address' = [address EXCEPT ![n] = row[d]]
          /\ available' = [available EXCEPT ![n] = TRUE]
          /\ QueueFor(k, kind, d, n, row[d], NoTarget)
    BY <1>2 DEF RequestTask
  <2>2. \A j \in Tasks : task[j].pc \in Holding => task[j].s \in Objects \ {n}
    BY <2>1 DEF IsUnused, GuardInv, AllFormed, Formed, Holding
  <2>3. \A j \in Tasks : task[j].pc \in Holding =>
          address'[task[j].s] = address[task[j].s] /\ available'[task[j].s] = available[task[j].s]
    BY <2>1, <2>2, <1>t
  <2>4. row[d] \in Addresses \cup {NoTarget} BY <1>t
  <2>5. task' \in [Tasks -> Work] /\ (AllFormed /\ KeyIsAddress /\ KeyHeldOnce /\ MoversTookIt)'
    BY <2>1, <2>3, <2>4, <1>t, QueueKeeps
  <2>6. /\ sessions' \in [Devices -> Objects \cup {NoTarget}]
        /\ address' \in [Objects -> Addresses \cup {NoTarget}] /\ available' \in [Objects -> BOOLEAN]
    BY <2>1, <1>t
  <2>7. \A r \in Objects : IsListed(r)' => address'[r] # NoTarget
    <3>1. \A r \in Objects \ {n} : IsListed(r)' => IsListed(r) BY <2>1, <1>t DEF IsListed
    <3>2. QED BY <3>1, <2>1, <1>t DEF GuardInv, TargetsTypeOK
  <2>8. TargetsTypeOK' BY <2>5, <2>6, <2>7, <1>u DEF GuardInv, TargetsTypeOK, Work, Kinds
  <2>9. QED BY <2>5, <2>8 DEF GuardInv
<1>3. QED BY <1>1, <1>2

LEMMA TimerStep ==
  ASSUME GuardInv, NEW k \in Tasks, NEW d \in Devices,
         \/ \E kind \in {"start", "quality", "stop", "stopidle"} : TimerTask(k, kind, d)
         \/ RestartTask(k, d)
  PROVE  GuardInv'
<1>1. PICK kind \in Kinds \ {"move"} :
        /\ sessions[d] # NoTarget
        /\ QueueFor(k, kind, d, sessions[d], address[sessions[d]], NoTarget)
        /\ UNCHANGED <<row, sessions, address, available, streaming>>
  BY DEF TimerTask, RestartTask, Kinds
<1>2. sessions[d] \in Objects /\ address[sessions[d]] \in Addresses \cup {NoTarget}
  BY <1>1 DEF GuardInv, TargetsTypeOK
<1>3. task' \in [Tasks -> Work] /\ (AllFormed /\ KeyIsAddress /\ KeyHeldOnce /\ MoversTookIt)'
  BY <1>1, <1>2, QueueKeeps
<1>4. TargetsTypeOK' BY <1>1, <1>3, KeptTypes DEF GuardInv, TargetsTypeOK
<1>5. QED BY <1>3, <1>4 DEF GuardInv

LEMMA UpdateRowStep ==
  ASSUME GuardInv, NEW k \in Tasks, NEW d \in Devices, NEW where \in Addresses \cup {NoTarget},
         UpdateRow(k, d, where)
  PROVE  GuardInv'
<1> DEFINE x == [NoTask EXCEPT !.kind = IF where = NoTarget THEN "remove" ELSE "move",
                               !.d = d, !.pc = "call", !.goal = where]
<1>1. /\ row' = [row EXCEPT ![d] = where] /\ UNCHANGED <<sessions, address, available, streaming>>
      /\ task' = [task EXCEPT ![k] = x] \/ UNCHANGED task
  BY DEF UpdateRow
<1>2. x \in Work /\ x.pc \notin Holding /\ x.pc # "work" /\ Formed(x)
  <2>1. /\ x.kind \in {"remove", "move"} /\ x.d = d /\ x.pc = "call" /\ x.goal = where /\ x.s = NoTarget
        /\ x.kind = "move" => where # NoTarget
    BY Idle DEF NoTask
  <2>2. x \in Work BY Idle DEF NoTask, Work, Kinds
  <2>3. QED BY <2>1, <2>2 DEF Formed, Holding
<1> HIDE DEF x
<1>3. task' \in [Tasks -> Work] /\ (AllFormed /\ KeyIsAddress /\ KeyHeldOnce /\ MoversTookIt)'
  <2>1. CASE task' = [task EXCEPT ![k] = x] BY <1>1, <1>2, <2>1, OneTaskMoves
  <2>2. CASE UNCHANGED task BY <1>1, <2>2, NoTaskMoves, TaskIsWork DEF GuardInv
  <2>3. QED BY <1>1, <2>1, <2>2
<1>4. row' \in [Devices -> Addresses \cup {NoTarget}] BY <1>1 DEF GuardInv, TargetsTypeOK
<1>5. TargetsTypeOK' BY <1>1, <1>3, <1>4 DEF GuardInv, TargetsTypeOK, IsListed, Work, Kinds
<1>6. QED BY <1>3, <1>5 DEF GuardInv

LEMMA CallManagerStep == ASSUME GuardInv, NEW k \in Tasks, CallManager(k) PROVE GuardInv'
<1> DEFINE t == task[k]
           s == sessions[t.d]
<1>t. /\ t \in Work /\ Formed(t) /\ t.d \in Devices
      /\ sessions \in [Devices -> Objects \cup {NoTarget}]
      /\ address \in [Objects -> Addresses \cup {NoTarget}] /\ available \in [Objects -> BOOLEAN]
  BY TaskIsWork DEF GuardInv, AllFormed, Formed, CallManager, TargetsTypeOK
<1>u. UNCHANGED <<row, address, streaming>> BY DEF CallManager
<1>1. CASE s = NoTarget
  <2>1. TaskDone(k) /\ UNCHANGED <<sessions, available>> BY <1>1 DEF CallManager, TaskDone
  <2>2. task' \in [Tasks -> Work] /\ (AllFormed /\ KeyIsAddress /\ KeyHeldOnce /\ MoversTookIt)'
    BY <2>1, <1>u, DoneKeeps
  <2>3. TargetsTypeOK' BY <2>1, <2>2, <1>u, KeptTypes DEF GuardInv, TargetsTypeOK
  <2>4. QED BY <2>2, <2>3 DEF GuardInv
<1>2. CASE s # NoTarget
  <2>1. /\ QueueFor(k, t.kind, t.d, s, address[s], t.goal)
        /\ \/ /\ sessions' = [sessions EXCEPT ![t.d] = NoTarget]
              /\ available' = [available EXCEPT ![s] = FALSE]
           \/ UNCHANGED <<sessions, available>>
    BY <1>2 DEF CallManager
  <2>2. /\ s \in Objects /\ address[s] \in Addresses \cup {NoTarget} /\ t.kind \in Kinds
        /\ t.goal \in Addresses \cup {NoTarget} /\ (t.kind = "move" => t.goal # NoTarget)
    BY <1>2, <1>t DEF Work, Formed
  <2>3. /\ sessions' \in [Devices -> Objects \cup {NoTarget}] /\ available' \in [Objects -> BOOLEAN]
        /\ \A r \in Objects : IsListed(r)' => IsListed(r)
        /\ \A r \in Objects : ~available[r] => ~available'[r]
    <3>1. t.d \in Devices /\ s \in Objects BY <2>2, <1>t
    <3> HIDE DEF t, s
    <3>2. CASE /\ sessions' = [sessions EXCEPT ![t.d] = NoTarget]
               /\ available' = [available EXCEPT ![s] = FALSE]
      <4>1. NoTarget \notin Objects BY TargetsAssumption
      <4>2. \A e \in Devices : sessions'[e] = sessions[e] \/ sessions'[e] = NoTarget BY <3>1, <3>2, <1>t
      <4>3. \A r \in Objects : IsListed(r)' => IsListed(r) BY <4>1, <4>2 DEF IsListed
      <4>4. QED BY <4>3, <3>1, <3>2, <1>t
    <3>3. CASE UNCHANGED <<sessions, available>> BY <3>3, <1>t DEF IsListed
    <3>4. QED BY <2>1, <3>2, <3>3
  <2>4. \A j \in Tasks : task[j].pc \in Holding => task[j].s \in Objects
    BY DEF GuardInv, AllFormed, Formed, Holding
  <2>h. \A j \in Tasks : task[j].pc \in Holding =>
          /\ address'[task[j].s] = address[task[j].s]
          /\ ~available[task[j].s] => ~available'[task[j].s]
    BY <2>3, <2>4, <1>u
  <2> HIDE DEF t, s
  <2>5. task' \in [Tasks -> Work] /\ (AllFormed /\ KeyIsAddress /\ KeyHeldOnce /\ MoversTookIt)'
    BY <2>1, <2>2, <2>h, <1>t, QueueKeeps
  <2>6. TargetsTypeOK' BY <2>3, <2>5, <1>u DEF GuardInv, TargetsTypeOK, Work, Kinds
  <2>7. QED BY <2>5, <2>6 DEF GuardInv
<1>3. QED BY <1>1, <1>2

\* The lock of a key is taken only when it is free and is still the right one.
LEMMA TargetGuardStep == ASSUME GuardInv, NEW k \in Tasks, TargetGuard(k) PROVE GuardInv'
<1> DEFINE t == task[k]
           current == address[t.s]
           x == [t EXCEPT !.pc = IF current = t.key THEN "held" ELSE "wait", !.key = current]
<1>1. /\ t.pc = "wait" /\ ~Guarded(t.key) /\ UNCHANGED <<row, sessions, address, available, streaming>>
  BY DEF TargetGuard
<1>2. t \in Work /\ Formed(t) /\ t.s \in Objects /\ current \in Addresses \cup {NoTarget}
  BY <1>1, TaskIsWork DEF GuardInv, AllFormed, Formed, TargetsTypeOK
<1>3. task' = [task EXCEPT ![k] = x]
  <2>1. task \in [Tasks -> Work] BY TaskIsWork DEF GuardInv
  <2>2. task' = [task EXCEPT ![k].pc = IF current = t.key THEN "held" ELSE "wait", ![k].key = current]
    BY DEF TargetGuard
  <2>3. QED BY <2>1, <2>2
<1>4. /\ x \in Work /\ Formed(x) /\ x.s = t.s /\ x.key = current /\ x.pc \in {"held", "wait"}
      /\ x.pc = "held" => current = t.key
  BY <1>2 DEF Work, Formed
<1> HIDE DEF x
<1>5. x.pc \in Holding => \A j \in Tasks \ {k} : task[j].pc \in Holding => task[j].key # x.key
  BY <1>1, <1>4 DEF Guarded, HoldsKey, Holding
<1>6. x.key = address'[x.s] /\ x.pc # "work" BY <1>1, <1>4
<1>7. task' \in [Tasks -> Work] /\ (AllFormed /\ KeyIsAddress /\ KeyHeldOnce /\ MoversTookIt)'
  BY <1>1, <1>3, <1>4, <1>5, <1>6, OneTaskMoves
<1>8. TargetsTypeOK' BY <1>1, <1>7, KeptTypes DEF GuardInv, TargetsTypeOK
<1>9. QED BY <1>7, <1>8 DEF GuardInv

-----------------------------------------------------------------------------
LEMMA BeginStartStep == ASSUME GuardInv, NEW k \in Tasks, BeginStart(k) PROVE GuardInv'
<1>1. /\ task[k].pc = "held" /\ task[k].kind = "start" /\ (TaskDone(k) \/ TaskWorks(k))
      /\ UNCHANGED <<row, sessions, address, available, streaming>>
  BY DEF BeginStart
<1>2. task' \in [Tasks -> Work] /\ (AllFormed /\ KeyIsAddress /\ KeyHeldOnce /\ MoversTookIt)'
  <2>1. CASE TaskDone(k) BY <1>1, <2>1, DoneKeeps
  <2>2. CASE TaskWorks(k) BY <1>1, <2>2, WorkKeeps
  <2>3. QED BY <1>1, <2>1, <2>2
<1>3. TargetsTypeOK' BY <1>1, <1>2, KeptTypes DEF GuardInv, TargetsTypeOK
<1>4. QED BY <1>2, <1>3 DEF GuardInv

LEMMA BeginRestartStep == ASSUME GuardInv, NEW k \in Tasks, BeginRestart(k) PROVE GuardInv'
<1> DEFINE s == task[k].s
<1>1. /\ task[k].pc = "held" /\ task[k].kind # "move" /\ (TaskDone(k) \/ TaskWorks(k))
      /\ UNCHANGED <<row, sessions, address, available>>
      /\ UNCHANGED streaming \/ streaming' = [streaming EXCEPT ![s] = IF @ = "on" THEN "closing" ELSE @]
  BY DEF BeginRestart
<1>2. task' \in [Tasks -> Work] /\ (AllFormed /\ KeyIsAddress /\ KeyHeldOnce /\ MoversTookIt)'
  <2>1. CASE TaskDone(k) BY <1>1, <2>1, DoneKeeps
  <2>2. CASE TaskWorks(k) BY <1>1, <2>2, WorkKeeps
  <2>3. QED BY <1>1, <2>1, <2>2
<1>3. streaming' \in [Objects -> {"off", "on", "closing"}] BY <1>1 DEF GuardInv, TargetsTypeOK
<1>4. TargetsTypeOK' BY <1>1, <1>2, <1>3, KeptTypes DEF GuardInv, TargetsTypeOK
<1>5. QED BY <1>2, <1>4 DEF GuardInv

LEMMA EndStartStep == ASSUME GuardInv, NEW k \in Tasks, EndStart(k) PROVE GuardInv'
<1>1. /\ TaskDone(k) /\ UNCHANGED <<row, sessions, address, available>>
      /\ \E new \in {"on", "off"} : streaming' = [streaming EXCEPT ![task[k].s] = new]
  BY DEF EndStart
<1>2. task' \in [Tasks -> Work] /\ (AllFormed /\ KeyIsAddress /\ KeyHeldOnce /\ MoversTookIt)'
  BY <1>1, DoneKeeps
<1>3. streaming' \in [Objects -> {"off", "on", "closing"}] BY <1>1 DEF GuardInv, TargetsTypeOK
<1>4. TargetsTypeOK' BY <1>1, <1>2, <1>3, KeptTypes DEF GuardInv, TargetsTypeOK
<1>5. QED BY <1>2, <1>4 DEF GuardInv

LEMMA BeginStopStep == ASSUME GuardInv, NEW k \in Tasks, BeginStop(k) PROVE GuardInv'
<1> DEFINE s == task[k].s
<1>t. /\ s \in Objects /\ available \in [Objects -> BOOLEAN]
      /\ streaming \in [Objects -> {"off", "on", "closing"}]
  BY DEF GuardInv, AllFormed, Formed, BeginStop, TargetsTypeOK
<1>1. /\ task[k].pc = "held" /\ UNCHANGED <<row, sessions, address>>
      /\ \/ TaskDone(k) /\ UNCHANGED <<streaming, available>>
         \/ /\ TaskWorks(k)
            /\ streaming' = [streaming EXCEPT ![s] = IF @ = "on" THEN "closing" ELSE @]
            /\ available' = [available EXCEPT ![s] = @ /\ task[k].kind # "move"]
  BY DEF BeginStop
<1>2. CASE TaskDone(k) /\ UNCHANGED <<streaming, available>>
  <2>1. task' \in [Tasks -> Work] /\ (AllFormed /\ KeyIsAddress /\ KeyHeldOnce /\ MoversTookIt)'
    BY <1>1, <1>2, DoneKeeps
  <2>2. TargetsTypeOK' BY <1>1, <1>2, <2>1, <1>t, KeptTypes
  <2>3. QED BY <2>1, <2>2 DEF GuardInv
<1>3. CASE /\ TaskWorks(k)
           /\ streaming' = [streaming EXCEPT ![s] = IF @ = "on" THEN "closing" ELSE @]
           /\ available' = [available EXCEPT ![s] = @ /\ task[k].kind # "move"]
  <2>1. /\ available' \in [Objects -> BOOLEAN] /\ \A r \in Objects : ~available[r] => ~available'[r]
        /\ task[k].kind = "move" => ~available'[s]
    BY <1>3, <1>t
  <2>2. streaming' \in [Objects -> {"off", "on", "closing"}] BY <1>3, <1>t
  <2>3. task' \in [Tasks -> Work] /\ (AllFormed /\ KeyIsAddress /\ KeyHeldOnce /\ MoversTookIt)'
    BY <1>1, <1>3, <2>1, WorkKeeps
  <2>4. TargetsTypeOK' BY <1>1, <2>1, <2>2, <2>3, KeptTypes
  <2>5. QED BY <2>3, <2>4 DEF GuardInv
<1>4. QED BY <1>1, <1>2, <1>3

\* Nobody else works on the session whose address changes.
LEMMA EndStopStep == ASSUME GuardInv, NEW k \in Tasks, EndStop(k) PROVE GuardInv'
<1> DEFINE t == task[k]
<1>t. /\ t \in Work /\ Formed(t) /\ t.s \in Objects /\ t.pc = "work" /\ available \in [Objects -> BOOLEAN]
      /\ address \in [Objects -> Addresses \cup {NoTarget}]
      /\ streaming \in [Objects -> {"off", "on", "closing"}]
  BY TaskIsWork DEF GuardInv, AllFormed, Formed, EndStop, TargetsTypeOK
<1>1. /\ TaskDone(k) /\ UNCHANGED <<row, sessions>> /\ streaming' = [streaming EXCEPT ![t.s] = "off"]
      /\ \/ /\ t.kind = "move" /\ address' = [address EXCEPT ![t.s] = t.goal]
            /\ available' = [available EXCEPT ![t.s] = TRUE]
         \/ UNCHANGED <<address, available>>
  BY DEF EndStop
<1>2. \A j \in Tasks \ {k} : task[j].pc \in Holding => task[j].s \in Objects /\ task[j].s # t.s
  BY <1>t, CoversFromKeys DEF GuardCoversSession, Holding, GuardInv, AllFormed, Formed
<1>3. \A j \in Tasks \ {k} : task[j].pc \in Holding =>
        address'[task[j].s] = address[task[j].s] /\ available'[task[j].s] = available[task[j].s]
  BY <1>1, <1>2, <1>t
<1>4. task' \in [Tasks -> Work] /\ (AllFormed /\ KeyIsAddress /\ KeyHeldOnce /\ MoversTookIt)'
  BY <1>1, <1>3, DoneKeeps
<1>5. /\ address' \in [Objects -> Addresses \cup {NoTarget}] /\ available' \in [Objects -> BOOLEAN]
      /\ streaming' \in [Objects -> {"off", "on", "closing"}]
  BY <1>1, <1>t DEF Work
<1>6. \A r \in Objects : IsListed(r)' => address'[r] # NoTarget
  BY <1>1, <1>t DEF Formed, IsListed, GuardInv, TargetsTypeOK
<1>7. TargetsTypeOK' BY <1>1, <1>4, <1>5, <1>6 DEF GuardInv, TargetsTypeOK, Work, Kinds
<1>8. QED BY <1>4, <1>7 DEF GuardInv

LEMMA StreamStep ==
  ASSUME GuardInv, UNCHANGED <<row, sessions, address, available, task>>,
         streaming' \in [Objects -> {"off", "on", "closing"}]
  PROVE  GuardInv'
<1>1. (AllFormed /\ KeyIsAddress /\ KeyHeldOnce /\ MoversTookIt)' BY NoTaskMoves
<1>2. task' \in [Tasks -> Work] BY TaskIsWork DEF GuardInv
<1>3. TargetsTypeOK' BY <1>2, KeptTypes DEF GuardInv, TargetsTypeOK
<1>4. QED BY <1>1, <1>3 DEF GuardInv

LEMMA GuardStep == ASSUME GuardInv, [TargetsNext]_targetVars PROVE GuardInv'
<1>1. CASE \E k \in Tasks, d \in Devices, kind \in {"start", "quality", "stop", "stopidle"} :
             RequestTask(k, kind, d)
  BY <1>1, RequestStep
<1>2. CASE \E k \in Tasks, d \in Devices, kind \in {"start", "quality", "stop", "stopidle"} :
             TimerTask(k, kind, d) \/ RestartTask(k, d)
  BY <1>2, TimerStep
<1>3. CASE \E k \in Tasks, d \in Devices : RestartTask(k, d) BY <1>3, TimerStep
<1>4. CASE \E k \in Tasks, d \in Devices, a \in Addresses \cup {NoTarget} : UpdateRow(k, d, a)
  BY <1>4, UpdateRowStep
<1>5. CASE \E k \in Tasks : TargetStep(k)
  BY <1>5, CallManagerStep, TargetGuardStep, BeginStartStep, BeginRestartStep, EndStartStep,
     BeginStopStep, EndStopStep DEF TargetStep
<1>6. CASE \E s \in Objects : StreamEnds(s) \/ CleanedUp(s)
  <2>1. /\ UNCHANGED <<row, sessions, address, available, task>>
        /\ \E s \in Objects, new \in {"off", "closing"} : streaming' = [streaming EXCEPT ![s] = new]
    BY <1>6 DEF StreamEnds, CleanedUp
  <2>2. streaming' \in [Objects -> {"off", "on", "closing"}] BY <2>1 DEF GuardInv, TargetsTypeOK
  <2>3. QED BY <2>1, <2>2, StreamStep
<1>7. CASE UNCHANGED targetVars
  BY <1>7, StreamStep DEF targetVars, GuardInv, TargetsTypeOK
<1>8. QED BY <1>1, <1>2, <1>3, <1>4, <1>5, <1>6, <1>7 DEF TargetsNext

-----------------------------------------------------------------------------
\* Only EndStop changes the address of a session something refers to.
LEMMA MoveStep ==
  ASSUME GuardInv, [TargetsNext]_targetVars, NEW s \in Objects,
         address[s] # NoTarget, address'[s] # address[s], ~IsUnused(s)
  PROVE  streaming'[s] = "off" /\ ~available[s]
<1>t. /\ address \in [Objects -> Addresses \cup {NoTarget}]
      /\ streaming \in [Objects -> {"off", "on", "closing"}]
  BY DEF GuardInv, TargetsTypeOK
<1>1. address' # address OBVIOUS
<1>2. \/ \E k \in Tasks, d \in Devices, kind \in {"start", "quality", "stop", "stopidle"} :
           RequestTask(k, kind, d)
      \/ \E k \in Tasks : EndStop(k)
  BY <1>1 DEF TargetsNext, TargetStep, TimerTask, RestartTask, UpdateRow, CallManager, TargetGuard,
       BeginStart, BeginRestart, EndStart, BeginStop, StreamEnds, CleanedUp, targetVars
<1>3. CASE \E k \in Tasks, d \in Devices, kind \in {"start", "quality", "stop", "stopidle"} :
             RequestTask(k, kind, d)
  <2>1. PICK n \in Objects, a \in Addresses \cup {NoTarget} : IsUnused(n) /\ address' = [address EXCEPT ![n] = a]
    BY <1>1, <1>3 DEF RequestTask, GuardInv, TargetsTypeOK
  <2>2. n = s BY <2>1, <1>t
  <2>3. QED BY <2>1, <2>2
<1>4. CASE \E k \in Tasks : EndStop(k)
  <2>1. PICK k \in Tasks : EndStop(k) BY <1>4
  <2>2. /\ task[k].pc = "work" /\ task[k].kind = "move"
        /\ address' = [address EXCEPT ![task[k].s] = task[k].goal]
        /\ streaming' = [streaming EXCEPT ![task[k].s] = "off"]
    BY <2>1, <1>1 DEF EndStop
  <2>3. task[k].s = s BY <2>2, <1>t
  <2>4. QED BY <2>2, <2>3, <1>t DEF GuardInv, MoversTookIt
<1>5. QED BY <1>2, <1>3, <1>4

\* Two coroutines never work on one session: MirrorManager.target_guard computes the
\* key again with the lock in hand.
THEOREM GuardIsSound == TargetsSpec => []GuardCoversSession
<1>1. TargetsInit => GuardInv BY GuardInit
<1>2. GuardInv /\ [TargetsNext]_targetVars => GuardInv' BY GuardStep
<1>3. QED BY <1>1, <1>2, CoversFromKeys, PTL DEF TargetsSpec

\* A session is moved only once its transport is gone and nobody can start it:
\* reconfigure_device.
THEOREM SessionsMoveWhenOff == TargetsSpec => MovesWhenOff
<1>1. TargetsInit => GuardInv BY GuardInit
<1>2. GuardInv /\ [TargetsNext]_targetVars => GuardInv' BY GuardStep
<1> DEFINE Moves == \A s \in Objects : address[s] # NoTarget /\ address'[s] # address[s] /\ ~IsUnused(s)
                                         => streaming'[s] = "off" /\ ~available[s]
<1>3. GuardInv /\ [TargetsNext]_targetVars => [Moves]_targetVars
  <2>1. ASSUME GuardInv, [TargetsNext]_targetVars PROVE Moves BY <2>1, MoveStep
  <2>2. QED BY <2>1
<1>4. QED BY <1>1, <1>2, <1>3, PTL DEF TargetsSpec, MovesWhenOff

-----------------------------------------------------------------------------
(* The event sockets: no broadcast tells of what came after the right to view *)
(* was gone, pages are told the broadcasts in their order, and once these     *)
(* are out every page still connected shows the present state.               *)

PageStates == {"out", "joined", "snapped", "flushing", "ready", "gone"}
Open == {"joined", "snapped", "flushing", "ready"}
Casts == [pc : {"none", "rights", "send"}, state : Nat, left : SUBSET Pages, failed : SUBSET Pages]

EventTypeOK ==
  /\ now \in Nat /\ now <= MaxChanges /\ waiting \in Seq(Nat) /\ cast \in Casts
  /\ page \in [Pages -> PageStates] /\ listed \in SUBSET Pages
  /\ snap \in [Pages -> Nat] /\ pending \in [Pages -> Seq(Nat)]
  /\ sending \in [Pages -> {"no", "hello", "cast"}]
  /\ seen \in [Pages -> Nat] /\ until \in [Pages -> Nat]

\* The last state a broadcast has begun with.  Those that wait are the states after it.
Told == now - Len(waiting)
CastsInOrder ==
  /\ Len(waiting) <= now
  /\ \A i \in 1..Len(waiting) : waiting[i] = Told + i
  /\ cast.pc # "none" => cast.state = Told
  /\ cast.pc = "none" => cast.left = {} /\ cast.failed = {}

\* A page is in the dict while it is open; only a ready one is sent broadcasts.
Registered(c) ==
  /\ c \in listed <=> page[c] \in Open
  /\ page[c] = "out" => c \notin cast.left /\ pending[c] = <<>>
  /\ sending[c] = "cast" => cast.pc = "send" /\ c \in cast.left /\ page[c] \in {"ready", "gone"}

\* What is kept for a page, and what it has been told, is not newer than the last
\* broadcast and than its right; its hello message is not newer than the session.
NotAhead(c) ==
  /\ snap[c] <= now
  /\ \A i \in 1..Len(pending[c]) : pending[c][i] <= Told /\ pending[c][i] <= until[c]
  /\ cast.pc = "send" /\ c \in cast.left => Told <= until[c]
  /\ page[c] = "flushing" => seen[c] = snap[c]
  /\ page[c] = "ready" /\ seen[c] # snap[c] => seen[c] <= Told /\ seen[c] <= until[c]

\* What a page knows, or will know when it is ready, unless more is broadcast.
Known(c) ==
  IF page[c] = "ready" THEN seen[c]
  ELSE IF pending[c] # <<>> THEN pending[c][Len(pending[c])]
  ELSE IF page[c] = "joined" THEN now ELSE snap[c]

\* It has not missed a broadcast but the one that is under way, or is to be closed.
NotBehind(c) ==
  MayView(c) /\ page[c] \in Open => c \in cast.left \/ c \in cast.failed \/ Known(c) >= Told

PageOK(c) == Registered(c) /\ NotAhead(c) /\ NotBehind(c)
EventInv == EventTypeOK /\ CastsInOrder /\ \A c \in Pages : PageOK(c)

-----------------------------------------------------------------------------
LEMMA ToldIsNat == EventInv => Len(waiting) \in Nat /\ Told \in Nat /\ Told <= now
BY DEF EventInv, EventTypeOK, CastsInOrder, Told

LEMMA CastFields ==
  ASSUME EventInv
  PROVE  /\ cast.pc \in {"none", "rights", "send"} /\ cast.state \in Nat
         /\ cast.left \in SUBSET Pages /\ cast.failed \in SUBSET Pages
BY DEF EventInv, EventTypeOK, Casts

LEMMA ToldRight == EventInv => NotToldAfterRevoke
BY DEF EventInv, PageOK, NotAhead, NotToldAfterRevoke

LEMMA CurrentFromInv == EventInv => PagesCurrent
<1> SUFFICES ASSUME EventInv, cast.pc = "none", waiting = <<>>, NEW c \in Pages, page[c] = "ready", MayView(c)
             PROVE  seen[c] = now
  BY DEF PagesCurrent
<1>1. Told = now BY DEF Told, EventInv, EventTypeOK
<1>2. seen[c] >= Told
  BY DEF EventInv, PageOK, NotBehind, Known, CastsInOrder, Open
<1>3. seen[c] <= now BY <1>1 DEF EventInv, PageOK, NotAhead, EventTypeOK
<1>4. QED BY <1>1, <1>2, <1>3 DEF EventInv, EventTypeOK

LEMMA EventInitInv == EventInit => EventInv
<1> SUFFICES ASSUME EventInit PROVE EventInv OBVIOUS
<1>1. cast \in Casts /\ cast.pc = "none" /\ cast.left = {} /\ cast.failed = {}
  BY DEF EventInit, NoCast, Casts
<1>2. Forever \in Nat BY EventAssumption DEF Forever
<1>3. EventTypeOK BY <1>1, <1>2, EventAssumption DEF EventInit, EventTypeOK, PageStates
<1>4. CastsInOrder BY <1>1 DEF EventInit, CastsInOrder, Told
<1>5. \A c \in Pages : PageOK(c)
  BY <1>1 DEF EventInit, PageOK, Registered, NotAhead, NotBehind, Told, Open
<1>6. QED BY <1>3, <1>4, <1>5 DEF EventInv

-----------------------------------------------------------------------------
\* A page the step has nothing to do with.
LEMMA PageKept ==
  ASSUME EventInv, NEW e \in Pages, now' \in Nat, now' >= now, Told' = Told,
         cast'.pc = cast.pc, e \in cast'.left <=> e \in cast.left, e \in cast'.failed <=> e \in cast.failed,
         e \in listed' <=> e \in listed,
         page'[e] = page[e], snap'[e] = snap[e], pending'[e] = pending[e], sending'[e] = sending[e],
         seen'[e] = seen[e], until'[e] = until[e]
  PROVE  PageOK(e)'
<1>1. PageOK(e) /\ now \in Nat /\ snap[e] \in Nat BY DEF EventInv, EventTypeOK
<1>2. Registered(e)' BY <1>1 DEF PageOK, Registered
<1>3. NotAhead(e)' BY <1>1 DEF PageOK, NotAhead
<1>4. NotBehind(e)'
  <2>1. Told <= now /\ Told \in Nat BY ToldIsNat
  <2>2. Known(e)' = Known(e) \/ Known(e)' = now' BY DEF Known
  <2>3. QED BY <1>1, <2>1, <2>2 DEF PageOK, NotBehind, MayView
<1>5. QED BY <1>2, <1>3, <1>4 DEF PageOK

LEMMA ChangeStep == ASSUME EventInv, Change PROVE EventInv'
<1>1. /\ now < MaxChanges /\ now' = now + 1 /\ waiting' = Append(waiting, now + 1)
      /\ UNCHANGED <<cast, page, listed, snap, pending, sending, seen, until>>
  BY DEF Change
<1>2. /\ waiting' \in Seq(Nat) /\ Len(waiting') = Len(waiting) + 1
      /\ \A i \in 1..Len(waiting) : waiting'[i] = waiting[i]
      /\ waiting'[Len(waiting) + 1] = now + 1
  BY <1>1 DEF EventInv, EventTypeOK
<1>3. Told' = Told /\ now' \in Nat /\ now' >= now
  BY <1>1, <1>2, ToldIsNat DEF Told, EventInv, EventTypeOK
<1>4. EventTypeOK' BY <1>1, <1>2, EventAssumption DEF EventInv, EventTypeOK
<1>5. CastsInOrder'
  <2>1. Len(waiting) \in Nat /\ now \in Nat BY ToldIsNat DEF EventInv, EventTypeOK
  <2>2. Told + (Len(waiting) + 1) = now + 1 BY <2>1 DEF Told
  <2>3. \A i \in 1..Len(waiting') : i \in 1..Len(waiting) \/ i = Len(waiting) + 1 BY <2>1, <1>2
  <2>4. \A i \in 1..Len(waiting') : waiting'[i] = Told' + i
    BY <1>2, <1>3, <2>2, <2>3 DEF EventInv, CastsInOrder
  <2>5. QED BY <2>1, <2>4, <1>1, <1>2, <1>3 DEF EventInv, CastsInOrder
<1>6. \A e \in Pages : PageOK(e)' BY <1>1, <1>3, PageKept
<1>7. QED BY <1>4, <1>5, <1>6 DEF EventInv

\* Lemmas of a page that does something, and of the broadcast that does not begin or end.
LEMMA OrderKept ==
  ASSUME EventInv, UNCHANGED <<now, waiting>>, cast' \in Casts, cast'.pc = cast.pc, cast'.state = cast.state,
         cast.pc # "none" \/ UNCHANGED cast
  PROVE  CastsInOrder' /\ Told' = Told
BY DEF EventInv, CastsInOrder, Told

LEMMA PageMoves ==
  ASSUME EventInv, NEW c \in Pages, UNCHANGED <<now, waiting>>, cast' \in Casts,
         cast'.pc = cast.pc, cast'.state = cast.state, cast.pc # "none" \/ UNCHANGED cast,
         EventTypeOK', PageOK(c)',
         \A e \in Pages \ {c} :
           /\ e \in cast'.left <=> e \in cast.left
           /\ e \in cast'.failed <=> e \in cast.failed
           /\ e \in listed' <=> e \in listed
           /\ page'[e] = page[e] /\ snap'[e] = snap[e] /\ pending'[e] = pending[e]
           /\ sending'[e] = sending[e] /\ seen'[e] = seen[e] /\ until'[e] = until[e]
  PROVE  EventInv'
<1>1. CastsInOrder' /\ Told' = Told BY OrderKept
<1>2. now \in Nat /\ now' = now BY DEF EventInv, EventTypeOK
<1>3. \A e \in Pages \ {c} : PageOK(e)' BY <1>1, <1>2, PageKept
<1>4. QED BY <1>1, <1>3 DEF EventInv

LEMMA PageJoinStep == ASSUME EventInv, NEW c \in Pages, Join(c) PROVE EventInv'
<1>1. /\ page[c] = "out" /\ page' = [page EXCEPT ![c] = "joined"] /\ listed' = listed \cup {c}
      /\ UNCHANGED <<now, waiting, cast, snap, pending, sending, seen, until>>
  BY DEF Join
<1>t. EventTypeOK' BY <1>1 DEF EventInv, EventTypeOK, PageStates
<1>2. page'[c] = "joined" /\ \A e \in Pages \ {c} : page'[e] = page[e] BY <1>1 DEF EventInv, EventTypeOK
<1>3. Told' = Told /\ Told \in Nat /\ Told <= now BY <1>1, ToldIsNat DEF Told
<1>4. PageOK(c)'
  <2>1. PageOK(c) BY DEF EventInv
  <2>2. Registered(c)' BY <2>1, <1>1, <1>2 DEF PageOK, Registered, Open
  <2>3. NotAhead(c)' BY <2>1, <1>1, <1>2, <1>3 DEF PageOK, NotAhead
  <2>4. NotBehind(c)' BY <2>1, <1>1, <1>2, <1>3 DEF PageOK, Registered, NotBehind, Known
  <2>5. QED BY <2>2, <2>3, <2>4 DEF PageOK
<1>5. QED BY <1>1, <1>2, <1>t, <1>4, PageMoves DEF EventInv, EventTypeOK

LEMMA TakeSnapshotStep == ASSUME EventInv, NEW c \in Pages, TakeSnapshot(c) PROVE EventInv'
<1>1. /\ page[c] = "joined" /\ page' = [page EXCEPT ![c] = "snapped"]
      /\ snap' = [snap EXCEPT ![c] = now] /\ sending' = [sending EXCEPT ![c] = "hello"]
      /\ UNCHANGED <<now, waiting, cast, listed, pending, seen, until>>
  BY DEF TakeSnapshot
<1>t. EventTypeOK' BY <1>1 DEF EventInv, EventTypeOK, PageStates
<1>2. /\ page'[c] = "snapped" /\ snap'[c] = now /\ sending'[c] = "hello"
      /\ \A e \in Pages \ {c} : page'[e] = page[e] /\ snap'[e] = snap[e] /\ sending'[e] = sending[e]
  BY <1>1 DEF EventInv, EventTypeOK
<1>3. Told' = Told /\ Told \in Nat /\ Told <= now /\ now \in Nat
  BY <1>1, ToldIsNat DEF Told, EventInv, EventTypeOK
<1>4. PageOK(c)'
  <2>1. PageOK(c) BY DEF EventInv
  <2>2. Registered(c)' BY <2>1, <1>1, <1>2 DEF PageOK, Registered, Open
  <2>3. NotAhead(c)' BY <2>1, <1>1, <1>2, <1>3 DEF PageOK, NotAhead
  <2>4. NotBehind(c)' BY <2>1, <1>1, <1>2, <1>3 DEF PageOK, NotBehind, Known, MayView, Open
  <2>5. QED BY <2>2, <2>3, <2>4 DEF PageOK
<1>5. QED BY <1>1, <1>2, <1>t, <1>4, PageMoves DEF EventInv, EventTypeOK

LEMMA SendHelloStep == ASSUME EventInv, NEW c \in Pages, SendHello(c) PROVE EventInv'
<1>1. /\ page[c] = "snapped" /\ page' = [page EXCEPT ![c] = "flushing"]
      /\ seen' = [seen EXCEPT ![c] = snap[c]]
      /\ UNCHANGED <<now, waiting, cast, listed, snap, pending, sending, until>>
  BY DEF SendHello
<1>t. EventTypeOK' BY <1>1 DEF EventInv, EventTypeOK, PageStates
<1>2. /\ page'[c] = "flushing" /\ seen'[c] = snap[c]
      /\ \A e \in Pages \ {c} : page'[e] = page[e] /\ seen'[e] = seen[e]
  BY <1>1 DEF EventInv, EventTypeOK
<1>3. Told' = Told BY <1>1 DEF Told
<1>4. PageOK(c)'
  <2>1. PageOK(c) BY DEF EventInv
  <2>2. Registered(c)' BY <2>1, <1>1, <1>2 DEF PageOK, Registered, Open
  <2>3. NotAhead(c)' BY <2>1, <1>1, <1>2, <1>3 DEF PageOK, NotAhead
  <2>4. NotBehind(c)' BY <2>1, <1>1, <1>2, <1>3 DEF PageOK, NotBehind, Known, MayView, Open
  <2>5. QED BY <2>2, <2>3, <2>4 DEF PageOK
<1>5. QED BY <1>1, <1>2, <1>t, <1>4, PageMoves DEF EventInv, EventTypeOK

\* The last of what was kept is the newest a page has to be told.
LEMMA FlushPendingStep == ASSUME EventInv, NEW c \in Pages, FlushPending(c) PROVE EventInv'
<1> DEFINE kept == pending[c]
<1>1. /\ page[c] = "flushing" /\ page' = [page EXCEPT ![c] = "ready"]
      /\ seen' = [seen EXCEPT ![c] = IF kept = <<>> THEN @ ELSE kept[Len(kept)]]
      /\ pending' = [pending EXCEPT ![c] = <<>>] /\ sending' = [sending EXCEPT ![c] = "no"]
      /\ UNCHANGED <<now, waiting, cast, listed, snap, until>>
  BY DEF FlushPending, Last
<1>k. kept \in Seq(Nat) /\ kept # <<>> => Len(kept) \in 1..Len(kept) /\ kept[Len(kept)] \in Nat
  BY DEF EventInv, EventTypeOK
<1>t. EventTypeOK'
  <2>1. <<>> \in Seq(Nat) OBVIOUS
  <2>2. kept \in Seq(Nat) BY DEF EventInv, EventTypeOK
  <2>3. seen' \in [Pages -> Nat]
    <3>1. (IF kept = <<>> THEN seen[c] ELSE kept[Len(kept)]) \in Nat BY <2>2, <1>k DEF EventInv, EventTypeOK
    <3>2. QED BY <1>1, <3>1 DEF EventInv, EventTypeOK
  <2>4. pending' \in [Pages -> Seq(Nat)] BY <1>1, <2>1 DEF EventInv, EventTypeOK
  <2>5. QED BY <1>1, <2>3, <2>4 DEF EventInv, EventTypeOK, PageStates
<1>2. /\ page'[c] = "ready" /\ seen'[c] = (IF kept = <<>> THEN seen[c] ELSE kept[Len(kept)])
      /\ pending'[c] = <<>> /\ sending'[c] = "no"
      /\ \A e \in Pages \ {c} : /\ page'[e] = page[e] /\ seen'[e] = seen[e] /\ pending'[e] = pending[e]
                                /\ sending'[e] = sending[e]
  BY <1>1 DEF EventInv, EventTypeOK
<1>3. Told' = Told BY <1>1 DEF Told
<1>4. PageOK(c)'
  <2>1. PageOK(c) /\ kept \in Seq(Nat) BY DEF EventInv, EventTypeOK
  <2>2. Registered(c)' BY <2>1, <1>1, <1>2 DEF PageOK, Registered, Open
  <2>3. NotAhead(c)' BY <2>1, <1>1, <1>2, <1>3, <1>k DEF PageOK, NotAhead
  <2>4. NotBehind(c)'
    <3>1. Known(c) = Known(c)' BY <2>1, <1>1, <1>2 DEF PageOK, NotAhead, Known
    <3>2. QED BY <2>1, <1>1, <1>2, <1>3, <3>1 DEF PageOK, NotBehind, MayView, Open
  <2>5. QED BY <2>2, <2>3, <2>4 DEF PageOK
<1>5. QED BY <1>1, <1>2, <1>t, <1>4, PageMoves DEF EventInv, EventTypeOK

LEMMA GoAwayStep == ASSUME EventInv, NEW c \in Pages, GoAway(c) PROVE EventInv'
<1>1. /\ page' = [page EXCEPT ![c] = "gone"] /\ listed' = listed \ {c}
      /\ sending' = [sending EXCEPT ![c] = IF @ = "hello" THEN "no" ELSE @]
      /\ UNCHANGED <<now, waiting, cast, snap, pending, seen, until>>
  BY DEF GoAway
<1>t. EventTypeOK' BY <1>1 DEF EventInv, EventTypeOK, PageStates
<1>2. /\ page'[c] = "gone" /\ sending'[c] \in {"no", sending[c]}
      /\ \A e \in Pages \ {c} : page'[e] = page[e] /\ sending'[e] = sending[e]
  BY <1>1 DEF EventInv, EventTypeOK
<1>3. Told' = Told BY <1>1 DEF Told
<1>4. PageOK(c)'
  <2>1. PageOK(c) BY DEF EventInv
  <2>2. Registered(c)' BY <2>1, <1>1, <1>2 DEF PageOK, Registered, Open
  <2>3. NotAhead(c)' BY <2>1, <1>1, <1>2, <1>3 DEF PageOK, NotAhead
  <2>4. NotBehind(c)' BY <1>2 DEF NotBehind, Open
  <2>5. QED BY <2>2, <2>3, <2>4 DEF PageOK
<1>5. QED BY <1>1, <1>2, <1>t, <1>4, PageMoves DEF EventInv, EventTypeOK

\* What was told before is not newer than the session is when the right goes.
LEMMA RevokeViewStep == ASSUME EventInv, NEW c \in Pages, RevokeView(c) PROVE EventInv'
<1>1. /\ until' = [until EXCEPT ![c] = now]
      /\ UNCHANGED <<now, waiting, cast, page, listed, snap, pending, sending, seen>>
  BY DEF RevokeView
<1>t. EventTypeOK' BY <1>1 DEF EventInv, EventTypeOK
<1>2. until'[c] = now /\ \A e \in Pages \ {c} : until'[e] = until[e] BY <1>1 DEF EventInv, EventTypeOK
<1>3. Told' = Told /\ Told \in Nat /\ Told <= now /\ now \in Nat /\ now # Forever
  BY <1>1, ToldIsNat, EventAssumption DEF Told, EventInv, EventTypeOK, Forever
<1>4. PageOK(c)'
  <2>1. PageOK(c) BY DEF EventInv
  <2>2. Registered(c)' BY <2>1, <1>1 DEF PageOK, Registered
  <2>3. NotAhead(c)'
    <3>1. \A i \in 1..Len(pending[c]) : pending[c][i] <= now
      <4>1. \A i \in 1..Len(pending[c]) : pending[c][i] \in Nat BY DEF EventInv, EventTypeOK
      <4>2. QED BY <4>1, <2>1, <1>3 DEF PageOK, NotAhead
    <3>2. seen[c] \in Nat BY DEF EventInv, EventTypeOK
    <3>3. QED BY <3>1, <3>2, <2>1, <1>1, <1>2, <1>3 DEF PageOK, NotAhead
  <2>4. NotBehind(c)' BY <1>2, <1>1, <1>3 DEF NotBehind, MayView, Forever
  <2>5. QED BY <2>2, <2>3, <2>4 DEF PageOK
<1>5. QED BY <1>1, <1>2, <1>t, <1>4, PageMoves DEF EventInv, EventTypeOK

-----------------------------------------------------------------------------
\* Everybody who is in the dict is one of those the broadcast has to be sent to.
LEMMA BeginCastStep == ASSUME EventInv, BeginCast PROVE EventInv'
<1>1. /\ cast.pc = "none" /\ waiting # <<>> /\ waiting' = Tail(waiting)
      /\ UNCHANGED <<now, page, listed, snap, pending, sending, seen, until>>
      /\ cast' = [NoCast EXCEPT !.pc = IF listed = {} THEN "none" ELSE "rights",
                                !.state = Head(waiting), !.left = listed]
  BY DEF BeginCast
<1>2. /\ waiting \in Seq(Nat) /\ waiting' \in Seq(Nat) /\ Len(waiting') = Len(waiting) - 1
      /\ Head(waiting) = waiting[1] /\ Head(waiting) \in Nat /\ Len(waiting) \in Nat /\ 1 \in 1..Len(waiting)
      /\ \A i \in 1..Len(waiting') : waiting'[i] = waiting[i + 1] /\ i + 1 \in 1..Len(waiting)
  BY <1>1 DEF EventInv, EventTypeOK
<1>3. Told' = Told + 1 /\ Told \in Nat /\ now \in Nat /\ Told' <= now
  BY <1>1, <1>2, ToldIsNat DEF Told, EventInv, EventTypeOK, CastsInOrder
<1>4. /\ cast' \in Casts /\ cast'.left = listed /\ cast'.failed = {} /\ cast'.state = Head(waiting)
      /\ cast'.pc = (IF listed = {} THEN "none" ELSE "rights")
  BY <1>1, <1>2 DEF NoCast, Casts, EventInv, EventTypeOK
<1>5. EventTypeOK' BY <1>1, <1>2, <1>4 DEF EventInv, EventTypeOK
<1>6. CastsInOrder'
  <2>1. cast'.state = Told' BY <1>2, <1>3, <1>4 DEF EventInv, CastsInOrder
  <2>2. \A i \in 1..Len(waiting') : waiting'[i] = Told' + i
    <3> SUFFICES ASSUME NEW i \in 1..Len(waiting') PROVE waiting'[i] = Told' + i OBVIOUS
    <3>1. waiting'[i] = Told + (i + 1) BY <1>2 DEF EventInv, CastsInOrder
    <3>2. QED BY <3>1, <1>3
  <2>3. Len(waiting') <= now' BY <1>1, <1>2 DEF EventInv, CastsInOrder, EventTypeOK
  <2>4. QED BY <2>1, <2>2, <2>3, <1>4 DEF CastsInOrder
<1>7. ASSUME NEW e \in Pages PROVE PageOK(e)'
  <2>1. PageOK(e) BY DEF EventInv
  <2>2. Registered(e)' BY <2>1, <1>1, <1>4 DEF PageOK, Registered, Open
  <2>3. NotAhead(e)'
    <3>1. \A i \in 1..Len(pending[e]) : pending[e][i] \in Nat BY DEF EventInv, EventTypeOK
    <3>2. seen[e] \in Nat /\ snap[e] \in Nat BY DEF EventInv, EventTypeOK
    <3>3. QED BY <3>1, <3>2, <2>1, <1>1, <1>3, <1>4 DEF PageOK, NotAhead
  <2>4. NotBehind(e)' BY <2>1, <1>1, <1>4 DEF PageOK, Registered, NotBehind
  <2>5. QED BY <2>2, <2>3, <2>4 DEF PageOK
<1>8. QED BY <1>5, <1>6, <1>7 DEF EventInv

\* The rights are looked up after the broadcast has begun: who has the right now
\* has it for the state of the broadcast.
LEMMA ReadRightsStep == ASSUME EventInv, ReadRights PROVE EventInv'
<1>1. /\ cast.pc = "rights" /\ cast' = [cast EXCEPT !.pc = "send", !.left = {c \in @ : MayView(c)}]
      /\ UNCHANGED <<now, waiting, page, listed, snap, pending, sending, seen, until>>
  BY DEF ReadRights
<1>2. /\ cast' \in Casts /\ cast'.pc = "send" /\ cast'.left = {c \in cast.left : MayView(c)}
      /\ cast'.failed = cast.failed /\ cast'.state = cast.state
  BY <1>1 DEF EventInv, EventTypeOK, Casts
<1>3. Told' = Told /\ Told \in Nat /\ Told <= now /\ now \in Nat /\ now <= Forever
  BY <1>1, ToldIsNat, EventAssumption DEF Told, EventInv, EventTypeOK, Forever
<1>4. EventTypeOK' BY <1>1, <1>2 DEF EventInv, EventTypeOK
<1>5. CastsInOrder' BY <1>1, <1>2, <1>3 DEF EventInv, CastsInOrder
<1>6. ASSUME NEW e \in Pages PROVE PageOK(e)'
  <2>1. PageOK(e) BY DEF EventInv
  <2>2. Registered(e)' BY <2>1, <1>1, <1>2 DEF PageOK, Registered
  <2>3. NotAhead(e)'
    <3>1. e \in cast'.left => Told <= until[e]
      BY <1>2, <1>3, EventAssumption DEF MayView, Forever
    <3>2. QED BY <3>1, <2>1, <1>1, <1>3 DEF PageOK, NotAhead
  <2>4. NotBehind(e)'
    <3>1. Known(e)' = Known(e) BY <1>1 DEF Known
    <3>2. QED BY <3>1, <2>1, <1>1, <1>2, <1>3 DEF PageOK, NotBehind, MayView
  <2>5. QED BY <2>2, <2>3, <2>4 DEF PageOK
<1>7. QED BY <1>4, <1>5, <1>6 DEF EventInv

LEMMA CastToStep == ASSUME EventInv, NEW c \in Pages, CastTo(c) PROVE EventInv'
<1>1. /\ cast.pc = "send" /\ c \in cast.left /\ sending[c] = "no"
      /\ UNCHANGED <<now, waiting, page, listed, snap, seen, until>>
  BY DEF CastTo
<1>f. PageOK(c) /\ cast.state = Told /\ cast \in Casts BY <1>1 DEF EventInv, CastsInOrder, EventTypeOK
<1>3. Told' = Told /\ Told \in Nat BY <1>1, ToldIsNat DEF Told
<1>4. CASE page[c] = "ready"
  <2>1. sending' = [sending EXCEPT ![c] = "cast"] /\ UNCHANGED <<pending, cast>> BY <1>4 DEF CastTo
  <2>t. EventTypeOK' BY <1>1, <2>1 DEF EventInv, EventTypeOK
  <2>2. sending'[c] = "cast" /\ \A e \in Pages \ {c} : sending'[e] = sending[e]
    BY <2>1 DEF EventInv, EventTypeOK
  <2>3. Registered(c)' BY <1>f, <1>1, <1>4, <2>1 DEF PageOK, Registered, Open
  <2>4. NotAhead(c)' BY <1>f, <1>1, <1>3, <2>1 DEF PageOK, NotAhead
  <2>5. NotBehind(c)' BY <1>1, <2>1 DEF NotBehind
  <2>6. PageOK(c)' BY <2>3, <2>4, <2>5 DEF PageOK
  <2>7. QED BY <1>1, <1>f, <2>1, <2>2, <2>t, <2>6, PageMoves DEF EventInv, EventTypeOK
<1>5. CASE page[c] # "ready"
  <2>1. /\ pending' = [pending EXCEPT ![c] = Append(@, cast.state)]
        /\ cast' = [cast EXCEPT !.left = @ \ {c}] /\ UNCHANGED sending
    BY <1>5 DEF CastTo
  <2>2. /\ cast' \in Casts /\ cast'.left = cast.left \ {c}
        /\ cast'.pc = cast.pc /\ cast'.state = cast.state /\ cast'.failed = cast.failed
    BY <2>1, <1>f DEF Casts
  <2>3. /\ pending[c] \in Seq(Nat) /\ Told \in Nat /\ pending'[c] = Append(pending[c], Told)
        /\ \A e \in Pages \ {c} : pending'[e] = pending[e]
    BY <1>f, <2>1, <1>3 DEF EventInv, EventTypeOK
  <2>4. /\ Len(pending[c]) \in Nat /\ pending'[c] \in Seq(Nat) /\ Len(pending'[c]) = Len(pending[c]) + 1
        /\ pending'[c][Len(pending'[c])] = Told /\ pending'[c] # <<>>
        /\ \A i \in 1..Len(pending'[c]) : 
             pending'[c][i] = Told \/ (i \in 1..Len(pending[c]) /\ pending'[c][i] = pending[c][i])
    BY <2>3
  <2>t. EventTypeOK'
    <3>1. pending' \in [Pages -> Seq(Nat)] BY <2>1, <2>3, <2>4 DEF EventInv, EventTypeOK
    <3>2. QED BY <1>1, <2>1, <2>2, <3>1 DEF EventInv, EventTypeOK
  <2>5. Registered(c)' BY <1>f, <1>1, <2>1, <2>2 DEF PageOK, Registered
  <2>6. NotAhead(c)'
    <3>1. \A i \in 1..Len(pending'[c]) : pending'[c][i] <= Told /\ pending'[c][i] <= until[c]
      BY <1>1, <1>f, <1>3, <2>4 DEF PageOK, NotAhead
    <3>2. QED BY <3>1, <1>f, <1>1, <1>3, <1>5, <2>2 DEF PageOK, NotAhead
  <2>7. NotBehind(c)' BY <1>1, <1>3, <1>5, <2>4 DEF NotBehind, Known
  <2>8. PageOK(c)' BY <2>5, <2>6, <2>7 DEF PageOK
  <2>9. \A e \in Pages \ {c} : e \in cast'.left <=> e \in cast.left BY <2>2
  <2>10. QED BY <1>1, <2>1, <2>2, <2>3, <2>9, <2>t, <2>8, PageMoves
<1>6. QED BY <1>4, <1>5

LEMMA CastSentStep == ASSUME EventInv, NEW c \in Pages, CastSent(c) PROVE EventInv'
<1>1. /\ sending[c] = "cast" /\ sending' = [sending EXCEPT ![c] = "no"]
      /\ cast' = [cast EXCEPT !.left = @ \ {c}] /\ seen' = [seen EXCEPT ![c] = cast.state]
      /\ UNCHANGED <<now, waiting, page, listed, snap, pending, until>>
  BY DEF CastSent
<1>f. /\ PageOK(c) /\ cast.pc = "send" /\ c \in cast.left /\ page[c] \in {"ready", "gone"}
      /\ cast.state = Told /\ cast \in Casts
  BY <1>1 DEF EventInv, CastsInOrder, EventTypeOK, PageOK, Registered
<1>2. /\ cast' \in Casts /\ cast'.left = cast.left \ {c}
      /\ cast'.pc = cast.pc /\ cast'.state = cast.state /\ cast'.failed = cast.failed
  BY <1>1, <1>f DEF Casts
<1>3. Told' = Told /\ Told \in Nat BY <1>1, ToldIsNat DEF Told
<1>t. EventTypeOK' BY <1>1, <1>2, <1>3, <1>f DEF EventInv, EventTypeOK
<1>4. /\ seen'[c] = Told /\ sending'[c] = "no"
      /\ \A e \in Pages \ {c} : seen'[e] = seen[e] /\ sending'[e] = sending[e]
  BY <1>1, <1>f DEF EventInv, EventTypeOK
<1>5. Registered(c)' BY <1>f, <1>1, <1>2, <1>4 DEF PageOK, Registered
<1>6. NotAhead(c)' BY <1>f, <1>1, <1>2, <1>3, <1>4 DEF PageOK, NotAhead
<1>7. NotBehind(c)' BY <1>f, <1>1, <1>3, <1>4 DEF NotBehind, Known, Open
<1>8. PageOK(c)' BY <1>5, <1>6, <1>7 DEF PageOK
<1>9. \A e \in Pages \ {c} : e \in cast'.left <=> e \in cast.left BY <1>2
<1>10. QED BY <1>1, <1>f, <1>2, <1>4, <1>9, <1>t, <1>8, PageMoves

LEMMA CastFailsStep == ASSUME EventInv, NEW c \in Pages, CastFails(c) PROVE EventInv'
<1>1. /\ cast.pc = "send" /\ c \in cast.left
      /\ sending' = [sending EXCEPT ![c] = IF @ = "cast" THEN "no" ELSE @]
      /\ cast' = [cast EXCEPT !.left = @ \ {c}, !.failed = @ \cup {c}]
      /\ UNCHANGED <<now, waiting, page, listed, snap, pending, seen, until>>
  BY DEF CastFails
<1>f. PageOK(c) /\ cast \in Casts BY DEF EventInv, EventTypeOK
<1>2. /\ cast' \in Casts /\ cast'.left = cast.left \ {c} /\ cast'.failed = cast.failed \cup {c}
      /\ cast'.pc = cast.pc /\ cast'.state = cast.state
  BY <1>1, <1>f DEF Casts
<1>3. Told' = Told BY <1>1 DEF Told
<1>t. EventTypeOK' BY <1>1, <1>2 DEF EventInv, EventTypeOK
<1>4. sending'[c] # "cast" /\ \A e \in Pages \ {c} : sending'[e] = sending[e]
  BY <1>1 DEF EventInv, EventTypeOK
<1>5. Registered(c)' BY <1>f, <1>1, <1>2, <1>4 DEF PageOK, Registered
<1>6. NotAhead(c)' BY <1>f, <1>1, <1>2, <1>3 DEF PageOK, NotAhead
<1>7. NotBehind(c)' BY <1>2 DEF NotBehind
<1>8. PageOK(c)' BY <1>5, <1>6, <1>7 DEF PageOK
<1>9. \A e \in Pages \ {c} : (e \in cast'.left <=> e \in cast.left) /\ (e \in cast'.failed <=> e \in cast.failed)
  BY <1>2
<1>10. QED BY <1>1, <1>2, <1>4, <1>9, <1>t, <1>8, PageMoves

\* Those that failed are closed; the others have been told.
LEMMA EndCastStep == ASSUME EventInv, EndCast PROVE EventInv'
<1>1. /\ cast.pc = "send" /\ cast.left = {} /\ cast' = NoCast /\ listed' = listed \ cast.failed
      /\ page' = [c \in Pages |-> IF c \in cast.failed THEN "gone" ELSE page[c]]
      /\ sending' = [c \in Pages |-> IF c \in cast.failed THEN "no" ELSE sending[c]]
      /\ UNCHANGED <<now, waiting, snap, pending, seen, until>>
  BY DEF EndCast
<1>2. NoCast \in Casts /\ NoCast.pc = "none" /\ NoCast.left = {} /\ NoCast.failed = {}
  BY DEF NoCast, Casts
<1>3. Told' = Told BY <1>1 DEF Told
<1>4. EventTypeOK' BY <1>1, <1>2 DEF EventInv, EventTypeOK, PageStates
<1>5. CastsInOrder' BY <1>1, <1>2, <1>3 DEF EventInv, CastsInOrder
<1>6. ASSUME NEW e \in Pages PROVE PageOK(e)'
  <2>1. PageOK(e) BY DEF EventInv
  <2>2. /\ page'[e] = (IF e \in cast.failed THEN "gone" ELSE page[e])
        /\ sending'[e] = (IF e \in cast.failed THEN "no" ELSE sending[e])
    BY <1>1
  <2>3. Registered(e)' BY <2>1, <2>2, <1>1, <1>2 DEF PageOK, Registered, Open
  <2>4. NotAhead(e)' BY <2>1, <2>2, <1>1, <1>2, <1>3 DEF PageOK, NotAhead
  <2>5. NotBehind(e)'
    <3>1. CASE e \in cast.failed BY <2>2, <3>1 DEF NotBehind, Open
    <3>2. CASE e \notin cast.failed
      <4>1. Known(e)' = Known(e) /\ page'[e] = page[e] BY <2>2, <1>1, <3>2 DEF Known
      <4>2. QED BY <4>1, <2>1, <1>1, <1>3, <3>2 DEF PageOK, NotBehind, MayView
    <3>3. QED BY <3>1, <3>2
  <2>6. QED BY <2>3, <2>4, <2>5 DEF PageOK
<1>7. QED BY <1>4, <1>5, <1>6 DEF EventInv

LEMMA EventStep == ASSUME EventInv, [EventNext]_eventVars PROVE EventInv'
<1>1. CASE \E c \in Pages :
             \/ Join(c) \/ TakeSnapshot(c) \/ SendHello(c) \/ FlushPending(c) \/ GoAway(c)
             \/ RevokeView(c) \/ CastTo(c) \/ CastSent(c) \/ CastFails(c)
  BY <1>1, PageJoinStep, TakeSnapshotStep, SendHelloStep, FlushPendingStep, GoAwayStep, RevokeViewStep,
     CastToStep, CastSentStep, CastFailsStep
<1>2. CASE UNCHANGED eventVars
  <2>1. UNCHANGED <<now, waiting, cast, page, listed, snap, pending, sending, seen, until>>
    BY <1>2 DEF eventVars
  <2>2. EventTypeOK' /\ Told' = Told /\ CastsInOrder' /\ now' \in Nat /\ now' >= now
    BY <2>1 DEF EventInv, EventTypeOK, CastsInOrder, Told
  <2>3. \A e \in Pages : PageOK(e)' BY <2>1, <2>2, PageKept
  <2>4. QED BY <2>2, <2>3 DEF EventInv
<1>3. QED BY <1>1, <1>2, ChangeStep, BeginCastStep, ReadRightsStep, EndCastStep DEF EventNext

\* What a ready page has been told since its hello message only gets newer.
LEMMA ToldInOrder ==
  ASSUME EventInv, [EventNext]_eventVars, NEW c \in Pages, page[c] = "ready", seen[c] # snap[c]
  PROVE  seen'[c] >= seen[c]
<1>t. seen \in [Pages -> Nat] /\ seen[c] <= Told BY DEF EventInv, EventTypeOK, PageOK, NotAhead
<1>1. CASE \E e \in Pages : SendHello(e) \/ FlushPending(e)
  <2>1. PICK e \in Pages : page[e] # "ready" /\ \E v : seen' = [seen EXCEPT ![e] = v]
    BY <1>1 DEF SendHello, FlushPending
  <2>2. QED BY <2>1, <1>t
<1>2. CASE \E e \in Pages : CastSent(e)
  <2>1. PICK e \in Pages : sending[e] = "cast" /\ seen' = [seen EXCEPT ![e] = cast.state]
    BY <1>2 DEF CastSent
  <2>2. cast.state = Told
    BY <2>1 DEF EventInv, PageOK, Registered, CastsInOrder
  <2>3. QED BY <2>1, <2>2, <1>t
<1>3. CASE UNCHANGED seen BY <1>3, <1>t
<1>4. QED
  BY <1>1, <1>2, <1>3
  DEF EventNext, eventVars, Change, BeginCast, ReadRights, EndCast, Join, TakeSnapshot, GoAway, RevokeView,
      CastTo, CastFails

-----------------------------------------------------------------------------
\* No broadcast tells a user of a change that came after the right to view the
\* device was gone: MirrorManager.broadcast looks the rights up after it has begun.
THEOREM RevokedAreNotTold == EventSpec => []NotToldAfterRevoke
<1>1. EventInit => EventInv BY EventInitInv
<1>2. EventInv /\ [EventNext]_eventVars => EventInv' BY EventStep
<1>3. QED BY <1>1, <1>2, ToldRight, PTL DEF EventSpec

\* However hello, snapshot and broadcasts cross, a page is told the broadcasts in
\* their order and is left with the present state, or it is closed.
THEOREM PagesKeepUp == EventSpec => PagesFollow
<1>1. EventInit => EventInv BY EventInitInv
<1>2. EventInv /\ [EventNext]_eventVars => EventInv' BY EventStep
<1> DEFINE Order == \A c \in Pages : page[c] = "ready" /\ seen[c] # snap[c] => seen'[c] >= seen[c]
<1>3. EventInv /\ [EventNext]_eventVars => Order BY ToldInOrder
<1>4. EventInv => PagesCurrent BY CurrentFromInv
<1>5. QED BY <1>1, <1>2, <1>3, <1>4, PTL DEF EventSpec, PagesFollow

=============================================================================
