---------------------------- MODULE MirrorLifecycle ----------------------------
(***************************************************************************)
(* The life of one MirrorSession of app/mirror_runtime.py: requests that   *)
(* reserve a viewer's place and start the stream, restarts, stops, the     *)
(* timers of app/mirror_manager.py that stop an unwatched stream, and the  *)
(* Scrcpy objects (transports) that worker threads start and stop.         *)
(*                                                                         *)
(* The coroutines run on one event loop: a step is what happens between    *)
(* two awaits.  At most one of them holds the lifecycle lock; it is "op".  *)
(* The generation counter only serves to compare a transport's generation  *)
(* with the present one, so the model keeps the set "fresh" of transports  *)
(* whose generation is the present one; advancing it empties the set.      *)
(***************************************************************************)
EXTENDS Naturals, FiniteSets

CONSTANTS
  Watchers,     \* pages: each has at most one request, reservation or socket
  Transports,  \* Scrcpy objects, reused once nothing refers to them
  NoWatcher, NoTransport,
  Legacy,      \* the stream mode is "legacy"
  AutoStop     \* auto_stop_minutes > 0: the idle sweep runs

ASSUME LifecycleAssumption ==
  /\ NoWatcher \notin Watchers /\ NoTransport \notin Transports
  /\ Legacy \in BOOLEAN /\ AutoStop \in BOOLEAN

VARIABLES
  view,       \* a page: "away", "asked" (start without a place), "held"
              \* (start with a place that does not expire), "granted" (the
              \* start succeeded), "armed" (a place that expires),
              \* "attached", "ended" (told to go), "left"
  running, scrcpy, \* MirrorSession.running and .scrcpy
  fresh,      \* transports of the present _video_generation
  reconfiguring, \* _restart_in_progress
  op,         \* the holder of MirrorSession._lock
  forced,     \* a forced restart waits for the lock
  timers,     \* pending stop timers: "grace", "expiry"
  phase,      \* a transport: "off", "connecting", "open", "closing"
  worker,     \* its _start_scrcpy thread
  exited,     \* transports whose video thread or server ended by itself
  endings,      \* their notifications queued on the event loop
  cleanup     \* the transport of _transport_cleanup_task

sessionVars == <<view, running, scrcpy, fresh, reconfiguring, forced, timers>>
transportVars == <<phase, worker, exited, endings, cleanup>>
lifecycleVars == <<sessionVars, op, transportVars>>

NoOp == [kind |-> "none", by |-> NoWatcher, goal |-> "none", pc |-> "none",
         t |-> NoTransport, old |-> NoTransport]

LifecycleInit ==
  /\ view = [v \in Watchers |-> "away"]
  /\ running = FALSE /\ scrcpy = NoTransport
  /\ fresh = {} /\ reconfiguring = FALSE
  /\ op = NoOp /\ forced = FALSE /\ timers = {}
  /\ phase = [t \in Transports |-> "off"] /\ worker = [t \in Transports |-> "none"]
  /\ exited = {} /\ endings = {} /\ cleanup = NoTransport

Attached == {v \in Watchers : view[v] \in {"attached", "ended"}}
Reserved == {v \in Watchers : view[v] \in {"held", "granted", "armed"}}
Watched == Attached \cup Reserved # {}

\* Between advancing the generation and taking the transport there is no
\* await, and none without a transport to stop: threads may run there, the
\* event loop may not.
AtAwait == op.pc # "take" /\ ~(op.pc = "stopwait" /\ op.old = NoTransport)
LockFree == op.kind = "none"
TimerOp == op.kind \in {"grace", "expiry"}

Without(S, from, to) == [v \in Watchers |-> IF v \in S /\ view[v] \in from THEN to ELSE view[v]]
EndClients == Without(Watchers, {"attached"}, "ended")

\* The answer to the start request of v: a place is given back on failure,
\* and a request without a place leaves nothing behind.
Answered(v, ok) == [view EXCEPT ![v] = IF ok /\ @ = "held" THEN "granted" ELSE "away"]

-----------------------------------------------------------------------------
(***************************************************************************)
(* Watchers                                                                   *)
(***************************************************************************)

\* Faulty: a place is given while a change of quality restarts the stream.
RequestStartAnytime(v) ==
  /\ AtAwait /\ view[v] = "away"
  /\ view' = [view EXCEPT ![v] = "held"]
  /\ UNCHANGED <<running, scrcpy, fresh, reconfiguring, forced, timers, op, transportVars>>
\* api_mirror_start reserves a place, which a restart in progress refuses.
RequestStart(v) ==
  /\ AtAwait /\ view[v] = "away"
  /\ view' = [view EXCEPT ![v] = IF reconfiguring THEN "asked" ELSE "held"]
  /\ UNCHANGED <<running, scrcpy, fresh, reconfiguring, forced, timers, op, transportVars>>

\* After the start has succeeded: refresh the place, whose expiry timer runs
\* from now on; a place that a stop removed cannot be refreshed.
HandleReply(v) ==
  /\ AtAwait /\ view[v] = "granted"
  /\ view' = [view EXCEPT ![v] = "armed"]
  /\ UNCHANGED <<running, scrcpy, fresh, reconfiguring, forced, timers, op, transportVars>>

\* The video WebSocket registers, with its token or without one, and cancels
\* the stop timer, in the middle of its work if need be.
AttachViewer(v) ==
  /\ AtAwait /\ view[v] \in {"armed", "away"} /\ running /\ ~reconfiguring
  /\ view' = [view EXCEPT ![v] = "attached"]
  /\ timers' = timers \ {"grace"}
  /\ op' = IF op.kind = "grace" THEN NoOp ELSE op
  /\ UNCHANGED <<running, scrcpy, fresh, reconfiguring, forced, transportVars>>

\* The socket is gone; a thread computes the delay of the stop timer.
LeaveViewer(v) ==
  /\ AtAwait /\ view[v] \in {"attached", "ended"}
  /\ view' = [view EXCEPT ![v] = "left"]
  /\ UNCHANGED <<running, scrcpy, fresh, reconfiguring, forced, timers, op, transportVars>>

\* schedule_disconnect_stop replaces the timer, and cancels a stop that the
\* former timer has begun.
ScheduleStop(v) ==
  /\ AtAwait /\ view[v] = "left"
  /\ view' = [view EXCEPT ![v] = "away"]
  /\ timers' = timers \cup {"grace"}
  /\ op' = IF op.kind = "grace" THEN NoOp ELSE op
  /\ UNCHANGED <<running, scrcpy, fresh, reconfiguring, forced, transportVars>>

\* A place is not taken up in time.
ExpirePlace(v) ==
  /\ AtAwait /\ view[v] = "armed"
  /\ view' = [view EXCEPT ![v] = "away"]
  /\ timers' = timers \cup {"expiry"}
  /\ UNCHANGED <<running, scrcpy, fresh, reconfiguring, forced, op, transportVars>>

-----------------------------------------------------------------------------
(***************************************************************************)
(* Starting: _start_locked                                                 *)
(***************************************************************************)

\* _start_locked with no transport to retire waits for the clean-up task;
\* otherwise it advances the generation first.
EnterStart(kind, v) ==
  /\ op' = [NoOp EXCEPT !.kind = kind, !.by = v, !.goal = "start",
              !.pc = IF running THEN "take" ELSE "cleanup"]
  /\ fresh' = IF running THEN {} ELSE fresh

\* MirrorSession.start for the request of a page: join the running stream,
\* if it has these options or somebody else watches, or (re)start it.
JoinOrStart(v) ==
  /\ AtAwait /\ LockFree /\ view[v] \in {"asked", "held"}
  /\ \/ /\ running
        /\ view' = Answered(v, TRUE)
        /\ UNCHANGED <<op, fresh>>
     \/ /\ ~running \/ (Attached = {} /\ Reserved \subseteq {v})
        /\ EnterStart("start", v) /\ UNCHANGED view
  /\ UNCHANGED <<running, scrcpy, reconfiguring, forced, timers, transportVars>>

\* apply_video_options with other options: only when nobody else watches.
BeginQuality(v) ==
  /\ AtAwait /\ LockFree /\ running
  /\ IF v = NoWatcher THEN ~Watched ELSE view[v] = "attached" /\ Attached = {v} /\ Reserved = {}
  /\ EnterStart("quality", v) /\ reconfiguring' = TRUE
  /\ UNCHANGED <<view, running, scrcpy, forced, timers, transportVars>>

\* restart_for_display_rotation and restart_streams_safely look at the
\* stream before they wait for the lock.
RequestForced ==
  /\ AtAwait /\ ~forced /\ running
  /\ forced' = TRUE
  /\ UNCHANGED <<view, running, scrcpy, fresh, reconfiguring, timers, op, transportVars>>

BeginForced ==
  /\ AtAwait /\ LockFree /\ forced
  /\ forced' = FALSE
  /\ \/ EnterStart("forced", NoWatcher)
     \/ Cardinality(Attached \cup Reserved) > 1 /\ UNCHANGED <<op, fresh>>
  /\ UNCHANGED <<view, running, scrcpy, reconfiguring, timers, transportVars>>

\* The lock is released and the caller gets the answer; viewers of a stream
\* that did not survive a change of quality are sent away.
Return(ok, up) ==
  /\ op' = NoOp
  /\ reconfiguring' = (reconfiguring /\ op.kind # "quality")
  /\ view' = CASE op.kind = "start" -> Answered(op.by, ok)
               [] op.kind = "quality" /\ ~up -> EndClients
               [] OTHER -> view

\* Faulty: the operation stays on record.
RaiseKeepsOp ==
  /\ op' = [op EXCEPT !.kind = "none"]
  /\ reconfiguring' = (reconfiguring /\ op.kind # "quality")
  /\ view' = IF op.kind = "start" THEN Answered(op.by, FALSE) ELSE view
\* The task was cancelled: the caller gives a place back.
Raise ==
  /\ op' = NoOp
  /\ reconfiguring' = (reconfiguring /\ op.kind # "quality")
  /\ view' = IF op.kind = "start" THEN Answered(op.by, FALSE) ELSE view

\* Give a transport to a thread that stops it.
StopTransport(t) == phase' = IF t = NoTransport THEN phase ELSE [phase EXCEPT ![t] = "closing"]

\* The rest of the step that advanced the generation.
Take ==
  /\ op.pc = "take"
  /\ scrcpy' = NoTransport /\ running' = FALSE
  /\ view' = IF op.goal # "stop" THEN view
             ELSE [v \in Watchers |-> CASE view[v] = "held" -> "asked" [] view[v] \in {"granted", "armed"} -> "away"
                                       [] OTHER -> view[v]]
  /\ \/ /\ op.goal = "cancel"
        /\ op' = [op EXCEPT !.pc = "worker", !.old = scrcpy]
        /\ UNCHANGED phase
     \/ /\ op.goal # "cancel"
        /\ op' = [op EXCEPT !.pc = "stopwait", !.old = scrcpy]
        /\ StopTransport(scrcpy)
  /\ UNCHANGED <<fresh, reconfiguring, forced, timers, worker, exited, endings, cleanup>>

\* _stop_scrcpy_bounded returns when the thread has stopped the transport
\* or the time is up; what follows depends on who called it.
StopWaited ==
  /\ op.pc = "stopwait"
  /\ \/ /\ op.goal = "start"
        /\ op' = [op EXCEPT !.pc = "cleanup", !.old = NoTransport]
        /\ UNCHANGED <<reconfiguring, view>>
     \/ /\ op.goal = "stop"
        /\ op' = NoOp /\ view' = EndClients
        /\ UNCHANGED <<reconfiguring>>
     \/ op.goal = "cancel" /\ Raise
  /\ UNCHANGED <<running, scrcpy, fresh, forced, timers, transportVars>>

\* _await_transport_cleanup_bounded, likewise.  A stop then advances the
\* generation and takes the transport.
CleanupWaited ==
  /\ AtAwait /\ op.pc = "cleanup"
  /\ IF op.goal = "stop"
     THEN op' = [op EXCEPT !.pc = "take"] /\ fresh' = {}
     ELSE op' = [op EXCEPT !.pc = "adb"] /\ UNCHANGED fresh
  /\ UNCHANGED <<view, running, scrcpy, reconfiguring, forced, timers, transportVars>>

\* No thread and no callback knows t any more.
AtRest(t) == /\ phase[t] = "off" /\ worker[t] = "none" /\ t \notin endings
           /\ t \notin {scrcpy, cleanup, op.old}

\* ADB answers; _reset_video_state advances the generation and a worker
\* thread starts a transport in it.
AdbAnswers ==
  /\ AtAwait /\ op.pc = "adb"
  /\ \/ /\ running' = FALSE /\ Return(FALSE, FALSE)
        /\ UNCHANGED <<fresh, phase, worker, exited>>
     \/ \E t \in Transports :
          /\ AtRest(t)
          /\ fresh' = {t} /\ exited' = exited \ {t}
          /\ phase' = [phase EXCEPT ![t] = "connecting"]
          /\ worker' = [worker EXCEPT ![t] = "connecting"]
          /\ op' = [op EXCEPT !.pc = "worker", !.t = t]
          /\ UNCHANGED <<view, running, reconfiguring>>
  /\ UNCHANGED <<scrcpy, forced, timers, endings, cleanup>>

\* Faulty: the result of the worker is believed, whatever happened since.
ServerBelieved ==
  /\ AtAwait /\ op.pc = "worker" /\ op.goal = "start" /\ worker[op.t] \in {"ok", "failed"}
  /\ running' = (worker[op.t] = "ok")
  /\ IF worker[op.t] = "ok" THEN op' = [op EXCEPT !.pc = "health"] /\ UNCHANGED <<view, reconfiguring>>
     ELSE Return(FALSE, FALSE)
  /\ worker' = [worker EXCEPT ![op.t] = "none"]
  /\ UNCHANGED <<scrcpy, fresh, forced, timers, phase, exited, endings, cleanup>>
\* The worker has returned: the stream runs if nothing has advanced the
\* generation since it was published.
ServerAnswers ==
  /\ AtAwait /\ op.pc = "worker" /\ op.goal = "start" /\ worker[op.t] \in {"ok", "failed"}
  /\ LET ok == worker[op.t] = "ok" /\ op.t \in fresh
     IN  /\ running' = ok
         /\ IF ok THEN op' = [op EXCEPT !.pc = "health"] /\ UNCHANGED <<view, reconfiguring>>
            ELSE Return(FALSE, FALSE)
  /\ worker' = [worker EXCEPT ![op.t] = "none"]
  /\ UNCHANGED <<scrcpy, fresh, forced, timers, phase, exited, endings, cleanup>>

\* Faulty: the key frame is waited for without a limit.
HealthAwaited ==
  /\ AtAwait /\ op.pc = "health" /\ running
  /\ op' = [op EXCEPT !.pc = "rotation"]
  /\ UNCHANGED <<view, reconfiguring, running, scrcpy, phase>>
  /\ UNCHANGED <<fresh, forced, timers, worker, exited, endings, cleanup>>
\* _wait_for_stream_health and what follows it: a key frame has arrived; or
\* it has not, but the transport lives; or it has gone.
HealthKnown ==
  /\ AtAwait /\ op.pc = "health"
  /\ \/ /\ running \/ Legacy
        /\ op' = [op EXCEPT !.pc = "rotation"]
        /\ UNCHANGED <<view, reconfiguring, running, scrcpy, phase>>
     \/ /\ ~Legacy
        /\ Return(running, running)
        /\ IF running THEN UNCHANGED <<running, scrcpy, phase>>
           ELSE running' = FALSE /\ scrcpy' = NoTransport /\ StopTransport(scrcpy)
  /\ UNCHANGED <<fresh, forced, timers, worker, exited, endings, cleanup>>

\* The rotation of the device is read; the start succeeds.
RotationRead ==
  /\ AtAwait /\ op.pc = "rotation"
  /\ Return(TRUE, running)
  /\ UNCHANGED <<running, scrcpy, fresh, forced, timers, transportVars>>

\* Faulty: a cancelled start leaves its worker alone.
CancelStartLeaves ==
  /\ AtAwait /\ op.goal = "start"
  /\ Raise
  /\ UNCHANGED <<running, scrcpy, fresh, forced, timers, transportVars>>
\* The task of a start is cancelled.  Waiting for the worker or for the first
\* key frame it cleans up after itself: advance, take, wait, stop.
CancelStart ==
  /\ AtAwait /\ op.goal = "start"
  /\ IF op.pc \in {"worker", "health"}
     THEN /\ op' = [op EXCEPT !.goal = "cancel", !.pc = "take"]
          /\ fresh' = {}
          /\ UNCHANGED <<reconfiguring, view>>
     ELSE Raise /\ UNCHANGED fresh
  /\ UNCHANGED <<running, scrcpy, forced, timers, transportVars>>

\* _cleanup_cancelled_start has waited for the worker, or the time is up; a
\* transport published meanwhile is taken instead.
WorkerWaited ==
  /\ AtAwait /\ op.pc = "worker" /\ op.goal = "cancel"
  /\ LET last == IF scrcpy # NoTransport THEN scrcpy ELSE op.old
     IN  op' = [op EXCEPT !.pc = "stopwait", !.old = last] /\ StopTransport(last)
  /\ scrcpy' = NoTransport
  /\ worker' = [worker EXCEPT ![op.t] = IF @ \in {"ok", "failed"} THEN "none" ELSE @]
  /\ UNCHANGED <<view, running, fresh, reconfiguring, forced, timers, exited, endings, cleanup>>

-----------------------------------------------------------------------------
(***************************************************************************)
(* Stopping: _stop_locked                                                  *)
(***************************************************************************)

\* Without a clean-up to wait for there is no await before the take.
EnterStop(kind) ==
  /\ op' = [NoOp EXCEPT !.kind = kind, !.goal = "stop",
              !.pc = IF cleanup = NoTransport THEN "take" ELSE "cleanup"]
  /\ fresh' = IF cleanup = NoTransport THEN {} ELSE fresh

\* An administrator stops the stream: its timers are cancelled, with the
\* stop one of them may have begun.
AdminStop ==
  /\ AtAwait /\ (LockFree \/ TimerOp)
  /\ timers' = {} /\ EnterStop("admin")
  /\ UNCHANGED <<view, running, scrcpy, reconfiguring, forced, transportVars>>

\* stop_if_no_clients for a timer or for the sweep over idle sessions.
StopIfUnwatched(kind) ==
  IF running /\ ~Watched THEN EnterStop(kind) ELSE UNCHANGED <<op, fresh>>

TimerStop(k) ==
  /\ AtAwait /\ LockFree /\ k \in timers
  /\ timers' = timers \ {k} /\ StopIfUnwatched(k)
  /\ UNCHANGED <<view, running, scrcpy, reconfiguring, forced, transportVars>>

\* Faulty: the sweep leaves streams alone that have no timer.
SweepStopTimed ==
  /\ AtAwait /\ LockFree /\ AutoStop /\ running /\ Attached = {} /\ timers # {}
  /\ StopIfUnwatched("sweep")
  /\ UNCHANGED <<view, running, scrcpy, reconfiguring, forced, timers, transportVars>>
SweepStop ==
  /\ AtAwait /\ LockFree /\ AutoStop /\ running /\ Attached = {}
  /\ StopIfUnwatched("sweep")
  /\ UNCHANGED <<view, running, scrcpy, reconfiguring, forced, timers, transportVars>>

-----------------------------------------------------------------------------
(***************************************************************************)
(* Worker threads and transports                                           *)
(***************************************************************************)

\* scrcpy_start returns; it stops what it has begun when it fails.
StartServer(t) ==
  /\ worker[t] = "connecting"
  /\ \/ /\ phase' = [phase EXCEPT ![t] = "open"]
        /\ worker' = [worker EXCEPT ![t] = "check"]
     \/ /\ phase' = [phase EXCEPT ![t] = "off"]
        /\ worker' = [worker EXCEPT ![t] = "failed"]
  /\ UNCHANGED <<sessionVars, op, exited, endings, cleanup>>

\* The worker stops the transport it has started for nothing.
Discard(t) ==
  /\ phase' = [phase EXCEPT ![t] = "closing"]
  /\ worker' = [worker EXCEPT ![t] = "discard"]

\* Faulty: a worker that comes too late returns without stopping its transport.
CheckStartLeaves(t) ==
  /\ worker[t] = "check"
  /\ worker' = [worker EXCEPT ![t] = IF t \in fresh /\ t \notin exited THEN "publish" ELSE "failed"]
  /\ UNCHANGED <<sessionVars, op, phase, exited, endings, cleanup>>
\* _start_scrcpy after the start: is the generation still this one and has
\* the transport not ended already?
CheckStart(t) ==
  /\ worker[t] = "check"
  /\ IF t \in fresh /\ t \notin exited THEN worker' = [worker EXCEPT ![t] = "publish"] /\ UNCHANGED phase
     ELSE Discard(t)
  /\ UNCHANGED <<sessionVars, op, exited, endings, cleanup>>

\* Faulty: published whatever the generation.
PublishAnyway(t) ==
  /\ worker[t] = "publish"
  /\ scrcpy' = t /\ worker' = [worker EXCEPT ![t] = "ok"]
  /\ UNCHANGED <<view, running, fresh, reconfiguring, forced, timers, op, phase, exited, endings, cleanup>>
\* Publish it, under the lock of the generation.
PublishTransport(t) ==
  /\ worker[t] = "publish"
  /\ IF t \in fresh
     THEN scrcpy' = t /\ worker' = [worker EXCEPT ![t] = "ok"] /\ UNCHANGED phase
     ELSE Discard(t) /\ UNCHANGED scrcpy
  /\ UNCHANGED <<view, running, fresh, reconfiguring, forced, timers, op, exited, endings, cleanup>>

\* A worker whose transport is stopped returns False; nobody takes the
\* result of a start that was given up.
Discarded(t) ==
  /\ worker[t] = "discard" /\ phase[t] = "off"
  /\ worker' = [worker EXCEPT ![t] = "failed"]
  /\ UNCHANGED <<sessionVars, op, phase, exited, endings, cleanup>>

ForgetStart(t) ==
  /\ worker[t] \in {"ok", "failed"} /\ op.t # t
  /\ worker' = [worker EXCEPT ![t] = "none"]
  /\ UNCHANGED <<sessionVars, op, phase, exited, endings, cleanup>>

\* scrcpy_stop is done with t.
Close(t) ==
  /\ phase[t] = "closing"
  /\ phase' = [phase EXCEPT ![t] = "off"]
  /\ UNCHANGED <<sessionVars, op, worker, exited, endings, cleanup>>

\* The video stream or the server of t ends by itself.
Exit(t) ==
  /\ phase[t] = "open" /\ t \notin exited
  /\ exited' = exited \cup {t} /\ endings' = endings \cup {t}
  /\ UNCHANGED <<sessionVars, op, phase, worker, cleanup>>

\* _handle_stream_transport_closed on the event loop: only the published
\* transport of the present generation counts.
StreamEnded(t) ==
  /\ AtAwait /\ t \in endings
  /\ endings' = endings \ {t}
  /\ IF t \in fresh /\ scrcpy = t
     THEN /\ running' = FALSE /\ scrcpy' = NoTransport /\ fresh' = {}
          /\ view' = EndClients
          /\ cleanup' = t /\ StopTransport(t)
     ELSE UNCHANGED <<running, scrcpy, fresh, view, cleanup, phase>>
  /\ UNCHANGED <<reconfiguring, forced, timers, op, worker, exited>>

\* _finalize_stream_transport_failure has stopped it, or the time is up.
CleanupDone ==
  /\ AtAwait /\ cleanup # NoTransport
  /\ cleanup' = NoTransport
  /\ UNCHANGED <<sessionVars, op, phase, worker, exited, endings>>

-----------------------------------------------------------------------------
Operation ==
  \/ Take \/ StopWaited \/ CleanupWaited \/ AdbAnswers \/ ServerAnswers
  \/ HealthKnown \/ RotationRead \/ WorkerWaited

Thread(t) ==
  \/ StartServer(t) \/ CheckStart(t) \/ PublishTransport(t)
  \/ Discarded(t) \/ ForgetStart(t) \/ Close(t) \/ StreamEnded(t)

LifecycleNext ==
  \/ \E v \in Watchers : RequestStart(v) \/ JoinOrStart(v) \/ HandleReply(v) \/ AttachViewer(v)
                        \/ LeaveViewer(v) \/ ScheduleStop(v) \/ ExpirePlace(v)
  \/ \E v \in Watchers \cup {NoWatcher} : BeginQuality(v)
  \/ RequestForced \/ BeginForced \/ AdminStop \/ SweepStop
  \/ \E k \in {"grace", "expiry"} : TimerStop(k)
  \/ Operation \/ CancelStart
  \/ \E t \in Transports : Thread(t) \/ Exit(t)
  \/ CleanupDone

LifecycleSpec == LifecycleInit /\ [][LifecycleNext]_lifecycleVars

\* Every wait of an operation is bounded, threads and timers run, the lock is
\* granted in the order of asking and the idle sweep comes round; nothing
\* makes a page attach, leave or ask, an administrator act or a transport end.
LifecycleFairness ==
  /\ WF_lifecycleVars(Operation) /\ WF_lifecycleVars(CleanupDone)
  /\ \A t \in Transports : WF_lifecycleVars(Thread(t))
  /\ \A v \in Watchers : /\ WF_lifecycleVars(HandleReply(v)) /\ WF_lifecycleVars(ScheduleStop(v))
                        /\ WF_lifecycleVars(ExpirePlace(v)) /\ SF_lifecycleVars(JoinOrStart(v))
  /\ SF_lifecycleVars(BeginForced) /\ SF_lifecycleVars(SweepStop)
  /\ \A k \in {"grace", "expiry"} : SF_lifecycleVars(TimerStop(k))

-----------------------------------------------------------------------------
(***************************************************************************)
(* Properties                                                              *)
(***************************************************************************)

LifecycleTypeOK ==
  /\ view \in [Watchers -> {"away", "asked", "held", "granted", "armed", "attached", "ended", "left"}]
  /\ running \in BOOLEAN /\ reconfiguring \in BOOLEAN
  /\ scrcpy \in Transports \cup {NoTransport} /\ cleanup \in Transports \cup {NoTransport}
  /\ fresh \subseteq Transports /\ exited \subseteq Transports /\ endings \subseteq Transports
  /\ op \in [kind : {"none", "start", "quality", "forced", "admin", "sweep", "grace", "expiry"},
             by : Watchers \cup {NoWatcher}, goal : {"none", "start", "stop", "cancel"},
             pc : {"none", "take", "stopwait", "cleanup", "adb", "worker", "health", "rotation"},
             t : Transports \cup {NoTransport}, old : Transports \cup {NoTransport}]
  /\ op.kind = "none" => op = NoOp
  /\ forced \in BOOLEAN /\ timers \subseteq {"grace", "expiry"}
  /\ phase \in [Transports -> {"off", "connecting", "open", "closing"}]
  /\ worker \in [Transports -> {"none", "connecting", "check", "publish", "discard", "ok", "failed"}]

\* A transport that streams has exactly one owner that will use or stop it:
\* the session, the worker that has not published it, or the cancelled start
\* that took it.  Cancellations, time-outs and late workers lose none and
\* stop none twice.
OneOwner ==
  \A t \in Transports : phase[t] = "open" =>
    LET byWorker == worker[t] \in {"check", "publish"}
        bySession == scrcpy = t
        byCancel == op.goal = "cancel" /\ op.pc = "worker" /\ op.old = t
    IN  /\ byWorker \/ bySession \/ byCancel
        /\ ~(byWorker /\ bySession) /\ ~(bySession /\ byCancel) /\ ~(byWorker /\ byCancel)

\* The published transport is of the present generation and streams, except
\* in the step that retires it: a worker of a cancelled or replaced start
\* never publishes.
PublishedFresh ==
  scrcpy # NoTransport => phase[scrcpy] = "open" /\ (scrcpy \in fresh \/ op.pc = "take")

\* running is never true without a transport, whatever ends while the worker
\* hands it over.
RunningHasTransport == running => scrcpy # NoTransport

\* While a change of quality restarts the stream nobody but the page that
\* asked for it has or gets a place: the snapshot of the viewers stays true
\* over all the awaits of the restart.
RestartAlone ==
  op.kind = "quality" => Attached \cup Reserved \subseteq {op.by}

\* Every operation gives the lifecycle lock back.
LockReturns == op.kind # "none" ~> op.kind = "none"

\* A transport that the session has let go ends up stopped.
TransportsStop == \A t \in Transports :
  phase[t] \in {"open", "closing"} /\ scrcpy # t ~> phase[t] = "off" \/ scrcpy = t

\* A stream that nobody watches is stopped, or somebody comes.
AbandonedStops == running /\ ~Watched ~> ~running \/ Watched

\* A transport has one owner, what the session publishes is fresh, what it calls
\* running is published, and a restart is alone.
SessionOwnsTransport ==
  OneOwner /\ PublishedFresh /\ RunningHasTransport /\ RestartAlone

\* Streams end: those the session has let go, and those that nobody watches.
StreamsEnd == TransportsStop /\ AbandonedStops
=============================================================================
