----------------------------- MODULE MirrorTargets -----------------------------
(***************************************************************************)
(* MirrorManager of app/mirror_manager.py: the sessions of the devices,    *)
(* the lock per ADB target ("target_guard") under which they are started,  *)
(* restarted, stopped and moved to another address, and the administrator  *)
(* who changes and disables devices meanwhile (routers/admin_access.py).   *)
(*                                                                         *)
(* A task is one coroutine.  What a session does under its own lock is     *)
(* MirrorLifecycle; here a stream is "off", "on", or "closing" while its   *)
(* transport is being stopped.                                             *)
(***************************************************************************)
EXTENDS Naturals, FiniteSets

CONSTANTS
  Devices, Addresses,
  Objects,      \* MirrorSession objects, reused once nothing refers to them
  Tasks,        \* coroutines at work at the same time
  MayRestart,     \* the rotation and the administrator may force restarts
  NoTarget       \* no address, no session, no device

ASSUME TargetsAssumption ==
  NoTarget \notin Devices \cup Addresses \cup Objects /\ MayRestart \in BOOLEAN

VARIABLES
  row,       \* the address of an enabled device in the database, or NoTarget
  sessions,  \* MirrorManager.sessions
  address, available, streaming,  \* of a session object
  task       \* what each coroutine does: kind, device, session, pc, key, goal

targetVars == <<row, sessions, address, available, streaming, task>>

NoTask == [kind |-> "idle", d |-> NoTarget, s |-> NoTarget, pc |-> "idle",
         key |-> NoTarget, goal |-> NoTarget]

\* No device yet; later two of them may be given the same address.
TargetsInit ==
  /\ row = [d \in Devices |-> NoTarget]
  /\ sessions = [d \in Devices |-> NoTarget]
  /\ address = [s \in Objects |-> NoTarget]
  /\ available = [s \in Objects |-> FALSE]
  /\ streaming = [s \in Objects |-> "off"]
  /\ task = [k \in Tasks |-> NoTask]

IsListed(s) == \E d \in Devices : sessions[d] = s
IsUnused(s) == ~IsListed(s) /\ streaming[s] = "off" /\ \A k \in Tasks : task[k].s # s
HoldsKey(k, key) == task[k].pc \in {"held", "work"} /\ task[k].key = key
Guarded(key) == \E k \in Tasks : HoldsKey(k, key)

\* A coroutine reaches target_guard.
QueueFor(k, kind, d, s, where, goal) ==
  task' = [task EXCEPT ![k] = [kind |-> kind, d |-> d, s |-> s, pc |-> "wait",
                               key |-> where, goal |-> goal]]

-----------------------------------------------------------------------------
\* Faulty: the device of the row is taken, enabled or not.
RequestUnchecked(k, kind, d) ==
  /\ task[k] = NoTask /\ kind \in {"start", "quality", "stop", "stopidle"}
  /\ \E n \in Objects :
       /\ IsUnused(n)
       /\ sessions' = [sessions EXCEPT ![d] = n]
       /\ address' = [address EXCEPT ![n] = row[d]]
       /\ available' = [available EXCEPT ![n] = TRUE]
       /\ QueueFor(k, kind, d, n, row[d], NoTarget)
  /\ UNCHANGED <<row, streaming>>
\* get_or_create, then the queue for the target: the session of the dict if
\* it is available, else a new one at the address of the row.
RequestTask(k, kind, d) ==
  /\ task[k] = NoTask
  /\ kind \in {"start", "quality", "stop", "stopidle"}
  /\ LET s == sessions[d]
     IN  IF s # NoTarget /\ available[s]
         THEN /\ QueueFor(k, kind, d, s, address[s], NoTarget)
              /\ UNCHANGED <<sessions, address, available>>
         ELSE /\ row[d] # NoTarget
              /\ \E n \in Objects :
                   /\ IsUnused(n)
                   /\ sessions' = [sessions EXCEPT ![d] = n]
                   /\ address' = [address EXCEPT ![n] = row[d]]
                   /\ available' = [available EXCEPT ![n] = TRUE]
                   /\ QueueFor(k, kind, d, n, row[d], NoTarget)
  /\ UNCHANGED <<row, streaming>>

\* stop_later, expire_later and the sweeps over the sessions take what the
\* dict has; only the sweep over long streams stops one that has viewers.
TimerTask(k, kind, d) ==
  /\ task[k] = NoTask /\ sessions[d] # NoTarget /\ streaming[sessions[d]] = "on"
  /\ kind \in {"stop", "stopidle"}
  /\ QueueFor(k, kind, d, sessions[d], address[sessions[d]], NoTarget)
  /\ UNCHANGED <<row, sessions, address, available, streaming>>

\* restart_for_display_rotation and restart_streams_safely check that the
\* session streams, and only then wait for its target.
RestartTask(k, d) ==
  /\ MayRestart /\ task[k] = NoTask
  /\ sessions[d] # NoTarget /\ streaming[sessions[d]] = "on"
  /\ QueueFor(k, "restart", d, sessions[d], address[sessions[d]], NoTarget)
  /\ UNCHANGED <<row, sessions, address, available, streaming>>

\* The administrator's change is in the database before the manager hears
\* of it: another address, or the device disabled or deleted.  A device that
\* is enabled again may have the address it had.
UpdateRow(k, d, where) ==
  /\ task[k] = NoTask /\ row[d] # where
  /\ row' = [row EXCEPT ![d] = where]
  /\ \/ task' = [task EXCEPT ![k] = [NoTask EXCEPT !.kind = IF where = NoTarget THEN "remove" ELSE "move",
                                                   !.d = d, !.pc = "call", !.goal = where]]
     \/ row[d] = NoTarget /\ UNCHANGED task
  /\ UNCHANGED <<sessions, address, available, streaming>>

\* reconfigure_device keeps the session in the dict, remove_device takes it
\* out and makes it unavailable before it waits for the target.
CallManager(k) ==
  /\ task[k].pc = "call"
  /\ LET t == task[k]  s == sessions[t.d]
     IN  IF s = NoTarget
         THEN /\ task' = [task EXCEPT ![k] = NoTask]
              /\ UNCHANGED <<sessions, available>>
         ELSE /\ QueueFor(k, t.kind, t.d, s, address[s], t.goal)
              /\ IF t.kind = "remove"
                 THEN /\ sessions' = [sessions EXCEPT ![t.d] = NoTarget]
                      /\ available' = [available EXCEPT ![s] = FALSE]
                 ELSE UNCHANGED <<sessions, available>>
  /\ UNCHANGED <<row, address, streaming>>

\* Faulty: the key is not computed again with the lock in hand.
TargetGuardOnce(k) ==
  /\ task[k].pc = "wait" /\ ~Guarded(task[k].key)
  /\ task' = [task EXCEPT ![k].pc = "held"]
  /\ UNCHANGED <<row, sessions, address, available, streaming>>
\* target_guard: with the lock in hand the key is computed again; if the
\* address has changed, wait for the other lock.
TargetGuard(k) ==
  /\ task[k].pc = "wait" /\ ~Guarded(task[k].key)
  /\ LET now == address[task[k].s]
     IN  task' = [task EXCEPT ![k].pc = IF now = task[k].key THEN "held" ELSE "wait",
                              ![k].key = now]
  /\ UNCHANGED <<row, sessions, address, available, streaming>>

-----------------------------------------------------------------------------
TaskDone(k) == task' = [task EXCEPT ![k] = NoTask]
TaskWorks(k) == task' = [task EXCEPT ![k].pc = "work"]

\* "ADB target is already streaming as another device": the sessions of the
\* dict that stream, or whose transport is being cleaned up, at this key.
TargetInUse(k) ==
  \E d \in Devices \ {task[k].d} :
    LET s == sessions[d]
    IN  s # NoTarget /\ streaming[s] # "off" /\ address[s] = task[k].key

\* start: refuse a target in use and an unavailable session, join a running
\* stream, wait for the clean-up of the last transport.
BeginStart(k) ==
  /\ task[k].pc = "held" /\ task[k].kind = "start"
  /\ IF TargetInUse(k) \/ ~available[task[k].s] \/ streaming[task[k].s] = "on"
     THEN TaskDone(k)
     ELSE streaming[task[k].s] = "off" /\ TaskWorks(k)
  /\ UNCHANGED <<row, sessions, address, available, streaming>>

\* _start_locked with force_restart: the session must be available, whether
\* it streams or not; apply_video_options first looks whether it streams.
BeginRestart(k) ==
  /\ task[k].pc = "held" /\ task[k].kind \in {"restart", "quality"}
  /\ LET s == task[k].s
     IN  IF ~available[s] \/ (task[k].kind = "quality" /\ streaming[s] # "on")
         THEN TaskDone(k) /\ UNCHANGED streaming
         ELSE /\ TaskWorks(k)
              /\ streaming' = [streaming EXCEPT ![s] = IF @ = "on" THEN "closing" ELSE @]
  /\ UNCHANGED <<row, sessions, address, available>>

\* The old transport has been stopped; the new one starts or fails.
EndStart(k) ==
  /\ task[k].pc = "work" /\ task[k].kind \in {"start", "restart", "quality"}
  /\ \E new \in {"on", "off"} : streaming' = [streaming EXCEPT ![task[k].s] = new]
  /\ TaskDone(k)
  /\ UNCHANGED <<row, sessions, address, available>>

\* Faulty: reconfigure_device leaves the session available.
BeginStopAvailable(k) ==
  /\ task[k].pc = "held" /\ task[k].kind \in {"stop", "stopidle", "move", "remove"}
  /\ TaskWorks(k)
  /\ streaming' = [streaming EXCEPT ![task[k].s] = IF @ = "on" THEN "closing" ELSE @]
  /\ UNCHANGED <<row, sessions, address, available>>
\* MirrorSession.stop, which reconfigure_device prepares by making the
\* session unavailable; stop_if_no_clients only stops an unwatched stream.
BeginStop(k) ==
  /\ task[k].pc = "held" /\ task[k].kind \in {"stop", "stopidle", "move", "remove"}
  /\ LET s == task[k].s
     IN  \/ /\ task[k].kind = "stopidle"
            /\ TaskDone(k) /\ UNCHANGED <<streaming, available>>
         \/ /\ task[k].kind # "stopidle" \/ streaming[s] = "on"
            /\ TaskWorks(k)
            /\ streaming' = [streaming EXCEPT ![s] = IF @ = "on" THEN "closing" ELSE @]
            /\ available' = [available EXCEPT ![s] = @ /\ task[k].kind # "move"]
  /\ UNCHANGED <<row, sessions, address>>

\* The transport is stopped; reconfigure_device then changes the address.
EndStop(k) ==
  /\ task[k].pc = "work" /\ task[k].kind \in {"stop", "stopidle", "move", "remove"}
  /\ LET s == task[k].s
     IN  /\ streaming' = [streaming EXCEPT ![s] = "off"]
         /\ IF task[k].kind = "move"
            THEN /\ address' = [address EXCEPT ![s] = task[k].goal]
                 /\ available' = [available EXCEPT ![s] = TRUE]
            ELSE UNCHANGED <<address, available>>
  /\ TaskDone(k)
  /\ UNCHANGED <<row, sessions>>

\* A stream ends by itself; its clean-up task stops the transport.
StreamEnds(s) ==
  /\ streaming[s] = "on"
  /\ streaming' = [streaming EXCEPT ![s] = "closing"]
  /\ UNCHANGED <<row, sessions, address, available, task>>

CleanedUp(s) ==
  /\ streaming[s] = "closing" /\ \A k \in Tasks : task[k].s = s => task[k].pc # "work"
  /\ streaming' = [streaming EXCEPT ![s] = "off"]
  /\ UNCHANGED <<row, sessions, address, available, task>>

TargetStep(k) ==
  \/ CallManager(k) \/ TargetGuard(k)
  \/ BeginStart(k) \/ BeginRestart(k) \/ EndStart(k) \/ BeginStop(k) \/ EndStop(k)

TargetsNext ==
  \/ \E k \in Tasks :
       \/ \E d \in Devices, kind \in {"start", "quality", "stop", "stopidle"} :
            RequestTask(k, kind, d) \/ TimerTask(k, kind, d)
       \/ \E d \in Devices : RestartTask(k, d) \/ \E a \in Addresses \cup {NoTarget} : UpdateRow(k, d, a)
       \/ TargetStep(k)
  \/ \E s \in Objects : StreamEnds(s) \/ CleanedUp(s)

TargetsSpec == TargetsInit /\ [][TargetsNext]_targetVars

-----------------------------------------------------------------------------
TargetsTypeOK ==
  /\ row \in [Devices -> Addresses \cup {NoTarget}]
  /\ sessions \in [Devices -> Objects \cup {NoTarget}]
  /\ address \in [Objects -> Addresses \cup {NoTarget}]
  /\ available \in [Objects -> BOOLEAN]
  /\ \A s \in Objects : IsListed(s) => address[s] # NoTarget
  /\ streaming \in [Objects -> {"off", "on", "closing"}]
  /\ task \in [Tasks -> [kind : {"idle", "start", "quality", "stop", "stopidle", "restart", "move", "remove"},
                         d : Devices \cup {NoTarget}, s : Objects \cup {NoTarget},
                         pc : {"idle", "call", "wait", "held", "work"},
                         key : Addresses \cup {NoTarget}, goal : Addresses \cup {NoTarget}]]

\* Two coroutines never work on one session, although its address, and with
\* it the lock they wait for, may change while they wait.
GuardCoversSession ==
  \A j, k \in Tasks : j # k /\ task[j].pc \in {"held", "work"} /\ task[k].pc \in {"held", "work"}
                      => task[j].s # task[k].s

\* A session moves to another address only when no transport of it lives at
\* the old one: reconfigure_device stops the stream first, and nobody can
\* start it again before the address has changed.
MovesWhenOff ==
  [][\A s \in Objects : address[s] # NoTarget /\ address'[s] # address[s] /\ ~IsUnused(s)
                          => streaming'[s] = "off" /\ ~available[s]]_targetVars

\* manager.start: an ADB target is not streamed as two devices, other than
\* while a device that has been disabled is being stopped.
OneStreamPerTarget ==
  (\A k \in Tasks : task[k] = NoTask) =>
  \A r, s \in Objects : r # s /\ streaming[r] = "on" /\ streaming[s] = "on" => address[r] # address[s]
=============================================================================
