--------------------------------- MODULE MCLive ---------------------------------
(* ControlLease, a small MirrorLifecycle and ViewerQueue for TLC, one at a   *)
(* time, with the fairness of each: "part" is chosen at the start, and the   *)
(* variables of the others stay as they are.                                 *)
EXTENDS ControlLease, MirrorLifecycle, ViewerQueue, TLC

CONSTANTS u1, u2, s1, v1

TwoUsers == {u1, u2}
OneAdmin == {u2}
OneSocket == {s1}
OneViewer == {v1}
Owners == (s1 :> u1) @@ (v1 :> u1)

VARIABLE part

liveVars == <<part, vars, lifecycleVars, viewerVars>>

LiveInit == part \in {"lease", "session", "viewer"} /\ Init /\ LifecycleInit /\ ViewerInit

Remote(A) == part = "lease" /\ A /\ UNCHANGED <<part, lifecycleVars, viewerVars>>
Session(A) == part = "session" /\ A /\ UNCHANGED <<part, vars, viewerVars>>

Queue(A) == part = "viewer" /\ A /\ UNCHANGED <<part, vars, lifecycleVars>>

LiveNext == Remote(Next) \/ Session(LifecycleNext) \/ Queue(ViewerNext)

\* The fairness of each module, in its part.
LiveSpec ==
  /\ LiveInit /\ [][LiveNext]_liveVars
  /\ \A k \in Callers : WF_liveVars(Remote(LockStep(k) /\ Record))
  /\ \A s \in Sockets : WF_liveVars(Remote(SocketStep(s) /\ Record))
  /\ \A h \in Requests : WF_liveVars(Remote(RequestDone(h) /\ Record))
  /\ WF_liveVars(Session(Operation)) /\ WF_liveVars(Session(CleanupDone))
  /\ \A t \in Transports : WF_liveVars(Session(Thread(t)))
  /\ \A p \in Watchers :
       /\ WF_liveVars(Session(HandleReply(p))) /\ WF_liveVars(Session(ScheduleStop(p)))
       /\ WF_liveVars(Session(ExpirePlace(p))) /\ SF_liveVars(Session(JoinOrStart(p)))
  /\ WF_liveVars(Queue(Send))
  /\ SF_liveVars(Session(BeginForced)) /\ SF_liveVars(Session(SweepStop))
  /\ \A k \in {"grace", "expiry"} : SF_liveVars(Session(TimerStop(k)))
=============================================================================
