----------------------------- MODULE AlasRelay -----------------------------
(***************************************************************************)
(* A proxied WebSocket of an ALAS page: _WebSocketProxySession of          *)
(* app/alas_embed_transport.py.  Two pumps and a watchdog run until the    *)
(* first of them ends; then the others are cancelled and both sockets      *)
(* closed.  Each of the three asks again, under one lock, whether the      *)
(* login and the binding still are valid: the pump of the browser for      *)
(* every message, that of ALAS and the watchdog once in a while.           *)
(*                                                                         *)
(* Time passes while everybody waits for something: a step takes none.     *)
(* What is withdrawn is not given back.  PyWebIOSessionPolicy is           *)
(* AlasPolicy's; here a message needs the right to run, is a breach that   *)
(* closes the connection, or is plain.                                     *)
(***************************************************************************)
EXTENDS Naturals

CONSTANTS
  Recheck,   \* ALAS_WS_AUTHORIZATION_RECHECK_SECONDS
  DrainTime  \* one second, of the drain after ALAS has closed

ASSUME RelayAssumption == Recheck \in Nat \ {0} /\ DrainTime \in Nat \ {0}

VARIABLES
  filtered,      \* an ordinary user: there is a policy, and a binding to check
  relay_rights,  \* in the database
  pump,          \* client_to_upstream, upstream_to_client, authorization_watchdog
  relay_lock,    \* authorization_lock
  policy_run,    \* policy.can_run
  message,       \* the browser's, in client_to_upstream
  browser_code,  \* the code the browser was closed with; 0: open
  alas_open,     \* the upstream
  supervisor,    \* supervise
  timers,        \* the watchdog's sleep, the age of _access_checked_at, the drain
  withdrawn_for  \* history: the time since the login or the binding was withdrawn

relayVars == <<filtered, relay_rights, pump, relay_lock, policy_run, message, browser_code, alas_open,
               supervisor, timers, withdrawn_for>>

Pumps == {"browser", "alas", "watchdog"}
NoMessage == [kind |-> "none", late |-> FALSE]

RelayInit ==
  /\ filtered \in BOOLEAN
  /\ relay_rights = [login |-> TRUE, binding |-> TRUE, run |-> TRUE]
  /\ pump = [p \in Pumps |-> [pc |-> "waits", code |-> 0]]
  /\ relay_lock = "free" /\ policy_run = TRUE /\ message = NoMessage
  /\ browser_code = 0 /\ alas_open = TRUE /\ supervisor = [pc |-> "wait", code |-> 1000]
  /\ timers = [watchdog |-> Recheck, checked |-> Recheck, drain |-> 0]
  /\ withdrawn_for = 0

At(p, pc) == pump[p].pc = pc
To(p, pc) == pump' = [pump EXCEPT ![p].pc = pc]
RelayEnds(p, code) == pump' = [pump EXCEPT ![p] = [pc |-> "done", code |-> code]]
Unchanged3 == UNCHANGED <<filtered, relay_rights, withdrawn_for>>

\* The first close counts.
CloseBrowser(code) == browser_code' = IF browser_code = 0 THEN code ELSE browser_code
CloseBoth(code) == CloseBrowser(code) /\ alas_open' = FALSE

SessionValid(r) == r.login /\ (filtered => r.binding)

-----------------------------------------------------------------------------
(* refresh_access, under the lock. *)

\* access_check_due, for frames of ALAS; the others check always.
RecheckDue(p) == p = "alas" => timers.checked >= Recheck

\* Variant: messages of the browser are checked once in a while as well.
EnterRarely(p) ==
  /\ At(p, "locks") /\ relay_lock = "free" /\ relay_lock' = p
  /\ To(p, IF p = "watchdog" \/ timers.checked >= Recheck THEN "login" ELSE "checked")
  /\ Unchanged3 /\ UNCHANGED <<policy_run, message, browser_code, alas_open, supervisor, timers>>
EnterCheck(p) ==
  /\ At(p, "locks") /\ relay_lock = "free" /\ relay_lock' = p
  /\ To(p, IF RecheckDue(p) THEN "login" ELSE "checked")
  /\ Unchanged3 /\ UNCHANGED <<policy_run, message, browser_code, alas_open, supervisor, timers>>

Checked(p) == timers' = IF p = "alas" THEN [timers EXCEPT !.checked = 0] ELSE timers
AccessDenied(p, code) == pump' = [pump EXCEPT ![p] = [pc |-> "denies", code |-> code]] /\ Checked(p)

\* _ws_refresh_session
CheckLogin(p) ==
  /\ At(p, "login")
  /\ IF ~relay_rights.login THEN AccessDenied(p, 4403)
     ELSE IF filtered THEN To(p, "binding") /\ UNCHANGED timers
     ELSE To(p, "checked") /\ Checked(p)
  /\ Unchanged3 /\ UNCHANGED <<relay_lock, policy_run, message, browser_code, alas_open, supervisor>>

\* _ws_refresh_authorization
CheckBinding(p) ==
  /\ At(p, "binding")
  /\ IF relay_rights.binding THEN To(p, "checked") /\ Checked(p) /\ policy_run' = relay_rights.run
     ELSE AccessDenied(p, 1008) /\ UNCHANGED policy_run
  /\ Unchanged3 /\ UNCHANGED <<relay_lock, message, browser_code, alas_open, supervisor>>

Deny(p) ==
  /\ At(p, "denies") /\ CloseBoth(pump[p].code) /\ RelayEnds(p, pump[p].code) /\ relay_lock' = "free"
  /\ Unchanged3 /\ UNCHANGED <<policy_run, message, supervisor, timers>>

-----------------------------------------------------------------------------
(* client_to_upstream *)

Receive(kind) ==
  /\ At("browser", "waits") /\ browser_code = 0
  /\ message' = [kind |-> kind, late |-> ~SessionValid(relay_rights) \/ (kind = "run" /\ filtered /\ ~relay_rights.run)]
  /\ To("browser", "locks")
  /\ Unchanged3 /\ UNCHANGED <<relay_lock, policy_run, browser_code, alas_open, supervisor, timers>>

ReceiveOversized ==
  /\ At("browser", "waits") /\ browser_code = 0
  /\ CloseBoth(1008) /\ RelayEnds("browser", 1008)
  /\ Unchanged3 /\ UNCHANGED <<relay_lock, policy_run, message, supervisor, timers>>

\* The browser has gone, or was closed by another.
ReceiveDisconnect ==
  /\ At("browser", "waits")
  /\ CloseBoth(1000) /\ RelayEnds("browser", 1000)
  /\ Unchanged3 /\ UNCHANGED <<relay_lock, policy_run, message, supervisor, timers>>

EvaluateUpstream ==
  /\ At("browser", "checked") /\ relay_lock' = "free"
  /\ IF filtered /\ message.kind = "breach"
     THEN CloseBoth(1008) /\ RelayEnds("browser", 1008) /\ message' = NoMessage
     ELSE IF filtered /\ message.kind = "run" /\ ~policy_run
     THEN To("browser", "waits") /\ message' = NoMessage /\ UNCHANGED <<browser_code, alas_open>>
     ELSE To("browser", "sends") /\ UNCHANGED <<message, browser_code, alas_open>>
  /\ Unchanged3 /\ UNCHANGED <<policy_run, supervisor, timers>>

\* A socket that is closed fails: 1011 is the code of the exception.
SendUp ==
  /\ At("browser", "sends") /\ message' = NoMessage
  /\ IF alas_open THEN To("browser", "waits") ELSE RelayEnds("browser", 1011)
  /\ Unchanged3 /\ UNCHANGED <<relay_lock, policy_run, browser_code, alas_open, supervisor, timers>>

-----------------------------------------------------------------------------
(* upstream_to_client; a code of 0 is its end, when ALAS has closed. *)

NextFrame ==
  /\ At("alas", "waits") /\ alas_open /\ To("alas", "locks")
  /\ Unchanged3 /\ UNCHANGED <<relay_lock, policy_run, message, browser_code, alas_open, supervisor, timers>>

\* A frame too large ends an administrator's relay; a user does not get it.
FrameOversized ==
  /\ At("alas", "waits") /\ alas_open /\ ~filtered
  /\ CloseBoth(1008) /\ RelayEnds("alas", 1008)
  /\ Unchanged3 /\ UNCHANGED <<relay_lock, policy_run, message, supervisor, timers>>

AlasCloses ==
  /\ At("alas", "waits") /\ alas_open' = FALSE /\ RelayEnds("alas", 0)
  /\ Unchanged3 /\ UNCHANGED <<relay_lock, policy_run, message, browser_code, supervisor, timers>>

\* The frame is passed on, filtered, or dropped.
FilterFrame(dropped) ==
  /\ At("alas", "checked") /\ relay_lock' = "free" /\ (dropped => filtered)
  /\ To("alas", IF dropped THEN "waits" ELSE "sends")
  /\ Unchanged3 /\ UNCHANGED <<policy_run, message, browser_code, alas_open, supervisor, timers>>
SendDown ==
  /\ At("alas", "sends") /\ IF browser_code = 0 THEN To("alas", "waits") ELSE RelayEnds("alas", 1011)
  /\ Unchanged3 /\ UNCHANGED <<relay_lock, policy_run, message, browser_code, alas_open, supervisor, timers>>

-----------------------------------------------------------------------------
(* authorization_watchdog *)

Wake ==
  /\ At("watchdog", "waits") /\ timers.watchdog = 0 /\ To("watchdog", "locks")
  /\ Unchanged3 /\ UNCHANGED <<relay_lock, policy_run, message, browser_code, alas_open, supervisor, timers>>
SleepAgain ==
  /\ At("watchdog", "checked") /\ relay_lock' = "free" /\ To("watchdog", "waits")
  /\ timers' = [timers EXCEPT !.watchdog = Recheck]
  /\ Unchanged3 /\ UNCHANGED <<policy_run, message, browser_code, alas_open, supervisor>>

-----------------------------------------------------------------------------
(* supervise *)

Over == {p \in Pumps : At(p, "done")}
RelayMoves(pc) == supervisor' = [supervisor EXCEPT !.pc = pc]
Supervise(pc) ==
  supervisor.pc = pc /\ UNCHANGED <<policy_run, message>> /\ Unchanged3

\* ALAS has closed, or its pump failed, and the browser may have messages on
\* their way: a second for them.
FirstEnds ==
  /\ Supervise("wait") /\ Over # {}
  /\ IF Over \cap {"alas", "browser"} = {"alas"} /\ pump["alas"].code \in {0, 1011}
     THEN RelayMoves("drain") /\ timers' = [timers EXCEPT !.drain = DrainTime]
     ELSE RelayMoves("join") /\ UNCHANGED timers
  /\ UNCHANGED <<pump, relay_lock, browser_code, alas_open>>

\* One that is still under way when the second is over gives the code 1008.
Drained ==
  /\ Supervise("drain") /\ (At("browser", "done") \/ timers.drain = 0)
  /\ supervisor' = [pc |-> "join", code |-> IF At("browser", "done") \/ message = NoMessage THEN 1000 ELSE 1008]
  /\ UNCHANGED <<pump, relay_lock, browser_code, alas_open, timers>>

\* The connection is cancelled; a message under way is given some time, which
\* may be too little.
SupervisorCancelled ==
  /\ Supervise("wait") /\ RelayMoves(IF message = NoMessage THEN "join" ELSE "grace")
  /\ UNCHANGED <<pump, relay_lock, browser_code, alas_open, timers>>
GraceOver ==
  /\ Supervise("grace") /\ RelayMoves("join")
  /\ UNCHANGED <<pump, relay_lock, browser_code, alas_open, timers>>

\* _prefer_proxy_close_code over the pumps that ended, in any order
Codes == ({supervisor.code} \cup {pump[p].code : p \in Over}) \ {0, 1000}
\* _cancel_and_join_proxy_tasks
Join ==
  /\ Supervise("join")
  /\ \E code \in IF Codes = {} THEN {1000} ELSE Codes : supervisor' = [pc |-> "close", code |-> code]
  /\ pump' = [p \in Pumps |-> IF p \in Over THEN pump[p] ELSE [pc |-> "done", code |-> 0]]
  /\ relay_lock' = "free"
  /\ UNCHANGED <<browser_code, alas_open, timers>>

CloseAll ==
  /\ Supervise("close") /\ CloseBoth(supervisor.code) /\ RelayMoves("ended")
  /\ UNCHANGED <<pump, relay_lock, timers>>

-----------------------------------------------------------------------------
(* Administrators, and time. *)

WithdrawRight(right) ==
  /\ relay_rights[right] /\ relay_rights' = [relay_rights EXCEPT ![right] = FALSE]
  /\ UNCHANGED <<filtered, pump, relay_lock, policy_run, message, browser_code, alas_open, supervisor, timers,
                 withdrawn_for>>

OneLess(n) == IF n = 0 THEN 0 ELSE n - 1
More(n) == IF n > Recheck THEN n ELSE n + 1
Waiting(p) == pump[p].pc \in {"waits", "done"} /\ (p = "watchdog" /\ At(p, "waits") => timers.watchdog > 0)

RelayTick ==
  /\ \A p \in Pumps : Waiting(p)
  /\ \/ supervisor.pc = "wait" /\ Over = {}
     \/ supervisor.pc = "drain" /\ timers.drain > 0
  /\ timers' = [watchdog |-> OneLess(timers.watchdog), checked |-> More(timers.checked), drain |-> OneLess(timers.drain)]
  /\ withdrawn_for' = IF SessionValid(relay_rights) THEN 0 ELSE More(withdrawn_for)
  /\ UNCHANGED <<filtered, relay_rights, pump, relay_lock, policy_run, message, browser_code, alas_open, supervisor>>

RelayNext ==
  \/ \E p \in Pumps : EnterCheck(p) \/ CheckLogin(p) \/ CheckBinding(p) \/ Deny(p)
  \/ \E kind \in {"plain", "run", "breach"} : Receive(kind)
  \/ ReceiveOversized \/ ReceiveDisconnect \/ EvaluateUpstream \/ SendUp
  \/ NextFrame \/ FrameOversized \/ AlasCloses \/ SendDown \/ \E dropped \in BOOLEAN : FilterFrame(dropped)
  \/ Wake \/ SleepAgain
  \/ FirstEnds \/ Drained \/ SupervisorCancelled \/ GraceOver \/ Join \/ CloseAll
  \/ RelayTick \/ \E right \in {"login", "binding", "run"} : WithdrawRight(right)

RelaySpec == RelayInit /\ [][RelayNext]_relayVars

-----------------------------------------------------------------------------
(* Properties. *)

\* A message that came after the right to it was withdrawn is not sent to ALAS,
\* whichever of the three checked last.
LateNeverSent == At("browser", "sends") => ~message.late

\* "a revoked session or binding takes effect within
\* ALAS_WS_AUTHORIZATION_RECHECK_SECONDS", whatever the pumps wait for.
TakesEffect == withdrawn_for <= Recheck \/ browser_code # 0

\* When the relay has ended nothing of it is left.
EndsWhole ==
  supervisor.pc = "ended" =>
    browser_code # 0 /\ ~alas_open /\ relay_lock = "free" /\ \A p \in Pumps : At(p, "done")

RelaySound == LateNeverSent /\ TakesEffect /\ EndsWhole
=============================================================================
