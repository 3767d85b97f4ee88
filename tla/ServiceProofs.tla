--------------------------- MODULE ServiceProofs ----------------------------
(***************************************************************************)
(* Proofs about five services around the mirror sessions, each for every   *)
(* size.  A proxied WebSocket of ALAS gives up what was withdrawn: nothing *)
(* that came late is sent to ALAS, and the browser is closed within the    *)
(* time between two checks.  The status of a device is that of its present *)
(* row once the requests are done.  A transport of scrcpy has a forward of *)
(* its own, and none is forgotten.  An embedded page may do what ALAS has  *)
(* advertised to it, whatever the registry has given up for lack of room.  *)
(* The packets of the video socket come out whole, however it is cut.      *)
(***************************************************************************)
EXTENDS AlasRelay, AlasPolicy, AdbMonitor, ScrcpyTransport, ScrcpyDemuxer,
        FiniteSetTheorems, SequenceTheorems, WellFoundedInduction, TLAPS

(* The relay.  The invariant says what the pump that has the lock has already asked,
   and how long the watchdog may still sleep. *)

Places == {"waits", "locks", "login", "binding", "checked", "denies", "sends", "done"}
UnderLock == {"login", "binding", "checked", "denies"}
Past == {"close", "ended"}
RelayPumps == [Pumps -> [pc: Places, code: Nat]]

RelayTypeOK ==
  /\ filtered \in BOOLEAN /\ policy_run \in BOOLEAN /\ alas_open \in BOOLEAN
  /\ relay_rights \in [login: BOOLEAN, binding: BOOLEAN, run: BOOLEAN]
  /\ pump \in RelayPumps
  /\ relay_lock \in Pumps \cup {"free"}
  /\ message \in [kind: {"none", "plain", "run", "breach"}, late: BOOLEAN]
  /\ browser_code \in Nat
  /\ supervisor \in [pc: {"wait", "drain", "grace", "join", "close", "ended"}, code: Nat \ {0}]
  /\ timers \in [watchdog: Nat, checked: Nat, drain: Nat]
  /\ withdrawn_for \in Nat

\* One of the three is between its two uses of the lock: the one that has it.
LockHeld == \A p \in Pumps : pump[p].pc \in UnderLock <=> relay_lock = p

\* What is still to be asked about a late message, and would stop it.
RunWithdrawn == filtered /\ message.kind = "run" /\ ~relay_rights.run
LateOK ==
  /\ message.late /\ (At("browser", "locks") \/ At("browser", "login")) =>
       ~SessionValid(relay_rights) \/ RunWithdrawn
  /\ message.late /\ At("browser", "binding") => filtered /\ (~relay_rights.binding \/ RunWithdrawn)
  /\ message.late /\ At("browser", "checked") => filtered /\ message.kind = "run" /\ ~policy_run
  /\ LateNeverSent

\* What was withdrawn before the last tick is still withdrawn when the watchdog asks.
TimeOK ==
  /\ withdrawn_for > 0 => ~SessionValid(relay_rights)
  /\ \/ browser_code # 0
     \/ /\ withdrawn_for <= Recheck
        /\ At("watchdog", "waits") => withdrawn_for + timers.watchdog <= Recheck
        /\ At("watchdog", "binding") /\ withdrawn_for > 0 => filtered /\ ~relay_rights.binding
        /\ At("watchdog", "checked") => withdrawn_for = 0
        /\ At("watchdog", "done") => supervisor.pc \in Past

\* A refusal has a code; what the supervisor left is over.
EndOK ==
  /\ \A p \in Pumps : At(p, "denies") => pump[p].code # 0
  /\ supervisor.pc \in Past => \A p \in Pumps : At(p, "done")
  /\ supervisor.pc = "ended" => browser_code # 0 /\ ~alas_open

RelayInv == RelayTypeOK /\ LockHeld /\ LateOK /\ TimeOK /\ EndOK

-----------------------------------------------------------------------------
LEMMA RelayStarts == RelayInit => RelayInv
<1> SUFFICES ASSUME RelayInit PROVE RelayInv OBVIOUS
<1> USE RelayAssumption
<1>1. /\ \A p \in Pumps : pump[p].pc = "waits" /\ pump[p].code = 0
      /\ pump \in RelayPumps
  BY DEF RelayInit, RelayPumps, Places
<1>2. RelayTypeOK BY <1>1 DEF RelayInit, RelayTypeOK, NoMessage
<1>3. LockHeld BY <1>1 DEF RelayInit, LockHeld, UnderLock, Pumps
<1>4. LateOK BY DEF RelayInit, LateOK, NoMessage, LateNeverSent
<1>5. TimeOK BY <1>1 DEF RelayInit, TimeOK, At, Pumps
<1>6. EndOK BY <1>1 DEF RelayInit, EndOK, At, Past
<1>7. QED BY <1>2, <1>3, <1>4, <1>5, <1>6 DEF RelayInv

LEMMA InvImpliesSound == RelayInv => RelaySound
<1> SUFFICES ASSUME RelayInv PROVE RelaySound OBVIOUS
<1>1. LateNeverSent BY DEF RelayInv, LateOK
<1>2. TakesEffect BY DEF RelayInv, TimeOK, TakesEffect
<1>3. EndsWhole
  <2>1. relay_lock \in Pumps => pump[relay_lock].pc \in UnderLock BY DEF RelayInv, LockHeld
  <2>2. supervisor.pc = "ended" => relay_lock \notin Pumps
    BY <2>1 DEF RelayInv, EndOK, At, Past, UnderLock
  <2>3. QED BY <2>2 DEF RelayInv, RelayTypeOK, EndOK, EndsWhole, Past
<1>4. QED BY <1>1, <1>2, <1>3 DEF RelaySound

-----------------------------------------------------------------------------
(* What a step of one pump changes. *)

OnlyPump(p) == pump' \in RelayPumps /\ \A q \in Pumps \ {p} : pump'[q] = pump[q]

LEMMA PumpMoves ==
  ASSUME pump \in RelayPumps, NEW p \in Pumps, NEW pc \in Places, To(p, pc)
  PROVE  OnlyPump(p) /\ pump'[p].pc = pc /\ pump'[p].code = pump[p].code
BY DEF To, OnlyPump, RelayPumps

LEMMA PumpIsSet ==
  ASSUME pump \in RelayPumps, NEW p \in Pumps, NEW pc \in Places, NEW code \in Nat,
         pump' = [pump EXCEPT ![p] = [pc |-> pc, code |-> code]]
  PROVE  OnlyPump(p) /\ pump'[p].pc = pc /\ pump'[p].code = code
BY DEF OnlyPump, RelayPumps

\* The lock is taken, kept, given back, or another's.
LEMMA LockKept ==
  ASSUME LockHeld, NEW p \in Pumps, OnlyPump(p),
         \/ relay_lock' = relay_lock /\ (pump'[p].pc \in UnderLock <=> pump[p].pc \in UnderLock)
         \/ relay_lock = "free" /\ relay_lock' = p /\ pump'[p].pc \in UnderLock
         \/ pump[p].pc \in UnderLock /\ pump'[p].pc \notin UnderLock /\ relay_lock' = "free"
  PROVE  LockHeld'
BY DEF LockHeld, OnlyPump, Pumps

\* The ends: a step of a pump that is not done, before the join.
LEMMA EndKept ==
  ASSUME EndOK, NEW p \in Pumps, OnlyPump(p), pump[p].pc # "done", UNCHANGED supervisor,
         pump'[p].pc = "denies" => pump'[p].code # 0
  PROVE  EndOK' /\ supervisor.pc \notin Past
BY DEF EndOK, OnlyPump, At, Past

\* The message: the pumps of ALAS and the watchdog do not touch it, and change the right
\* to run only while the browser's does not rely on it.
LEMMA LateKept ==
  ASSUME LateOK, pump'["browser"] = pump["browser"],
         UNCHANGED <<filtered, message, relay_rights>>,
         policy_run' = policy_run \/ ~At("browser", "checked")
  PROVE  LateOK'
BY DEF LateOK, LateNeverSent, At, RunWithdrawn, SessionValid

\* The time: the others do not touch the watchdog, and a closed browser stays closed.
LEMMA TimeKept ==
  ASSUME TimeOK, pump'["watchdog"] = pump["watchdog"], timers'.watchdog = timers.watchdog,
         UNCHANGED <<filtered, relay_rights, withdrawn_for>>,
         browser_code' = browser_code \/ browser_code' # 0, supervisor'.pc = supervisor.pc
  PROVE  TimeOK'
BY DEF TimeOK, At, Past, SessionValid

\* The first close counts, and there is a code.
LEMMA BothClosed ==
  ASSUME browser_code \in Nat, NEW code \in Nat \ {0}, CloseBoth(code)
  PROVE  browser_code' \in Nat /\ browser_code' # 0 /\ alas_open' \in BOOLEAN
BY DEF CloseBoth, CloseBrowser

\* A closed browser: time no longer matters.
LEMMA ClosedKept ==
  ASSUME TimeOK, browser_code' # 0, UNCHANGED <<filtered, relay_rights, withdrawn_for>>
  PROVE  TimeOK'
BY DEF TimeOK, SessionValid

-----------------------------------------------------------------------------
(* refresh_access *)

LEMMA EnterStep == ASSUME RelayInv, NEW p \in Pumps, EnterCheck(p) PROVE RelayInv'
<1> DEFINE pc == IF RecheckDue(p) THEN "login" ELSE "checked"
<1>1. /\ At(p, "locks") /\ relay_lock = "free" /\ relay_lock' = p /\ To(p, pc)
      /\ UNCHANGED <<filtered, relay_rights, withdrawn_for, policy_run, message, browser_code, alas_open,
                     supervisor, timers>>
  BY DEF EnterCheck, Unchanged3
<1>2. pc \in {"login", "checked"} /\ pc \in Places /\ (p # "alas" => pc = "login")
  BY DEF Places, RecheckDue
<1>3. pump \in RelayPumps BY DEF RelayInv, RelayTypeOK
<1> HIDE DEF pc
<1>4. OnlyPump(p) /\ pump'[p].pc = pc BY <1>1, <1>2, <1>3, PumpMoves
<1>5. RelayTypeOK' BY <1>1, <1>4 DEF RelayInv, RelayTypeOK, OnlyPump
<1>6. LockHeld' BY <1>1, <1>2, <1>4, LockKept DEF RelayInv, UnderLock
<1>7. LateOK'
  <2>1. CASE p = "browser" BY <2>1, <1>1, <1>2, <1>4 DEF RelayInv, LateOK, LateNeverSent, At, RunWithdrawn, SessionValid
  <2>2. CASE p # "browser"
    <3>1. pump'["browser"] = pump["browser"] BY <2>2, <1>4 DEF OnlyPump, Pumps
    <3>2. QED BY <3>1, <1>1, LateKept DEF RelayInv
  <2>3. QED BY <2>1, <2>2
<1>8. TimeOK'
  <2>1. CASE p = "watchdog" BY <2>1, <1>1, <1>2, <1>4 DEF RelayInv, TimeOK, At, SessionValid
  <2>2. CASE p # "watchdog"
    <3>1. pump'["watchdog"] = pump["watchdog"] BY <2>2, <1>4 DEF OnlyPump, Pumps
    <3>2. QED BY <3>1, <1>1, TimeKept DEF RelayInv
  <2>3. QED BY <2>1, <2>2
<1>9. EndOK' BY <1>1, <1>2, <1>4, EndKept DEF RelayInv, At
<1>10. QED BY <1>5, <1>6, <1>7, <1>8, <1>9 DEF RelayInv

\* A check that holds the lock and does not give it back: what it has seen holds for
\* what it asked about.
LEMMA CheckStep == ASSUME RelayInv, NEW p \in Pumps, CheckLogin(p) \/ CheckBinding(p) PROVE RelayInv'
<1>1. /\ pump \in RelayPumps /\ filtered \in BOOLEAN /\ timers \in [watchdog: Nat, checked: Nat, drain: Nat]
      /\ relay_rights \in [login: BOOLEAN, binding: BOOLEAN, run: BOOLEAN] /\ policy_run \in BOOLEAN
  BY DEF RelayInv, RelayTypeOK
<1>2. UNCHANGED <<filtered, relay_rights, withdrawn_for, relay_lock, message, browser_code, alas_open, supervisor>>
  BY DEF CheckLogin, CheckBinding, Unchanged3
<1>3. /\ OnlyPump(p)
      /\ timers' \in [watchdog: Nat, checked: Nat, drain: Nat] /\ timers'.watchdog = timers.watchdog
      /\ policy_run' \in BOOLEAN
      /\ \/ pump'[p].pc = "denies" /\ pump'[p].code # 0 /\ UNCHANGED policy_run
         \/ /\ At(p, "login") /\ relay_rights.login /\ UNCHANGED policy_run
            /\ pump'[p].pc = IF filtered THEN "binding" ELSE "checked"
         \/ /\ At(p, "binding") /\ relay_rights.binding /\ policy_run' = relay_rights.run
            /\ pump'[p].pc = "checked"
  <2>1. Checked(p) => timers' \in [watchdog: Nat, checked: Nat, drain: Nat] /\ timers'.watchdog = timers.watchdog
    BY <1>1 DEF Checked
  <2>2. ASSUME NEW code \in Nat \ {0}, AccessDenied(p, code)
        PROVE  OnlyPump(p) /\ pump'[p].pc = "denies" /\ pump'[p].code # 0 /\ Checked(p)
    <3>1. pump' = [pump EXCEPT ![p] = [pc |-> "denies", code |-> code]] /\ Checked(p) BY <2>2 DEF AccessDenied
    <3>2. code \in Nat /\ code # 0 /\ "denies" \in Places BY DEF Places
    <3>3. OnlyPump(p) /\ pump'[p].pc = "denies" /\ pump'[p].code = code BY <3>1, <3>2, <1>1, PumpIsSet
    <3>4. QED BY <3>1, <3>2, <3>3
  <2>3. ASSUME NEW pc \in {"binding", "checked"}, To(p, pc)
        PROVE  OnlyPump(p) /\ pump'[p].pc = pc
    BY <2>3, <1>1, PumpMoves DEF Places
  <2>4. CASE CheckLogin(p)
    <3>1. CASE AccessDenied(p, 4403) BY <3>1, <2>1, <2>2, <2>4, <1>1 DEF CheckLogin
    <3>2. CASE relay_rights.login /\ filtered /\ To(p, "binding") /\ UNCHANGED timers
      BY <3>2, <2>3, <2>4, <1>1 DEF CheckLogin
    <3>3. CASE relay_rights.login /\ ~filtered /\ To(p, "checked") /\ Checked(p)
      BY <3>3, <2>1, <2>3, <2>4, <1>1 DEF CheckLogin
    <3>4. QED BY <2>4, <3>1, <3>2, <3>3 DEF CheckLogin
  <2>5. CASE CheckBinding(p)
    <3>1. CASE AccessDenied(p, 1008) /\ UNCHANGED policy_run BY <3>1, <2>1, <2>2, <1>1
    <3>2. CASE relay_rights.binding /\ To(p, "checked") /\ Checked(p) /\ policy_run' = relay_rights.run
      BY <3>2, <2>1, <2>3, <2>5, <1>1 DEF CheckBinding
    <3>3. QED BY <2>5, <3>1, <3>2 DEF CheckBinding
  <2>6. QED BY <2>4, <2>5
<1>4. pump[p].pc \in {"login", "binding"} BY DEF CheckLogin, CheckBinding, At
<1>5. pump'[p].pc \in {"binding", "checked", "denies"} BY <1>3
<1>6. RelayTypeOK' BY <1>2, <1>3 DEF RelayInv, RelayTypeOK, OnlyPump
<1>7. LockHeld' BY <1>2, <1>3, <1>4, <1>5, LockKept DEF RelayInv, UnderLock
<1>8. LateOK'
  <2>1. CASE p = "browser"
    BY <2>1, <1>1, <1>2, <1>3 DEF RelayInv, LateOK, LateNeverSent, At, RunWithdrawn, SessionValid
  <2>2. CASE p # "browser"
    <3>1. pump'["browser"] = pump["browser"] BY <2>2, <1>3 DEF OnlyPump, Pumps
    <3>2. ~At("browser", "checked")
      BY <2>2, <1>4 DEF RelayInv, LockHeld, UnderLock, At, Pumps
    <3>3. QED BY <3>1, <3>2, <1>2, LateKept DEF RelayInv
  <2>3. QED BY <2>1, <2>2
<1>9. TimeOK'
  <2>1. CASE p = "watchdog"
    BY <2>1, <1>1, <1>2, <1>3 DEF RelayInv, RelayTypeOK, TimeOK, At, SessionValid
  <2>2. CASE p # "watchdog"
    <3>1. pump'["watchdog"] = pump["watchdog"] BY <2>2, <1>3 DEF OnlyPump, Pumps
    <3>2. QED BY <3>1, <1>2, <1>3, TimeKept DEF RelayInv
  <2>3. QED BY <2>1, <2>2
<1>10. EndOK' BY <1>2, <1>3, <1>4, EndKept DEF RelayInv
<1>11. QED BY <1>6, <1>7, <1>8, <1>9, <1>10 DEF RelayInv

LEMMA DenyStep == ASSUME RelayInv, NEW p \in Pumps, Deny(p) PROVE RelayInv'
<1>1. pump \in RelayPumps /\ pump[p].code \in Nat /\ browser_code \in Nat
  BY DEF RelayInv, RelayTypeOK, RelayPumps
<1>2. At(p, "denies") /\ pump[p].code # 0 BY DEF Deny, RelayInv, EndOK
<1>3. /\ pump' = [pump EXCEPT ![p] = [pc |-> "done", code |-> pump[p].code]]
      /\ browser_code' \in Nat \ {0} /\ alas_open' = FALSE /\ relay_lock' = "free"
      /\ UNCHANGED <<filtered, relay_rights, withdrawn_for, policy_run, message, supervisor, timers>>
  BY <1>1, <1>2 DEF Deny, CloseBoth, CloseBrowser, RelayEnds, Unchanged3
<1>4. OnlyPump(p) /\ pump'[p].pc = "done"
  <2>1. "done" \in Places BY DEF Places
  <2>2. QED BY <2>1, <1>1, <1>3, PumpIsSet
<1>5. RelayTypeOK' BY <1>3, <1>4 DEF RelayInv, RelayTypeOK, OnlyPump
<1>6. LockHeld' BY <1>2, <1>3, <1>4, LockKept DEF RelayInv, UnderLock, At
<1>7. LateOK'
  <2>1. CASE p = "browser" BY <2>1, <1>4 DEF LateOK, LateNeverSent, At
  <2>2. CASE p # "browser"
    <3>1. pump'["browser"] = pump["browser"] BY <2>2, <1>4 DEF OnlyPump, Pumps
    <3>2. QED BY <3>1, <1>3, LateKept DEF RelayInv
  <2>3. QED BY <2>1, <2>2
<1>8. TimeOK' BY <1>3, ClosedKept DEF RelayInv
<1>9. EndOK' BY <1>2, <1>3, <1>4, EndKept DEF RelayInv, At
<1>10. QED BY <1>5, <1>6, <1>7, <1>8, <1>9 DEF RelayInv

-----------------------------------------------------------------------------
(* The two pumps and the watchdog *)

\* A message is taken with its right, asked about under the lock, and sent if it may be.
LEMMA BrowserStep ==
  ASSUME RelayInv,
         \/ \E kind \in {"plain", "run", "breach"} : Receive(kind)
         \/ ReceiveOversized \/ ReceiveDisconnect \/ EvaluateUpstream \/ SendUp
  PROVE  RelayInv'
<1>1. /\ pump \in RelayPumps /\ browser_code \in Nat /\ alas_open \in BOOLEAN /\ filtered \in BOOLEAN
      /\ message \in [kind: {"none", "plain", "run", "breach"}, late: BOOLEAN]
      /\ relay_rights \in [login: BOOLEAN, binding: BOOLEAN, run: BOOLEAN]
      /\ "browser" \in Pumps
  BY DEF RelayInv, RelayTypeOK, Pumps
<1>2. /\ UNCHANGED <<filtered, relay_rights, withdrawn_for, policy_run, supervisor, timers>>
      /\ pump["browser"].pc \in {"waits", "checked", "sends"}
  BY DEF Receive, ReceiveOversized, ReceiveDisconnect, EvaluateUpstream, SendUp, Unchanged3, At
<1>3. /\ browser_code' \in Nat /\ alas_open' \in BOOLEAN /\ (browser_code' = browser_code \/ browser_code' # 0)
      /\ message' \in [kind: {"none", "plain", "run", "breach"}, late: BOOLEAN]
      /\ IF At("browser", "checked") THEN relay_lock' = "free" ELSE relay_lock' = relay_lock
  <2>1. CASE \E kind \in {"plain", "run", "breach"} : Receive(kind)
    <3>1. PICK kind \in {"plain", "run", "breach"} : Receive(kind) BY <2>1
    <3>2. SessionValid(relay_rights) \in BOOLEAN BY <1>1 DEF SessionValid
    <3>3. QED BY <1>1, <3>1, <3>2 DEF Receive, At
  <2>2. CASE ReceiveOversized
    <3>1. browser_code' \in Nat /\ browser_code' # 0 /\ alas_open' \in BOOLEAN
      BY <1>1, <2>2, BothClosed DEF ReceiveOversized
    <3>2. QED BY <1>1, <2>2, <3>1 DEF ReceiveOversized, At
  <2>3. CASE ReceiveDisconnect
    <3>1. browser_code' \in Nat /\ browser_code' # 0 /\ alas_open' \in BOOLEAN
      BY <1>1, <2>3, BothClosed DEF ReceiveDisconnect
    <3>2. QED BY <1>1, <2>3, <3>1 DEF ReceiveDisconnect, At
  <2>4. CASE EvaluateUpstream
    <3>1. At("browser", "checked") /\ relay_lock' = "free" /\ (message' = message \/ message' = NoMessage)
          /\ (CloseBoth(1008) \/ UNCHANGED <<browser_code, alas_open>>)
      BY <2>4 DEF EvaluateUpstream
    <3>2. browser_code' \in Nat /\ alas_open' \in BOOLEAN /\ (browser_code' = browser_code \/ browser_code' # 0)
      <4>1. CASE CloseBoth(1008) BY <1>1, <4>1, BothClosed
      <4>2. CASE UNCHANGED <<browser_code, alas_open>> BY <1>1, <4>2
      <4>3. QED BY <3>1, <4>1, <4>2
    <3>3. NoMessage \in [kind: {"none", "plain", "run", "breach"}, late: BOOLEAN] BY DEF NoMessage
    <3>4. message' \in [kind: {"none", "plain", "run", "breach"}, late: BOOLEAN] BY <1>1, <3>1, <3>3
    <3>5. QED BY <3>1, <3>2, <3>4
  <2>5. CASE SendUp BY <1>1, <2>5 DEF SendUp, At, NoMessage
  <2>6. QED BY <2>1, <2>2, <2>3, <2>4, <2>5
<1>4. /\ OnlyPump("browser")
      /\ \/ pump'["browser"].pc \in {"waits", "done"}
         \/ /\ pump'["browser"].pc = "locks" /\ At("browser", "waits")
            /\ message'.late => ~SessionValid(relay_rights) \/ (filtered /\ message'.kind = "run" /\ ~relay_rights.run)
         \/ /\ pump'["browser"].pc = "sends" /\ At("browser", "checked") /\ UNCHANGED message
            /\ ~(filtered /\ message.kind = "run" /\ ~policy_run)
  <2>1. ASSUME NEW pc \in {"waits", "locks", "sends"}, To("browser", pc)
        PROVE  OnlyPump("browser") /\ pump'["browser"].pc = pc
    BY <2>1, <1>1, PumpMoves DEF Places
  <2>2. ASSUME NEW code \in Nat, RelayEnds("browser", code)
        PROVE  OnlyPump("browser") /\ pump'["browser"].pc = "done"
    <3>1. "done" \in Places BY DEF Places
    <3>2. QED BY <2>2, <3>1, <1>1, PumpIsSet DEF RelayEnds
  <2>3. CASE \E kind \in {"plain", "run", "breach"} : Receive(kind)
    <3>1. PICK kind \in {"plain", "run", "breach"} : Receive(kind) BY <2>3
    <3>2. /\ message'.kind = kind
          /\ message'.late <=> ~SessionValid(relay_rights) \/ (kind = "run" /\ filtered /\ ~relay_rights.run)
      BY <3>1 DEF Receive
    <3>3. QED BY <2>1, <3>1, <3>2 DEF Receive
  <2>4. CASE ReceiveOversized \/ ReceiveDisconnect BY <2>2, <2>4 DEF ReceiveOversized, ReceiveDisconnect
  <2>5. CASE EvaluateUpstream
    <3>1. CASE filtered /\ message.kind = "breach" BY <2>2, <2>5, <3>1 DEF EvaluateUpstream
    <3>2. CASE ~(filtered /\ message.kind = "breach") /\ filtered /\ message.kind = "run" /\ ~policy_run
      BY <2>1, <2>5, <3>2 DEF EvaluateUpstream
    <3>3. CASE ~(filtered /\ message.kind = "breach") /\ ~(filtered /\ message.kind = "run" /\ ~policy_run)
      BY <2>1, <2>5, <3>3 DEF EvaluateUpstream
    <3>4. QED BY <3>1, <3>2, <3>3
  <2>6. CASE SendUp BY <2>1, <2>2, <2>6 DEF SendUp
  <2>7. QED BY <2>3, <2>4, <2>5, <2>6
<1>5. RelayTypeOK' BY <1>2, <1>3, <1>4 DEF RelayInv, RelayTypeOK, OnlyPump
<1>6. LockHeld'
  <2>1. pump'["browser"].pc \notin UnderLock BY <1>4 DEF UnderLock
  <2>2. QED BY <2>1, <1>1, <1>2, <1>3, <1>4, LockKept DEF RelayInv, UnderLock, At
<1>7. LateOK'
  <2>1. CASE pump'["browser"].pc \in {"waits", "done"} BY <2>1 DEF LateOK, LateNeverSent, At
  <2>2. CASE pump'["browser"].pc = "locks" BY <2>2, <1>2, <1>4 DEF LateOK, LateNeverSent, At, SessionValid, RunWithdrawn
  <2>3. CASE pump'["browser"].pc = "sends" BY <2>3, <1>2, <1>4 DEF RelayInv, LateOK, LateNeverSent, At
  <2>4. QED BY <2>1, <2>2, <2>3, <1>4
<1>8. TimeOK'
  <2>1. pump'["watchdog"] = pump["watchdog"] BY <1>4 DEF OnlyPump, Pumps
  <2>2. QED BY <2>1, <1>2, <1>3, TimeKept DEF RelayInv
<1>9. EndOK' BY <1>1, <1>2, <1>4, EndKept DEF RelayInv
<1>10. QED BY <1>5, <1>6, <1>7, <1>8, <1>9 DEF RelayInv

LEMMA AlasStep ==
  ASSUME RelayInv,
         \/ NextFrame \/ FrameOversized \/ AlasCloses \/ SendDown
         \/ \E dropped \in BOOLEAN : FilterFrame(dropped)
  PROVE  RelayInv'
<1>1. pump \in RelayPumps /\ browser_code \in Nat /\ alas_open \in BOOLEAN /\ "alas" \in Pumps
  BY DEF RelayInv, RelayTypeOK, Pumps
<1>2. /\ UNCHANGED <<filtered, relay_rights, withdrawn_for, policy_run, message, supervisor, timers>>
      /\ pump["alas"].pc \in {"waits", "checked", "sends"}
      /\ browser_code' \in Nat /\ alas_open' \in BOOLEAN /\ (browser_code' = browser_code \/ browser_code' # 0)
      /\ IF At("alas", "checked") THEN relay_lock' = "free" ELSE relay_lock' = relay_lock
  <2>1. CASE NextFrame BY <1>1, <2>1 DEF NextFrame, Unchanged3, At
  <2>2. CASE FrameOversized
    <3>1. browser_code' \in Nat /\ browser_code' # 0 /\ alas_open' \in BOOLEAN
      BY <1>1, <2>2, BothClosed DEF FrameOversized
    <3>2. QED BY <2>2, <3>1 DEF FrameOversized, Unchanged3, At
  <2>3. CASE AlasCloses BY <1>1, <2>3 DEF AlasCloses, Unchanged3, At
  <2>4. CASE SendDown BY <1>1, <2>4 DEF SendDown, Unchanged3, At
  <2>5. CASE \E dropped \in BOOLEAN : FilterFrame(dropped) BY <1>1, <2>5 DEF FilterFrame, Unchanged3, At
  <2>6. QED BY <2>1, <2>2, <2>3, <2>4, <2>5
<1>3. OnlyPump("alas") /\ pump'["alas"].pc \in {"waits", "locks", "sends", "done"}
  <2>1. ASSUME NEW pc \in {"waits", "locks", "sends"}, To("alas", pc)
        PROVE  OnlyPump("alas") /\ pump'["alas"].pc = pc
    BY <2>1, <1>1, PumpMoves DEF Places
  <2>2. ASSUME NEW code \in Nat, RelayEnds("alas", code)
        PROVE  OnlyPump("alas") /\ pump'["alas"].pc = "done"
    <3>1. "done" \in Places BY DEF Places
    <3>2. QED BY <2>2, <3>1, <1>1, PumpIsSet DEF RelayEnds
  <2>3. QED BY <2>1, <2>2 DEF NextFrame, FrameOversized, AlasCloses, SendDown, FilterFrame
<1>4. RelayTypeOK' BY <1>2, <1>3 DEF RelayInv, RelayTypeOK, OnlyPump
<1>5. LockHeld'
  <2>1. pump'["alas"].pc \notin UnderLock BY <1>3 DEF UnderLock
  <2>2. QED BY <2>1, <1>1, <1>2, <1>3, LockKept DEF RelayInv, UnderLock, At
<1>6. LateOK'
  <2>1. pump'["browser"] = pump["browser"] BY <1>3 DEF OnlyPump, Pumps
  <2>2. QED BY <2>1, <1>2, LateKept DEF RelayInv
<1>7. TimeOK'
  <2>1. pump'["watchdog"] = pump["watchdog"] BY <1>3 DEF OnlyPump, Pumps
  <2>2. QED BY <2>1, <1>2, TimeKept DEF RelayInv
<1>8. EndOK' BY <1>1, <1>2, <1>3, EndKept DEF RelayInv
<1>9. QED BY <1>4, <1>5, <1>6, <1>7, <1>8 DEF RelayInv

LEMMA WatchdogStep == ASSUME RelayInv, Wake \/ SleepAgain PROVE RelayInv'
<1>1. /\ pump \in RelayPumps /\ "watchdog" \in Pumps /\ Recheck \in Nat /\ withdrawn_for \in Nat
      /\ timers \in [watchdog: Nat, checked: Nat, drain: Nat]
  BY RelayAssumption DEF RelayInv, RelayTypeOK, Pumps
<1>2. UNCHANGED <<filtered, relay_rights, withdrawn_for, policy_run, message, supervisor, browser_code, alas_open>>
  BY DEF Wake, SleepAgain, Unchanged3
<1>3. \/ /\ At("watchdog", "waits") /\ timers' = timers /\ relay_lock' = relay_lock
         /\ OnlyPump("watchdog") /\ pump'["watchdog"].pc = "locks"
      \/ /\ At("watchdog", "checked") /\ relay_lock' = "free"
         /\ timers' \in [watchdog: Nat, checked: Nat, drain: Nat] /\ timers'.watchdog = Recheck
         /\ OnlyPump("watchdog") /\ pump'["watchdog"].pc = "waits"
  <2>1. ASSUME NEW pc \in {"waits", "locks"}, To("watchdog", pc)
        PROVE  OnlyPump("watchdog") /\ pump'["watchdog"].pc = pc
    BY <2>1, <1>1, PumpMoves DEF Places
  <2>2. CASE Wake BY <2>1, <2>2 DEF Wake
  <2>3. CASE SleepAgain BY <2>1, <2>3, <1>1 DEF SleepAgain
  <2>4. QED BY <2>2, <2>3
<1>4. RelayTypeOK' BY <1>1, <1>2, <1>3 DEF RelayInv, RelayTypeOK, OnlyPump
<1>5. LockHeld'
  <2>1. pump'["watchdog"].pc \notin UnderLock BY <1>3 DEF UnderLock
  <2>2. QED BY <2>1, <1>1, <1>3, LockKept DEF RelayInv, UnderLock, At
<1>6. LateOK'
  <2>1. pump'["browser"] = pump["browser"] BY <1>3 DEF OnlyPump, Pumps
  <2>2. QED BY <2>1, <1>2, LateKept DEF RelayInv
<1>7. TimeOK' BY <1>1, <1>2, <1>3 DEF RelayInv, TimeOK, At, SessionValid
<1>8. EndOK' BY <1>1, <1>2, <1>3, EndKept DEF RelayInv, At
<1>9. QED BY <1>4, <1>5, <1>6, <1>7, <1>8 DEF RelayInv

-----------------------------------------------------------------------------
(* supervise *)

\* Until it joins them the supervisor leaves the pumps alone.
LEMMA SupervisorStep ==
  ASSUME RelayInv, FirstEnds \/ Drained \/ SupervisorCancelled \/ GraceOver
  PROVE  RelayInv'
<1>1. /\ timers \in [watchdog: Nat, checked: Nat, drain: Nat] /\ DrainTime \in Nat
      /\ supervisor \in [pc: {"wait", "drain", "grace", "join", "close", "ended"}, code: Nat \ {0}]
  BY RelayAssumption DEF RelayInv, RelayTypeOK
<1>2. /\ UNCHANGED <<filtered, relay_rights, withdrawn_for, policy_run, message, pump, relay_lock, browser_code, alas_open>>
      /\ supervisor.pc \in {"wait", "drain", "grace"}
  BY DEF FirstEnds, Drained, SupervisorCancelled, GraceOver, Supervise, Unchanged3
<1>3. /\ supervisor' \in [pc: {"wait", "drain", "grace", "join", "close", "ended"}, code: Nat \ {0}]
      /\ supervisor'.pc \in {"drain", "grace", "join"}
      /\ timers' \in [watchdog: Nat, checked: Nat, drain: Nat] /\ timers'.watchdog = timers.watchdog
  <2>1. ASSUME NEW pc \in {"drain", "grace", "join"}, RelayMoves(pc)
        PROVE  supervisor'.pc = pc /\ supervisor' \in [pc: {"wait", "drain", "grace", "join", "close", "ended"}, code: Nat \ {0}]
    BY <2>1, <1>1 DEF RelayMoves
  <2>2. CASE FirstEnds
    <3>1. \/ RelayMoves("drain") /\ timers' = [timers EXCEPT !.drain = DrainTime]
          \/ RelayMoves("join") /\ UNCHANGED timers
      BY <2>2 DEF FirstEnds
    <3>2. QED BY <2>1, <3>1, <1>1
  <2>3. CASE Drained BY <2>3, <1>1 DEF Drained
  <2>4. CASE SupervisorCancelled BY <2>1, <2>4, <1>1 DEF SupervisorCancelled
  <2>5. CASE GraceOver BY <2>1, <2>5, <1>1 DEF GraceOver
  <2>6. QED BY <2>2, <2>3, <2>4, <2>5
<1>4. RelayTypeOK' BY <1>2, <1>3 DEF RelayInv, RelayTypeOK
<1>5. LockHeld' BY <1>2 DEF RelayInv, LockHeld
<1>6. LateOK' BY <1>2, LateKept DEF RelayInv
<1>7. TimeOK' BY <1>2, <1>3 DEF RelayInv, TimeOK, At, SessionValid, Past
<1>8. EndOK' BY <1>2, <1>3 DEF RelayInv, EndOK, At, Past
<1>9. QED BY <1>4, <1>5, <1>6, <1>7, <1>8 DEF RelayInv

LEMMA JoinStep == ASSUME RelayInv, Join PROVE RelayInv'
<1>1. pump \in RelayPumps /\ supervisor.code \in Nat \ {0} BY DEF RelayInv, RelayTypeOK
<1>2. /\ UNCHANGED <<filtered, relay_rights, withdrawn_for, policy_run, message, browser_code, alas_open, timers>>
      /\ relay_lock' = "free" /\ supervisor.pc = "join"
      /\ pump' = [p \in Pumps |-> IF p \in Over THEN pump[p] ELSE [pc |-> "done", code |-> 0]]
  BY DEF Join, Supervise, Unchanged3
<1>3. pump' \in RelayPumps /\ \A p \in Pumps : pump'[p].pc = "done" BY <1>1, <1>2 DEF Over, At, RelayPumps, Places
<1>4. /\ supervisor' \in [pc: {"wait", "drain", "grace", "join", "close", "ended"}, code: Nat \ {0}]
      /\ supervisor'.pc = "close"
  <2>1. Codes \subseteq Nat \ {0}
    <3>1. \A p \in Over : pump[p].code \in Nat BY <1>1 DEF Over, RelayPumps
    <3>2. QED BY <1>1, <3>1 DEF Codes
  <2>2. PICK code \in (IF Codes = {} THEN {1000} ELSE Codes) : supervisor' = [pc |-> "close", code |-> code]
    BY DEF Join
  <2>3. code \in Nat \ {0} BY <2>1
  <2>4. QED BY <2>2, <2>3
<1>5. RelayTypeOK' BY <1>2, <1>3, <1>4 DEF RelayInv, RelayTypeOK
<1>6. LockHeld' BY <1>2, <1>3 DEF LockHeld, UnderLock, Pumps
<1>7. LateOK' BY <1>3 DEF LateOK, LateNeverSent, At, Pumps
<1>8. TimeOK' BY <1>2, <1>3, <1>4 DEF RelayInv, TimeOK, At, SessionValid, Past, Pumps
<1>9. EndOK' BY <1>3, <1>4 DEF EndOK, At
<1>10. QED BY <1>5, <1>6, <1>7, <1>8, <1>9 DEF RelayInv

LEMMA CloseStep == ASSUME RelayInv, CloseAll PROVE RelayInv'
<1>1. /\ supervisor \in [pc: {"wait", "drain", "grace", "join", "close", "ended"}, code: Nat \ {0}]
      /\ browser_code \in Nat
  BY DEF RelayInv, RelayTypeOK
<1>2. /\ UNCHANGED <<filtered, relay_rights, withdrawn_for, policy_run, message, pump, relay_lock, timers>>
      /\ supervisor.pc = "close" /\ CloseBoth(supervisor.code) /\ alas_open' = FALSE
      /\ supervisor' = [supervisor EXCEPT !.pc = "ended"]
  BY DEF CloseAll, Supervise, Unchanged3, RelayMoves, CloseBoth
<1>3. /\ supervisor' \in [pc: {"wait", "drain", "grace", "join", "close", "ended"}, code: Nat \ {0}]
      /\ supervisor'.pc = "ended"
  BY <1>1, <1>2
<1>4. browser_code' \in Nat /\ browser_code' # 0 /\ alas_open' \in BOOLEAN BY <1>1, <1>2, BothClosed
<1>5. RelayTypeOK' BY <1>2, <1>3, <1>4 DEF RelayInv, RelayTypeOK
<1>6. LockHeld' BY <1>2 DEF RelayInv, LockHeld
<1>7. LateOK' BY <1>2, LateKept DEF RelayInv
<1>8. TimeOK' BY <1>2, <1>4, ClosedKept DEF RelayInv
<1>9. EndOK' BY <1>2, <1>3, <1>4 DEF RelayInv, EndOK, At, Past
<1>10. QED BY <1>5, <1>6, <1>7, <1>8, <1>9 DEF RelayInv

-----------------------------------------------------------------------------
(* Administrators, and time. *)

\* What is withdrawn only makes a late message later.
LEMMA WithdrawStep ==
  ASSUME RelayInv, \E right \in {"login", "binding", "run"} : WithdrawRight(right)
  PROVE  RelayInv'
<1>1. PICK right \in {"login", "binding", "run"} : WithdrawRight(right) OBVIOUS
<1>2. UNCHANGED <<filtered, pump, relay_lock, policy_run, message, browser_code, alas_open, supervisor, timers,
                 withdrawn_for>>
  BY <1>1 DEF WithdrawRight
<1>3. /\ relay_rights' \in [login: BOOLEAN, binding: BOOLEAN, run: BOOLEAN]
      /\ relay_rights'.login => relay_rights.login
      /\ relay_rights'.binding => relay_rights.binding
      /\ relay_rights'.run => relay_rights.run
  <2>1. relay_rights \in [login: BOOLEAN, binding: BOOLEAN, run: BOOLEAN] BY DEF RelayInv, RelayTypeOK
  <2>2. CASE right = "login" BY <2>1, <2>2, <1>1 DEF WithdrawRight
  <2>3. CASE right = "binding" BY <2>1, <2>3, <1>1 DEF WithdrawRight
  <2>4. CASE right = "run" BY <2>1, <2>4, <1>1 DEF WithdrawRight
  <2>5. QED BY <2>2, <2>3, <2>4
<1>4. RelayTypeOK' BY <1>2, <1>3 DEF RelayInv, RelayTypeOK
<1>5. LockHeld' BY <1>2 DEF RelayInv, LockHeld
<1>6. LateOK' BY <1>2, <1>3 DEF RelayInv, LateOK, LateNeverSent, At, SessionValid, RunWithdrawn
<1>7. TimeOK' BY <1>2, <1>3 DEF RelayInv, TimeOK, At, SessionValid, Past
<1>8. EndOK' BY <1>2 DEF RelayInv, EndOK, At, Past
<1>9. QED BY <1>4, <1>5, <1>6, <1>7, <1>8 DEF RelayInv

\* Time passes only while the watchdog sleeps, or when it has closed the browser.
LEMMA TickStep == ASSUME RelayInv, RelayTick PROVE RelayInv'
<1>1. /\ timers \in [watchdog: Nat, checked: Nat, drain: Nat] /\ withdrawn_for \in Nat /\ Recheck \in Nat
      /\ "watchdog" \in Pumps
  BY RelayAssumption DEF RelayInv, RelayTypeOK, Pumps
<1>2. /\ UNCHANGED <<filtered, relay_rights, pump, relay_lock, policy_run, message, browser_code, alas_open, supervisor>>
      /\ timers' = [watchdog |-> OneLess(timers.watchdog), checked |-> More(timers.checked),
                    drain |-> OneLess(timers.drain)]
      /\ withdrawn_for' = (IF SessionValid(relay_rights) THEN 0 ELSE More(withdrawn_for))
      /\ supervisor.pc \notin Past
      /\ Waiting("watchdog")
  BY <1>1 DEF RelayTick, Past
<1>3. /\ \A n \in Nat : More(n) \in Nat /\ More(n) <= n + 1 /\ OneLess(n) \in Nat
      /\ \A n \in Nat : n > 0 => OneLess(n) = n - 1
  BY <1>1 DEF More, OneLess
<1>4. /\ timers' \in [watchdog: Nat, checked: Nat, drain: Nat] /\ withdrawn_for' \in Nat
      /\ withdrawn_for' <= withdrawn_for + 1 /\ (withdrawn_for' > 0 => ~SessionValid(relay_rights))
      /\ timers.watchdog > 0 => timers'.watchdog = timers.watchdog - 1
  BY <1>1, <1>2, <1>3
<1>5. At("watchdog", "done") \/ (At("watchdog", "waits") /\ timers.watchdog > 0) BY <1>2 DEF Waiting, At
<1>6. RelayTypeOK' BY <1>2, <1>4 DEF RelayInv, RelayTypeOK
<1>7. LockHeld' BY <1>2 DEF RelayInv, LockHeld
<1>8. LateOK' BY <1>2, LateKept DEF RelayInv
<1>9. TimeOK'
  <2>1. CASE browser_code # 0 BY <2>1, <1>2, <1>4 DEF TimeOK, SessionValid
  <2>2. CASE browser_code = 0
    <3>1. /\ At("watchdog", "waits") /\ timers.watchdog > 0 /\ withdrawn_for + timers.watchdog <= Recheck
      BY <2>2, <1>2, <1>5 DEF RelayInv, TimeOK
    <3>2. timers'.watchdog = timers.watchdog - 1 /\ timers.watchdog \in Nat BY <3>1, <1>1, <1>4
    <3>3. withdrawn_for' + timers'.watchdog <= Recheck /\ withdrawn_for' <= Recheck BY <3>1, <3>2, <1>1, <1>4
    <3>4. QED BY <3>1, <3>3, <1>2, <1>4 DEF TimeOK, At, SessionValid
  <2>3. QED BY <2>1, <2>2
<1>10. EndOK' BY <1>2 DEF RelayInv, EndOK, At, Past
<1>11. QED BY <1>6, <1>7, <1>8, <1>9, <1>10 DEF RelayInv

LEMMA RelayStep == ASSUME RelayInv, [RelayNext]_relayVars PROVE RelayInv'
<1>1. CASE \E p \in Pumps : EnterCheck(p) \/ CheckLogin(p) \/ CheckBinding(p) \/ Deny(p)
  BY <1>1, EnterStep, CheckStep, DenyStep
<1>2. CASE (\E kind \in {"plain", "run", "breach"} : Receive(kind)) \/ ReceiveOversized \/ ReceiveDisconnect
           \/ EvaluateUpstream \/ SendUp
  BY <1>2, BrowserStep
<1>3. CASE NextFrame \/ FrameOversized \/ AlasCloses \/ SendDown \/ \E dropped \in BOOLEAN : FilterFrame(dropped)
  BY <1>3, AlasStep
<1>4. CASE Wake \/ SleepAgain BY <1>4, WatchdogStep
<1>5. CASE FirstEnds \/ Drained \/ SupervisorCancelled \/ GraceOver BY <1>5, SupervisorStep
<1>6. CASE Join \/ CloseAll BY <1>6, JoinStep, CloseStep
<1>7. CASE RelayTick \/ \E right \in {"login", "binding", "run"} : WithdrawRight(right)
  BY <1>7, TickStep, WithdrawStep
<1>8. CASE UNCHANGED relayVars
  <2>1. UNCHANGED <<filtered, relay_rights, pump, relay_lock, policy_run, message, browser_code, alas_open,
                    supervisor, timers, withdrawn_for>>
    BY <1>8 DEF relayVars
  <2>2. QED BY <2>1 DEF RelayInv, RelayTypeOK, LockHeld, LateOK, LateNeverSent, TimeOK, EndOK, At, SessionValid, RunWithdrawn
<1>9. QED BY <1>1, <1>2, <1>3, <1>4, <1>5, <1>6, <1>7, <1>8 DEF RelayNext

\* A withdrawn login or binding closes the browser within the time between two checks,
\* no message that came after it reaches ALAS, and the relay ends whole: the proxy
\* session of a page of ALAS, for every pace of its pumps and whatever its bounds.
THEOREM RelayObeys == RelaySpec => []RelaySound
<1>1. RelayInit => RelayInv BY RelayStarts
<1>2. RelayInv /\ [RelayNext]_relayVars => RelayInv' BY RelayStep
<1>3. QED BY <1>1, <1>2, InvImpliesSound, PTL DEF RelaySpec

-----------------------------------------------------------------------------

(* The statuses of a device.  The invariant says that all calls wait for one lock,
   and that a call which is still to read the row, or has read it, is on its way
   as long as the status may be wrong. *)

Beyond == {"read", "probing", "confirming", "confirmed", "gone"}
Probers == {"probing", "confirming", "confirmed", "gone"}
Inside == Beyond \cup {"reading"}
CallPlaces == Inside \cup {"idle", "waiting"}
Results == {"none", "online", "offline", "unauthorized", "unknown", "network_unreachable"}
Statuses == [state : Results \cup {"checking", "disabled"}, address : AdbAddresses \cup {"none"}]
Rows == [exists : BOOLEAN, enabled : BOOLEAN, address : AdbAddresses \cup {"none"}]
Calls == [pc : CallPlaces, lock : LockObjects \cup {0}, force : BOOLEAN, generation : Nat, row : Rows,
          result : Results]

AdbTypeOK ==
  /\ adb_row \in Rows /\ adb_status \in Statuses
  /\ generation \in Nat /\ retired \in BOOLEAN
  /\ device_lock \in LockObjects \cup {0}
  /\ DOMAIN lock_holder = LockObjects /\ lock_holder = [l \in LockObjects |-> lock_holder[l]]
  /\ adb_op \in [AdbOps -> Calls]
  /\ DOMAIN adb_route = AdbRoutes /\ adb_route = [r \in AdbRoutes |-> adb_route[r]]

\* All calls under way have one lock, and who is inside has it; a device is
\* retired only while there are calls.
LocksOK ==
  /\ \A o \in AdbOps : Active(o) => device_lock # 0 /\ adb_op[o].lock = device_lock
  /\ \A o \in AdbOps : adb_op[o].pc \in Inside => lock_holder[adb_op[o].lock] = o
  /\ retired => \E o \in AdbOps : Active(o)

\* A request's call is forced; what is probed was enabled; what is gone stays so.
CallsOK ==
  /\ \A r \in AdbRoutes : Active(r) => adb_route[r] = "connecting" /\ adb_op[r].force
  /\ \A o \in AdbOps : adb_op[o].pc \in Probers => adb_op[o].row.exists /\ adb_op[o].row.enabled
  /\ \A o \in AdbOps : adb_op[o].pc = "gone" => ~adb_row.exists

\* A forced call is to read the row yet, or has read the present one.
Pending(r) == adb_route[r] = "looking" \/ adb_op[r].pc \in {"waiting", "reading"}
ReadNow(r) == adb_op[r].pc = "read" /\ adb_op[r].row = adb_row
Coming(r) == Pending(r) \/ ReadNow(r)
\* The status is no statement, or one about the present row.
Fits(s) == \/ s.state \in {"none", "checking"}
           \/ adb_row.enabled /\ s.state # "disabled" /\ s.address = adb_row.address
           \/ ~adb_row.enabled /\ s.state = "disabled"
UpToDate(O) == \A o \in O : adb_op[o].pc \in Beyond => adb_op[o].row = adb_row
StatusOK == adb_row.exists =>
  \/ \E r \in AdbRoutes : Coming(r)
  \/ UpToDate(AdbOps) /\ (retired \/ Fits(adb_status))

AdbInv == AdbTypeOK /\ LocksOK /\ CallsOK /\ StatusOK

-----------------------------------------------------------------------------
LEMMA LocksExist == 1 \in LockObjects /\ 0 \notin LockObjects
<1>1. IsFiniteSet({"heartbeat"}) /\ IsFiniteSet(AdbRoutes) BY FS_Singleton, AdbAssumption
<1>2. IsFiniteSet(AdbOps) BY <1>1, FS_Union DEF AdbOps
<1>3. Cardinality(AdbOps) \in Nat BY <1>2, FS_CardinalityType
<1>4. QED BY <1>3 DEF LockObjects

LEMMA ResultsTyped == ProbeResults \subseteq Results
<1>1. ASSUME NEW reachable \in BOOLEAN, NEW first \in AdbStates, NEW second \in AdbStates, NEW listed \in AdbStates
      PROVE  ProbeResult(reachable, first, second, listed) \in Results
  <2>1. \A s : Label(s) \in {"online", "offline", "unauthorized", "unknown"} BY DEF Label
  <2>2. QED BY <2>1 DEF ProbeResult, Results
<1>2. QED BY <1>1 DEF ProbeResults, Results

LEMMA OneInside ==
  ASSUME AdbInv, NEW o \in AdbOps, NEW q \in AdbOps, adb_op[o].pc \in Inside, adb_op[q].pc \in Inside
  PROVE  o = q
<1>1. Active(o) /\ Active(q) BY DEF Active, Inside, Beyond
<1>2. adb_op[o].lock = adb_op[q].lock BY <1>1 DEF AdbInv, LocksOK
<1>3. QED BY <1>2 DEF AdbInv, LocksOK

LEMMA CurrentFromInv == AdbInv => AdbStatusCurrent
<1> SUFFICES ASSUME AdbInv PROVE AdbStatusCurrent OBVIOUS
<1> DEFINE In == {o \in AdbOps : adb_op[o].pc \notin {"idle", "waiting"}}
<1>1. Cardinality(In) <= 1
  <2>1. \A o \in In : adb_op[o].pc \in Inside BY DEF AdbInv, AdbTypeOK, Calls, CallPlaces
  <2>2. CASE In = {} BY <2>2, FS_EmptySet
  <2>3. CASE In # {}
    <3>1. PICK o \in In : TRUE BY <2>3
    <3>2. In = {o} BY <2>1, <3>1, OneInside
    <3> HIDE DEF In
    <3>3. Cardinality({o}) = 1 BY FS_Singleton
    <3>4. QED BY <3>2, <3>3
  <2>4. QED BY <2>2, <2>3
<1>2. ASSUME \A r \in AdbRoutes : adb_route[r] = "idle", \A o \in AdbOps : ~Active(o), adb_row.exists,
             adb_status.state \notin {"none", "checking"}
      PROVE  /\ adb_row.enabled = (adb_status.state # "disabled")
             /\ adb_row.enabled => adb_status.address = adb_row.address
  <2>1. ~retired BY <1>2 DEF AdbInv, LocksOK
  <2>2. \A r \in AdbRoutes : adb_op[r].pc = "idle" BY <1>2 DEF Active, AdbOps
  <2>3. ~ \E r \in AdbRoutes : Coming(r) BY <1>2, <2>2 DEF Coming, Pending, ReadNow
  <2>4. Fits(adb_status) BY <1>2, <2>1, <2>3 DEF AdbInv, StatusOK
  <2>5. adb_row.enabled \in BOOLEAN BY DEF AdbInv, AdbTypeOK, Rows
  <2>6. QED BY <1>2, <2>4, <2>5 DEF Fits
<1>3. QED BY <1>1, <1>2 DEF AdbStatusCurrent

LEMMA NoOpTyped == NoOp \in Calls /\ NoOp.pc = "idle" /\ NoStatus \in Statuses /\ NoStatus.state = "none"
<1>1. NoRow \in Rows BY DEF NoRow, Rows
<1>2. QED BY <1>1 DEF NoOp, Calls, CallPlaces, Results, NoStatus, Statuses

LEMMA AdbStarts == AdbInit => AdbInv
<1> SUFFICES ASSUME AdbInit PROVE AdbInv OBVIOUS
<1>1. \A o \in AdbOps : adb_op[o] = NoOp BY DEF AdbInit
<1>2. adb_row \in Rows BY DEF AdbInit, Rows
<1>3. AdbTypeOK BY <1>1, <1>2, NoOpTyped DEF AdbInit, AdbTypeOK
<1>4. LocksOK BY <1>1, NoOpTyped DEF AdbInit, LocksOK, Active, Inside, Beyond
<1>5. CallsOK BY <1>1, NoOpTyped DEF CallsOK, Active, Probers, AdbOps
<1>6. StatusOK BY <1>1, NoOpTyped DEF AdbInit, StatusOK, UpToDate, Fits, Beyond
<1>7. QED BY <1>3, <1>4, <1>5, <1>6 DEF AdbInv

\* A call ends: with s as the status, unless the entry goes with it.
LEMMA EndStep ==
  ASSUME AdbInv, NEW o \in AdbOps, NEW s \in Statuses, EndOperation(o, s), Active(o),
         UNCHANGED <<adb_row, adb_route, adb_edits>>,
         adb_row.exists =>
           \/ \E r \in AdbRoutes \ {o} : Coming(r)
           \/ UpToDate(AdbOps \ {o}) /\ (retired \/ Fits(s))
  PROVE  AdbInv'
<1> USE DEF AdbInv
<1>1. /\ adb_op'[o] = NoOp /\ \A q \in AdbOps \ {o} : adb_op'[q] = adb_op[q]
      /\ adb_op' \in [AdbOps -> Calls]
      /\ lock_holder' = [l \in LockObjects |-> IF lock_holder[l] = o THEN "nobody" ELSE lock_holder[l]]
  BY NoOpTyped DEF EndOperation, AdbTypeOK
<1>2. \/ /\ Others(o) = {} /\ adb_status' = NoStatus /\ generation' = 0 /\ retired' = FALSE /\ device_lock' = 0
      \/ /\ ~retired \/ Others(o) # {}
         /\ adb_status' = s /\ generation' = generation /\ retired' = retired /\ device_lock' = device_lock
  BY DEF EndOperation, Entry, LocksOK
<1>3. AdbTypeOK'
  <2>1. /\ adb_status' \in Statuses /\ generation' \in Nat /\ device_lock' \in LockObjects \cup {0}
    BY <1>2, NoOpTyped DEF AdbTypeOK
  <2>2. retired' \in BOOLEAN BY <1>2 DEF AdbTypeOK
  <2>3. /\ DOMAIN lock_holder' = LockObjects
        /\ lock_holder' = [l \in LockObjects |-> lock_holder'[l]]
    BY <1>1
  <2>4. QED BY <1>1, <2>1, <2>2, <2>3 DEF AdbTypeOK
<1>4. ~Active(o)' /\ \A q \in AdbOps \ {o} : Active(q)' = Active(q) BY <1>1, NoOpTyped DEF Active
<1>5. LocksOK'
  <2>1. \A q \in AdbOps : Active(q)' => device_lock' # 0 /\ adb_op'[q].lock = device_lock'
    BY <1>1, <1>2, <1>4 DEF LocksOK, Others
  <2>2. ASSUME NEW q \in AdbOps, adb_op'[q].pc \in Inside PROVE lock_holder'[adb_op'[q].lock] = q
    <3>1. q # o BY <1>1, <2>2, NoOpTyped DEF Inside, Beyond
    <3>2. adb_op'[q] = adb_op[q] /\ lock_holder[adb_op[q].lock] = q BY <1>1, <2>2, <3>1 DEF LocksOK
    <3>3. adb_op[q].lock \in LockObjects BY <2>2, <3>2 DEF LocksOK, Active, Inside, Beyond, AdbTypeOK
    <3>4. QED BY <1>1, <3>1, <3>2, <3>3
  <2>3. retired' => \E q \in AdbOps : Active(q)' BY <1>2, <1>4 DEF Others
  <2>4. QED BY <2>1, <2>2, <2>3 DEF LocksOK
<1>6. CallsOK' BY <1>1, <1>4, NoOpTyped DEF CallsOK, Probers, AdbOps
<1>7. StatusOK'
  <2>1. \A r \in AdbRoutes \ {o} : Coming(r)' = Coming(r) BY <1>1 DEF Coming, Pending, ReadNow, AdbOps
  <2>2. UpToDate(AdbOps \ {o}) => UpToDate(AdbOps)' BY <1>1, NoOpTyped DEF UpToDate, Beyond
  <2>3. (retired \/ Fits(s)) => (retired' \/ Fits(adb_status)')
    BY <1>2, NoOpTyped DEF Fits
  <2>4. QED BY <2>1, <2>2, <2>3 DEF StatusOK
<1>8. QED BY <1>3, <1>5, <1>6, <1>7

\* A call begins, for a request that was looking or for the heartbeat.
LEMMA BeginStep ==
  ASSUME AdbInv, NEW o \in AdbOps, NEW force \in BOOLEAN, BeginOperation(o, force),
         o \in AdbRoutes => force /\ adb_route' = [adb_route EXCEPT ![o] = "connecting"],
         o \notin AdbRoutes => adb_route' = adb_route,
         UNCHANGED <<adb_row, adb_edits>>
  PROVE  AdbInv'
<1> USE DEF AdbInv
<1> DEFINE lock == IF device_lock # 0 THEN device_lock
                   ELSE CHOOSE l \in LockObjects : \A q \in AdbOps : Active(q) => adb_op[q].lock # l
           Call == [NoOp EXCEPT !.pc = "waiting", !.lock = lock, !.force = force]
<1>1. lock \in LockObjects /\ (device_lock # 0 => lock = device_lock)
  <2>1. CASE device_lock # 0 BY <2>1 DEF AdbTypeOK
  <2>2. CASE device_lock = 0
    <3>1. \A q \in AdbOps : ~Active(q) BY <2>2 DEF LocksOK
    <3>2. \E l \in LockObjects : \A q \in AdbOps : Active(q) => adb_op[q].lock # l BY <3>1, LocksExist
    <3>3. QED BY <2>2, <3>2
  <2>3. QED BY <2>1, <2>2
<1>2. /\ adb_op' = [adb_op EXCEPT ![o] = Call] /\ device_lock' = lock
      /\ UNCHANGED <<adb_status, generation, retired, lock_holder>> /\ ~Active(o)
  BY DEF BeginOperation, Entry
<1> HIDE DEF lock
<1>3. Call \in Calls /\ Call.pc = "waiting" /\ Call.lock = lock /\ Call.force = force
  BY <1>1, NoOpTyped DEF Calls, NoOp, CallPlaces
<1> HIDE DEF Call
<1>4. /\ adb_op' \in [AdbOps -> Calls] /\ adb_op'[o] = Call
      /\ \A q \in AdbOps \ {o} : adb_op'[q] = adb_op[q]
  BY <1>2, <1>3 DEF AdbTypeOK
<1>5. /\ DOMAIN adb_route' = AdbRoutes /\ adb_route' = [r \in AdbRoutes |-> adb_route'[r]]
      /\ \A r \in AdbRoutes \ {o} : adb_route'[r] = adb_route[r]
      /\ o \in AdbRoutes => adb_route'[o] = "connecting"
  BY DEF AdbTypeOK
<1>6. AdbTypeOK' BY <1>1, <1>2, <1>4, <1>5 DEF AdbTypeOK
<1>7. Active(o)' /\ \A q \in AdbOps \ {o} : Active(q)' = Active(q) BY <1>3, <1>4 DEF Active
<1>8. LocksOK'
  <2>1. \A q \in AdbOps : Active(q)' => device_lock' # 0 /\ adb_op'[q].lock = device_lock'
    BY <1>1, <1>2, <1>3, <1>4, <1>7, LocksExist DEF LocksOK
  <2>2. \A q \in AdbOps : adb_op'[q].pc \in Inside => lock_holder'[adb_op'[q].lock] = q
    BY <1>2, <1>3, <1>4 DEF LocksOK, Inside, Beyond
  <2>3. QED BY <1>7, <2>1, <2>2 DEF LocksOK
<1>9. CallsOK' BY <1>2, <1>3, <1>4, <1>5, <1>7 DEF CallsOK, Probers, AdbOps
<1>10. StatusOK'
  <2>1. \A r \in AdbRoutes : Coming(r) => Coming(r)'
    BY <1>3, <1>4, <1>5 DEF Coming, Pending, ReadNow, AdbOps
  <2>2. UpToDate(AdbOps) => UpToDate(AdbOps)' BY <1>3, <1>4 DEF UpToDate, Beyond
  <2>3. QED BY <1>2, <2>1, <2>2 DEF StatusOK, Fits
<1>11. QED BY <1>6, <1>8, <1>9, <1>10

\* A call that goes on, from one place to the next, with its row.
LEMMA GoOnStep ==
  ASSUME AdbInv, NEW o \in AdbOps, NEW call \in Calls, Active(o), adb_op' = [adb_op EXCEPT ![o] = call],
         call.pc # "idle", call.lock = adb_op[o].lock, call.force = adb_op[o].force,
         call.pc \in Inside => lock_holder'[device_lock] = o,
         \/ UNCHANGED lock_holder
         \/ /\ \A q \in AdbOps : adb_op[q].pc \notin Inside
            /\ DOMAIN lock_holder' = LockObjects
            /\ lock_holder' = [l \in LockObjects |-> lock_holder'[l]],
         call.pc \in Probers => call.row.exists /\ call.row.enabled,
         call.pc = "gone" => ~adb_row.exists,
         UNCHANGED <<adb_row, adb_route, adb_edits, generation, retired, device_lock>>,
         adb_status' \in Statuses,
         adb_row.exists =>
           \/ \E r \in AdbRoutes : Coming(r)'
           \/ UpToDate(AdbOps)' /\ (retired \/ Fits(adb_status'))
  PROVE  AdbInv'
<1> USE DEF AdbInv
<1>1. /\ adb_op' \in [AdbOps -> Calls] /\ adb_op'[o] = call
      /\ \A q \in AdbOps \ {o} : adb_op'[q] = adb_op[q]
  BY DEF AdbTypeOK
<1>2. AdbTypeOK' BY <1>1 DEF AdbTypeOK
<1>3. \A q \in AdbOps : Active(q)' = Active(q) BY <1>1 DEF Active
<1>4. LocksOK'
  <2>1. \A q \in AdbOps : Active(q)' => device_lock' # 0 /\ adb_op'[q].lock = device_lock'
    BY <1>1, <1>3 DEF LocksOK
  <2>2. ASSUME NEW q \in AdbOps, adb_op'[q].pc \in Inside PROVE lock_holder'[adb_op'[q].lock] = q
    <3>1. CASE q = o BY <1>1, <2>2, <3>1 DEF LocksOK
    <3>2. CASE q # o BY <1>1, <2>2, <3>2 DEF LocksOK
    <3>3. QED BY <3>1, <3>2
  <2>3. retired' => \E q \in AdbOps : Active(q)' BY <1>3 DEF LocksOK
  <2>4. QED BY <2>1, <2>2, <2>3 DEF LocksOK
<1>5. CallsOK' BY <1>1, <1>3 DEF CallsOK, AdbOps
<1>6. StatusOK' BY DEF StatusOK, Fits
<1>7. QED BY <1>2, <1>4, <1>5, <1>6

LEMMA InsideFacts ==
  ASSUME AdbInv, NEW o \in AdbOps, adb_op[o].pc \in Inside
  PROVE  /\ Active(o) /\ adb_op[o] \in Calls /\ lock_holder[device_lock] = o
         /\ \A q \in AdbOps \ {o} : adb_op[q].pc \notin Inside
<1>1. Active(o) BY DEF Active, Inside, Beyond
<1>2. lock_holder[device_lock] = o BY <1>1 DEF AdbInv, LocksOK
<1>3. QED BY <1>1, <1>2, OneInside DEF AdbInv, AdbTypeOK

LEMMA EnterCallStep == ASSUME AdbInv, NEW o \in AdbOps, Enter(o) PROVE AdbInv'
<1>1. /\ adb_op[o].pc = "waiting" /\ lock_holder[adb_op[o].lock] = "nobody" /\ Active(o)
      /\ adb_op[o].lock = device_lock /\ device_lock \in LockObjects
      /\ adb_op[o] \in Calls /\ adb_op \in [AdbOps -> Calls]
  BY DEF Enter, Entered, Active, AdbInv, LocksOK, AdbTypeOK
<1>2. \A q \in AdbOps : adb_op[q].pc \notin Inside
  <2> SUFFICES ASSUME NEW q \in AdbOps, adb_op[q].pc \in Inside PROVE FALSE OBVIOUS
  <2>1. q = "nobody" BY <1>1, InsideFacts
  <2>2. QED BY <2>1, AdbAssumption DEF AdbOps
<1>3. \A q \in AdbOps : adb_op[q].pc \notin Beyond BY <1>2 DEF Inside
<1>4. CASE retired
  <2>1. EndOperation(o, adb_status) /\ UNCHANGED <<adb_row, adb_route, adb_edits>>
    BY <1>4 DEF Enter
  <2>2. UpToDate(AdbOps \ {o}) BY <1>3 DEF UpToDate
  <2>3. adb_status \in Statuses BY DEF AdbInv, AdbTypeOK
  <2>4. QED BY <1>1, <1>4, <2>1, <2>2, <2>3, EndStep
<1>5. CASE ~retired
  <2> DEFINE call == [adb_op[o] EXCEPT !.pc = "reading", !.generation = generation]
  <2>1. /\ adb_op' = [adb_op EXCEPT ![o] = call] /\ lock_holder' = [lock_holder EXCEPT ![device_lock] = o]
        /\ UNCHANGED <<adb_row, adb_route, adb_edits, adb_status, generation, retired, device_lock>>
    BY <1>1, <1>5 DEF Enter, KeepEntry
  <2>2. /\ call \in Calls /\ call.pc = "reading" /\ call.lock = device_lock
        /\ call.force = adb_op[o].force
    BY <1>1 DEF Calls, CallPlaces, Inside, AdbInv, AdbTypeOK
  <2> HIDE DEF call
  <2>3. /\ lock_holder'[device_lock] = o /\ DOMAIN lock_holder' = LockObjects
        /\ lock_holder' = [l \in LockObjects |-> lock_holder'[l]]
    BY <1>1, <2>1 DEF AdbInv, AdbTypeOK
  <2>4. adb_op'[o] = call /\ \A q \in AdbOps \ {o} : adb_op'[q] = adb_op[q] BY <1>1, <2>1
  <2>5. \A r \in AdbRoutes : Coming(r) => Coming(r)'
    BY <2>1, <2>2, <2>4, <1>1 DEF Coming, Pending, ReadNow, AdbOps
  <2>6. UpToDate(AdbOps)' BY <1>3, <2>2, <2>4 DEF UpToDate, Beyond
  <2>7. adb_row.exists => (\E r \in AdbRoutes : Coming(r)') \/ (UpToDate(AdbOps)' /\ (retired \/ Fits(adb_status')))
    BY <2>1, <2>5, <2>6 DEF AdbInv, StatusOK, Fits
  <2>8. call.pc # "idle" /\ call.pc \notin Probers /\ call.pc # "gone" BY <2>2 DEF Probers
  <2>9. adb_status' \in Statuses BY <2>1 DEF AdbInv, AdbTypeOK
  <2>10. QED BY <1>1, <1>2, <2>1, <2>2, <2>3, <2>7, <2>8, <2>9, GoOnStep
<1>6. QED BY <1>4, <1>5

LEMMA ReadRowStep == ASSUME AdbInv, NEW o \in AdbOps, ReadRow(o) PROVE AdbInv'
<1> DEFINE call == [adb_op[o] EXCEPT !.pc = "read", !.row = adb_row]
<1>1. /\ adb_op[o].pc = "reading" /\ adb_op' = [adb_op EXCEPT ![o] = call]
      /\ UNCHANGED <<adb_row, adb_route, adb_edits, adb_status, generation, retired, device_lock, lock_holder>>
  BY DEF ReadRow, KeepEntry
<1>2. adb_op[o].pc \in Inside BY <1>1 DEF Inside
<1>3. /\ Active(o) /\ adb_op[o] \in Calls /\ lock_holder[device_lock] = o
      /\ \A q \in AdbOps \ {o} : adb_op[q].pc \notin Inside
      /\ adb_op[o].lock = device_lock
  BY <1>2, InsideFacts DEF AdbInv, LocksOK
<1>4. /\ call \in Calls /\ call.pc = "read" /\ call.lock = adb_op[o].lock
      /\ call.force = adb_op[o].force /\ call.row = adb_row
  BY <1>3 DEF Calls, CallPlaces, Inside, Beyond, AdbInv, AdbTypeOK
<1> HIDE DEF call
<1>5. adb_op'[o] = call /\ \A q \in AdbOps \ {o} : adb_op'[q] = adb_op[q]
  BY <1>1 DEF AdbInv, AdbTypeOK
<1>6. \A r \in AdbRoutes : Coming(r) => Coming(r)'
  BY <1>1, <1>4, <1>5 DEF Coming, Pending, ReadNow, AdbOps
<1>7. UpToDate(AdbOps)' BY <1>1, <1>3, <1>4, <1>5 DEF UpToDate, Inside
<1>8. adb_row.exists => (\E r \in AdbRoutes : Coming(r)') \/ (UpToDate(AdbOps)' /\ (retired \/ Fits(adb_status')))
  BY <1>1, <1>6, <1>7 DEF AdbInv, StatusOK, Fits
<1>9. call.pc # "idle" /\ call.pc \notin Probers /\ call.pc # "gone" BY <1>4 DEF Probers
<1>10. adb_status' \in Statuses BY <1>1 DEF AdbInv, AdbTypeOK
<1>11. QED BY <1>1, <1>3, <1>4, <1>8, <1>9, <1>10, GoOnStep

\* An inside call ends: what holds of the others, and of the status.
LEMMA EndInsideStep ==
  ASSUME AdbInv, NEW o \in AdbOps, NEW s \in Statuses, EndOperation(o, s), adb_op[o].pc \in Inside,
         UNCHANGED <<adb_row, adb_route, adb_edits>>,
         ~Pending(o) \/ o \notin AdbRoutes,
         adb_row.exists /\ o \in AdbRoutes /\ ReadNow(o) => Fits(s),
         adb_row.exists /\ UpToDate(AdbOps) /\ (retired \/ Fits(adb_status)) => retired \/ Fits(s)
  PROVE  AdbInv'
<1>1. Active(o) /\ \A q \in AdbOps \ {o} : adb_op[q].pc \notin Inside BY InsideFacts
<1>2. UpToDate(AdbOps \ {o}) BY <1>1 DEF UpToDate, Inside
<1>3. adb_row.exists =>
           \/ \E r \in AdbRoutes \ {o} : Coming(r)
           \/ UpToDate(AdbOps \ {o}) /\ (retired \/ Fits(s))
  BY <1>2 DEF AdbInv, StatusOK, Coming
<1>4. QED BY <1>1, <1>3, EndStep

LEMMA BeginProbeStep ==
  ASSUME AdbInv, NEW o \in AdbOps, NEW recent \in BOOLEAN, BeginProbe(o, recent) PROVE AdbInv'
<1> DEFINE row == adb_op[o].row
           online == adb_status.state = "online"
<1>1. adb_op[o].pc = "read" /\ UNCHANGED <<adb_row, adb_route, adb_edits>> BY DEF BeginProbe
<1>2. adb_op[o].pc \in Inside /\ adb_op[o].pc \in Beyond BY <1>1 DEF Inside, Beyond
<1>3. /\ Active(o) /\ adb_op[o] \in Calls /\ lock_holder[device_lock] = o
      /\ \A q \in AdbOps \ {o} : adb_op[q].pc \notin Inside
      /\ adb_op[o].lock = device_lock
  BY <1>2, InsideFacts DEF AdbInv, LocksOK
<1>4. o \in AdbRoutes => adb_route[o] = "connecting" /\ adb_op[o].force BY <1>3 DEF AdbInv, CallsOK
<1>5. ~Pending(o) \/ o \notin AdbRoutes BY <1>1, <1>4 DEF Pending
<1>6. UpToDate(AdbOps) => row = adb_row BY <1>2 DEF UpToDate
<1>7. adb_status \in Statuses /\ row \in Rows BY <1>3 DEF AdbInv, AdbTypeOK, Calls
<1>8. CASE ~row.exists \/ (row.enabled /\ recent /\ online /\ ~adb_op[o].force)
  <2>1. EndOperation(o, adb_status) BY <1>8 DEF BeginProbe
  <2>2. ~(adb_row.exists /\ o \in AdbRoutes /\ ReadNow(o)) BY <1>4, <1>8 DEF ReadNow
  <2>3. QED BY <1>1, <1>2, <1>5, <1>7, <2>1, <2>2, EndInsideStep
<1>9. CASE row.exists /\ ~(row.enabled /\ recent /\ online /\ ~adb_op[o].force) /\ ~row.enabled
  <2> DEFINE s == [adb_status EXCEPT !.state = "disabled"]
  <2>1. EndOperation(o, s) BY <1>9 DEF BeginProbe
  <2>2. s \in Statuses /\ s.state = "disabled" BY <1>7 DEF Statuses
  <2> HIDE DEF s
  <2>3. row = adb_row => Fits(s) BY <1>9, <2>2 DEF Fits
  <2>4. QED BY <1>1, <1>2, <1>5, <1>6, <2>1, <2>2, <2>3, EndInsideStep DEF ReadNow
<1>10. CASE row.exists /\ ~(row.enabled /\ recent /\ online /\ ~adb_op[o].force) /\ row.enabled
  <2> DEFINE call == [adb_op[o] EXCEPT !.pc = "probing"]
             s == IF adb_op[o].force \/ ~online THEN [adb_status EXCEPT !.state = "checking"] ELSE adb_status
  <2>1. /\ adb_op' = [adb_op EXCEPT ![o] = call] /\ adb_status' = s
        /\ UNCHANGED <<generation, retired, device_lock, lock_holder>>
    BY <1>10 DEF BeginProbe, Entry
  <2>2. /\ call \in Calls /\ call.pc = "probing" /\ call.lock = adb_op[o].lock
        /\ call.force = adb_op[o].force /\ call.row = row
    BY <1>3 DEF Calls, CallPlaces, Inside, Beyond
  <2>3. s \in Statuses /\ (Fits(adb_status) => Fits(s)) /\ (adb_op[o].force => Fits(s))
    BY <1>7 DEF Statuses, Fits
  <2> HIDE DEF call, s, row, online
  <2>4. adb_op'[o] = call /\ \A q \in AdbOps \ {o} : adb_op'[q] = adb_op[q]
    BY <2>1 DEF AdbInv, AdbTypeOK
  <2>5. \A r \in AdbRoutes \ {o} : Coming(r) => Coming(r)'
    BY <1>1, <2>4 DEF Coming, Pending, ReadNow, AdbOps
  <2>6. row = adb_row => UpToDate(AdbOps)'
    BY <1>1, <1>3, <2>2, <2>4 DEF UpToDate, Inside
  <2>7. Fits(s) => Fits(adb_status)' BY <1>1, <2>1 DEF Fits
  <2>8. adb_row.exists => \/ \E r \in AdbRoutes : Coming(r)'
                          \/ UpToDate(AdbOps)' /\ (retired \/ Fits(adb_status'))
    <3>1. CASE \E r \in AdbRoutes \ {o} : Coming(r) BY <2>5, <3>1
    <3>2. CASE o \in AdbRoutes /\ Coming(o)
      <4>1. row = adb_row /\ adb_op[o].force BY <1>4, <1>5, <3>2 DEF Coming, ReadNow, row
      <4>2. QED BY <1>1, <2>1, <2>3, <2>6, <4>1 DEF Fits
    <3>3. CASE UpToDate(AdbOps) /\ (retired \/ Fits(adb_status))
      BY <1>1, <1>6, <2>1, <2>3, <2>6, <3>3 DEF Fits
    <3>4. QED BY <3>1, <3>2, <3>3 DEF AdbInv, StatusOK
  <2>9. call.pc # "idle" /\ call.pc # "gone" /\ call.row.exists /\ call.row.enabled BY <1>10, <2>2
  <2>10. QED BY <1>1, <1>3, <2>1, <2>2, <2>3, <2>8, <2>9, GoOnStep
<1>11. QED BY <1>8, <1>9, <1>10

LEMMA ProbedStep ==
  ASSUME AdbInv, NEW o \in AdbOps, NEW result \in ProbeResults, Probed(o, result) PROVE AdbInv'
<1>1. adb_op[o].pc = "probing" /\ UNCHANGED <<adb_row, adb_route, adb_edits>> BY DEF Probed
<1>2. adb_op[o].pc \in Inside /\ adb_op[o].pc \in Beyond BY <1>1 DEF Inside, Beyond
<1>3. /\ Active(o) /\ adb_op[o] \in Calls /\ lock_holder[device_lock] = o
      /\ \A q \in AdbOps \ {o} : adb_op[q].pc \notin Inside
      /\ adb_op[o].lock = device_lock
  BY <1>2, InsideFacts DEF AdbInv, LocksOK
<1>4. o \in AdbRoutes => adb_route[o] = "connecting" BY <1>3 DEF AdbInv, CallsOK
<1>5. (~Pending(o) /\ ~ReadNow(o)) \/ o \notin AdbRoutes BY <1>1, <1>4 DEF Pending, ReadNow
<1>6. adb_status \in Statuses BY DEF AdbInv, AdbTypeOK
<1>7. CASE retired \/ adb_op[o].generation # generation
  <2>1. EndOperation(o, adb_status) BY <1>7 DEF Probed
  <2>2. QED BY <1>1, <1>2, <1>5, <1>6, <2>1, EndInsideStep
<1>8. CASE ~(retired \/ adb_op[o].generation # generation)
  <2> DEFINE call == [adb_op[o] EXCEPT !.pc = "confirming", !.result = result]
  <2>1. /\ adb_op' = [adb_op EXCEPT ![o] = call]
        /\ UNCHANGED <<adb_status, generation, retired, device_lock, lock_holder>>
    BY <1>8 DEF Probed, KeepEntry
  <2>2. /\ call \in Calls /\ call.pc = "confirming" /\ call.lock = adb_op[o].lock
        /\ call.force = adb_op[o].force /\ call.row = adb_op[o].row
    BY <1>3, ResultsTyped DEF Calls, CallPlaces, Inside, Beyond
  <2>3. call.row.exists /\ call.row.enabled BY <1>1, <2>2 DEF AdbInv, CallsOK, Probers
  <2> HIDE DEF call
  <2>4. adb_op'[o] = call /\ \A q \in AdbOps \ {o} : adb_op'[q] = adb_op[q]
    BY <2>1 DEF AdbInv, AdbTypeOK
  <2>5. \A r \in AdbRoutes : Coming(r) => Coming(r)'
    BY <1>1, <1>5, <2>4 DEF Coming, Pending, ReadNow, AdbOps
  <2>6. UpToDate(AdbOps) => UpToDate(AdbOps)' BY <1>1, <1>2, <2>2, <2>4 DEF UpToDate
  <2>7. adb_row.exists => \/ \E r \in AdbRoutes : Coming(r)'
                          \/ UpToDate(AdbOps)' /\ (retired \/ Fits(adb_status'))
    BY <1>1, <2>1, <2>5, <2>6 DEF AdbInv, StatusOK, Fits
  <2>8. call.pc # "idle" /\ call.pc # "gone" BY <2>2
  <2>9. QED BY <1>1, <1>3, <1>6, <2>1, <2>2, <2>3, <2>7, <2>8, GoOnStep
<1>9. QED BY <1>7, <1>8

LEMMA ConfirmStep == ASSUME AdbInv, NEW o \in AdbOps, Confirm(o) PROVE AdbInv'
<1> DEFINE call == [adb_op[o] EXCEPT !.pc = IF adb_row.exists THEN "confirmed" ELSE "gone"]
<1>1. /\ adb_op[o].pc = "confirming" /\ adb_op' = [adb_op EXCEPT ![o] = call]
      /\ UNCHANGED <<adb_row, adb_route, adb_edits, adb_status, generation, retired, device_lock, lock_holder>>
  BY DEF Confirm, KeepEntry
<1>2. adb_op[o].pc \in Inside /\ adb_op[o].pc \in Beyond BY <1>1 DEF Inside, Beyond
<1>3. /\ Active(o) /\ adb_op[o] \in Calls /\ lock_holder[device_lock] = o BY <1>2, InsideFacts
<1>4. /\ call \in Calls /\ call.lock = adb_op[o].lock
      /\ call.force = adb_op[o].force /\ call.row = adb_op[o].row
      /\ call.pc \in {"confirmed", "gone"} /\ (call.pc = "gone" => ~adb_row.exists)
  BY <1>3 DEF Calls, CallPlaces, Inside, Beyond
<1>5. call.row.exists /\ call.row.enabled BY <1>1, <1>4 DEF AdbInv, CallsOK, Probers
<1> HIDE DEF call
<1>6. adb_op'[o] = call /\ \A q \in AdbOps \ {o} : adb_op'[q] = adb_op[q]
  BY <1>1 DEF AdbInv, AdbTypeOK
<1>7. o \in AdbRoutes => adb_route[o] = "connecting" BY <1>3 DEF AdbInv, CallsOK
<1>8. \A r \in AdbRoutes : Coming(r) => Coming(r)'
  BY <1>1, <1>6, <1>7 DEF Coming, Pending, ReadNow, AdbOps
<1>9. UpToDate(AdbOps) => UpToDate(AdbOps)' BY <1>1, <1>2, <1>4, <1>6 DEF UpToDate
<1>10. adb_row.exists => \/ \E r \in AdbRoutes : Coming(r)'
                         \/ UpToDate(AdbOps)' /\ (retired \/ Fits(adb_status'))
  BY <1>1, <1>8, <1>9 DEF AdbInv, StatusOK, Fits
<1>11. adb_status' \in Statuses BY <1>1 DEF AdbInv, AdbTypeOK
<1>12. QED BY <1>1, <1>3, <1>4, <1>5, <1>10, <1>11, GoOnStep

LEMMA StoreStep == ASSUME AdbInv, NEW o \in AdbOps, Store(o) PROVE AdbInv'
<1> DEFINE s == IF adb_op[o].pc = "gone" THEN adb_status
                ELSE [state |-> adb_op[o].result, address |-> adb_op[o].row.address]
<1>1. /\ adb_op[o].pc \in {"confirmed", "gone"} /\ EndOperation(o, s)
      /\ UNCHANGED <<adb_row, adb_route, adb_edits>>
  BY DEF Store
<1>2. adb_op[o].pc \in Inside /\ adb_op[o].pc \in Beyond /\ adb_op[o].pc \in Probers
  BY <1>1 DEF Inside, Beyond, Probers
<1>3. Active(o) /\ adb_op[o] \in Calls BY <1>2, InsideFacts
<1>4. o \in AdbRoutes => adb_route[o] = "connecting" BY <1>3 DEF AdbInv, CallsOK
<1>5. (~Pending(o) /\ ~ReadNow(o)) \/ o \notin AdbRoutes BY <1>1, <1>4 DEF Pending, ReadNow
<1>6. s \in Statuses BY <1>3 DEF AdbInv, AdbTypeOK, Statuses, Calls, Rows
<1>7. adb_row.exists /\ UpToDate(AdbOps) => Fits(s)
  <2> SUFFICES ASSUME adb_row.exists, UpToDate(AdbOps) PROVE Fits(s) OBVIOUS
  <2>1. adb_op[o].pc = "confirmed" BY <1>1 DEF AdbInv, CallsOK
  <2>2. adb_op[o].row = adb_row /\ adb_row.enabled BY <1>2 DEF UpToDate, AdbInv, CallsOK
  <2>3. adb_op[o].result \in Results BY <1>3 DEF Calls
  <2>4. QED BY <2>1, <2>2, <2>3 DEF Fits, Results
<1> HIDE DEF s
<1>8. QED BY <1>1, <1>2, <1>5, <1>6, <1>7, EndInsideStep

LEMMA TimeoutStep == ASSUME AdbInv, StartupTimeout PROVE AdbInv'
<1>1. /\ "heartbeat" \in AdbOps /\ "heartbeat" \notin AdbRoutes /\ Active("heartbeat")
      /\ EndOperation("heartbeat", adb_status) /\ UNCHANGED <<adb_row, adb_route, adb_edits>>
  BY AdbAssumption DEF StartupTimeout, AdbOps
<1>2. adb_status \in Statuses BY DEF AdbInv, AdbTypeOK
<1>3. adb_row.exists =>
        \/ \E r \in AdbRoutes \ {"heartbeat"} : Coming(r)
        \/ UpToDate(AdbOps \ {"heartbeat"}) /\ (retired \/ Fits(adb_status))
  BY <1>1 DEF AdbInv, StatusOK, UpToDate
<1>4. QED BY <1>1, <1>2, <1>3, EndStep

\* A request goes on, at p, outside a call of its own.
LEMMA RequestStep ==
  ASSUME AdbInv, NEW r \in AdbRoutes, NEW p, ~Active(r), adb_route' = [adb_route EXCEPT ![r] = p],
         UNCHANGED <<adb_op, lock_holder>>, adb_row' \in Rows, adb_row'.exists => adb_row.exists,
         adb_status' \in Statuses, generation' \in Nat, retired' \in BOOLEAN,
         \/ device_lock' = device_lock
         \/ device_lock' = 0 /\ \A o \in AdbOps : ~Active(o),
         retired' => \E o \in AdbOps : Active(o),
         adb_row'.exists => \/ p = "looking"
                           \/ /\ adb_row' = adb_row /\ adb_route[r] # "looking"
                              /\ retired \/ Fits(adb_status) => retired' \/ Fits(adb_status)'
  PROVE  AdbInv'
<1> USE DEF AdbInv
<1>1. /\ DOMAIN adb_route' = AdbRoutes /\ adb_route' = [q \in AdbRoutes |-> adb_route'[q]]
      /\ adb_route'[r] = p /\ \A q \in AdbRoutes \ {r} : adb_route'[q] = adb_route[q]
  BY DEF AdbTypeOK
<1>2. AdbTypeOK' BY <1>1 DEF AdbTypeOK
<1>3. LocksOK' BY DEF LocksOK, Active
<1>4. CallsOK' BY <1>1 DEF CallsOK, Active
<1>5. StatusOK'
  <2> SUFFICES ASSUME adb_row'.exists
               PROVE  \/ \E q \in AdbRoutes : Coming(q)'
                      \/ UpToDate(AdbOps)' /\ (retired' \/ Fits(adb_status)')
    BY DEF StatusOK
  <2>1. CASE p = "looking" BY <1>1, <2>1 DEF Coming, Pending
  <2>2. CASE /\ adb_row' = adb_row /\ adb_route[r] # "looking"
             /\ retired \/ Fits(adb_status) => retired' \/ Fits(adb_status)'
    <3>1. ~Coming(r) BY <2>2 DEF Coming, Pending, ReadNow, Active
    <3>2. \A q \in AdbRoutes \ {r} : Coming(q) => Coming(q)' BY <1>1, <2>2 DEF Coming, Pending, ReadNow
    <3>3. UpToDate(AdbOps) => UpToDate(AdbOps)' BY <2>2 DEF UpToDate
    <3>4. QED BY <2>2, <3>1, <3>2, <3>3 DEF StatusOK
  <2>3. QED BY <2>1, <2>2
<1>6. QED BY <1>2, <1>3, <1>4, <1>5

\* A status that says nothing fits.
LEMMA Forgotten ==
  ASSUME AdbInv PROVE NoStatus \in Statuses /\ Fits(NoStatus) /\ Fits(NoStatus)' /\ generation + 1 \in Nat
BY NoOpTyped DEF Fits, AdbInv, AdbTypeOK, NoStatus

LEMMA ForgetEffect ==
  ASSUME AdbInv, Forget, UNCHANGED adb_row
  PROVE  /\ adb_status' = NoStatus /\ generation' \in Nat /\ retired' \in BOOLEAN
         /\ device_lock' = device_lock \/ (device_lock' = 0 /\ \A o \in AdbOps : ~Active(o))
         /\ retired' => \E o \in AdbOps : Active(o)
         /\ Fits(adb_status)'
<1>1. CASE \E o \in AdbOps : Active(o) BY <1>1, Forgotten DEF Forget, Entry, Fits
<1>2. CASE ~ \E o \in AdbOps : Active(o)
  <2>1. adb_status' = NoStatus /\ generation' = 0 /\ retired' = FALSE /\ device_lock' = 0
    BY <1>2 DEF Forget, Entry
  <2>2. Fits(adb_status)' BY <2>1, Forgotten DEF Fits
  <2>3. retired' \in BOOLEAN /\ (retired' => \E o \in AdbOps : Active(o)) BY <2>1
  <2>4. QED BY <1>2, <2>1, <2>2, <2>3
<1>3. QED BY <1>1, <1>2

LEMMA IdleRequest ==
  ASSUME AdbInv, NEW r \in AdbRoutes, adb_route[r] # "connecting" PROVE ~Active(r)
BY DEF AdbInv, CallsOK

LEMMA BeginEditStep == ASSUME AdbInv, NEW r \in AdbRoutes, BeginEdit(r) PROVE AdbInv'
<1>1. /\ adb_route[r] = "idle" /\ adb_route' = [adb_route EXCEPT ![r] = "editing"]
      /\ UNCHANGED <<adb_row, lock_holder, adb_op, retired, device_lock>>
      /\ adb_status' = NoStatus /\ generation' = generation + 1
  BY DEF BeginEdit, Invalidate, Entry
<1>2. ~Active(r) BY <1>1, IdleRequest
<1>3. adb_row' \in Rows /\ adb_status' \in Statuses /\ generation' \in Nat /\ retired' \in BOOLEAN
  BY <1>1, Forgotten DEF AdbInv, AdbTypeOK
<1>4. Fits(adb_status)' BY <1>1, Forgotten DEF Fits
<1>5. retired' => \E o \in AdbOps : Active(o) BY <1>1 DEF AdbInv, LocksOK
<1>6. QED BY <1>1, <1>2, <1>3, <1>4, <1>5, RequestStep

LEMMA UpdateRowStep ==
  ASSUME AdbInv, NEW r \in AdbRoutes, NEW address \in AdbAddresses, NEW enabled \in BOOLEAN,
         UpdateRow(r, address, enabled)
  PROVE  AdbInv'
<1>1. /\ adb_route[r] = "editing"
      /\ adb_route' = [adb_route EXCEPT ![r] = IF adb_row.exists THEN "looking" ELSE "idle"]
      /\ UNCHANGED <<lock_holder, adb_op, adb_status, generation, retired, device_lock>>
      /\ adb_row' = IF adb_row.exists THEN [adb_row EXCEPT !.address = address, !.enabled = enabled] ELSE adb_row
  BY DEF UpdateRow, KeepEntry
<1>2. ~Active(r) BY <1>1, IdleRequest
<1>3. /\ adb_row' \in Rows /\ adb_status' \in Statuses /\ generation' \in Nat /\ retired' \in BOOLEAN
      /\ adb_row'.exists => adb_row.exists
  BY <1>1 DEF AdbInv, AdbTypeOK, Rows
<1>4. retired' => \E o \in AdbOps : Active(o) BY <1>1 DEF AdbInv, LocksOK
<1>5. CASE adb_row.exists BY <1>1, <1>2, <1>3, <1>4, <1>5, RequestStep
<1>6. CASE ~adb_row.exists
  <2>1. ~adb_row'.exists BY <1>3, <1>6
  <2>2. QED BY <1>1, <1>2, <1>3, <1>4, <2>1, RequestStep
<1>7. QED BY <1>5, <1>6

LEMMA ReconnectStep == ASSUME AdbInv, NEW r \in AdbRoutes, Reconnect(r) PROVE AdbInv'
<1>1. adb_route[r] = "looking" /\ UNCHANGED <<adb_row, adb_edits>> BY DEF Reconnect
<1>2. r \in AdbOps BY DEF AdbOps
<1>3. CASE adb_row.exists
  <2>1. BeginOperation(r, TRUE) /\ adb_route' = [adb_route EXCEPT ![r] = "connecting"] BY <1>3 DEF Reconnect
  <2>2. QED BY <1>1, <1>2, <2>1, BeginStep
<1>4. CASE ~adb_row.exists
  <2>1. Forget /\ adb_route' = [adb_route EXCEPT ![r] = "idle"] /\ UNCHANGED <<adb_op, lock_holder>>
    BY <1>4 DEF Reconnect
  <2>2. ~Active(r) BY <1>1, IdleRequest
  <2>3. adb_row' \in Rows /\ ~adb_row'.exists BY <1>1, <1>4 DEF AdbInv, AdbTypeOK
  <2>4. QED BY <1>1, <2>1, <2>2, <2>3, ForgetEffect, Forgotten, RequestStep
<1>5. QED BY <1>3, <1>4

LEMMA DeviceStep ==
  ASSUME AdbInv, NEW r \in AdbRoutes, BeginDelete(r) \/ DeleteRow(r) \/ RestoreDevice(r) PROVE AdbInv'
<1>1. CASE BeginDelete(r)
  <2>1. /\ adb_route[r] = "idle" /\ adb_route' = [adb_route EXCEPT ![r] = "deleting"] /\ Forget
        /\ UNCHANGED <<adb_row, lock_holder, adb_op>>
    BY <1>1 DEF BeginDelete
  <2>2. ~Active(r) BY <2>1, IdleRequest
  <2>3. adb_row' \in Rows BY <2>1 DEF AdbInv, AdbTypeOK
  <2>4. QED BY <2>1, <2>2, <2>3, ForgetEffect, Forgotten, RequestStep
<1>2. CASE DeleteRow(r)
  <2>1. /\ adb_route[r] = "deleting" /\ adb_route' = [adb_route EXCEPT ![r] = "idle"]
        /\ adb_row.exists /\ adb_row' = [adb_row EXCEPT !.exists = FALSE]
        /\ UNCHANGED <<lock_holder, adb_op, adb_status, generation, retired, device_lock>>
    BY <1>2 DEF DeleteRow, KeepEntry
  <2>2. ~Active(r) BY <2>1, IdleRequest
  <2>3. /\ adb_row' \in Rows /\ adb_status' \in Statuses /\ generation' \in Nat /\ retired' \in BOOLEAN
        /\ ~adb_row'.exists
    BY <2>1 DEF AdbInv, AdbTypeOK, Rows
  <2>4. retired' => \E o \in AdbOps : Active(o) BY <2>1 DEF AdbInv, LocksOK
  <2>5. QED BY <2>1, <2>2, <2>3, <2>4, RequestStep
<1>3. CASE RestoreDevice(r)
  <2>1. /\ adb_route[r] = "deleting" /\ adb_route' = [adb_route EXCEPT ![r] = "idle"]
        /\ adb_status' = NoStatus /\ generation' = generation + 1 /\ retired' = FALSE
        /\ device_lock' = device_lock /\ UNCHANGED <<adb_row, lock_holder, adb_op>>
    BY <1>3 DEF RestoreDevice, Entry
  <2>2. ~Active(r) BY <2>1, IdleRequest
  <2>3. /\ adb_row' \in Rows /\ adb_status' \in Statuses /\ generation' \in Nat /\ retired' \in BOOLEAN
    BY <2>1, Forgotten DEF AdbInv, AdbTypeOK
  <2>4. Fits(adb_status)' BY <2>1, Forgotten DEF Fits
  <2>5. QED BY <2>1, <2>2, <2>3, <2>4, RequestStep
<1>4. QED BY <1>1, <1>2, <1>3

LEMMA AskStep ==
  ASSUME AdbInv, NEW r \in AdbRoutes, AskReconnect(r) \/ Reconnected(r) PROVE AdbInv'
<1> DEFINE p == IF adb_route[r] = "idle" THEN "looking" ELSE "idle"
<1>1. /\ ~Active(r) /\ adb_route' = [adb_route EXCEPT ![r] = p] /\ adb_route[r] \in {"idle", "connecting"}
      /\ UNCHANGED <<adb_row, lock_holder, adb_op, adb_status, generation, retired, device_lock>>
  BY DEF AskReconnect, Reconnected, KeepEntry
<1>2. /\ adb_row' \in Rows /\ adb_status' \in Statuses /\ generation' \in Nat /\ retired' \in BOOLEAN
  BY <1>1 DEF AdbInv, AdbTypeOK
<1>3. retired' => \E o \in AdbOps : Active(o) BY <1>1 DEF AdbInv, LocksOK
<1>4. Fits(adb_status) => Fits(adb_status)' BY <1>1 DEF Fits
<1> HIDE DEF p
<1>5. QED BY <1>1, <1>2, <1>3, <1>4, RequestStep

LEMMA AdbStep == AdbInv /\ [AdbNext]_adbVars => AdbInv'
<1> SUFFICES ASSUME AdbInv, [AdbNext]_adbVars PROVE AdbInv' OBVIOUS
<1>1. CASE UNCHANGED adbVars
  BY <1>1 DEF adbVars, AdbInv, AdbTypeOK, LocksOK, CallsOK, StatusOK, Active, Coming, Pending, ReadNow,
              UpToDate, Fits
<1>2. ASSUME NEW o \in AdbOps, Enter(o) \/ ReadRow(o) \/ Confirm(o) \/ Store(o) PROVE AdbInv'
  BY <1>2, EnterCallStep, ReadRowStep, ConfirmStep, StoreStep
<1>3. ASSUME NEW o \in AdbOps, NEW recent \in BOOLEAN, BeginProbe(o, recent) PROVE AdbInv'
  BY <1>3, BeginProbeStep
<1>4. ASSUME NEW o \in AdbOps, NEW result \in ProbeResults, Probed(o, result) PROVE AdbInv'
  BY <1>4, ProbedStep
<1>5. CASE Heartbeat
  <2>1. /\ BeginOperation("heartbeat", FALSE) /\ UNCHANGED <<adb_row, adb_route, adb_edits>>
        /\ "heartbeat" \in AdbOps /\ "heartbeat" \notin AdbRoutes
    BY <1>5, AdbAssumption DEF Heartbeat, AdbOps
  <2>2. QED BY <2>1, BeginStep
<1>6. CASE StartupTimeout BY <1>6, TimeoutStep
<1>7. ASSUME NEW r \in AdbRoutes,
             \/ BeginEdit(r) \/ AskReconnect(r) \/ Reconnect(r) \/ Reconnected(r)
             \/ BeginDelete(r) \/ DeleteRow(r) \/ RestoreDevice(r)
      PROVE  AdbInv'
  BY <1>7, BeginEditStep, AskStep, ReconnectStep, DeviceStep
<1>8. ASSUME NEW r \in AdbRoutes, NEW address \in AdbAddresses, NEW enabled \in BOOLEAN,
             UpdateRow(r, address, enabled)
      PROVE  AdbInv'
  BY <1>8, UpdateRowStep
<1>9. QED BY <1>1, <1>2, <1>3, <1>4, <1>5, <1>6, <1>7, <1>8 DEF AdbNext

\* One caller probes a device at a time, and once every request is done its
\* status is that of the present row, for every set of requests and addresses
\* (adb_monitor.py).
THEOREM StatusIsCurrent == AdbSpec => []AdbStatusCurrent
<1>1. AdbInv /\ [AdbNext]_adbVars => AdbInv' BY AdbStep
<1>2. QED BY <1>1, AdbStarts, CurrentFromInv, PTL DEF AdbSpec

-----------------------------------------------------------------------------

(* The forwards.  Reservations tell starts apart until adb lists the forward; after
   that the table of adb does. *)

Reserving == {"forwarding", "forwarded", "timed_out", "refused"}
Forwarded == {"forwarded", "connecting", "live", "joining"}
WithPort == Reserving \cup Forwarded \cup {"cleaned", "uncleaned"}
Scrcpy == [pc : WithPort \cup {"new", "retrying", "forgetting", "stopped"},
           port : Ports \cup {0}, pending : SUBSET Ports, tried : Ports \cup {0}, stop : BOOLEAN,
           readers : SUBSET {"server", "video"}, exit_notified : BOOLEAN, notified : Nat]

TransportTypeOK ==
  /\ adb_forwards \subseteq Ports /\ reserved_ports \subseteq Ports /\ orphan_ports \subseteq Ports
  /\ transport \in [Scrcpys -> Scrcpy]
  /\ \A t \in Scrcpys : transport[t].pc \in WithPort => transport[t].port \in Ports
  /\ overlapped \in BOOLEAN

\* Who got a port and has not given its reservation back is alone in having it.
ReservationsKept ==
  /\ \A t \in Scrcpys : transport[t].pc \in Reserving => transport[t].port \in reserved_ports
  /\ \A t, u \in Scrcpys :
       t # u /\ transport[t].pc \in Reserving /\ transport[u].pc \in Reserving
         => transport[t].port # transport[u].port

\* Owners have ports of their own, forwarded since adb said so, and not before;
\* no forward is without an owner that answers for it.
Owned ==
  /\ \A t, u \in Scrcpys :
       t # u /\ transport[t].pc \in Holding /\ transport[u].pc \in Holding
         => transport[t].port # transport[u].port
  /\ \A t \in Scrcpys : transport[t].pc \in Forwarded => transport[t].port \in adb_forwards
  /\ \A t \in Scrcpys : transport[t].pc = "forwarding" => transport[t].port \notin adb_forwards
  /\ \A p \in adb_forwards : p \in orphan_ports \/ \E t \in Scrcpys : transport[t].pc \in Answerable /\ transport[t].port = p

ToldOnce == \A t \in Scrcpys :
  transport[t].notified <= 1 /\ (transport[t].notified = 1 => transport[t].exit_notified)

TransportInv == TransportTypeOK /\ ReservationsKept /\ (overlapped \/ Owned) /\ ToldOnce

-----------------------------------------------------------------------------
LEMMA KeptFromInv == TransportInv => PortsKept
BY DEF TransportInv, Owned, ToldOnce, PortsKept, Forwarded, TransportTypeOK

LEMMA TransportInitInv == TransportInit => TransportInv
<1> SUFFICES ASSUME TransportInit PROVE TransportInv OBVIOUS
<1>1. NewTransport \in Scrcpy /\ NewTransport.pc = "new" /\ NewTransport.notified = 0
  BY DEF NewTransport, Scrcpy, WithPort, Reserving, Forwarded
<1>2. \A t \in Scrcpys : transport[t] = NewTransport BY DEF TransportInit
<1>3. TransportTypeOK BY <1>1, <1>2 DEF TransportInit, TransportTypeOK, WithPort, Reserving, Forwarded
<1>4. ReservationsKept BY <1>1, <1>2 DEF ReservationsKept, Reserving
<1>5. Owned BY <1>1, <1>2 DEF TransportInit, Owned, Holding, Forwarded
<1>6. ToldOnce BY <1>1, <1>2 DEF ToldOnce
<1>7. QED BY <1>3, <1>4, <1>5, <1>6 DEF TransportInv

LEMMA LeastNumber == ASSUME NEW S \in SUBSET Nat, S # {} PROVE \E m \in S : \A x \in S : m <= x
<1> DEFINE Below(n) == {k \in Nat : k < n}
           T == {Below(n) : n \in S}
<1>1. ASSUME NEW n \in S PROVE Below(n) \in FiniteSubsetsOf(Nat)
  <2>1. IsFiniteSet(Below(n)) BY FS_BoundedSetOfNaturals
  <2>2. QED BY <2>1 DEF FiniteSubsetsOf
<1>2. T \subseteq FiniteSubsetsOf(Nat) /\ T # {} BY <1>1
<1>3. PICK b \in T : \A a \in T : <<a, b>> \notin StrictSubsetOrdering(Nat)
  <2> HIDE DEF T
  <2> QED BY <1>2, WFMin, FS_StrictSubsetOrderingWellFounded
<1>4. PICK m \in S : b = Below(m) OBVIOUS
<1>5. ASSUME NEW x \in S, x < m PROVE FALSE
  <2>1. Below(x) \subseteq Below(m) /\ x \in Below(m) /\ x \notin Below(x) BY <1>5
  <2>2. <<Below(x), Below(m)>> \notin StrictSubsetOrdering(Nat) BY <1>3, <1>4
  <2>3. QED BY <2>1, <2>2 DEF StrictSubsetOrdering
<1>6. QED BY <1>5

\* One transport goes on, and its port and what it told stay.
GoesOn(t, from, to) ==
  /\ transport[t].pc \in from /\ transport'[t].pc = to
  /\ \A u \in Scrcpys \ {t} : transport'[u] = transport[u]
  /\ transport'[t].port = transport[t].port /\ transport'[t].notified = transport[t].notified
  /\ transport'[t].exit_notified = transport[t].exit_notified
  /\ transport' \in [Scrcpys -> Scrcpy]

LEMMA ToldKept ==
  ASSUME TransportInv, NEW t \in Scrcpys,
         \A u \in Scrcpys \ {t} : transport'[u] = transport[u],
         transport'[t].notified = transport[t].notified,
         transport'[t].exit_notified = transport[t].exit_notified
  PROVE  ToldOnce'
BY DEF TransportInv, ToldOnce

LEMMA ReservedKept ==
  ASSUME TransportInv, NEW t \in Scrcpys, NEW from, NEW to, GoesOn(t, from, to),
         from \subseteq Reserving \/ to \notin Reserving, UNCHANGED reserved_ports
  PROVE  ReservationsKept'
BY DEF TransportInv, ReservationsKept, GoesOn

LEMMA StartAbortsStep ==
  ASSUME TransportInv, NEW t \in Scrcpys, StartAborts(t) PROVE TransportInv'
<1> USE DEF TransportInv
<1>1. GoesOn(t, {"new"}, "stopped")
  BY DEF StartAborts, Moves, TransportTypeOK, GoesOn, Scrcpy, WithPort, Reserving, Forwarded
<1>2. ToldOnce' BY <1>1, ToldKept DEF GoesOn
<1>3. ReservationsKept' BY <1>1, ReservedKept DEF StartAborts, Reserving
<1>4. TransportTypeOK' BY <1>1 DEF GoesOn, StartAborts, TransportTypeOK, WithPort, Reserving, Forwarded
<1>5. (overlapped \/ Owned)'
  BY <1>1 DEF GoesOn, StartAborts, Owned, TransportTypeOK, Forwarded, Holding, Answerable, ReservationsKept, Reserving,
              OtherHas, Reused
<1>6. QED BY <1>2, <1>3, <1>4, <1>5

LEMMA BeginRetryStep ==
  ASSUME TransportInv, NEW t \in Scrcpys, BeginRetry(t) PROVE TransportInv'
<1> USE DEF TransportInv
<1>1. GoesOn(t, {"new"}, "retrying")
  <2>1. transport[t] \in Scrcpy /\ transport \in [Scrcpys -> Scrcpy] BY DEF TransportTypeOK
  <2>2. transport' = [transport EXCEPT ![t] = [transport[t] EXCEPT !.pc = "retrying", !.pending = orphan_ports]] /\ transport[t].pc \in {"new"}
    BY DEF BeginRetry
  <2>3. [transport[t] EXCEPT !.pc = "retrying", !.pending = orphan_ports] \in Scrcpy
    BY <2>1 DEF Scrcpy, WithPort, Reserving, Forwarded, TransportTypeOK
  <2>4. QED BY <2>1, <2>2, <2>3 DEF GoesOn, Scrcpy
<1>2. ToldOnce' BY <1>1, ToldKept DEF GoesOn
<1>3. ReservationsKept' BY <1>1, ReservedKept DEF BeginRetry, Reserving
<1>4. TransportTypeOK' BY <1>1 DEF GoesOn, BeginRetry, TransportTypeOK, WithPort, Reserving, Forwarded
<1>5. (overlapped \/ Owned)'
  BY <1>1 DEF GoesOn, BeginRetry, Owned, TransportTypeOK, Forwarded, Holding, Answerable, ReservationsKept, Reserving,
              OtherHas, Reused
<1>6. QED BY <1>2, <1>3, <1>4, <1>5

LEMMA RetryRemovedStep ==
  ASSUME TransportInv, NEW t \in Scrcpys, NEW p \in Ports, RetryRemoved(t, p) PROVE TransportInv'
<1> USE DEF TransportInv
<1>1. GoesOn(t, {"retrying"}, "forgetting")
  BY DEF RetryRemoved, Moves, TransportTypeOK, GoesOn, Scrcpy, WithPort, Reserving, Forwarded
<1>2. ToldOnce' BY <1>1, ToldKept DEF GoesOn
<1>3. ReservationsKept' BY <1>1, ReservedKept DEF RetryRemoved, Reserving
<1>4. TransportTypeOK' BY <1>1 DEF GoesOn, RetryRemoved, TransportTypeOK, WithPort, Reserving, Forwarded
<1>5. (overlapped \/ Owned)'
  <2>1. SUFFICES ASSUME ~overlapped' PROVE Owned' OBVIOUS
  <2>2. Owned /\ ~OtherHas(p, t) /\ adb_forwards' = adb_forwards \ {p} /\ orphan_ports' = orphan_ports
    BY <2>1 DEF RetryRemoved, TransportTypeOK
  <2>3. \A u \in Scrcpys : transport'[u].port = transport[u].port
           /\ (transport'[u].pc = transport[u].pc \/ (u = t /\ transport[t].pc = "retrying" /\ transport'[t].pc = "forgetting"))
    BY <1>1 DEF GoesOn
  <2>4. \A u \in Scrcpys : transport'[u].pc \in Answerable => u # t /\ transport[u].port # p
    BY <1>1, <2>2, <2>3 DEF OtherHas, GoesOn, Answerable, Holding
  <2>5. QED BY <2>2, <2>3, <2>4 DEF Owned, Forwarded, Holding, Answerable
<1>6. QED BY <1>2, <1>3, <1>4, <1>5

LEMMA RetryFailsStep ==
  ASSUME TransportInv, NEW t \in Scrcpys, NEW p \in Ports, NEW w \in BOOLEAN, RetryFails(t, p, w) PROVE TransportInv'
<1> USE DEF TransportInv
<1>1. GoesOn(t, {"retrying"}, "retrying")
  BY DEF RetryFails, Moves, TransportTypeOK, GoesOn, Scrcpy, WithPort, Reserving, Forwarded
<1>2. ToldOnce' BY <1>1, ToldKept DEF GoesOn
<1>3. ReservationsKept' BY <1>1, ReservedKept DEF RetryFails, Reserving
<1>4. TransportTypeOK' BY <1>1 DEF GoesOn, RetryFails, TransportTypeOK, WithPort, Reserving, Forwarded
<1>5. (overlapped \/ Owned)'
  BY <1>1 DEF GoesOn, RetryFails, Owned, TransportTypeOK, Forwarded, Holding, Answerable, ReservationsKept, Reserving,
              OtherHas, Reused
<1>6. QED BY <1>2, <1>3, <1>4, <1>5

LEMMA ForgetOrphanStep ==
  ASSUME TransportInv, NEW t \in Scrcpys, ForgetOrphan(t) PROVE TransportInv'
<1> USE DEF TransportInv
<1>1. GoesOn(t, {"forgetting"}, "retrying")
  <2>1. transport[t] \in Scrcpy /\ transport \in [Scrcpys -> Scrcpy] BY DEF TransportTypeOK
  <2>2. transport' = [transport EXCEPT ![t] = [transport[t] EXCEPT !.pc = "retrying", !.tried = 0]] /\ transport[t].pc \in {"forgetting"}
    BY DEF ForgetOrphan
  <2>3. [transport[t] EXCEPT !.pc = "retrying", !.tried = 0] \in Scrcpy
    BY <2>1, <2>2 DEF Scrcpy, WithPort, Reserving, Forwarded, TransportTypeOK
  <2>4. QED BY <2>1, <2>2, <2>3 DEF GoesOn, Scrcpy
<1>2. ToldOnce' BY <1>1, ToldKept DEF GoesOn
<1>3. ReservationsKept' BY <1>1, ReservedKept DEF ForgetOrphan, Reserving
<1>4. TransportTypeOK' BY <1>1 DEF GoesOn, ForgetOrphan, TransportTypeOK, WithPort, Reserving, Forwarded
<1>5. (overlapped \/ Owned)'
  <2>1. SUFFICES ASSUME ~overlapped' PROVE Owned' OBVIOUS
  <2> DEFINE p == transport[t].tried
  <2>2. /\ Owned /\ p \notin adb_forwards /\ adb_forwards' = adb_forwards
        /\ orphan_ports' = orphan_ports \ {p}
    BY <2>1 DEF ForgetOrphan, TransportTypeOK, Reused
  <2> HIDE DEF p
  <2>3. \A u \in Scrcpys : transport'[u].port = transport[u].port
           /\ (transport'[u].pc = transport[u].pc \/ (u = t /\ transport[t].pc = "forgetting" /\ transport'[t].pc = "retrying"))
    BY <1>1 DEF GoesOn
  <2>5. QED BY <2>2, <2>3 DEF Owned, Forwarded, Holding, Answerable
<1>6. QED BY <1>2, <1>3, <1>4, <1>5

LEMMA ForwardOkStep ==
  ASSUME TransportInv, NEW t \in Scrcpys, ForwardOk(t) PROVE TransportInv'
<1> USE DEF TransportInv
<1>1. GoesOn(t, {"forwarding"}, "forwarded")
  BY DEF ForwardOk, Moves, TransportTypeOK, GoesOn, Scrcpy, WithPort, Reserving, Forwarded
<1>2. ToldOnce' BY <1>1, ToldKept DEF GoesOn
<1>3. ReservationsKept' BY <1>1, ReservedKept DEF ForwardOk, Reserving
<1>4. TransportTypeOK' BY <1>1 DEF GoesOn, ForwardOk, TransportTypeOK, WithPort, Reserving, Forwarded
<1>5. (overlapped \/ Owned)'
  BY <1>1 DEF GoesOn, ForwardOk, Owned, TransportTypeOK, Forwarded, Holding, Answerable, ReservationsKept, Reserving,
              OtherHas, Reused
<1>6. QED BY <1>2, <1>3, <1>4, <1>5

LEMMA ForwardRefusedStep ==
  ASSUME TransportInv, NEW t \in Scrcpys, ForwardRefused(t) PROVE TransportInv'
<1> USE DEF TransportInv
<1>1. GoesOn(t, {"forwarding"}, "refused")
  BY DEF ForwardRefused, Moves, TransportTypeOK, GoesOn, Scrcpy, WithPort, Reserving, Forwarded
<1>2. ToldOnce' BY <1>1, ToldKept DEF GoesOn
<1>3. ReservationsKept' BY <1>1, ReservedKept DEF ForwardRefused, Reserving
<1>4. TransportTypeOK' BY <1>1 DEF GoesOn, ForwardRefused, TransportTypeOK, WithPort, Reserving, Forwarded
<1>5. (overlapped \/ Owned)'
  BY <1>1 DEF GoesOn, ForwardRefused, Owned, TransportTypeOK, Forwarded, Holding, Answerable, ReservationsKept, Reserving,
              OtherHas, Reused
<1>6. QED BY <1>2, <1>3, <1>4, <1>5

LEMMA ForwardTimeoutStep ==
  ASSUME TransportInv, NEW t \in Scrcpys, NEW w \in BOOLEAN, ForwardTimeout(t, w) PROVE TransportInv'
<1> USE DEF TransportInv
<1>1. GoesOn(t, {"forwarding"}, "timed_out")
  BY DEF ForwardTimeout, Moves, TransportTypeOK, GoesOn, Scrcpy, WithPort, Reserving, Forwarded
<1>2. ToldOnce' BY <1>1, ToldKept DEF GoesOn
<1>3. ReservationsKept' BY <1>1, ReservedKept DEF ForwardTimeout, Reserving
<1>4. TransportTypeOK' BY <1>1 DEF GoesOn, ForwardTimeout, TransportTypeOK, WithPort, Reserving, Forwarded
<1>5. (overlapped \/ Owned)'
  BY <1>1 DEF GoesOn, ForwardTimeout, Owned, TransportTypeOK, Forwarded, Holding, Answerable, ReservationsKept, Reserving,
              OtherHas, Reused
<1>6. QED BY <1>2, <1>3, <1>4, <1>5

LEMMA RememberStep ==
  ASSUME TransportInv, NEW t \in Scrcpys, Remember(t) PROVE TransportInv'
<1> USE DEF TransportInv
<1>1. GoesOn(t, {"timed_out"}, "refused")
  BY DEF Remember, Moves, TransportTypeOK, GoesOn, Scrcpy, WithPort, Reserving, Forwarded
<1>2. ToldOnce' BY <1>1, ToldKept DEF GoesOn
<1>3. ReservationsKept' BY <1>1, ReservedKept DEF Remember, Reserving
<1>4. TransportTypeOK' BY <1>1 DEF GoesOn, Remember, TransportTypeOK, WithPort, Reserving, Forwarded
<1>5. (overlapped \/ Owned)'
  BY <1>1 DEF GoesOn, Remember, Owned, TransportTypeOK, Forwarded, Holding, Answerable, ReservationsKept, Reserving,
              OtherHas, Reused
<1>6. QED BY <1>2, <1>3, <1>4, <1>5

LEMMA ConnectedStep ==
  ASSUME TransportInv, NEW t \in Scrcpys, Connected(t) PROVE TransportInv'
<1> USE DEF TransportInv
<1>1. GoesOn(t, {"connecting"}, "live")
  <2>1. transport[t] \in Scrcpy /\ transport \in [Scrcpys -> Scrcpy] BY DEF TransportTypeOK
  <2>2. transport' = [transport EXCEPT ![t] = [transport[t] EXCEPT !.pc = "live", !.readers = {"server", "video"}]] /\ transport[t].pc \in {"connecting"}
    BY DEF Connected
  <2>3. [transport[t] EXCEPT !.pc = "live", !.readers = {"server", "video"}] \in Scrcpy
    BY <2>1 DEF Scrcpy, WithPort, Reserving, Forwarded, TransportTypeOK
  <2>4. QED BY <2>1, <2>2, <2>3 DEF GoesOn, Scrcpy
<1>2. ToldOnce' BY <1>1, ToldKept DEF GoesOn
<1>3. ReservationsKept' BY <1>1, ReservedKept DEF Connected, Reserving
<1>4. TransportTypeOK' BY <1>1 DEF GoesOn, Connected, TransportTypeOK, WithPort, Reserving, Forwarded
<1>5. (overlapped \/ Owned)'
  BY <1>1 DEF GoesOn, Connected, Owned, TransportTypeOK, Forwarded, Holding, Answerable, ReservationsKept, Reserving,
              OtherHas, Reused
<1>6. QED BY <1>2, <1>3, <1>4, <1>5

LEMMA BeginStopTransportStep ==
  ASSUME TransportInv, NEW t \in Scrcpys, BeginStopTransport(t) PROVE TransportInv'
<1> USE DEF TransportInv
<1>1. GoesOn(t, {"connecting", "live"}, "joining")
  <2>1. transport[t] \in Scrcpy /\ transport \in [Scrcpys -> Scrcpy] BY DEF TransportTypeOK
  <2>2. transport' = [transport EXCEPT ![t] = [transport[t] EXCEPT !.pc = "joining", !.stop = TRUE]] /\ transport[t].pc \in {"connecting", "live"}
    BY DEF BeginStopTransport
  <2>3. [transport[t] EXCEPT !.pc = "joining", !.stop = TRUE] \in Scrcpy
    BY <2>1 DEF Scrcpy, WithPort, Reserving, Forwarded, TransportTypeOK
  <2>4. QED BY <2>1, <2>2, <2>3 DEF GoesOn, Scrcpy
<1>2. ToldOnce' BY <1>1, ToldKept DEF GoesOn
<1>3. ReservationsKept' BY <1>1, ReservedKept DEF BeginStopTransport, Reserving
<1>4. TransportTypeOK' BY <1>1 DEF GoesOn, BeginStopTransport, TransportTypeOK, WithPort, Reserving, Forwarded
<1>5. (overlapped \/ Owned)'
  BY <1>1 DEF GoesOn, BeginStopTransport, Owned, TransportTypeOK, Forwarded, Holding, Answerable, ReservationsKept, Reserving,
              OtherHas, Reused
<1>6. QED BY <1>2, <1>3, <1>4, <1>5

LEMMA CleanForwardStep ==
  ASSUME TransportInv, NEW t \in Scrcpys, CleanForward(t) PROVE TransportInv'
<1> USE DEF TransportInv
<1>1. GoesOn(t, {"joining"}, "cleaned")
  BY DEF CleanForward, Moves, TransportTypeOK, GoesOn, Scrcpy, WithPort, Reserving, Forwarded
<1>2. ToldOnce' BY <1>1, ToldKept DEF GoesOn
<1>3. ReservationsKept' BY <1>1, ReservedKept DEF CleanForward, Reserving
<1>4. TransportTypeOK' BY <1>1 DEF GoesOn, CleanForward, TransportTypeOK, WithPort, Reserving, Forwarded
<1>5. (overlapped \/ Owned)'
  BY <1>1 DEF GoesOn, CleanForward, Owned, TransportTypeOK, Forwarded, Holding, Answerable, ReservationsKept, Reserving,
              OtherHas, Reused
<1>6. QED BY <1>2, <1>3, <1>4, <1>5

LEMMA CleanForwardFailsStep ==
  ASSUME TransportInv, NEW t \in Scrcpys, NEW w \in BOOLEAN, CleanForwardFails(t, w) PROVE TransportInv'
<1> USE DEF TransportInv
<1>1. GoesOn(t, {"joining"}, "uncleaned")
  BY DEF CleanForwardFails, Moves, TransportTypeOK, GoesOn, Scrcpy, WithPort, Reserving, Forwarded
<1>2. ToldOnce' BY <1>1, ToldKept DEF GoesOn
<1>3. ReservationsKept' BY <1>1, ReservedKept DEF CleanForwardFails, Reserving
<1>4. TransportTypeOK' BY <1>1 DEF GoesOn, CleanForwardFails, TransportTypeOK, WithPort, Reserving, Forwarded
<1>5. (overlapped \/ Owned)'
  BY <1>1 DEF GoesOn, CleanForwardFails, Owned, TransportTypeOK, Forwarded, Holding, Answerable, ReservationsKept, Reserving,
              OtherHas, Reused
<1>6. QED BY <1>2, <1>3, <1>4, <1>5

LEMMA RememberUncleanedStep ==
  ASSUME TransportInv, NEW t \in Scrcpys, RememberUncleaned(t) PROVE TransportInv'
<1> USE DEF TransportInv
<1>1. GoesOn(t, {"uncleaned"}, "stopped")
  BY DEF RememberUncleaned, Moves, TransportTypeOK, GoesOn, Scrcpy, WithPort, Reserving, Forwarded
<1>2. ToldOnce' BY <1>1, ToldKept DEF GoesOn
<1>3. ReservationsKept' BY <1>1, ReservedKept DEF RememberUncleaned, Reserving
<1>4. TransportTypeOK' BY <1>1 DEF GoesOn, RememberUncleaned, TransportTypeOK, WithPort, Reserving, Forwarded
<1>5. (overlapped \/ Owned)'
  BY <1>1 DEF GoesOn, RememberUncleaned, Owned, TransportTypeOK, Forwarded, Holding, Answerable, ReservationsKept, Reserving,
              OtherHas, Reused
<1>6. QED BY <1>2, <1>3, <1>4, <1>5

LEMMA NotifyExitStep ==
  ASSUME TransportInv, NEW t \in Scrcpys, NEW reader, NotifyExit(t, reader) PROVE TransportInv'
<1> USE DEF TransportInv
<1>1. transport[t] \in Scrcpy /\ transport \in [Scrcpys -> Scrcpy] BY DEF TransportTypeOK
<1>2. /\ \A u \in Scrcpys \ {t} : transport'[u] = transport[u]
      /\ UNCHANGED <<adb_forwards, reserved_ports, orphan_ports, overlapped>>
      /\ DOMAIN transport' = Scrcpys /\ transport' = [u \in Scrcpys |-> transport'[u]]
  BY <1>1 DEF NotifyExit
<1>3. /\ transport'[t] \in Scrcpy /\ transport'[t].pc = transport[t].pc /\ transport'[t].port = transport[t].port
      /\ transport'[t].notified <= 1
      /\ transport'[t].notified = 1 => transport'[t].exit_notified
  <2>1. CASE FirstToNotify(t)
    <3>1. transport[t].notified = 0 BY <1>1, <2>1 DEF ToldOnce, Scrcpy, FirstToNotify
    <3>2. transport' = [transport EXCEPT ![t] = [transport[t] EXCEPT
             !.readers = @ \ {reader}, !.exit_notified = TRUE, !.notified = @ + 1]]
      BY <2>1, Zenon DEF NotifyExit
    <3>4. transport'[t] = [transport[t] EXCEPT !.readers = @ \ {reader}, !.exit_notified = TRUE,
                                               !.notified = 1]
      BY <1>1, <3>1, <3>2
    <3>5. transport'[t] \in Scrcpy
      <4>1. ASSUME NEW b \in BOOLEAN
            PROVE  [transport[t] EXCEPT !.readers = @ \ {reader}, !.exit_notified = b, !.notified = 1] \in Scrcpy
        BY <1>1 DEF Scrcpy
      <4>2. TRUE \in BOOLEAN OBVIOUS
      <4>3. QED BY <3>4, <4>1, <4>2, Zenon
    <3>6. /\ transport'[t].pc = transport[t].pc /\ transport'[t].port = transport[t].port
          /\ transport'[t].notified = 1
      BY <1>1, <3>4 DEF Scrcpy
    <3>7. transport'[t].exit_notified = TRUE BY <1>1, <3>4 DEF Scrcpy
    <3>8. QED BY <3>5, <3>6, <3>7
  <2>2. CASE ~FirstToNotify(t)
    <3>1. transport'[t] = [transport[t] EXCEPT !.readers = @ \ {reader}]
      BY <1>1, <2>2 DEF NotifyExit, Scrcpy
    <3>2. /\ transport'[t] \in Scrcpy /\ transport'[t].pc = transport[t].pc
          /\ transport'[t].port = transport[t].port /\ transport'[t].notified = transport[t].notified
          /\ transport'[t].exit_notified = transport[t].exit_notified
      BY <1>1, <3>1 DEF Scrcpy
    <3>3. QED BY <3>2 DEF ToldOnce
  <2>3. QED BY <2>1, <2>2
<1>4. \A u \in Scrcpys : transport'[u].pc = transport[u].pc /\ transport'[u].port = transport[u].port
  BY <1>2, <1>3
<1>5. TransportTypeOK' BY <1>1, <1>2, <1>3, <1>4 DEF TransportTypeOK
<1>6. ReservationsKept' BY <1>2, <1>4 DEF ReservationsKept
<1>7. (overlapped \/ Owned)' BY <1>2, <1>4 DEF Owned
<1>8. ToldOnce' BY <1>2, <1>3 DEF ToldOnce
<1>9. QED BY <1>5, <1>6, <1>7, <1>8

\* A port that is free is nobody's that has one.
LEMMA ReservePortStep ==
  ASSUME TransportInv, NEW t \in Scrcpys, ReservePort(t) PROVE TransportInv'
<1> USE DEF TransportInv
<1>1. transport[t] \in Scrcpy /\ transport \in [Scrcpys -> Scrcpy] /\ transport[t].pc = "retrying"
  BY DEF TransportTypeOK, ReservePort
<1>2. CASE FreePorts = {}
  <2>1. GoesOn(t, {"retrying"}, "stopped")
    BY <1>2 DEF ReservePort, Moves, TransportTypeOK, GoesOn, Scrcpy, WithPort, Reserving, Forwarded
  <2>2. ToldOnce' BY <2>1, ToldKept DEF GoesOn
  <2>3. ReservationsKept' BY <1>2, <2>1, ReservedKept DEF ReservePort, Reserving
  <2>4. TransportTypeOK' BY <1>2, <2>1 DEF GoesOn, ReservePort, TransportTypeOK, WithPort, Reserving, Forwarded
  <2>5. (overlapped \/ Owned)' BY <2>1 DEF GoesOn, ReservePort, Owned, Forwarded, Holding, Answerable
  <2>6. QED BY <2>2, <2>3, <2>4, <2>5
<1>3. CASE FreePorts # {}
  <2>1. PICK p \in FreePorts : p = Min(FreePorts)
    <3>1. FreePorts \in SUBSET Nat BY TransportAssumption DEF FreePorts
    <3>2. \E m \in FreePorts : \A x \in FreePorts : m =< x BY <1>3, <3>1, LeastNumber
    <3>3. QED BY <3>2 DEF Min
  <2>2. p \in Ports /\ p \notin adb_forwards /\ p \notin reserved_ports /\ p \notin orphan_ports BY DEF FreePorts
  <2>3. /\ reserved_ports' = reserved_ports \cup {p}
        /\ transport' = [transport EXCEPT ![t] = [transport[t] EXCEPT !.pc = "forwarding", !.port = p]]
        /\ UNCHANGED <<adb_forwards, orphan_ports, overlapped>>
    BY <1>3, <2>1 DEF ReservePort
  <2>4. [transport[t] EXCEPT !.pc = "forwarding", !.port = p] \in Scrcpy
    BY <1>1, <2>2 DEF Scrcpy, WithPort, Reserving
  <2>5. /\ transport' \in [Scrcpys -> Scrcpy]
        /\ \A u \in Scrcpys \ {t} : transport'[u] = transport[u]
        /\ transport'[t].pc = "forwarding" /\ transport'[t].port = p
        /\ transport'[t].notified = transport[t].notified
        /\ transport'[t].exit_notified = transport[t].exit_notified
    BY <1>1, <2>3, <2>4 DEF Scrcpy
  <2>6. TransportTypeOK' BY <2>2, <2>3, <2>5 DEF TransportTypeOK
  <2>7. ReservationsKept' BY <2>2, <2>3, <2>5 DEF ReservationsKept
  <2>8. (overlapped \/ Owned)'
    BY <1>1, <2>2, <2>3, <2>5 DEF Owned, Holding, Forwarded, Answerable, ReservationsKept, Reserving
  <2>9. ToldOnce' BY <2>5, ToldKept
  <2>10. QED BY <2>6, <2>7, <2>8, <2>9
<1>4. QED BY <1>2, <1>3

LEMMA UnreserveStep ==
  ASSUME TransportInv, NEW t \in Scrcpys, Unreserve(t) PROVE TransportInv'
<1> USE DEF TransportInv
<1> DEFINE Left == [transport[t] EXCEPT
              !.pc = IF transport[t].pc = "forwarded" THEN "connecting" ELSE "stopped",
              !.port = IF transport[t].pc = "forwarded" THEN @ ELSE 0]
<1>1. /\ transport[t] \in Scrcpy /\ transport \in [Scrcpys -> Scrcpy] /\ transport[t].port \in Ports
      /\ transport[t].pc \in {"forwarded", "refused"}
  BY DEF TransportTypeOK, Unreserve, WithPort, Reserving
<1>2. /\ transport' = [transport EXCEPT ![t] = Left]
      /\ reserved_ports' = reserved_ports \ {transport[t].port}
      /\ UNCHANGED <<adb_forwards, orphan_ports, overlapped>>
  BY DEF Unreserve
<1>3. Left \in Scrcpy BY <1>1 DEF Scrcpy, WithPort, Reserving, Forwarded
<1>4. /\ \/ /\ Left.pc = "connecting" /\ transport[t].pc = "forwarded"
            /\ Left.port = transport[t].port
         \/ Left.pc = "stopped" /\ transport[t].pc = "refused"
      /\ Left.notified = transport[t].notified /\ Left.exit_notified = transport[t].exit_notified
  BY <1>1 DEF Scrcpy
<1> HIDE DEF Left
<1>5. /\ transport' \in [Scrcpys -> Scrcpy] /\ transport'[t] = Left
      /\ \A u \in Scrcpys \ {t} : transport'[u] = transport[u]
  BY <1>1, <1>2, <1>3
<1>6. TransportTypeOK' BY <1>1, <1>2, <1>4, <1>5 DEF TransportTypeOK, WithPort, Reserving, Forwarded
<1>7. ReservationsKept' BY <1>1, <1>2, <1>4, <1>5 DEF ReservationsKept, Reserving
<1>8. (overlapped \/ Owned)' BY <1>2, <1>4, <1>5 DEF Owned, Holding, Forwarded, Answerable
<1>9. ToldOnce' BY <1>4, <1>5, ToldKept
<1>10. QED BY <1>6, <1>7, <1>8, <1>9

LEMMA CleanedStep ==
  ASSUME TransportInv, NEW t \in Scrcpys, Cleaned(t) PROVE TransportInv'
<1> USE DEF TransportInv
<1> DEFINE p == transport[t].port
           Left == [transport[t] EXCEPT !.pc = "stopped", !.port = 0]
<1>1. transport[t] \in Scrcpy /\ transport \in [Scrcpys -> Scrcpy] /\ transport[t].pc = "cleaned"
  BY DEF TransportTypeOK, Cleaned
<1>2. /\ transport' = [transport EXCEPT ![t] = Left]
      /\ orphan_ports' = orphan_ports \ {p} /\ UNCHANGED <<adb_forwards, reserved_ports>>
      /\ overlapped' \in BOOLEAN
      /\ ~overlapped' => ~overlapped /\ (p \in orphan_ports => p \notin adb_forwards)
  BY DEF Cleaned, Reused, TransportTypeOK
<1>3. Left \in Scrcpy /\ Left.pc = "stopped" BY <1>1 DEF Scrcpy
<1>4. Left.notified = transport[t].notified /\ Left.exit_notified = transport[t].exit_notified
  BY <1>1 DEF Scrcpy
<1> HIDE DEF Left, p
<1>5. /\ transport' \in [Scrcpys -> Scrcpy] /\ transport'[t] = Left
      /\ \A u \in Scrcpys \ {t} : transport'[u] = transport[u]
  BY <1>1, <1>2, <1>3
<1>6. TransportTypeOK' BY <1>1, <1>2, <1>3, <1>5 DEF TransportTypeOK, WithPort, Reserving, Forwarded
<1>7. ReservationsKept' BY <1>1, <1>2, <1>3, <1>5 DEF ReservationsKept, Reserving
<1>8. (overlapped \/ Owned)' BY <1>1, <1>2, <1>3, <1>5 DEF Owned, Holding, Forwarded, Answerable
<1>9. ToldOnce' BY <1>4, <1>5, ToldKept
<1>10. QED BY <1>6, <1>7, <1>8, <1>9

LEMMA TransportStep == ASSUME TransportInv, [TransportNext]_transportVars PROVE TransportInv'
<1>1. CASE UNCHANGED transportVars
  BY <1>1 DEF transportVars, TransportInv, TransportTypeOK, ReservationsKept, Owned, ToldOnce
<1>2. CASE TransportNext
  BY <1>2, StartAbortsStep, BeginRetryStep, RetryRemovedStep, RetryFailsStep, ForgetOrphanStep, ReservePortStep,
     ForwardOkStep, ForwardRefusedStep, ForwardTimeoutStep, RememberStep, UnreserveStep, ConnectedStep,
     NotifyExitStep, BeginStopTransportStep, CleanForwardStep, CleanForwardFailsStep, CleanedStep,
     RememberUncleanedStep, Zenon
     DEF TransportNext
<1>3. QED BY <1>1, <1>2

\* For every number of transports and ports: an owner's port is its own and
\* stays forwarded, and no forward is forgotten (scrcpy.py).
THEOREM PortsAreKept == TransportSpec => []PortsKept
<1>1. TransportInv /\ [TransportNext]_transportVars => TransportInv' BY TransportStep
<1>2. QED BY <1>1, TransportInitInv, KeptFromInv, PTL DEF TransportSpec

-----------------------------------------------------------------------------
(***************************************************************************)
(* The policy of an embedded page (module AlasPolicy)                      *)
(***************************************************************************)
\* What holds of 0 and of the successors of what it holds of holds of every natural.
LEMMA NaturalInduction ==
  ASSUME NEW T, 0 \in T, \A n \in Nat : n \in T => n + 1 \in T
  PROVE  \A n \in Nat : n \in T
<1> DEFINE Out == Nat \ T
<1> SUFFICES ASSUME Out # {} PROVE FALSE OBVIOUS
<1>1. PICK m \in Out : \A k \in Out : m <= k BY LeastNumber
<1>2. m \in Nat /\ m # 0 /\ m - 1 \in Nat OBVIOUS
<1>3. m - 1 \in T BY <1>1, <1>2
<1>4. (m - 1) + 1 \in T BY <1>2, <1>3
<1> QED BY <1>2, <1>4

\* A set of numbers up to n that has an element has a greatest one.
LEMMA GreatestIndex ==
  ASSUME NEW n \in Nat, NEW T \in SUBSET (1..n), T # {}
  PROVE  \E m \in T : \A k \in T : k <= m
<1> DEFINE Above == {x \in Nat : \A k \in T : k <= x}
<1>1. n \in Above /\ Above \subseteq Nat OBVIOUS
<1>2. PICK x \in Above : \A y \in Above : x <= y BY <1>1, LeastNumber
<1>3. x \in Nat /\ \A k \in T : k <= x OBVIOUS
<1>4. ASSUME x \notin T PROVE FALSE
  <2>1. PICK k \in T : TRUE OBVIOUS
  <2>2. k \in Nat /\ k >= 1 /\ k <= x BY <2>1, <1>3
  <2>3. x - 1 \in Nat BY <2>2, <1>3
  <2>4. \A j \in T : j <= x - 1 BY <1>3, <1>4
  <2>5. x - 1 \in Above BY <2>3, <2>4
  <2> QED BY <2>5, <1>2, <1>3
<1> HIDE DEF Above
<1> QED BY <1>3, <1>4

IsRegistry(r) ==
  r \in [entries : {r.entries}, refused : {r.refused}, order : {r.order}, saturated : BOOLEAN]

\* A registry of ids among S, within its capacity.
RegOK(r, S) ==
  /\ IsRegistry(r)
  /\ IsFiniteSet(Known(r)) /\ Cardinality(Known(r)) <= registry_capacity
  /\ IsFiniteSet(r.refused) /\ Cardinality(r.refused) <= registry_capacity
  /\ Known(r) \cap r.refused = {} /\ r.refused \subseteq S
  /\ r.order \in Seq(S) /\ Known(r) \subseteq {r.order[i] : i \in DOMAIN r.order}

\* What refusing or allowing w leaves as it is.
Around(r, s, w) ==
  /\ Known(s) \subseteq Known(r) \cup {w}
  /\ \A v \in Known(s) \ {w} : s.entries[v] = r.entries[v]
  /\ r.refused \subseteq s.refused /\ s.refused \subseteq r.refused \cup {w}
  /\ r.saturated => s.saturated

Barred(s, w) == w \notin Known(s) /\ (w \in s.refused \/ s.saturated)

\* An entry is taken out of a registry.
LEMMA EntryTaken ==
  ASSUME NEW r, NEW S, RegOK(r, S), registry_capacity \in Nat \ {0}, NEW ids
  PROVE  LET s == [r EXCEPT !.entries = Without(@, ids)] IN
         /\ RegOK(s, S) /\ Known(s) = Known(r) \ ids
         /\ s.order = r.order /\ s.refused = r.refused /\ s.saturated = r.saturated
         /\ \A v \in Known(s) : s.entries[v] = r.entries[v]
<1> DEFINE s == [r EXCEPT !.entries = Without(@, ids)]
<1>1. /\ s.entries = Without(r.entries, ids) /\ s.order = r.order /\ s.refused = r.refused
      /\ s.saturated = r.saturated /\ IsRegistry(s)
  BY DEF RegOK, IsRegistry
<1>2. DOMAIN s.entries = (DOMAIN r.entries) \ ids /\ \A v \in DOMAIN s.entries : s.entries[v] = r.entries[v]
  <2> HIDE DEF s
  <2> QED BY <1>1 DEF Without
<1>3. Known(s) = Known(r) \ ids /\ \A v \in Known(s) : s.entries[v] = r.entries[v]
  BY <1>2 DEF Known
<1> HIDE DEF s
<1>4. Known(s) \subseteq Known(r) BY <1>3
<1>5. /\ IsFiniteSet(Known(r)) /\ Cardinality(Known(r)) <= registry_capacity
      /\ IsFiniteSet(r.refused) /\ Cardinality(r.refused) <= registry_capacity
      /\ Known(r) \cap r.refused = {} /\ r.refused \subseteq S
      /\ r.order \in Seq(S) /\ Known(r) \subseteq {r.order[i] : i \in DOMAIN r.order}
  BY DEF RegOK
<1>6. IsFiniteSet(Known(s)) /\ Cardinality(Known(s)) <= Cardinality(Known(r))
  BY <1>4, <1>5, FS_Subset
<1>7. Cardinality(Known(s)) \in Nat /\ Cardinality(Known(r)) \in Nat
  BY <1>5, <1>6, FS_CardinalityType
<1>8. Cardinality(Known(s)) <= registry_capacity BY <1>5, <1>6, <1>7
<1>9. RegOK(s, S) BY <1>1, <1>4, <1>5, <1>6, <1>8 DEF RegOK
<1> QED BY <1>1, <1>3, <1>9 DEF s

\* A refused id is not allowed, and refused as long as there was room.
LEMMA RefuseFacts ==
  ASSUME NEW r, NEW S, RegOK(r, S), registry_capacity \in Nat \ {0}, NEW w \in S
  PROVE  LET s == Refuse(r, w) IN
         /\ RegOK(s, S) /\ Around(r, s, w) /\ Barred(s, w)
         /\ Known(s) = Known(r) \ {w} /\ s.order = r.order
<1> DEFINE s == Refuse(r, w)
           popped == [r EXCEPT !.entries = Without(@, {w})]
           room == Cardinality(Known(popped)) + Cardinality(r.refused) < registry_capacity
<1>1. /\ RegOK(popped, S) /\ Known(popped) = Known(r) \ {w}
      /\ popped.order = r.order /\ popped.refused = r.refused /\ popped.saturated = r.saturated
      /\ \A v \in Known(popped) : popped.entries[v] = r.entries[v]
  BY EntryTaken
<1>2. s = IF w \in r.refused THEN popped
          ELSE IF room THEN [popped EXCEPT !.refused = @ \cup {w}]
          ELSE [popped EXCEPT !.saturated = TRUE]
  BY DEF Refuse
<1> HIDE DEF s, popped
<1>3. CASE w \in r.refused
  <2>1. s = popped BY <1>2, <1>3
  <2> QED BY <1>1, <1>3, <2>1 DEF Around, Barred, s
<1>4. CASE w \notin r.refused /\ room
  <2>1. s = [popped EXCEPT !.refused = @ \cup {w}] BY <1>2, <1>4
  <2>2. IsRegistry(popped) BY <1>1 DEF RegOK
  <2>3. /\ s.entries = popped.entries /\ s.order = popped.order /\ s.saturated = popped.saturated
        /\ s.refused = popped.refused \cup {w} /\ IsRegistry(s)
    BY <2>1, <2>2 DEF IsRegistry
  <2>4. Known(s) = Known(popped) BY <2>3 DEF Known
  <2>5. /\ IsFiniteSet(Known(popped)) /\ Cardinality(Known(popped)) <= registry_capacity
        /\ IsFiniteSet(popped.refused)
        /\ Known(popped) \cap popped.refused = {} /\ popped.refused \subseteq S
        /\ popped.order \in Seq(S)
        /\ Known(popped) \subseteq {popped.order[i] : i \in DOMAIN popped.order}
    BY <1>1 DEF RegOK
  <2>6. IsFiniteSet(s.refused) /\ Cardinality(s.refused) = Cardinality(r.refused) + 1
    BY <1>1, <1>4, <2>3, <2>5, FS_AddElement
  <2>7. Cardinality(Known(popped)) \in Nat /\ Cardinality(r.refused) \in Nat
    BY <1>1, <2>5, FS_CardinalityType
  <2>8. Cardinality(s.refused) <= registry_capacity BY <1>4, <2>6, <2>7
  <2>9. Known(s) \cap s.refused = {} BY <1>1, <2>3, <2>4, <2>5
  <2>10. RegOK(s, S)
    <3>1. s.refused \subseteq S BY <2>3, <2>5
    <3>2. s.order \in Seq(S) /\ Known(s) \subseteq {s.order[i] : i \in DOMAIN s.order}
      BY <2>3, <2>4, <2>5
    <3>3. IsFiniteSet(Known(s)) /\ Cardinality(Known(s)) <= registry_capacity BY <2>4, <2>5
    <3> QED BY <2>3, <2>6, <2>8, <2>9, <3>1, <3>2, <3>3 DEF RegOK
  <2>11. Around(r, s, w)
    <3>1. \A v \in Known(s) \ {w} : s.entries[v] = r.entries[v] BY <1>1, <2>3, <2>4
    <3> QED BY <1>1, <2>3, <2>4, <3>1 DEF Around
  <2>12. Barred(s, w) BY <1>1, <2>3, <2>4 DEF Barred
  <2> QED BY <1>1, <2>3, <2>4, <2>10, <2>11, <2>12 DEF s
<1>5. CASE w \notin r.refused /\ ~room
  <2>1. s = [popped EXCEPT !.saturated = TRUE] BY <1>2, <1>5
  <2>2. IsRegistry(popped) BY <1>1 DEF RegOK
  <2>3. /\ s.entries = popped.entries /\ s.order = popped.order /\ s.saturated = TRUE
        /\ s.refused = popped.refused /\ IsRegistry(s)
    BY <2>1, <2>2 DEF IsRegistry
  <2>4. Known(s) = Known(popped) BY <2>3 DEF Known
  <2>5. RegOK(s, S) BY <1>1, <2>3, <2>4 DEF RegOK
  <2>6. Around(r, s, w)
    <3>1. \A v \in Known(s) \ {w} : s.entries[v] = r.entries[v] BY <1>1, <2>3, <2>4
    <3> QED BY <1>1, <2>3, <2>4, <3>1 DEF Around
  <2>7. Barred(s, w) BY <1>1, <2>3, <2>4 DEF Barred
  <2> QED BY <1>1, <2>3, <2>4, <2>5, <2>6, <2>7 DEF s
<1> QED BY <1>3, <1>4, <1>5

\* The part of a sequence after its first b elements.
LEMMA SuffixFacts ==
  ASSUME NEW R, NEW rows \in Seq(R), NEW b \in 1..Len(rows)
  PROVE  LET rest == SubSeq(rows, b + 1, Len(rows)) IN
         /\ rest \in Seq(R) /\ Len(rest) = Len(rows) - b
         /\ \A i \in 1..(Len(rows) - b) : rest[i] = rows[i + b]
<1> DEFINE rest == SubSeq(rows, b + 1, Len(rows))
<1>1. Len(rows) \in Nat /\ b \in Nat /\ 1 <= b /\ b <= Len(rows) OBVIOUS
<1>2. CASE b < Len(rows)
  <2>1. b + 1 \in 1..(Len(rows) + 1) /\ Len(rows) \in b..Len(rows) BY <1>1, <1>2
  <2>2. /\ rest \in Seq(R)
        /\ Len(rest) = IF b + 1 <= Len(rows) THEN Len(rows) - (b + 1) + 1 ELSE 0
        /\ \A i \in 1..(Len(rows) - (b + 1) + 1) : rest[i] = rows[(b + 1) + i - 1]
    BY <1>1, <1>2, SubSeqProperties
  <2>3. Len(rows) - (b + 1) + 1 = Len(rows) - b /\ b + 1 <= Len(rows) BY <1>1, <1>2
  <2>4. \A i \in 1..(Len(rows) - b) : (b + 1) + i - 1 = i + b BY <1>1
  <2> QED BY <2>2, <2>3, <2>4
<1>3. CASE b = Len(rows)
  <2>1. rest = <<>> BY <1>1, <1>3
  <2> QED BY <1>1, <1>3, <2>1
<1>4. b < Len(rows) \/ b = Len(rows)
  <2> HIDE DEF rest
  <2> QED BY <1>1
<1> HIDE DEF rest
<1> QED BY <1>2, <1>3, <1>4 DEF rest

\* The newest id in the order, not registered before.
OnlyLast(r, v) == \A i \in DOMAIN r.order : r.order[i] = v => i = Len(r.order)

\* A full registry gives up one entry, never the newest as long as it has another.
LEMMA EvictFacts ==
  ASSUME NEW r, NEW S, RegOK(r, S), registry_capacity \in Nat \ {0}, Known(r) # {}
  PROVE  LET s == EvictOldest(r) IN
         /\ RegOK(s, S) /\ s.saturated /\ s.refused = r.refused
         /\ Cardinality(Known(s)) = Cardinality(Known(r)) - 1 /\ Known(s) \subseteq Known(r)
         /\ \A v \in Known(s) : s.entries[v] = r.entries[v]
         /\ \A v \in Known(r) : OnlyLast(r, v) /\ Known(r) # {v} => v \in Known(s)
<1> DEFINE IsFirst(i) == /\ r.order[i] \in Known(r)
                         /\ \A j \in 1..(i - 1) : r.order[j] \notin Known(r)
           first == CHOOSE i \in DOMAIN r.order : IsFirst(i)
           s == EvictOldest(r)
           q == r.order
<1>1. /\ IsFiniteSet(Known(r)) /\ Cardinality(Known(r)) <= registry_capacity
      /\ IsFiniteSet(r.refused) /\ Cardinality(r.refused) <= registry_capacity
      /\ Known(r) \cap r.refused = {} /\ r.refused \subseteq S
      /\ q \in Seq(S) /\ Known(r) \subseteq {q[i] : i \in DOMAIN q}
      /\ IsRegistry(r)
  BY DEF RegOK
<1>2. Len(q) \in Nat /\ DOMAIN q = 1..Len(q) BY <1>1
<1>3. \E i \in DOMAIN q : IsFirst(i)
  <2> DEFINE T == {i \in DOMAIN q : q[i] \in Known(r)}
  <2>1. T # {} /\ T \subseteq Nat BY <1>1, <1>2
  <2>2. PICK m \in T : \A k \in T : m <= k
    <3> HIDE DEF T
    <3> QED BY <2>1, LeastNumber
  <2>3. \A j \in 1..(m - 1) : j \in DOMAIN q /\ ~(m <= j) BY <1>2
  <2>4. \A j \in 1..(m - 1) : q[j] \notin Known(r) BY <2>2, <2>3
  <2> QED BY <2>4
<1>4. first \in DOMAIN q /\ IsFirst(first) BY <1>3
<1>5. s = [r EXCEPT !.entries = Without(@, {q[first]}),
                    !.order = SubSeq(@, first + 1, Len(@)), !.saturated = TRUE]
  BY DEF EvictOldest
<1>6. /\ q[first] \in Known(r) /\ first \in Nat
      /\ \A j \in 1..(first - 1) : q[j] \notin Known(r)
  BY <1>2, <1>4
<1> HIDE DEF first, s, IsFirst
<1> DEFINE rest == SubSeq(q, first + 1, Len(q))
           e == q[first]
<1>7. /\ s.entries = Without(r.entries, {e}) /\ s.order = rest /\ s.saturated = TRUE
      /\ s.refused = r.refused /\ IsRegistry(s)
  BY <1>1, <1>5 DEF IsRegistry
<1>8. /\ rest \in Seq(S) /\ Len(rest) = Len(q) - first
      /\ \A i \in 1..(Len(q) - first) : rest[i] = q[i + first]
  BY <1>1, <1>2, <1>4, SuffixFacts
<1> HIDE DEF rest
<1>9. Known(s) = Known(r) \ {e} /\ \A v \in Known(s) : s.entries[v] = r.entries[v]
  BY <1>7 DEF Known, Without
<1>10. Known(s) \subseteq {rest[i] : i \in DOMAIN rest}
  <2> SUFFICES ASSUME NEW v \in Known(s) PROVE \E i \in DOMAIN rest : rest[i] = v OBVIOUS
  <2>1. PICK j \in DOMAIN q : q[j] = v BY <1>1, <1>9
  <2>2. j # first /\ j \notin 1..(first - 1) BY <1>6, <1>9, <2>1
  <2>3. j - first \in 1..(Len(q) - first) BY <1>2, <1>6, <2>2
  <2>4. (j - first) + first = j /\ DOMAIN rest = 1..(Len(q) - first) BY <1>2, <1>6, <1>8
  <2>5. rest[j - first] = q[j] BY <1>8, <2>3, <2>4
  <2> QED BY <2>1, <2>3, <2>4, <2>5
<1>11. /\ IsFiniteSet(Known(s)) /\ Cardinality(Known(s)) = Cardinality(Known(r)) - 1
  <2>1. /\ IsFiniteSet(Known(r) \ {e})
        /\ Cardinality(Known(r) \ {e}) = IF e \in Known(r) THEN Cardinality(Known(r)) - 1
                                         ELSE Cardinality(Known(r))
    <3> HIDE DEF e
    <3> QED BY <1>1, FS_RemoveElement
  <2>2. e \in Known(r) BY <1>6
  <2> HIDE DEF e
  <2> QED BY <1>9, <2>1, <2>2
<1>12. Cardinality(Known(r)) \in Nat BY <1>1, FS_CardinalityType
<1>13. Cardinality(Known(s)) <= registry_capacity BY <1>1, <1>11, <1>12
<1>14. RegOK(s, S) BY <1>1, <1>7, <1>8, <1>9, <1>10, <1>11, <1>13 DEF RegOK
<1>15. ASSUME NEW v \in Known(r), OnlyLast(r, v), Known(r) # {v} PROVE v \in Known(s)
  <2>1. PICK u \in Known(r) : u # v BY <1>15
  <2>2. PICK k \in DOMAIN q : q[k] = u BY <1>1
  <2>3. first <= k
    <3>1. k \notin 1..(first - 1) BY <1>6, <2>1, <2>2
    <3> QED BY <1>2, <1>6, <3>1
  <2>4. ASSUME v = e PROVE FALSE
    <3>1. first = Len(q) BY <1>4, <1>15, <2>4 DEF OnlyLast
    <3>2. k = first BY <1>2, <1>6, <2>3, <3>1
    <3> QED BY <2>1, <2>2, <2>4, <3>2
  <2> QED BY <1>9, <2>4
<1> QED BY <1>7, <1>9, <1>11, <1>14, <1>15 DEF s

LEMMA ReserveFacts ==
  ASSUME NEW r, NEW S, RegOK(r, S), registry_capacity \in Nat \ {0}
  PROVE  LET s == ReserveSlot(r) IN
         /\ RegOK(s, S) /\ s.refused = r.refused /\ (r.saturated => s.saturated)
         /\ Cardinality(Known(s)) < registry_capacity /\ Known(s) \subseteq Known(r)
         /\ \A v \in Known(s) : s.entries[v] = r.entries[v]
         /\ \A v \in Known(r) : OnlyLast(r, v) /\ registry_capacity > 1 => v \in Known(s)
<1>1. IsFiniteSet(Known(r)) /\ Cardinality(Known(r)) <= registry_capacity BY DEF RegOK
<1>2. Cardinality(Known(r)) \in Nat BY <1>1, FS_CardinalityType
<1>3. CASE Cardinality(Known(r)) < registry_capacity
  <2>1. ReserveSlot(r) = r BY <1>3 DEF ReserveSlot
  <2> QED BY <1>3, <2>1
<1>4. CASE ~(Cardinality(Known(r)) < registry_capacity)
  <2>1. ReserveSlot(r) = EvictOldest(r) BY <1>4 DEF ReserveSlot
  <2>2. Cardinality(Known(r)) = registry_capacity BY <1>1, <1>2, <1>4
  <2>3. Known(r) # {} BY <2>2, FS_EmptySet
  <2>4. \A v : registry_capacity > 1 => Known(r) # {v}
    <3>1. \A v : Cardinality({v}) = 1 BY FS_Singleton
    <3> QED BY <2>2, <3>1
  <2>5. LET s == EvictOldest(r) IN
         /\ RegOK(s, S) /\ s.saturated /\ s.refused = r.refused
         /\ Cardinality(Known(s)) = Cardinality(Known(r)) - 1 /\ Known(s) \subseteq Known(r)
         /\ \A v \in Known(s) : s.entries[v] = r.entries[v]
         /\ \A v \in Known(r) : OnlyLast(r, v) /\ Known(r) # {v} => v \in Known(s)
    BY <2>3, EvictFacts
  <2>6. Cardinality(Known(EvictOldest(r))) < registry_capacity BY <1>2, <2>2, <2>5
  <2> QED BY <2>1, <2>4, <2>5, <2>6
<1> QED BY <1>3, <1>4

LEMMA MoreIds ==
  ASSUME NEW r, NEW S, RegOK(r, S), NEW T, S \subseteq T
  PROVE  RegOK(r, T)
<1>1. r.order \in Seq(T)
  <2>1. r.order \in Seq(S) BY DEF RegOK
  <2> QED BY <2>1
<1> QED BY <1>1 DEF RegOK

\* An id is allowed unless it was refused or what it asks for is restricted, for
\* no less than it asks for; a new one is the newest.
LEMMA AllowFacts ==
  ASSUME NEW r, NEW S, RegOK(r, S), registry_capacity \in Nat \ {0}, NEW w, NEW asked
  PROVE  LET s == Allow(r, w, asked) IN
         /\ RegOK(s, S \cup {w}) /\ Around(r, s, w)
         /\ "restricted" \in asked.needs => Barred(s, w)
         /\ w \in Known(s) => /\ "restricted" \notin s.entries[w].needs
                              /\ asked.needs \subseteq s.entries[w].needs
                              /\ s.entries[w].kind = asked.kind
         /\ /\ w \notin r.refused /\ "restricted" \notin asked.needs
            /\ w \in Known(r) => /\ r.entries[w].kind = asked.kind
                                 /\ "restricted" \notin r.entries[w].needs
            => s.refused = r.refused
         /\ w \notin S /\ "restricted" \notin asked.needs => w \in Known(s) /\ OnlyLast(s, w)
         /\ \A v \in Known(r) : OnlyLast(r, v) /\ registry_capacity > 1 /\ v # w => v \in Known(s)
<1> DEFINE T == S \cup {w}
           s == Allow(r, w, asked)
           both == Merged(r.entries[w], asked)
<1>1. /\ Known(r) \cap r.refused = {} /\ r.refused \subseteq S /\ r.order \in Seq(S)
      /\ Known(r) \subseteq {r.order[i] : i \in DOMAIN r.order} /\ IsRegistry(r)
  BY DEF RegOK
<1>2. Known(r) \subseteq S
  <2>1. \A i \in DOMAIN r.order : r.order[i] \in S BY <1>1
  <2> QED BY <1>1, <2>1
<1>3. RegOK(r, T) BY MoreIds
<1>4. w \in T OBVIOUS
<1>5. LET x == Refuse(r, w) IN
         /\ RegOK(x, T) /\ Around(r, x, w) /\ Barred(x, w)
         /\ Known(x) = Known(r) \ {w} /\ x.order = r.order
  BY <1>3, <1>4, RefuseFacts
<1>6. s = IF w \in r.refused \/ "restricted" \in asked.needs THEN Refuse(r, w)
          ELSE IF w \notin Known(r)
          THEN LET x == ReserveSlot(r)
               IN  [x EXCEPT !.entries = [v \in Known(x) \cup {w} |-> IF v = w THEN asked ELSE @[v]],
                             !.order = Append(@, w)]
          ELSE IF "restricted" \in both.needs THEN Refuse(r, w)
               ELSE [r EXCEPT !.entries[w] = both]
  BY DEF Allow
<1>7. /\ both.needs = r.entries[w].needs \cup asked.needs
                        \cup (IF r.entries[w].kind # asked.kind THEN {"restricted"} ELSE {})
      /\ both.kind = asked.kind
  BY DEF Merged
<1> HIDE DEF s, both, T
<1>8. CASE w \in r.refused \/ "restricted" \in asked.needs
  <2>1. s = Refuse(r, w) BY <1>6, <1>8
  <2>2. w \in S \/ "restricted" \in asked.needs BY <1>1, <1>8
  <2>3. w \notin Known(s) BY <1>5, <2>1 DEF Barred
  <2> QED BY <1>5, <1>8, <2>1, <2>2, <2>3 DEF s, T
<1>9. CASE w \notin r.refused /\ "restricted" \notin asked.needs /\ w \notin Known(r)
  <2> DEFINE x == ReserveSlot(r)
  <2>1. /\ RegOK(x, S) /\ x.refused = r.refused /\ (r.saturated => x.saturated)
        /\ Cardinality(Known(x)) < registry_capacity /\ Known(x) \subseteq Known(r)
        /\ \A v \in Known(x) : x.entries[v] = r.entries[v]
        /\ \A v \in Known(r) : OnlyLast(r, v) /\ registry_capacity > 1 => v \in Known(x)
    BY ReserveFacts
  <2>2. s = [x EXCEPT !.entries = [v \in Known(x) \cup {w} |-> IF v = w THEN asked ELSE @[v]],
                      !.order = Append(@, w)]
    BY <1>6, <1>9
  <2> HIDE DEF x
  <2>3. /\ IsRegistry(x) /\ x.order \in Seq(S)
        /\ IsFiniteSet(Known(x)) /\ IsFiniteSet(x.refused)
        /\ Cardinality(x.refused) <= registry_capacity
        /\ Known(x) \subseteq {x.order[i] : i \in DOMAIN x.order}
        /\ Known(x) \cap x.refused = {} /\ x.refused \subseteq S
    BY <2>1 DEF RegOK
  <2>4. /\ s.entries = [v \in Known(x) \cup {w} |-> IF v = w THEN asked ELSE x.entries[v]]
        /\ s.order = Append(x.order, w) /\ s.saturated = x.saturated
        /\ s.refused = x.refused /\ IsRegistry(s)
    BY <2>2, <2>3 DEF IsRegistry
  <2>5. /\ Known(s) = Known(x) \cup {w} /\ s.entries[w] = asked
        /\ \A v \in Known(x) : v # w => s.entries[v] = x.entries[v]
    BY <2>4 DEF Known
  <2>6. w \notin Known(x) BY <1>9, <2>1
  <2>7. IsFiniteSet(Known(s)) /\ Cardinality(Known(s)) = Cardinality(Known(x)) + 1
    BY <2>3, <2>5, <2>6, FS_AddElement
  <2>8. Cardinality(Known(x)) \in Nat BY <2>3, FS_CardinalityType
  <2>9. Cardinality(Known(s)) <= registry_capacity BY <2>1, <2>7, <2>8
  <2>10. x.order \in Seq(T) /\ w \in T BY <2>3 DEF T
  <2>11. /\ s.order \in Seq(T) /\ Len(s.order) = Len(x.order) + 1 /\ Len(x.order) \in Nat
         /\ DOMAIN x.order = 1..Len(x.order) /\ DOMAIN s.order = 1..(Len(x.order) + 1)
         /\ \A i \in DOMAIN x.order : s.order[i] = x.order[i]
         /\ s.order[Len(x.order) + 1] = w
    BY <2>4, <2>10
  <2>12. Known(s) \subseteq {s.order[i] : i \in DOMAIN s.order}
    <3> SUFFICES ASSUME NEW v \in Known(s) PROVE \E i \in DOMAIN s.order : s.order[i] = v OBVIOUS
    <3>1. CASE v = w BY <2>11, <3>1
    <3>2. CASE v \in Known(x)
      <4>1. PICK i \in DOMAIN x.order : x.order[i] = v BY <2>3, <3>2
      <4> QED BY <2>11, <4>1
    <3> QED BY <2>5, <3>1, <3>2
  <2>13. RegOK(s, T)
    <3>1. s.refused \subseteq T /\ Known(s) \cap s.refused = {}
      BY <1>9, <2>1, <2>3, <2>4, <2>5 DEF T
    <3>2. IsFiniteSet(s.refused) /\ Cardinality(s.refused) <= registry_capacity BY <2>3, <2>4
    <3> QED BY <2>4, <2>7, <2>9, <2>11, <2>12, <3>1, <3>2 DEF RegOK
  <2>14. Around(r, s, w)
    <3>1. Known(s) \subseteq Known(r) \cup {w} BY <2>1, <2>5
    <3>2. \A v \in Known(s) \ {w} : s.entries[v] = r.entries[v] BY <2>1, <2>5
    <3> QED BY <2>1, <2>4, <3>1, <3>2 DEF Around
  <2>15. ASSUME w \notin S PROVE OnlyLast(s, w)
    <3>1. \A i \in DOMAIN x.order : x.order[i] \in S BY <2>3
    <3>2. \A i \in DOMAIN x.order : s.order[i] # w BY <2>11, <2>15, <3>1
    <3>3. ASSUME NEW i \in DOMAIN s.order, i \notin DOMAIN x.order PROVE i = Len(s.order)
      BY <2>11, <3>3
    <3> QED BY <3>2, <3>3 DEF OnlyLast
  <2>16. \A v \in Known(r) : OnlyLast(r, v) /\ registry_capacity > 1 /\ v # w => v \in Known(s)
    BY <2>1, <2>5
  <2>17. s.refused = r.refused /\ w \in Known(s) BY <2>1, <2>4, <2>5
  <2> QED BY <1>9, <2>5, <2>13, <2>14, <2>15, <2>16, <2>17 DEF s, T
<1>10. CASE w \notin r.refused /\ "restricted" \notin asked.needs /\ w \in Known(r)
            /\ "restricted" \in both.needs
  <2>1. s = Refuse(r, w) BY <1>6, <1>10
  <2>2. w \in S BY <1>2, <1>10
  <2>3. w \notin Known(s) BY <1>5, <2>1 DEF Barred
  <2>4. ~(r.entries[w].kind = asked.kind /\ "restricted" \notin r.entries[w].needs)
    BY <1>7, <1>10
  <2> QED BY <1>5, <1>10, <2>1, <2>2, <2>3, <2>4 DEF s, T
<1>11. CASE w \notin r.refused /\ "restricted" \notin asked.needs /\ w \in Known(r)
            /\ "restricted" \notin both.needs
  <2>1. s = [r EXCEPT !.entries[w] = both] BY <1>6, <1>11
  <2>2. /\ s.entries = [r.entries EXCEPT ![w] = both] /\ s.order = r.order
        /\ s.saturated = r.saturated /\ s.refused = r.refused /\ IsRegistry(s)
    BY <1>1, <2>1 DEF IsRegistry
  <2>3. w \in DOMAIN r.entries BY <1>11 DEF Known
  <2>4. /\ DOMAIN s.entries = DOMAIN r.entries /\ s.entries[w] = both
        /\ \A v \in DOMAIN r.entries : v # w => s.entries[v] = r.entries[v]
    BY <2>2, <2>3
  <2>5. /\ Known(s) = Known(r)
        /\ \A v \in Known(r) : v # w => s.entries[v] = r.entries[v]
    BY <2>4 DEF Known
  <2>6. RegOK(s, T) BY <1>3, <2>2, <2>5 DEF RegOK
  <2>7. Around(r, s, w) BY <2>2, <2>5 DEF Around
  <2>8. /\ "restricted" \notin s.entries[w].needs /\ asked.needs \subseteq s.entries[w].needs
        /\ s.entries[w].kind = asked.kind
    BY <1>7, <1>11, <2>4
  <2>9. w \in S BY <1>2, <1>11
  <2> QED BY <1>11, <2>2, <2>5, <2>6, <2>7, <2>8, <2>9 DEF s, T
<1> QED BY <1>8, <1>9, <1>10, <1>11

(* What is left of the order when it is rebuilt. *)

AreStanding(f, n, r, ids) ==
  f = [i \in 0..n |-> IF i = 0 THEN <<>>
                      ELSE IF LastRegistered(r, ids, i) THEN Append(f[i - 1], r.order[i]) ELSE f[i - 1]]

LEMMA StandingExists ==
  ASSUME NEW r, NEW ids
  PROVE  \A n \in Nat : \E f : AreStanding(f, n, r, ids)
<1> DEFINE T == {n \in Nat : \E f : AreStanding(f, n, r, ids)}
<1>1. 0 \in T
  <2> DEFINE f == [i \in 0..0 |-> <<>>]
  <2>1. f = [i \in 0..0 |-> IF i = 0 THEN <<>>
                      ELSE IF LastRegistered(r, ids, i) THEN Append(f[i - 1], r.order[i]) ELSE f[i - 1]]
    OBVIOUS
  <2>2. AreStanding(f, 0, r, ids) BY <2>1 DEF AreStanding
  <2> QED BY <2>2
<1>2. ASSUME NEW n \in Nat, n \in T PROVE n + 1 \in T
  <2>1. PICK f : AreStanding(f, n, r, ids) BY <1>2
  <2> DEFINE last == IF LastRegistered(r, ids, n + 1) THEN Append(f[n], r.order[n + 1]) ELSE f[n]
             g == [i \in 0..(n + 1) |-> IF i = n + 1 THEN last ELSE f[i]]
             Right(i) == IF i = 0 THEN <<>>
                      ELSE IF LastRegistered(r, ids, i) THEN Append(g[i - 1], r.order[i]) ELSE g[i - 1]
  <2>2. ASSUME NEW i \in 0..(n + 1) PROVE g[i] = Right(i)
    <3>1. CASE i = n + 1
      <4>1. i # 0 /\ i - 1 = n /\ g[i] = last /\ g[n] = f[n] BY <3>1
      <4> HIDE DEF g
      <4> QED BY <3>1, <4>1
    <3>2. CASE i # n + 1
      <4>1. i \in 0..n /\ g[i] = f[i] /\ (i # 0 => g[i - 1] = f[i - 1]) BY <3>2
      <4>2. f[i] = IF i = 0 THEN <<>>
                   ELSE IF LastRegistered(r, ids, i) THEN Append(f[i - 1], r.order[i]) ELSE f[i - 1]
        BY <2>1, <4>1 DEF AreStanding
      <4> HIDE DEF g
      <4> QED BY <4>1, <4>2
    <3> QED BY <3>1, <3>2
  <2>3. g = [i \in 0..(n + 1) |-> g[i]] OBVIOUS
  <2>4. g = [i \in 0..(n + 1) |-> Right(i)]
    <3> HIDE DEF Right, g
    <3> QED BY <2>2, <2>3
  <2>5. AreStanding(g, n + 1, r, ids)
    <3> HIDE DEF g
    <3> QED BY <2>4 DEF AreStanding
  <2> HIDE DEF g
  <2> QED BY <2>5
<1> HIDE DEF T
<1>3. \A n \in Nat : n \in T BY <1>1, <1>2, NaturalInduction
<1> QED BY <1>3 DEF T

\* It holds ids that are known, and each id known that it had.
LEMMA StandingFacts ==
  ASSUME NEW r, NEW S, RegOK(r, S), NEW ids
  PROVE  LET q == Standing(r, ids) IN
         /\ q \in Seq(S)
         /\ Known(r) \cap ids \subseteq {q[i] : i \in DOMAIN q}
<1> DEFINE q == r.order
           N == Len(q)
<1>1. q \in Seq(S) /\ Known(r) \subseteq {q[i] : i \in DOMAIN q} BY DEF RegOK
<1>2. N \in Nat /\ DOMAIN q = 1..N /\ \A i \in 1..N : q[i] \in S BY <1>1
<1>3. \E f : AreStanding(f, N, r, ids) BY <1>2, StandingExists
<1> DEFINE h == CHOOSE f : AreStanding(f, N, r, ids)
<1>4. Standing(r, ids) = h[N] BY DEF Standing, AreStanding
<1>5. AreStanding(h, N, r, ids) BY <1>3
<1> HIDE DEF h, N
<1>6. /\ h[0] = <<>>
      /\ \A i \in 1..N : h[i] = IF LastRegistered(r, ids, i) THEN Append(h[i - 1], q[i]) ELSE h[i - 1]
  <2>1. h = [i \in 0..N |-> IF i = 0 THEN <<>>
                      ELSE IF LastRegistered(r, ids, i) THEN Append(h[i - 1], r.order[i]) ELSE h[i - 1]]
    BY <1>5 DEF AreStanding
  <2>2. 0 \in 0..N /\ \A i \in 1..N : i \in 0..N /\ i # 0 BY <1>2
  <2>3. h[0] = <<>> BY <2>1, <2>2
  <2>4. \A i \in 1..N : h[i] = IF LastRegistered(r, ids, i) THEN Append(h[i - 1], q[i]) ELSE h[i - 1]
    BY <2>1, <2>2
  <2> QED BY <2>3, <2>4
<1> DEFINE Holds(n) == /\ h[n] \in Seq(S)
                       /\ \A i \in 1..n : LastRegistered(r, ids, i) => \E k \in DOMAIN h[n] : h[n][k] = q[i]
           T == {n \in Nat : n <= N => Holds(n)}
<1>7. 0 \in T
  <2>1. h[0] \in Seq(S) BY <1>6
  <2>2. \A i \in 1..0 : FALSE OBVIOUS
  <2> QED BY <2>1, <2>2
<1>8. ASSUME NEW n \in Nat, n \in T PROVE n + 1 \in T
  <2> SUFFICES ASSUME n + 1 <= N PROVE Holds(n + 1) OBVIOUS
  <2>1. Holds(n) BY <1>2, <1>8
  <2>2. n + 1 \in 1..N /\ (n + 1) - 1 = n BY <1>2
  <2>3. h[n + 1] = IF LastRegistered(r, ids, n + 1) THEN Append(h[n], q[n + 1]) ELSE h[n]
    BY <1>6, <2>2
  <2>4. q[n + 1] \in S BY <1>2, <2>2
  <2>5. h[n] \in Seq(S) /\ Len(h[n]) \in Nat /\ DOMAIN h[n] = 1..Len(h[n]) BY <2>1
  <2>6. CASE LastRegistered(r, ids, n + 1)
    <3>1. h[n + 1] = Append(h[n], q[n + 1]) BY <2>3, <2>6
    <3>2. /\ h[n + 1] \in Seq(S) /\ DOMAIN h[n + 1] = 1..(Len(h[n]) + 1)
          /\ \A k \in 1..Len(h[n]) : h[n + 1][k] = h[n][k]
          /\ h[n + 1][Len(h[n]) + 1] = q[n + 1]
      BY <2>4, <2>5, <3>1
    <3>3. ASSUME NEW i \in 1..(n + 1), LastRegistered(r, ids, i)
          PROVE  \E k \in DOMAIN h[n + 1] : h[n + 1][k] = q[i]
      <4>1. CASE i = n + 1
        <5>1. Len(h[n]) + 1 \in DOMAIN h[n + 1] BY <2>5, <3>2
        <5> QED BY <3>2, <4>1, <5>1
      <4>2. CASE i # n + 1
        <5>1. i \in 1..n BY <4>2
        <5>2. PICK k \in DOMAIN h[n] : h[n][k] = q[i] BY <2>1, <3>3, <5>1
        <5>3. k \in DOMAIN h[n + 1] /\ h[n + 1][k] = h[n][k] BY <2>5, <3>2, <5>2
        <5> QED BY <5>2, <5>3
      <4> QED BY <4>1, <4>2
    <3> QED BY <3>2, <3>3
  <2>7. CASE ~LastRegistered(r, ids, n + 1)
    <3>1. h[n + 1] = h[n] BY <2>3, <2>7
    <3>2. \A i \in 1..(n + 1) : LastRegistered(r, ids, i) => i \in 1..n BY <2>7
    <3> QED BY <2>1, <3>1, <3>2
  <2> QED BY <2>6, <2>7
<1>9. \A n \in Nat : n \in T
  <2> HIDE DEF T
  <2> QED BY <1>7, <1>8, NaturalInduction
<1>10. Holds(N) BY <1>2, <1>9
<1>11. ASSUME NEW v \in Known(r) \cap ids PROVE \E k \in DOMAIN h[N] : h[N][k] = v
  <2> DEFINE Indices == {i \in 1..N : q[i] = v}
  <2>1. Indices \in SUBSET (1..N) /\ Indices # {} BY <1>1, <1>2
  <2>2. PICK m \in Indices : \A k \in Indices : k <= m
    <3> HIDE DEF Indices
    <3> QED BY <1>2, <2>1, GreatestIndex
  <2>3. m \in 1..N /\ q[m] = v OBVIOUS
  <2>4. \A j \in (m + 1)..Len(q) : q[j] # q[m]
    <3>1. \A j \in (m + 1)..N : j \in 1..N /\ ~(j <= m) BY <1>2, <2>3
    <3>2. \A j \in (m + 1)..N : q[j] # v BY <2>2, <3>1
    <3> QED BY <2>3, <3>2 DEF N
  <2>5. LastRegistered(r, ids, m) BY <2>3, <2>4 DEF LastRegistered
  <2> QED BY <1>10, <2>3, <2>5
<1> QED BY <1>4, <1>10, <1>11

LEMMA TrimFacts ==
  ASSUME NEW r, NEW S \in SUBSET Widgets, RegOK(r, S), registry_capacity \in Nat \ {0}
  PROVE  LET s == TrimOrder(r) IN
         RegOK(s, S) /\ s.entries = r.entries /\ s.refused = r.refused /\ s.saturated = r.saturated
<1> DEFINE s == TrimOrder(r)
           calls == Standing(r, CallbackIds)
           tasks == Standing(r, TaskIds)
<1>1. s = IF Len(r.order) <= 2 * registry_capacity THEN r
          ELSE [r EXCEPT !.order = calls \o tasks]
  BY DEF TrimOrder
<1>2. /\ calls \in Seq(S) /\ Known(r) \cap CallbackIds \subseteq {calls[i] : i \in DOMAIN calls}
      /\ tasks \in Seq(S) /\ Known(r) \cap TaskIds \subseteq {tasks[i] : i \in DOMAIN tasks}
  BY StandingFacts
<1> HIDE DEF s, calls, tasks
<1>3. CASE Len(r.order) <= 2 * registry_capacity
  <2>1. s = r BY <1>1, <1>3
  <2> QED BY <2>1 DEF s
<1>4. CASE ~(Len(r.order) <= 2 * registry_capacity)
  <2> DEFINE q == calls \o tasks
  <2>1. s = [r EXCEPT !.order = q] BY <1>1, <1>4
  <2>2. /\ q \in Seq(S) /\ Len(q) = Len(calls) + Len(tasks)
        /\ \A i \in 1..Len(calls) : q[i] = calls[i]
        /\ \A i \in 1..Len(tasks) : q[Len(calls) + i] = tasks[i]
        /\ Len(calls) \in Nat /\ Len(tasks) \in Nat
        /\ DOMAIN calls = 1..Len(calls) /\ DOMAIN tasks = 1..Len(tasks) /\ DOMAIN q = 1..Len(q)
    BY <1>2
  <2> HIDE DEF q
  <2>3. /\ IsRegistry(r) /\ r.order \in Seq(S)
        /\ Known(r) \subseteq {r.order[i] : i \in DOMAIN r.order}
    BY DEF RegOK
  <2>4. Known(r) \subseteq CallbackIds \cup TaskIds
    <3>1. \A i \in DOMAIN r.order : r.order[i] \in S BY <2>3
    <3> QED BY <2>3, <3>1 DEF Widgets
  <2>5. Known(r) \subseteq {q[i] : i \in DOMAIN q}
    <3> SUFFICES ASSUME NEW v \in Known(r) PROVE \E i \in DOMAIN q : q[i] = v OBVIOUS
    <3>1. CASE v \in CallbackIds
      <4>1. PICK i \in DOMAIN calls : calls[i] = v BY <1>2, <3>1
      <4>2. i \in DOMAIN q BY <2>2, <4>1
      <4> QED BY <2>2, <4>1, <4>2
    <3>2. CASE v \in TaskIds
      <4>1. PICK i \in DOMAIN tasks : tasks[i] = v BY <1>2, <3>2
      <4>2. Len(calls) + i \in DOMAIN q BY <2>2, <4>1
      <4> QED BY <2>2, <4>1, <4>2
    <3> QED BY <2>4, <3>1, <3>2
  <2>6. /\ s.entries = r.entries /\ s.order = q /\ s.refused = r.refused
        /\ s.saturated = r.saturated /\ IsRegistry(s)
    BY <2>1, <2>3 DEF IsRegistry
  <2>7. Known(s) = Known(r) BY <2>6 DEF Known
  <2>8. RegOK(s, S) BY <2>2, <2>5, <2>6, <2>7 DEF RegOK
  <2> QED BY <2>6, <2>8 DEF s
<1> QED BY <1>3, <1>4

\* The id an option has had, if it gets another.
Former(name, w) == IF name \in DOMAIN pin_callbacks THEN {pin_callbacks[name]} \ {w} ELSE {}

LEMMA ReleaseFacts ==
  ASSUME NEW r, NEW S \in SUBSET Widgets, RegOK(r, S), registry_capacity \in Nat \ {0},
         NEW name, NEW w
  PROVE  LET s == ReleaseSuperseded(r, name, w) IN
         /\ RegOK(s, S) /\ Known(s) = Known(r) \ Former(name, w)
         /\ s.refused = r.refused /\ s.saturated = r.saturated
         /\ \A v \in Known(s) : s.entries[v] = r.entries[v]
<1> DEFINE x == [r EXCEPT !.entries = Without(@, Former(name, w))]
           s == ReleaseSuperseded(r, name, w)
<1>1. s = TrimOrder(x) BY DEF ReleaseSuperseded, Former
<1>2. /\ RegOK(x, S) /\ Known(x) = Known(r) \ Former(name, w)
      /\ x.order = r.order /\ x.refused = r.refused /\ x.saturated = r.saturated
      /\ \A v \in Known(x) : x.entries[v] = r.entries[v]
  BY EntryTaken
<1> HIDE DEF x, s
<1>3. RegOK(s, S) /\ s.entries = x.entries /\ s.refused = x.refused /\ s.saturated = x.saturated
  BY <1>1, <1>2, TrimFacts
<1>4. Known(s) = Known(x) BY <1>3 DEF Known
<1> QED BY <1>2, <1>3, <1>4 DEF s

(* A message of one or two advertisements, one after the other. *)

RefuseOf(r, a) == IF Withheld(a) THEN Refuse(r, a.id) ELSE r
AllowOf(r, a) == IF a.shown THEN Allow(r, a.id, a.asked) ELSE r

LEMMA RefusedSteps ==
  ASSUME NEW r, NEW ads, NEW n \in {1, 2}, Len(ads) = n
  PROVE  RefuseWithheld(r, ads) =
           IF n = 1 THEN RefuseOf(r, ads[1]) ELSE RefuseOf(RefuseOf(r, ads[1]), ads[2])
<1> DEFINE one == RefuseOf(r, ads[1])
           two == RefuseOf(one, ads[2])
           Are(f) == f = [i \in 0..Len(ads) |-> IF i = 0 THEN r
                       ELSE IF Withheld(ads[i]) THEN Refuse(f[i - 1], ads[i].id) ELSE f[i - 1]]
           h == CHOOSE f : Are(f)
           w == [i \in 0..n |-> IF i = 0 THEN r ELSE IF i = 1 THEN one ELSE two]
<1>1. RefuseWithheld(r, ads) = h[n] BY DEF RefuseWithheld
<1>2. Are(w)
  <2> DEFINE Right(i) == IF i = 0 THEN r
                         ELSE IF Withheld(ads[i]) THEN Refuse(w[i - 1], ads[i].id) ELSE w[i - 1]
  <2>1. ASSUME NEW i \in 0..n PROVE w[i] = Right(i)
    <3>1. CASE i = 0
      <4>1. w[i] = r BY <3>1
      <4> HIDE DEF w
      <4> QED BY <3>1, <4>1
    <3>2. CASE i = 1
      <4>1. w[i] = one /\ i - 1 = 0 /\ w[0] = r BY <3>2
      <4> HIDE DEF w
      <4> QED BY <3>2, <4>1 DEF RefuseOf
    <3>3. CASE i = 2
      <4>1. w[i] = two /\ i - 1 = 1 /\ w[1] = one BY <3>3
      <4> HIDE DEF w, one
      <4> QED BY <3>3, <4>1 DEF RefuseOf
    <3> QED BY <3>1, <3>2, <3>3
  <2>2. w = [i \in 0..n |-> w[i]] OBVIOUS
  <2>3. w = [i \in 0..n |-> Right(i)]
    <3> HIDE DEF Right, w
    <3> QED BY <2>1, <2>2
  <2> HIDE DEF w
  <2> QED BY <2>3
<1>3. Are(h)
  <2> HIDE DEF Are, w
  <2> QED BY <1>2
<1> HIDE DEF h
<1>4. h[0] = r /\ h[1] = one /\ (n = 2 => h[2] = two)
  <2>1. \A i \in 0..n : h[i] = IF i = 0 THEN r
                               ELSE IF Withheld(ads[i]) THEN Refuse(h[i - 1], ads[i].id) ELSE h[i - 1]
    BY <1>3
  <2>2. h[0] = r BY <2>1
  <2>3. h[1] = one
    <3>1. 1 \in 0..n /\ 1 - 1 = 0 OBVIOUS
    <3> QED BY <2>1, <2>2, <3>1 DEF RefuseOf
  <2>4. ASSUME n = 2 PROVE h[2] = two
    <3>1. 2 \in 0..n /\ 2 - 1 = 1 BY <2>4
    <3> HIDE DEF one
    <3> QED BY <2>1, <2>3, <3>1 DEF RefuseOf
  <2> QED BY <2>2, <2>3, <2>4
<1> QED BY <1>1, <1>4

LEMMA AllowedSteps ==
  ASSUME NEW r, NEW ads, NEW n \in {1, 2}, Len(ads) = n
  PROVE  AllowShown(r, ads) =
           IF n = 1 THEN AllowOf(r, ads[1]) ELSE AllowOf(AllowOf(r, ads[1]), ads[2])
<1> DEFINE one == AllowOf(r, ads[1])
           two == AllowOf(one, ads[2])
           Are(f) == f = [i \in 0..Len(ads) |-> IF i = 0 THEN r
                       ELSE IF ads[i].shown THEN Allow(f[i - 1], ads[i].id, ads[i].asked) ELSE f[i - 1]]
           h == CHOOSE f : Are(f)
           w == [i \in 0..n |-> IF i = 0 THEN r ELSE IF i = 1 THEN one ELSE two]
<1>1. AllowShown(r, ads) = h[n] BY DEF AllowShown
<1>2. Are(w)
  <2> DEFINE Right(i) == IF i = 0 THEN r
                         ELSE IF ads[i].shown THEN Allow(w[i - 1], ads[i].id, ads[i].asked) ELSE w[i - 1]
  <2>1. ASSUME NEW i \in 0..n PROVE w[i] = Right(i)
    <3>1. CASE i = 0
      <4>1. w[i] = r BY <3>1
      <4> HIDE DEF w
      <4> QED BY <3>1, <4>1
    <3>2. CASE i = 1
      <4>1. w[i] = one /\ i - 1 = 0 /\ w[0] = r BY <3>2
      <4> HIDE DEF w
      <4> QED BY <3>2, <4>1 DEF AllowOf
    <3>3. CASE i = 2
      <4>1. w[i] = two /\ i - 1 = 1 /\ w[1] = one BY <3>3
      <4> HIDE DEF w, one
      <4> QED BY <3>3, <4>1 DEF AllowOf
    <3> QED BY <3>1, <3>2, <3>3
  <2>2. w = [i \in 0..n |-> w[i]] OBVIOUS
  <2>3. w = [i \in 0..n |-> Right(i)]
    <3> HIDE DEF Right, w
    <3> QED BY <2>1, <2>2
  <2> HIDE DEF w
  <2> QED BY <2>3
<1>3. Are(h)
  <2> HIDE DEF Are, w
  <2> QED BY <1>2
<1> HIDE DEF h
<1>4. h[0] = r /\ h[1] = one /\ (n = 2 => h[2] = two)
  <2>1. \A i \in 0..n : h[i] = IF i = 0 THEN r
                               ELSE IF ads[i].shown THEN Allow(h[i - 1], ads[i].id, ads[i].asked) ELSE h[i - 1]
    BY <1>3
  <2>2. h[0] = r BY <2>1
  <2>3. h[1] = one
    <3>1. 1 \in 0..n /\ 1 - 1 = 0 OBVIOUS
    <3> QED BY <2>1, <2>2, <3>1 DEF AllowOf
  <2>4. ASSUME n = 2 PROVE h[2] = two
    <3>1. 2 \in 0..n /\ 2 - 1 = 1 BY <2>4
    <3> HIDE DEF one
    <3> QED BY <2>1, <2>3, <3>1 DEF AllowOf
  <2> QED BY <2>2, <2>3, <2>4
<1> QED BY <1>1, <1>4

LEMMA ObservedOne ==
  ASSUME NEW r, NEW a
  PROVE  Observed(r, <<a>>) = AllowOf(RefuseOf(r, a), a)
<1>1. Len(<<a>>) = 1 /\ <<a>>[1] = a OBVIOUS
<1>2. RefuseWithheld(r, <<a>>) = RefuseOf(r, a) BY <1>1, RefusedSteps
<1>3. AllowShown(RefuseOf(r, a), <<a>>) = AllowOf(RefuseOf(r, a), a) BY <1>1, AllowedSteps
<1> QED BY <1>2, <1>3 DEF Observed

LEMMA ObservedTwo ==
  ASSUME NEW r, NEW a, NEW b
  PROVE  Observed(r, <<a, b>>) = AllowOf(AllowOf(RefuseOf(RefuseOf(r, a), b), a), b)
<1> DEFINE ads == <<a, b>>
           x == RefuseOf(RefuseOf(r, a), b)
<1>1. Len(ads) = 2 /\ ads[1] = a /\ ads[2] = b OBVIOUS
<1> HIDE DEF ads
<1>2. RefuseWithheld(r, ads) = x
  <2>1. RefuseWithheld(r, ads) =
          IF 2 = 1 THEN RefuseOf(r, ads[1]) ELSE RefuseOf(RefuseOf(r, ads[1]), ads[2])
    BY <1>1, RefusedSteps
  <2> QED BY <1>1, <2>1
<1>3. AllowShown(x, ads) = AllowOf(AllowOf(x, a), b)
  <2> HIDE DEF x
  <2>1. AllowShown(x, ads) =
          IF 2 = 1 THEN AllowOf(x, ads[1]) ELSE AllowOf(AllowOf(x, ads[1]), ads[2])
    BY <1>1, AllowedSteps
  <2> QED BY <1>1, <2>1
<1> QED BY <1>2, <1>3 DEF Observed, ads

(* What a message of ALAS does to the registry. *)

IdsOf(A) == {a.id : a \in A}

Sane(r) == \A w \in Known(r) : /\ "restricted" \notin r.entries[w].needs
                               /\ w \in CallbackIds => r.entries[w].kind = "callback"

IsAd(a) == /\ a.shown \in BOOLEAN /\ "hidden" \notin a.asked.needs
           /\ a.id \in CallbackIds => a.asked.kind = "callback"

\* What became of one advertisement.
Outcome(r, s, a) ==
  /\ a.id \in Known(s) => Harmless(a) /\ a.asked.needs \subseteq s.entries[a.id].needs
  /\ ~Harmless(a) => Barred(s, a.id)
  /\ Harmless(a) /\ a.id \in CallbackIds /\ a.id \in s.refused => a.id \in r.refused

\* From r to s the advertisements A were registered, and nothing else.
Message(r, s, A, S) ==
  /\ RegOK(s, S \cup IdsOf(A)) /\ Sane(s)
  /\ Known(s) \subseteq Known(r) \cup IdsOf(A)
  /\ \A v \in Known(s) \ IdsOf(A) : s.entries[v] = r.entries[v]
  /\ r.refused \subseteq s.refused /\ s.refused \subseteq r.refused \cup IdsOf(A)
  /\ r.saturated => s.saturated
  /\ \A a \in A : Outcome(r, s, a)

LEMMA AroundMessage ==
  ASSUME NEW r, NEW s, NEW a, NEW S, Sane(r), RegOK(s, S \cup {a.id}), Around(r, s, a.id),
         a.id \in Known(s) => /\ "restricted" \notin s.entries[a.id].needs
                              /\ a.id \in CallbackIds => s.entries[a.id].kind = "callback",
         Outcome(r, s, a)
  PROVE  Message(r, s, {a}, S)
<1>1. IdsOf({a}) = {a.id} BY DEF IdsOf
<1>2. Sane(s) BY DEF Sane, Around
<1> QED BY <1>1, <1>2 DEF Message, Around

LEMMA RefuseMessage ==
  ASSUME NEW r, NEW S, RegOK(r, S), Sane(r), registry_capacity \in Nat \ {0}, NEW a, ~Harmless(a)
  PROVE  /\ Message(r, Refuse(r, a.id), {a}, S)
         /\ Known(Refuse(r, a.id)) = Known(r) \ {a.id}
<1> DEFINE T == S \cup {a.id}
           s == Refuse(r, a.id)
<1>1. RegOK(r, T) BY MoreIds
<1>2. a.id \in T OBVIOUS
<1>3. /\ RegOK(s, T) /\ Around(r, s, a.id) /\ Barred(s, a.id) /\ Known(s) = Known(r) \ {a.id}
  <2> HIDE DEF T
  <2> QED BY <1>1, <1>2, RefuseFacts
<1> HIDE DEF s
<1>4. a.id \notin Known(s) BY <1>3
<1>5. Outcome(r, s, a) BY <1>3, <1>4 DEF Outcome
<1>6. Message(r, s, {a}, S) BY <1>3, <1>4, <1>5, AroundMessage
<1> QED BY <1>3, <1>6 DEF s

LEMMA AllowMessage ==
  ASSUME NEW r, NEW S, RegOK(r, S), Sane(r), registry_capacity \in Nat \ {0}, NEW a, IsAd(a), a.shown
  PROVE  LET s == Allow(r, a.id, a.asked) IN
         /\ Message(r, s, {a}, S)
         /\ Harmless(a) /\ a.id \notin S => a.id \in Known(s) /\ OnlyLast(s, a.id)
         /\ \A v \in Known(r) : OnlyLast(r, v) /\ registry_capacity > 1 /\ v # a.id => v \in Known(s)
<1> DEFINE s == Allow(r, a.id, a.asked)
           w == a.id
           asked == a.asked
<1>1. /\ RegOK(s, S \cup {w}) /\ Around(r, s, w)
      /\ "restricted" \in asked.needs => Barred(s, w)
      /\ w \in Known(s) => /\ "restricted" \notin s.entries[w].needs
                           /\ asked.needs \subseteq s.entries[w].needs
                           /\ s.entries[w].kind = asked.kind
      /\ /\ w \notin r.refused /\ "restricted" \notin asked.needs
         /\ w \in Known(r) => /\ r.entries[w].kind = asked.kind
                              /\ "restricted" \notin r.entries[w].needs
         => s.refused = r.refused
      /\ w \notin S /\ "restricted" \notin asked.needs => w \in Known(s) /\ OnlyLast(s, w)
      /\ \A v \in Known(r) : OnlyLast(r, v) /\ registry_capacity > 1 /\ v # w => v \in Known(s)
  BY AllowFacts
<1> HIDE DEF s
<1>2. Harmless(a) <=> "restricted" \notin asked.needs BY DEF Harmless
<1>3. w \in CallbackIds => asked.kind = "callback" BY DEF IsAd
<1>4. Outcome(r, s, a)
  <2>1. ASSUME Harmless(a), w \in CallbackIds, w \in s.refused, w \notin r.refused PROVE FALSE
    <3>1. w \in Known(r) => r.entries[w].kind = asked.kind /\ "restricted" \notin r.entries[w].needs
      BY <1>3, <2>1 DEF Sane
    <3>2. s.refused = r.refused BY <1>1, <1>2, <2>1, <3>1
    <3> QED BY <2>1, <3>2
  <2>2. w \in Known(s) => Harmless(a) /\ asked.needs \subseteq s.entries[w].needs
    BY <1>1, <1>2 DEF Barred
  <2>3. ~Harmless(a) => Barred(s, w) BY <1>1, <1>2
  <2> QED BY <2>1, <2>2, <2>3 DEF Outcome
<1>5. Message(r, s, {a}, S) BY <1>1, <1>3, <1>4, AroundMessage
<1> QED BY <1>1, <1>2, <1>5 DEF s

LEMMA Compose ==
  ASSUME NEW r, NEW m, NEW s, NEW A, NEW B, NEW S,
         Message(r, m, A, S), Message(m, s, B, S \cup IdsOf(A)), IdsOf(A) \cap IdsOf(B) = {}
  PROVE  Message(r, s, A \cup B, S)
<1>1. IdsOf(A \cup B) = IdsOf(A) \cup IdsOf(B) BY DEF IdsOf
<1>2. \A a \in A : a.id \in IdsOf(A) BY DEF IdsOf
<1>3. \A b \in B : b.id \in IdsOf(B) BY DEF IdsOf
<1>4. RegOK(s, S \cup IdsOf(A \cup B))
  <2>1. S \cup IdsOf(A \cup B) = (S \cup IdsOf(A)) \cup IdsOf(B) BY <1>1
  <2> QED BY <2>1 DEF Message
<1>5. /\ Known(m) \subseteq Known(r) \cup IdsOf(A) /\ Known(s) \subseteq Known(m) \cup IdsOf(B)
      /\ \A v \in Known(m) \ IdsOf(A) : m.entries[v] = r.entries[v]
      /\ \A v \in Known(s) \ IdsOf(B) : s.entries[v] = m.entries[v]
      /\ r.refused \subseteq m.refused /\ m.refused \subseteq r.refused \cup IdsOf(A)
      /\ m.refused \subseteq s.refused /\ s.refused \subseteq m.refused \cup IdsOf(B)
      /\ (r.saturated => m.saturated) /\ (m.saturated => s.saturated)
      /\ (\A a \in A : Outcome(r, m, a)) /\ (\A b \in B : Outcome(m, s, b)) /\ Sane(s)
  BY DEF Message
<1>6. Known(s) \subseteq Known(r) \cup IdsOf(A \cup B) BY <1>1, <1>5
<1>7. \A v \in Known(s) \ IdsOf(A \cup B) : s.entries[v] = r.entries[v]
  <2> SUFFICES ASSUME NEW v \in Known(s) \ IdsOf(A \cup B) PROVE s.entries[v] = r.entries[v] OBVIOUS
  <2>1. v \in Known(s) \ IdsOf(B) /\ v \notin IdsOf(A) BY <1>1
  <2>2. v \in Known(m) \ IdsOf(A) BY <1>5, <2>1
  <2> QED BY <1>5, <2>1, <2>2
<1>8. r.refused \subseteq s.refused /\ s.refused \subseteq r.refused \cup IdsOf(A \cup B) BY <1>1, <1>5
<1>9. ASSUME NEW a \in A PROVE Outcome(r, s, a)
  <2>1. a.id \notin IdsOf(B) BY <1>2
  <2>2. /\ a.id \in Known(m) => Harmless(a) /\ a.asked.needs \subseteq m.entries[a.id].needs
        /\ ~Harmless(a) => Barred(m, a.id)
        /\ Harmless(a) /\ a.id \in CallbackIds /\ a.id \in m.refused => a.id \in r.refused
    BY <1>5 DEF Outcome
  <2>3. ASSUME a.id \in Known(s)
        PROVE  Harmless(a) /\ a.asked.needs \subseteq s.entries[a.id].needs
    <3>1. a.id \in Known(m) /\ s.entries[a.id] = m.entries[a.id] BY <1>5, <2>1, <2>3
    <3> QED BY <2>2, <3>1
  <2>4. ASSUME ~Harmless(a) PROVE Barred(s, a.id)
    <3>1. Barred(m, a.id) BY <2>2, <2>4
    <3> QED BY <1>5, <2>1, <3>1 DEF Barred
  <2>5. Harmless(a) /\ a.id \in CallbackIds /\ a.id \in s.refused => a.id \in r.refused
    BY <1>5, <2>1, <2>2
  <2> QED BY <2>3, <2>4, <2>5 DEF Outcome
<1>10. ASSUME NEW b \in B PROVE Outcome(r, s, b)
  <2>1. b.id \notin IdsOf(A) BY <1>3
  <2>2. Outcome(m, s, b) BY <1>5
  <2>3. b.id \in m.refused => b.id \in r.refused BY <1>5, <2>1
  <2> QED BY <2>2, <2>3 DEF Outcome
<1> QED BY <1>4, <1>5, <1>6, <1>7, <1>8, <1>9, <1>10 DEF Message

LEMMA OneMessage ==
  ASSUME NEW r, NEW S, RegOK(r, S), Sane(r), registry_capacity \in Nat \ {0}, NEW a, IsAd(a)
  PROVE  LET s == Observed(r, <<a>>) IN
         Message(r, s, {a}, S) /\ (Harmless(a) /\ a.id \notin S => a.id \in Known(s))
<1> DEFINE s == Observed(r, <<a>>)
<1>1. s = AllowOf(RefuseOf(r, a), a) BY ObservedOne
<1> HIDE DEF s
<1>2. CASE ~a.shown
  <2>1. Withheld(a) /\ ~Harmless(a) BY <1>2 DEF Withheld, Harmless
  <2>2. s = Refuse(r, a.id) BY <1>1, <1>2, <2>1 DEF AllowOf, RefuseOf
  <2> QED BY <2>1, <2>2, RefuseMessage DEF s
<1>3. CASE a.shown /\ ~Withheld(a)
  <2>1. s = Allow(r, a.id, a.asked) BY <1>1, <1>3 DEF AllowOf, RefuseOf
  <2> QED BY <1>3, <2>1, AllowMessage DEF s
<1>4. CASE a.shown /\ Withheld(a)
  <2> DEFINE m == Refuse(r, a.id)
  <2>1. ~Harmless(a) BY <1>4 DEF Withheld, Harmless
  <2>2. s = Allow(m, a.id, a.asked) BY <1>1, <1>4 DEF AllowOf, RefuseOf
  <2>3. Message(r, m, {a}, S) BY <2>1, RefuseMessage
  <2> HIDE DEF m
  <2>4. /\ IdsOf({a}) = {a.id} BY DEF IdsOf
  <2>5. RegOK(m, S \cup {a.id}) /\ Sane(m) BY <2>3, <2>4 DEF Message
  <2>6. Message(m, s, {a}, S \cup {a.id}) BY <1>4, <2>2, <2>5, AllowMessage
  <2>7. RegOK(s, S \cup {a.id})
    <3>1. (S \cup {a.id}) \cup {a.id} = S \cup {a.id} OBVIOUS
    <3> QED BY <2>4, <2>6, <3>1 DEF Message
  <2>8. /\ Known(m) \subseteq Known(r) \cup {a.id} /\ Known(s) \subseteq Known(m) \cup {a.id}
        /\ \A v \in Known(m) \ {a.id} : m.entries[v] = r.entries[v]
        /\ \A v \in Known(s) \ {a.id} : s.entries[v] = m.entries[v]
        /\ r.refused \subseteq m.refused /\ m.refused \subseteq r.refused \cup {a.id}
        /\ m.refused \subseteq s.refused /\ s.refused \subseteq m.refused \cup {a.id}
        /\ (r.saturated => m.saturated) /\ (m.saturated => s.saturated) /\ Sane(s)
        /\ Outcome(m, s, a)
    BY <2>3, <2>4, <2>6 DEF Message
  <2>9. Around(r, s, a.id) BY <2>8 DEF Around
  <2>10. Outcome(r, s, a) BY <2>1, <2>8 DEF Outcome
  <2>11. Message(r, s, {a}, S) BY <2>7, <2>8, <2>9, <2>10, AroundMessage DEF Sane
  <2> QED BY <2>1, <2>11 DEF s
<1> QED BY <1>2, <1>3, <1>4 DEF IsAd

LEMMA TwoMessage ==
  ASSUME NEW r, NEW S, RegOK(r, S), Sane(r), registry_capacity \in Nat, registry_capacity > 1,
         NEW a, IsAd(a), NEW b, IsAd(b), a.id # b.id, a.asked.needs = {}, b.asked.needs = {}
  PROVE  LET s == Observed(r, <<a, b>>) IN
         /\ Message(r, s, {a, b}, S)
         /\ \A x \in {a, b} : Harmless(x) /\ x.id \notin S => x.id \in Known(s)
<1> DEFINE s == Observed(r, <<a, b>>)
<1>1. s = AllowOf(AllowOf(RefuseOf(RefuseOf(r, a), b), a), b) BY ObservedTwo
<1> HIDE DEF s
<1>2. /\ Harmless(a) <=> a.shown
      /\ Harmless(b) <=> b.shown
      /\ Withheld(a) <=> ~a.shown
      /\ Withheld(b) <=> ~b.shown
  BY DEF Harmless, Withheld
<1>3. a.shown \in BOOLEAN /\ b.shown \in BOOLEAN /\ registry_capacity \in Nat \ {0} BY DEF IsAd
<1>4. /\ IdsOf({a}) = {a.id} /\ IdsOf({b}) = {b.id} /\ {a} \cup {b} = {a, b} /\ {b} \cup {a} = {a, b}
      /\ {a.id} \cap {b.id} = {}
  BY DEF IdsOf
<1>5. ASSUME NEW m, NEW x \in {a, b}, Message(r, m, {x}, S)
      PROVE  RegOK(m, S \cup {x.id}) /\ Sane(m)
  <2>1. IdsOf({x}) = {x.id} BY DEF IdsOf
  <2> QED BY <1>5, <2>1 DEF Message
<1>6. CASE a.shown /\ b.shown
  <2> DEFINE m == Allow(r, a.id, a.asked)
  <2>1. s = Allow(m, b.id, b.asked) BY <1>1, <1>2, <1>6 DEF AllowOf, RefuseOf
  <2>2. Message(r, m, {a}, S) /\ (a.id \notin S => a.id \in Known(m) /\ OnlyLast(m, a.id))
    BY <1>2, <1>3, <1>6, AllowMessage
  <2> HIDE DEF m
  <2>3. RegOK(m, S \cup {a.id}) /\ Sane(m) BY <1>5, <2>2
  <2>4. /\ Message(m, s, {b}, S \cup {a.id})
        /\ b.id \notin S \cup {a.id} => b.id \in Known(s)
        /\ \A v \in Known(m) : OnlyLast(m, v) /\ registry_capacity > 1 /\ v # b.id => v \in Known(s)
    BY <1>2, <1>3, <1>6, <2>1, <2>3, AllowMessage
  <2>5. Message(r, s, {a, b}, S) BY <1>4, <2>2, <2>4, Compose
  <2> QED BY <2>2, <2>4, <2>5 DEF s
<1>7. CASE a.shown /\ ~b.shown
  <2> DEFINE m == Refuse(r, b.id)
  <2>1. s = Allow(m, a.id, a.asked) BY <1>1, <1>2, <1>7 DEF AllowOf, RefuseOf
  <2>2. Message(r, m, {b}, S) BY <1>2, <1>3, <1>7, RefuseMessage
  <2> HIDE DEF m
  <2>3. RegOK(m, S \cup {b.id}) /\ Sane(m) BY <1>5, <2>2
  <2>4. Message(m, s, {a}, S \cup {b.id}) /\ (a.id \notin S \cup {b.id} => a.id \in Known(s))
    BY <1>2, <1>3, <1>7, <2>1, <2>3, AllowMessage
  <2>5. Message(r, s, {a, b}, S) BY <1>4, <2>2, <2>4, Compose
  <2> QED BY <1>2, <1>7, <2>4, <2>5 DEF s
<1>8. CASE ~a.shown /\ b.shown
  <2> DEFINE m == Refuse(r, a.id)
  <2>1. s = Allow(m, b.id, b.asked) BY <1>1, <1>2, <1>8 DEF AllowOf, RefuseOf
  <2>2. Message(r, m, {a}, S) BY <1>2, <1>3, <1>8, RefuseMessage
  <2> HIDE DEF m
  <2>3. RegOK(m, S \cup {a.id}) /\ Sane(m) BY <1>5, <2>2
  <2>4. Message(m, s, {b}, S \cup {a.id}) /\ (b.id \notin S \cup {a.id} => b.id \in Known(s))
    BY <1>2, <1>3, <1>8, <2>1, <2>3, AllowMessage
  <2>5. Message(r, s, {a, b}, S) BY <1>4, <2>2, <2>4, Compose
  <2> QED BY <1>2, <1>8, <2>4, <2>5 DEF s
<1>9. CASE ~a.shown /\ ~b.shown
  <2> DEFINE m == Refuse(r, a.id)
  <2>1. s = Refuse(m, b.id) BY <1>1, <1>2, <1>9 DEF AllowOf, RefuseOf
  <2>2. Message(r, m, {a}, S) BY <1>2, <1>3, <1>9, RefuseMessage
  <2> HIDE DEF m
  <2>3. RegOK(m, S \cup {a.id}) /\ Sane(m) BY <1>5, <2>2
  <2>4. Message(m, s, {b}, S \cup {a.id}) BY <1>2, <1>3, <1>9, <2>1, <2>3, RefuseMessage
  <2>5. Message(r, s, {a, b}, S) BY <1>4, <2>2, <2>4, Compose
  <2> QED BY <1>2, <1>9, <2>5 DEF s
<1> QED BY <1>3, <1>6, <1>7, <1>8, <1>9

(* The steps of a page. *)

AsAdvertised(r) ==
  \A w \in Known(r) : /\ advertised[w] \cap {"hidden", "restricted"} = {}
                       /\ advertised[w] \subseteq r.entries[w].needs

PolicyInv ==
  /\ registry_capacity \in Nat \ {0} /\ sent \subseteq Widgets
  /\ RegOK(Registry, sent) /\ Sane(Registry) /\ AsAdvertised(Registry)
  /\ refused \cap CallbackIds \subseteq tainted /\ (~saturated => tainted \subseteq refused)
  /\ latest \subseteq Known(Registry)
  /\ superseded \subseteq CallbackIds /\ superseded \cap Known(Registry) = {}
  /\ \A n \in DOMAIN pin_callbacks : pin_callbacks[n] \in CallbackIds

\* The advertisements of a message, each of another id.
AdsOf(ads, A) == /\ \A a : a \in A <=> \E i \in DOMAIN ads : ads[i] = a
                 /\ \A i, j \in DOMAIN ads : ads[i].id = ads[j].id => i = j

\* What a message records, by its advertisements.
LEMMA RecordedFacts ==
  ASSUME NEW ads, NEW A, AdsOf(ads, A), Recorded(ads)
  PROVE  /\ \A a \in A : a.id \in Widgets =>
              advertised'[a.id] = a.asked.needs \cup (IF a.shown THEN {} ELSE {"hidden"})
         /\ \A w \in Widgets \ IdsOf(A) : advertised'[w] = advertised[w]
         /\ tainted' = tainted \cup {a.id : a \in {x \in A : ~Harmless(x)}}
         /\ latest' = {a.id : a \in {x \in A : Harmless(x)}} \ sent
         /\ sent' = sent \cup IdsOf(A)
<1> DEFINE Asked(i) == ads[i].asked.needs \cup (IF ads[i].shown THEN {} ELSE {"hidden"})
           Of(w) == {j \in DOMAIN ads : ads[j].id = w}
<1>0. /\ A = {ads[i] : i \in DOMAIN ads}
      /\ \A i, j \in DOMAIN ads : ads[i].id = ads[j].id => i = j
  BY DEF AdsOf
<1>1. /\ advertised' = [w \in Widgets |-> IF \E i \in DOMAIN ads : ads[i].id = w
                          THEN UNION {Asked(i) : i \in Of(w)} ELSE advertised[w]]
      /\ tainted' = tainted \cup {ads[i].id : i \in {j \in DOMAIN ads : ~Harmless(ads[j])}}
      /\ latest' = {ads[i].id : i \in {j \in DOMAIN ads : Harmless(ads[j])}} \ sent
      /\ sent' = sent \cup {ads[i].id : i \in DOMAIN ads}
  BY DEF Recorded
<1>2. ASSUME NEW a \in A, a.id \in Widgets
      PROVE  advertised'[a.id] = a.asked.needs \cup (IF a.shown THEN {} ELSE {"hidden"})
  <2>1. PICK i \in DOMAIN ads : ads[i] = a BY <1>0
  <2>2. Of(a.id) = {i} BY <1>0, <2>1
  <2>3. Asked(i) = a.asked.needs \cup (IF a.shown THEN {} ELSE {"hidden"}) BY <2>1
  <2> HIDE DEF Asked, Of
  <2>4. advertised'[a.id] = UNION {Asked(k) : k \in Of(a.id)} BY <1>1, <1>2, <2>1
  <2>5. {Asked(k) : k \in Of(a.id)} = {Asked(i)} BY <2>2
  <2>6. UNION {Asked(i)} = Asked(i) OBVIOUS
  <2> QED BY <2>3, <2>4, <2>5, <2>6
<1>3. \A w \in Widgets \ IdsOf(A) : advertised'[w] = advertised[w]
  <2> SUFFICES ASSUME NEW w \in Widgets \ IdsOf(A) PROVE advertised'[w] = advertised[w] OBVIOUS
  <2>1. \A i \in DOMAIN ads : ads[i].id # w BY <1>0 DEF IdsOf
  <2> HIDE DEF Asked, Of
  <2> QED BY <1>1, <2>1
<1>4. {ads[i].id : i \in DOMAIN ads} = IdsOf(A) BY <1>0 DEF IdsOf
<1>5. {ads[i].id : i \in {j \in DOMAIN ads : ~Harmless(ads[j])}} = {a.id : a \in {x \in A : ~Harmless(x)}}
  BY <1>0
<1>6. {ads[i].id : i \in {j \in DOMAIN ads : Harmless(ads[j])}} = {a.id : a \in {x \in A : Harmless(x)}}
  BY <1>0
<1> QED BY <1>1, <1>2, <1>3, <1>4, <1>5, <1>6

\* A message keeps the invariant, of a registry from which the former id of an
\* option may be gone.
LEMMA MessageKeeps ==
  ASSUME PolicyInv, NEW r, NEW s, NEW A, NEW ads, NEW old,
         Known(r) \subseteq Known(Registry), r.refused = refused, r.saturated = saturated,
         \A v \in Known(r) : r.entries[v] = entries[v],
         Message(r, s, A, sent), \A a \in A : IsAd(a) /\ a.id \in Widgets /\ a.id \notin superseded,
         \A a \in A : Harmless(a) /\ a.id \notin sent => a.id \in Known(s),
         Recorded(ads), AdsOf(ads, A), Becomes(s),
         superseded' = superseded \cup old, old \subseteq CallbackIds,
         old \cap IdsOf(A) = {}, old \cap Known(r) = {},
         registry_capacity' = registry_capacity,
         \A n \in DOMAIN pin_callbacks' : pin_callbacks'[n] \in CallbackIds
  PROVE  PolicyInv'
<1>1. /\ \A a \in A : a.id \in Widgets =>
           advertised'[a.id] = a.asked.needs \cup (IF a.shown THEN {} ELSE {"hidden"})
      /\ \A w \in Widgets \ IdsOf(A) : advertised'[w] = advertised[w]
      /\ tainted' = tainted \cup {a.id : a \in {x \in A : ~Harmless(x)}}
      /\ latest' = {a.id : a \in {x \in A : Harmless(x)}} \ sent
      /\ sent' = sent \cup IdsOf(A)
  BY RecordedFacts
<1>2. /\ RegOK(s, sent \cup IdsOf(A)) /\ Sane(s)
      /\ Known(s) \subseteq Known(r) \cup IdsOf(A)
      /\ \A v \in Known(s) \ IdsOf(A) : s.entries[v] = r.entries[v]
      /\ r.refused \subseteq s.refused /\ s.refused \subseteq r.refused \cup IdsOf(A)
      /\ r.saturated => s.saturated
      /\ \A a \in A : Outcome(r, s, a)
  BY DEF Message
<1>3. \A v \in IdsOf(A) : \E a \in A : a.id = v BY DEF IdsOf
<1>4. Registry' = s
  <2>1. IsRegistry(s) BY <1>2 DEF RegOK
  <2>2. s = [entries |-> s.entries, refused |-> s.refused, order |-> s.order, saturated |-> s.saturated]
    BY <2>1 DEF IsRegistry
  <2> QED BY <2>2 DEF Registry, Becomes
<1>5. /\ entries' = s.entries /\ refused' = s.refused /\ saturated' = s.saturated
  BY DEF Becomes
<1>6. sent' \subseteq Widgets
  <2>1. sent \subseteq Widgets BY DEF PolicyInv
  <2>2. IdsOf(A) \subseteq Widgets BY <1>3
  <2>3. sent' = sent \cup IdsOf(A) BY <1>1
  <2> QED BY <2>1, <2>2, <2>3
<1>7. RegOK(Registry, sent)' /\ Sane(Registry)'
  <2>1. RegOK(s, sent') /\ Sane(s) BY <1>1, <1>2
  <2> QED BY <1>4, <2>1 DEF RegOK, Sane, Known, IsRegistry
<1>8. Known(Registry)' = Known(s) /\ Known(Registry) = DOMAIN entries
  BY <1>4 DEF Known, Registry
<1>9. Known(s) \cap IdsOf(A) \subseteq Widgets /\ Known(Registry) \subseteq Widgets
  <2>1. Registry.order \in Seq(sent) /\ Known(Registry) \subseteq {Registry.order[i] : i \in DOMAIN Registry.order}
    BY DEF PolicyInv, RegOK
  <2>2. \A i \in DOMAIN Registry.order : Registry.order[i] \in sent BY <2>1
  <2>3. sent \subseteq Widgets BY DEF PolicyInv
  <2> QED BY <1>3, <2>1, <2>2, <2>3
<1>10. AsAdvertised(Registry)'
  <2> SUFFICES ASSUME NEW w \in Known(s)
               PROVE  /\ advertised'[w] \cap {"hidden", "restricted"} = {}
                      /\ advertised'[w] \subseteq s.entries[w].needs
    BY <1>4, <1>8 DEF AsAdvertised
  <2>1. CASE w \in IdsOf(A)
    <3>1. PICK a \in A : a.id = w BY <1>3, <2>1
    <3>2. Harmless(a) /\ a.asked.needs \subseteq s.entries[w].needs BY <1>2, <3>1 DEF Outcome
    <3>3. advertised'[w] = a.asked.needs BY <1>1, <3>1, <3>2 DEF Harmless
    <3>4. "hidden" \notin a.asked.needs BY DEF IsAd
    <3> QED BY <3>2, <3>3, <3>4 DEF Harmless
  <2>2. CASE w \notin IdsOf(A)
    <3>1. w \in Known(r) /\ s.entries[w] = r.entries[w] BY <1>2, <2>2
    <3>2. w \in Known(Registry) /\ s.entries[w] = entries[w] BY <3>1
    <3>3. /\ advertised[w] \cap {"hidden", "restricted"} = {}
          /\ advertised[w] \subseteq entries[w].needs
      BY <3>2 DEF PolicyInv, AsAdvertised, Registry
    <3>4. advertised'[w] = advertised[w] BY <1>1, <1>9, <2>2, <3>2
    <3> QED BY <3>2, <3>3, <3>4
  <2> QED BY <2>1, <2>2
<1>11. refused' \cap CallbackIds \subseteq tainted'
  <2> SUFFICES ASSUME NEW v \in s.refused, v \in CallbackIds PROVE v \in tainted' BY <1>5
  <2>1. CASE v \in refused BY <1>1, <2>1 DEF PolicyInv
  <2>2. CASE v \notin refused
    <3>1. PICK a \in A : a.id = v BY <1>2, <1>3, <2>2
    <3>2. ~Harmless(a) BY <1>2, <2>2, <3>1 DEF Outcome
    <3> QED BY <1>1, <3>1, <3>2
  <2> QED BY <2>1, <2>2
<1>12. ~saturated' => tainted' \subseteq refused'
  <2> SUFFICES ASSUME ~s.saturated, NEW v \in tainted' PROVE v \in s.refused BY <1>5
  <2>1. CASE v \in tainted
    <3>1. ~saturated BY <1>2
    <3>2. v \in refused BY <2>1, <3>1 DEF PolicyInv
    <3> QED BY <1>2, <3>2
  <2>2. CASE v \notin tainted
    <3>1. PICK a \in A : a.id = v /\ ~Harmless(a) BY <1>1, <2>2
    <3> QED BY <1>2, <3>1 DEF Outcome, Barred
  <2> QED BY <2>1, <2>2
<1>13. latest' \subseteq Known(Registry)' BY <1>1, <1>8
<1>14. superseded' \subseteq CallbackIds BY DEF PolicyInv
<1>15. superseded' \cap Known(Registry)' = {}
  <2> SUFFICES ASSUME NEW v \in superseded \cup old PROVE v \notin Known(s) BY <1>8
  <2>1. v \notin IdsOf(A) BY <1>3
  <2>2. v \notin Known(r)
    <3>1. superseded \cap Known(Registry) = {} BY DEF PolicyInv
    <3> QED BY <3>1
  <2> QED BY <1>2, <2>1, <2>2
<1>16. registry_capacity' \in Nat \ {0} BY DEF PolicyInv
<1> QED BY <1>6, <1>7, <1>10, <1>11, <1>12, <1>13, <1>14, <1>15, <1>16 DEF PolicyInv

LEMMA OneAd == ASSUME NEW a PROVE AdsOf(<<a>>, {a}) /\ IdsOf({a}) = {a.id}
<1>1. DOMAIN <<a>> = {1} /\ <<a>>[1] = a OBVIOUS
<1> QED BY <1>1 DEF AdsOf, IdsOf

LEMMA TwoAds ==
  ASSUME NEW a, NEW b, a.id # b.id
  PROVE  AdsOf(<<a, b>>, {a, b}) /\ IdsOf({a, b}) = {a.id, b.id}
<1> DEFINE ads == <<a, b>>
<1>1. DOMAIN ads = {1, 2} /\ ads[1] = a /\ ads[2] = b OBVIOUS
<1> HIDE DEF ads
<1>2. AdsOf(ads, {a, b}) BY <1>1 DEF AdsOf
<1>3. IdsOf({a, b}) = {a.id, b.id} BY DEF IdsOf
<1> QED BY <1>2, <1>3 DEF ads

LEMMA CallbackAdFacts ==
  ASSUME NEW a \in CallbackAds
  PROVE  IsAd(a) /\ a.id \in CallbackIds
<1>1. PICK w \in CallbackIds, shown \in BOOLEAN, needs \in {{}, {"run"}, {"restricted"}} :
        a = [id |-> w, shown |-> shown, asked |-> Asking(needs, "callback", {}, {})]
  <2> DEFINE Shown == {[id |-> w, shown |-> TRUE, asked |-> Asking(needs, "callback", {}, {})]
                         : w \in CallbackIds, needs \in {{}, {"run"}, {"restricted"}}}
             Hidden == {[id |-> w, shown |-> FALSE, asked |-> Asking({}, "callback", {}, {})]
                          : w \in CallbackIds}
  <2>1. a \in Shown \/ a \in Hidden BY DEF CallbackAds
  <2>2. ASSUME a \in Shown
        PROVE  \E w \in CallbackIds, needs \in {{}, {"run"}, {"restricted"}} :
                 a = [id |-> w, shown |-> TRUE, asked |-> Asking(needs, "callback", {}, {})]
    BY <2>2
  <2>3. ASSUME a \in Hidden
        PROVE  \E w \in CallbackIds :
                 a = [id |-> w, shown |-> FALSE, asked |-> Asking({}, "callback", {}, {})]
    BY <2>3
  <2> HIDE DEF Shown, Hidden
  <2> QED BY <2>1, <2>2, <2>3
<1>2. a.id = w /\ a.shown = shown /\ a.asked = Asking(needs, "callback", {}, {}) BY <1>1
<1>3. a.asked.needs = needs /\ a.asked.kind = "callback" BY <1>2 DEF Asking
<1> QED BY <1>2, <1>3 DEF IsAd

LEMMA TaskAdFacts ==
  ASSUME NEW a \in InputAds \cup YieldAds \cup HiddenTasks
  PROVE  IsAd(a) /\ a.id \in TaskIds
<1>1. CallbackIds \cap TaskIds = {} BY PolicyAssumption
<1>2. CASE a \in InputAds
  <2>1. PICK t \in TaskIds, kept \in {FormFields, FormFields \ Forbidden} :
          a = [id |-> t, shown |-> TRUE,
               asked |-> Asking({}, "input", kept, Forbidden \cup (FormFields \ kept))]
    BY <1>2 DEF InputAds
  <2>2. a.id = t /\ a.shown = TRUE /\ a.asked.needs = {} BY <2>1 DEF Asking
  <2> QED BY <1>1, <2>2 DEF IsAd
<1>3. CASE a \in YieldAds
  <2>1. PICK t \in TaskIds, f \in {{g} : g \in FormFields} :
          a = [id |-> t, shown |-> TRUE,
               asked |-> Asking(IF f \cap Forbidden # {} THEN {"restricted"} ELSE {}, "yield", f, {})]
    BY <1>3 DEF YieldAds
  <2>2. a.id = t /\ a.shown = TRUE BY <2>1
  <2>3. a.asked.needs \subseteq {"restricted"} BY <2>1 DEF Asking
  <2> QED BY <1>1, <2>2, <2>3 DEF IsAd
<1>4. CASE a \in HiddenTasks
  <2>1. PICK t \in TaskIds : a = [id |-> t, shown |-> FALSE, asked |-> Asking({}, "input", {}, {})]
    BY <1>4 DEF HiddenTasks
  <2>2. a.id = t /\ a.shown = FALSE /\ a.asked.needs = {} BY <2>1 DEF Asking
  <2> QED BY <1>1, <2>2 DEF IsAd
<1> QED BY <1>2, <1>3, <1>4

LEMMA RegistryFacts ==
  /\ Registry.entries = entries /\ Registry.refused = refused
  /\ Registry.saturated = saturated /\ Known(Registry) = DOMAIN entries
BY DEF Registry, Known

LEMMA RendersOneKeeps ==
  ASSUME PolicyInv, NEW a, IsAd(a), a.id \in Widgets, Renders(<<a>>)
  PROVE  PolicyInv'
<1> DEFINE s == Observed(Registry, <<a>>)
<1>1. /\ registry_capacity \in Nat \ {0} /\ RegOK(Registry, sent) /\ Sane(Registry)
      /\ \A n \in DOMAIN pin_callbacks : pin_callbacks[n] \in CallbackIds
  BY DEF PolicyInv
<1>2. /\ Becomes(s) /\ Recorded(<<a>>) /\ registry_capacity' = registry_capacity
      /\ pin_callbacks' = pin_callbacks /\ superseded' = superseded \cup {}
  BY DEF Renders
<1>3. a.id \notin superseded
  <2>1. 1 \in DOMAIN <<a>> /\ <<a>>[1] = a OBVIOUS
  <2>2. \A i \in DOMAIN <<a>> : <<a>>[i].id \notin superseded BY DEF Renders, Alive
  <2> QED BY <2>1, <2>2
<1>4. Message(Registry, s, {a}, sent) /\ (Harmless(a) /\ a.id \notin sent => a.id \in Known(s))
  BY <1>1, OneMessage
<1>5. AdsOf(<<a>>, {a}) BY OneAd
<1> HIDE DEF s
<1>6. /\ \A x \in {a} : /\ IsAd(x) /\ x.id \in Widgets /\ x.id \notin superseded
                        /\ Harmless(x) /\ x.id \notin sent => x.id \in Known(s)
      /\ \A v \in Known(Registry) : Registry.entries[v] = entries[v]
      /\ {} \subseteq CallbackIds /\ {} \cap IdsOf({a}) = {} /\ {} \cap Known(Registry) = {}
      /\ Known(Registry) \subseteq Known(Registry)
      /\ Registry.refused = refused /\ Registry.saturated = saturated
      /\ \A n \in DOMAIN pin_callbacks' : pin_callbacks'[n] \in CallbackIds
  BY <1>1, <1>2, <1>3, <1>4, RegistryFacts
<1> QED BY <1>2, <1>4, <1>5, <1>6, MessageKeeps

LEMMA RendersTwoKeeps ==
  ASSUME PolicyInv, NEW a \in CallbackAds, NEW b \in CallbackAds,
         a.asked.needs = {}, b.asked.needs = {}, registry_capacity > 1, Renders(<<a, b>>)
  PROVE  PolicyInv'
<1> DEFINE ads == <<a, b>>
           s == Observed(Registry, ads)
<1>1. /\ registry_capacity \in Nat /\ RegOK(Registry, sent) /\ Sane(Registry)
      /\ \A n \in DOMAIN pin_callbacks : pin_callbacks[n] \in CallbackIds
  BY DEF PolicyInv
<1>2. /\ Becomes(s) /\ Recorded(ads) /\ registry_capacity' = registry_capacity
      /\ pin_callbacks' = pin_callbacks /\ superseded' = superseded \cup {}
      /\ \A i, j \in DOMAIN ads : ads[i].id = ads[j].id => i = j
      /\ \A i \in DOMAIN ads : ads[i].id \notin superseded
  BY DEF Renders, Alive
<1>3. 1 \in DOMAIN ads /\ 2 \in DOMAIN ads /\ ads[1] = a /\ ads[2] = b OBVIOUS
<1>4. IsAd(a) /\ IsAd(b) /\ a.id \in Widgets /\ b.id \in Widgets
  BY CallbackAdFacts DEF Widgets
<1>5. a.id # b.id /\ a.id \notin superseded /\ b.id \notin superseded
  <2> HIDE DEF ads
  <2> QED BY <1>2, <1>3
<1>6. /\ Message(Registry, s, {a, b}, sent)
      /\ \A x \in {a, b} : Harmless(x) /\ x.id \notin sent => x.id \in Known(s)
  BY <1>1, <1>4, <1>5, TwoMessage
<1>7. AdsOf(ads, {a, b}) BY <1>5, TwoAds
<1> HIDE DEF s, ads
<1> QED BY <1>1, <1>2, <1>4, <1>5, <1>6, <1>7, RegistryFacts, MessageKeeps

LEMMA RendersOptionKeeps ==
  ASSUME PolicyInv, NEW name, NEW w \in CallbackIds, RendersOption(name, w)
  PROVE  PolicyInv'
<1> DEFINE a == [id |-> w, shown |-> TRUE, asked |-> Asking({"edit"}, "callback", {}, {})]
           old == Former(name, w)
           r == ReleaseSuperseded(Registry, name, w)
           s == Observed(r, <<a>>)
<1>1. /\ registry_capacity \in Nat \ {0} /\ RegOK(Registry, sent) /\ Sane(Registry)
      /\ sent \in SUBSET Widgets
      /\ \A n \in DOMAIN pin_callbacks : pin_callbacks[n] \in CallbackIds
  BY DEF PolicyInv
<1>2. /\ Becomes(s) /\ Recorded(<<a>>) /\ registry_capacity' = registry_capacity
      /\ superseded' = superseded \cup old /\ w \notin superseded
      /\ pin_callbacks' = [n \in DOMAIN pin_callbacks \cup {name} |->
                             IF n = name THEN w ELSE pin_callbacks[n]]
  BY DEF RendersOption, Alive, Former
<1>3. a.id = w /\ IsAd(a) /\ a.id \in Widgets
  <2>1. a.id = w /\ a.shown = TRUE /\ a.asked.needs = {"edit"} /\ a.asked.kind = "callback"
    BY DEF Asking
  <2> HIDE DEF a
  <2> QED BY <2>1 DEF IsAd, Widgets
<1> HIDE DEF a
<1>4. /\ RegOK(r, sent) /\ Known(r) = Known(Registry) \ old
      /\ r.refused = Registry.refused /\ r.saturated = Registry.saturated
      /\ \A v \in Known(r) : r.entries[v] = Registry.entries[v]
  BY <1>1, ReleaseFacts
<1> HIDE DEF r
<1>5. Sane(r) BY <1>1, <1>4 DEF Sane
<1>6. Message(r, s, {a}, sent) /\ (Harmless(a) /\ a.id \notin sent => a.id \in Known(s))
  BY <1>1, <1>3, <1>4, <1>5, OneMessage
<1> HIDE DEF s
<1>7. AdsOf(<<a>>, {a}) /\ IdsOf({a}) = {w} BY <1>3, OneAd
<1>8. old \subseteq CallbackIds /\ w \notin old BY <1>1 DEF Former
<1>9. \A n \in DOMAIN pin_callbacks' : pin_callbacks'[n] \in CallbackIds BY <1>1, <1>2
<1> HIDE DEF old
<1>10. old \cap Known(r) = {} /\ old \cap IdsOf({a}) = {} BY <1>4, <1>7, <1>8
<1>11. /\ Known(r) \subseteq Known(Registry) /\ r.refused = refused /\ r.saturated = saturated
       /\ \A v \in Known(r) : r.entries[v] = entries[v]
  BY <1>4, RegistryFacts
<1>12. \A x \in {a} : /\ IsAd(x) /\ x.id \in Widgets /\ x.id \notin superseded
                      /\ Harmless(x) /\ x.id \notin sent => x.id \in Known(s)
  BY <1>2, <1>3, <1>6
<1> QED BY <1>2, <1>6, <1>7, <1>8, <1>9, <1>10, <1>11, <1>12, MessageKeeps

LEMMA PolicyInvInit == ASSUME PolicyInit PROVE PolicyInv
<1>1. /\ registry_capacity \in Nat \ {0} /\ sent = {} /\ tainted = {} /\ superseded = {} /\ latest = {}
      /\ entries = <<>> /\ refused = {} /\ allowed_order = <<>> /\ saturated = FALSE
      /\ pin_callbacks = <<>>
  BY PolicyAssumption DEF PolicyInit
<1>2. DOMAIN entries = {} /\ DOMAIN pin_callbacks = {} BY <1>1
<1>3. Known(Registry) = {} BY <1>2, RegistryFacts
<1>4. IsRegistry(Registry) BY <1>1 DEF IsRegistry, Registry
<1>5. Registry.order = <<>> /\ Registry.refused = {} BY <1>1 DEF Registry
<1>6. IsFiniteSet({}) /\ Cardinality({}) = 0 BY FS_EmptySet
<1>7. <<>> \in Seq({}) OBVIOUS
<1>8. RegOK(Registry, sent) BY <1>1, <1>3, <1>4, <1>5, <1>6, <1>7 DEF RegOK
<1>9. Sane(Registry) /\ AsAdvertised(Registry) BY <1>3 DEF Sane, AsAdvertised
<1> QED BY <1>1, <1>2, <1>3, <1>8, <1>9 DEF PolicyInv

LEMMA PolicyInvStep == ASSUME PolicyInv, [PolicyNext]_policyVars PROVE PolicyInv'
<1>1. ASSUME registry_capacity' = registry_capacity, UNCHANGED registryVars,
             UNCHANGED <<pin_callbacks, advertised, sent, tainted, superseded, latest>>
      PROVE  PolicyInv'
  <2>1. Registry' = Registry BY <1>1 DEF Registry, registryVars
  <2>2. refused' = refused /\ saturated' = saturated BY <1>1 DEF registryVars
  <2>3. RegOK(Registry, sent)' BY <1>1, <2>1 DEF PolicyInv, RegOK, IsRegistry, Known
  <2>4. Sane(Registry)' BY <2>1 DEF PolicyInv, Sane, Known
  <2>5. AsAdvertised(Registry)' BY <1>1, <2>1 DEF PolicyInv, AsAdvertised, Known
  <2>6. latest' \subseteq Known(Registry)' /\ superseded' \cap Known(Registry)' = {}
    BY <1>1, <2>1 DEF PolicyInv, Known
  <2> QED BY <1>1, <2>2, <2>3, <2>4, <2>5, <2>6 DEF PolicyInv
<1>2. CASE UNCHANGED policyVars BY <1>1, <1>2 DEF policyVars
<1>3. ASSUME NEW a \in CallbackAds, Renders(<<a>>) PROVE PolicyInv'
  <2>1. IsAd(a) /\ a.id \in Widgets BY CallbackAdFacts DEF Widgets
  <2> QED BY <1>3, <2>1, RendersOneKeeps
<1>4. ASSUME NEW a \in {c \in CallbackAds : c.asked.needs = {}},
             NEW b \in {c \in CallbackAds : c.asked.needs = {}},
             registry_capacity > 1, Renders(<<a, b>>)
      PROVE  PolicyInv'
  BY <1>4, RendersTwoKeeps
<1>5. ASSUME NEW a \in InputAds \cup YieldAds \cup HiddenTasks, Renders(<<a>>) PROVE PolicyInv'
  <2>1. IsAd(a) /\ a.id \in Widgets BY TaskAdFacts DEF Widgets
  <2> QED BY <1>5, <2>1, RendersOneKeeps
<1>6. ASSUME NEW n \in Options, NEW w \in CallbackIds, RendersOption(n, w) PROVE PolicyInv'
  BY <1>6, RendersOptionKeeps
<1>7. ASSUME NEW w, Click(w) PROVE PolicyInv'
  <2>1. PICK what : ClosesOr(what) BY <1>7 DEF Click
  <2> QED BY <1>1, <2>1 DEF ClosesOr
<1>8. ASSUME NEW w, Reply(w) PROVE PolicyInv'
  <2>1. PICK what : ClosesOr(what) BY <1>8 DEF Reply
  <2> QED BY <1>1, <2>1 DEF ClosesOr
<1> QED BY <1>2, <1>3, <1>4, <1>5, <1>6, <1>7, <1>8 DEF PolicyNext

\* What a page may do: the registry keeps within its capacity, what it allows is
\* what the last advertisement gave the browser and asked for, a new id the
\* browser just received is known, and a late click on a superseded option does
\* not end the session (PyWebIOSessionPolicy).
THEOREM PolicyKept == PolicySpec => []PolicySound
<1>1. ASSUME PolicyInv PROVE PolicySound
  <2>1. /\ registry_capacity \in Nat \ {0} /\ RegOK(Registry, sent) /\ AsAdvertised(Registry)
        /\ refused \cap CallbackIds \subseteq tainted /\ (~saturated => tainted \subseteq refused)
        /\ latest \subseteq Known(Registry)
        /\ superseded \subseteq CallbackIds /\ superseded \cap Known(Registry) = {}
    BY <1>1 DEF PolicyInv
  <2>2. Registry.order = allowed_order BY DEF Registry
  <2>3. RegistryBounded BY <2>1, <2>2, RegistryFacts DEF RegistryBounded, RegOK
  <2>4. \A w \in DOMAIN entries : /\ advertised[w] \cap {"hidden", "restricted"} = {}
                                  /\ advertised[w] \subseteq entries[w].needs
    BY <2>1, RegistryFacts DEF AsAdvertised
  <2>5. \A w : CallbackAnswer(w, FALSE) = "forward" => w \in DOMAIN entries /\ entries[w].needs \subseteq rights
    BY DEF CallbackAnswer
  <2>6. NeverBeyondAdvertised BY <2>1, <2>4, <2>5 DEF NeverBeyondAdvertised
  <2>7. JustReceivedKnown BY <2>1, RegistryFacts DEF JustReceivedKnown
  <2>8. StaleClickDropped BY <2>1, RegistryFacts DEF StaleClickDropped
  <2> QED BY <2>3, <2>6, <2>7, <2>8 DEF PolicySound
<1>2. QED BY <1>1, PolicyInvInit, PolicyInvStep, PTL DEF PolicySpec
-----------------------------------------------------------------------------
(***************************************************************************)
(* The demuxer (module ScrcpyDemuxer)                                      *)
(***************************************************************************)
Fields == {"dummy", "name", "meta", "head", "payload", "annexb"}
UnitSet == [field : Fields, packet : Nat, at : Nat]

LEMMA UnitsFacts ==
  ASSUME NEW field \in Fields, NEW p \in Nat, NEW n \in Nat
  PROVE  LET u == Units(field, p, n) IN
         /\ u \in Seq(UnitSet) /\ Len(u) = n
         /\ \A i \in 1..n : u[i] = [field |-> field, packet |-> p, at |-> i]
<1> DEFINE u == Units(field, p, n)
<1>1. u = [i \in 1..n |-> [field |-> field, packet |-> p, at |-> i]] BY DEF Units
<1>2. \A i \in 1..n : [field |-> field, packet |-> p, at |-> i] \in UnitSet BY DEF UnitSet
<1>3. u \in [1..n -> UnitSet] BY <1>1, <1>2
<1> HIDE DEF u
<1>4. u \in Seq(UnitSet) /\ Len(u) = n BY <1>3
<1> QED BY <1>1, <1>4 DEF u

\* Where the stream has its packets: the p-th ends after start[p] units.
Laid(stream, start, dummy) ==
  /\ dummy \in {0, 1} /\ stream.units \in Seq(UnitSet) /\ DOMAIN stream.sizes = 1..PacketCount
  /\ stream.sizes = [p \in 1..PacketCount |-> stream.sizes[p]]
  /\ \A p \in 1..PacketCount : stream.sizes[p] \in Nat
  /\ \A p \in 0..PacketCount : start[p] \in Nat
  /\ start[0] = dummy + NameSize + MetaSize /\ start[PacketCount] = Len(stream.units)
  /\ stream.units[1].field = IF dummy = 1 THEN "dummy" ELSE "name"
  /\ \A p \in 1..PacketCount :
       /\ start[p] = start[p - 1] + HeadSize + stream.sizes[p]
       /\ \A i \in 1..HeadSize :
            stream.units[start[p - 1] + i] = [field |-> "head", packet |-> p, at |-> i]
       /\ \A i \in 1..stream.sizes[p] :
            stream.units[start[p - 1] + HeadSize + i] = [field |-> "payload", packet |-> p, at |-> i]

Preamble(dummy) ==
  Units("dummy", 0, dummy) \o Units("name", 0, NameSize) \o Units("meta", 0, MetaSize)
OnePacket(before, p, size) == before \o Units("head", p, HeadSize) \o Units("payload", p, size)

AreStreams(u, n, dummy, sizes) ==
  u = [p \in 0..n |-> IF p = 0 THEN Preamble(dummy) ELSE OnePacket(u[p - 1], p, sizes[p])]

LEMMA StreamsExist ==
  ASSUME NEW dummy, NEW sizes
  PROVE  \A n \in Nat : \E u : AreStreams(u, n, dummy, sizes)
<1> DEFINE T == {n \in Nat : \E u : AreStreams(u, n, dummy, sizes)}
<1>1. 0 \in T
  <2> DEFINE u == [p \in 0..0 |-> Preamble(dummy)]
  <2>1. u = [p \in 0..0 |-> IF p = 0 THEN Preamble(dummy) ELSE OnePacket(u[p - 1], p, sizes[p])]
    OBVIOUS
  <2>2. AreStreams(u, 0, dummy, sizes) BY <2>1 DEF AreStreams
  <2> QED BY <2>2
<1>2. ASSUME NEW n \in Nat, n \in T PROVE n + 1 \in T
  <2>1. PICK u : AreStreams(u, n, dummy, sizes) BY <1>2
  <2> DEFINE last == OnePacket(u[n], n + 1, sizes[n + 1])
             g == [p \in 0..(n + 1) |-> IF p = n + 1 THEN last ELSE u[p]]
             Right(p) == IF p = 0 THEN Preamble(dummy) ELSE OnePacket(g[p - 1], p, sizes[p])
  <2>2. ASSUME NEW p \in 0..(n + 1) PROVE g[p] = Right(p)
    <3>1. CASE p = n + 1
      <4>1. p # 0 /\ p - 1 = n /\ g[p] = last /\ g[n] = u[n] BY <3>1
      <4> HIDE DEF g
      <4> QED BY <3>1, <4>1
    <3>2. CASE p # n + 1
      <4>1. p \in 0..n /\ g[p] = u[p] /\ (p # 0 => g[p - 1] = u[p - 1]) BY <3>2
      <4>2. u[p] = IF p = 0 THEN Preamble(dummy) ELSE OnePacket(u[p - 1], p, sizes[p])
        BY <2>1, <4>1 DEF AreStreams
      <4> HIDE DEF g
      <4> QED BY <4>1, <4>2
    <3> QED BY <3>1, <3>2
  <2>3. g = [p \in 0..(n + 1) |-> g[p]] OBVIOUS
  <2>4. g = [p \in 0..(n + 1) |-> Right(p)]
    <3> HIDE DEF Right, g
    <3> QED BY <2>2, <2>3
  <2>5. AreStreams(g, n + 1, dummy, sizes)
    <3> HIDE DEF g
    <3> QED BY <2>4 DEF AreStreams
  <2> HIDE DEF g
  <2> QED BY <2>5
<1> HIDE DEF T
<1>3. \A n \in Nat : n \in T BY <1>1, <1>2, NaturalInduction
<1> QED BY <1>3 DEF T

LEMMA PreambleFacts ==
  ASSUME NEW dummy \in {0, 1}
  PROVE  /\ Preamble(dummy) \in Seq(UnitSet)
         /\ Len(Preamble(dummy)) = dummy + NameSize + MetaSize
         /\ Preamble(dummy)[1].field = IF dummy = 1 THEN "dummy" ELSE "name"
<1>1. /\ NameSize \in Nat \ {0} /\ MetaSize \in Nat /\ dummy \in Nat /\ 0 \in Nat
      /\ "dummy" \in Fields /\ "name" \in Fields /\ "meta" \in Fields
  BY DemuxAssumption DEF Fields
<1> DEFINE d == Units("dummy", 0, dummy)
           n == Units("name", 0, NameSize)
           m == Units("meta", 0, MetaSize)
<1>2. /\ d \in Seq(UnitSet) /\ Len(d) = dummy
      /\ n \in Seq(UnitSet) /\ Len(n) = NameSize
      /\ m \in Seq(UnitSet) /\ Len(m) = MetaSize
      /\ dummy = 1 => d[1].field = "dummy"
      /\ n[1].field = "name"
  <2>1. /\ d \in Seq(UnitSet) /\ Len(d) = dummy
        /\ \A i \in 1..dummy : d[i] = [field |-> "dummy", packet |-> 0, at |-> i]
    BY <1>1, UnitsFacts
  <2>2. /\ n \in Seq(UnitSet) /\ Len(n) = NameSize
        /\ \A i \in 1..NameSize : n[i] = [field |-> "name", packet |-> 0, at |-> i]
    BY <1>1, UnitsFacts
  <2>3. m \in Seq(UnitSet) /\ Len(m) = MetaSize BY <1>1, UnitsFacts
  <2> HIDE DEF d, n, m
  <2>4. 1 \in 1..NameSize /\ (dummy = 1 => 1 \in 1..dummy) BY <1>1
  <2> QED BY <2>1, <2>2, <2>3, <2>4
<1>3. Preamble(dummy) = (d \o n) \o m BY DEF Preamble
<1> HIDE DEF d, n, m
<1>4. /\ d \o n \in Seq(UnitSet) /\ Len(d \o n) = dummy + NameSize
      /\ (d \o n)[1] = IF dummy = 1 THEN d[1] ELSE n[1]
  BY <1>1, <1>2, ConcatProperties
<1> DEFINE dn == d \o n
<1> HIDE DEF dn
<1>5. /\ dn \o m \in Seq(UnitSet) /\ Len(dn \o m) = dummy + NameSize + MetaSize
      /\ (dn \o m)[1] = dn[1]
  <2>1. dn \in Seq(UnitSet) /\ Len(dn) = dummy + NameSize BY <1>4 DEF dn
  <2>2. /\ dn \o m \in Seq(UnitSet) /\ Len(dn \o m) = Len(dn) + Len(m)
        /\ \A i \in 1..(Len(dn) + Len(m)) : (dn \o m)[i] = IF i <= Len(dn) THEN dn[i] ELSE m[i - Len(dn)]
    <3>1. m \in Seq(UnitSet) BY <1>2
    <3> QED BY <2>1, <3>1, ConcatProperties
  <2>3. 1 \in 1..(Len(dn) + Len(m)) /\ 1 <= Len(dn) BY <1>1, <1>2, <2>1
  <2> QED BY <1>1, <1>2, <2>1, <2>2, <2>3
<1> QED BY <1>2, <1>3, <1>4, <1>5 DEF dn

LEMMA PacketFacts ==
  ASSUME NEW u \in Seq(UnitSet), NEW p \in Nat, NEW size \in Nat
  PROVE  LET q == OnePacket(u, p, size) IN
         /\ q \in Seq(UnitSet) /\ Len(q) = Len(u) + HeadSize + size
         /\ \A i \in 1..Len(u) : q[i] = u[i]
         /\ \A i \in 1..HeadSize : q[Len(u) + i] = [field |-> "head", packet |-> p, at |-> i]
         /\ \A i \in 1..size : q[Len(u) + HeadSize + i] = [field |-> "payload", packet |-> p, at |-> i]
<1>1. HeadSize \in Nat /\ "head" \in Fields /\ "payload" \in Fields /\ Len(u) \in Nat
  BY DemuxAssumption DEF Fields
<1> DEFINE h == Units("head", p, HeadSize)
           b == Units("payload", p, size)
           uh == u \o h
           q == OnePacket(u, p, size)
<1>2. /\ h \in Seq(UnitSet) /\ Len(h) = HeadSize
      /\ b \in Seq(UnitSet) /\ Len(b) = size
      /\ \A i \in 1..HeadSize : h[i] = [field |-> "head", packet |-> p, at |-> i]
      /\ \A i \in 1..size : b[i] = [field |-> "payload", packet |-> p, at |-> i]
  BY <1>1, UnitsFacts
<1>3. q = uh \o b BY DEF OnePacket
<1> HIDE DEF h, b, q
<1>4. /\ uh \in Seq(UnitSet) /\ Len(uh) = Len(u) + HeadSize
      /\ \A i \in 1..(Len(u) + HeadSize) : uh[i] = IF i <= Len(u) THEN u[i] ELSE h[i - Len(u)]
  BY <1>2, ConcatProperties
<1> HIDE DEF uh
<1>5. /\ q \in Seq(UnitSet) /\ Len(q) = Len(u) + HeadSize + size
      /\ \A i \in 1..(Len(uh) + size) : q[i] = IF i <= Len(uh) THEN uh[i] ELSE b[i - Len(uh)]
  <2>1. uh \in Seq(UnitSet) /\ b \in Seq(UnitSet) /\ Len(b) = size BY <1>2, <1>4
  <2>2. /\ uh \o b \in Seq(UnitSet) /\ Len(uh \o b) = Len(uh) + Len(b)
        /\ \A i \in 1..(Len(uh) + Len(b)) : (uh \o b)[i] = IF i <= Len(uh) THEN uh[i] ELSE b[i - Len(uh)]
    BY <2>1, ConcatProperties
  <2> QED BY <1>3, <1>4, <2>1, <2>2
<1>6. \A i \in 1..Len(u) : q[i] = u[i] BY <1>1, <1>4, <1>5
<1>7. ASSUME NEW i \in 1..HeadSize PROVE q[Len(u) + i] = h[i]
  <2>1. /\ Len(u) + i \in 1..(Len(u) + HeadSize) /\ Len(u) + i \in 1..(Len(uh) + size)
        /\ ~(Len(u) + i <= Len(u)) /\ Len(u) + i <= Len(uh) /\ (Len(u) + i) - Len(u) = i
    BY <1>1, <1>4
  <2> QED BY <1>4, <1>5, <2>1
<1>8. ASSUME NEW i \in 1..size PROVE q[Len(u) + HeadSize + i] = b[i]
  <2>1. /\ Len(u) + HeadSize + i \in 1..(Len(uh) + size) /\ ~(Len(u) + HeadSize + i <= Len(uh))
        /\ (Len(u) + HeadSize + i) - Len(uh) = i
    BY <1>1, <1>4
  <2> QED BY <1>5, <2>1
<1> QED BY <1>2, <1>5, <1>6, <1>7, <1>8 DEF q

LEMMA StreamFacts ==
  ASSUME NEW dummy \in {0, 1}, NEW sizes \in [1..PacketCount -> 0..(PacketMax + 1)]
  PROVE  \E start : Laid(Framed(dummy, sizes), start, dummy)
<1> DEFINE N == PacketCount
<1>1. N \in Nat \ {0} /\ PacketMax \in Nat /\ HeadSize \in Nat /\ NameSize \in Nat \ {0} /\ MetaSize \in Nat
  BY DemuxAssumption
<1>2. sizes \in Seq(Nat) /\ Len(sizes) = N
  <2>1. sizes \in [1..N -> Nat] BY <1>1
  <2> QED BY <1>1, <2>1, SeqDef
<1>3. \E u : AreStreams(u, N, dummy, sizes) BY <1>1, StreamsExist
<1> DEFINE u == CHOOSE u : AreStreams(u, N, dummy, sizes)
<1>4. StreamUpTo(dummy, sizes) = u BY <1>2 DEF StreamUpTo, AreStreams, Preamble, OnePacket
<1>5. AreStreams(u, N, dummy, sizes) BY <1>3
<1> HIDE DEF u, N
<1>6. /\ u[0] = Preamble(dummy)
      /\ \A p \in 1..N : u[p] = OnePacket(u[p - 1], p, sizes[p])
  <2>1. u = [p \in 0..N |-> IF p = 0 THEN Preamble(dummy) ELSE OnePacket(u[p - 1], p, sizes[p])]
    BY <1>5 DEF AreStreams
  <2>2. 0 \in 0..N /\ \A p \in 1..N : p \in 0..N /\ p # 0 BY <1>1
  <2>3. u[0] = Preamble(dummy) BY <2>1, <2>2
  <2>4. \A p \in 1..N : u[p] = OnePacket(u[p - 1], p, sizes[p]) BY <2>1, <2>2
  <2> QED BY <2>3, <2>4
<1>7. \A p \in 1..N : sizes[p] \in Nat BY <1>1 DEF N
<1> DEFINE T == {n \in Nat : n <= N => u[n] \in Seq(UnitSet)}
<1>8. 0 \in T BY <1>6, PreambleFacts
<1>9. ASSUME NEW n \in Nat, n \in T PROVE n + 1 \in T
  <2> SUFFICES ASSUME n + 1 <= N PROVE u[n + 1] \in Seq(UnitSet) OBVIOUS
  <2>1. n <= N /\ n + 1 \in 1..N /\ (n + 1) - 1 = n BY <1>1
  <2>2. u[n] \in Seq(UnitSet) BY <1>9, <2>1
  <2>3. u[n + 1] = OnePacket(u[n], n + 1, sizes[n + 1]) BY <1>6, <2>1
  <2>4. n + 1 \in Nat /\ sizes[n + 1] \in Nat BY <1>7, <2>1
  <2>5. OnePacket(u[n], n + 1, sizes[n + 1]) \in Seq(UnitSet)
    <3> DEFINE before == u[n]
               size == sizes[n + 1]
    <3>1. before \in Seq(UnitSet) /\ size \in Nat BY <2>2, <2>4
    <3> HIDE DEF before, size
    <3>2. OnePacket(before, n + 1, size) \in Seq(UnitSet) BY <2>4, <3>1, PacketFacts
    <3> QED BY <3>2 DEF before, size
  <2> QED BY <2>3, <2>5
<1>10. \A n \in Nat : n \in T
  <2> HIDE DEF T
  <2> QED BY <1>8, <1>9, NaturalInduction
<1>11. \A p \in 0..N : u[p] \in Seq(UnitSet) /\ Len(u[p]) \in Nat BY <1>1, <1>10
<1> HIDE DEF T
<1>12. ASSUME NEW p \in 1..N
       PROVE  /\ p - 1 \in 0..N /\ Len(u[p]) = Len(u[p - 1]) + HeadSize + sizes[p]
              /\ \A i \in 1..Len(u[p - 1]) : u[p][i] = u[p - 1][i]
              /\ \A i \in 1..HeadSize :
                   u[p][Len(u[p - 1]) + i] = [field |-> "head", packet |-> p, at |-> i]
              /\ \A i \in 1..sizes[p] :
                   u[p][Len(u[p - 1]) + HeadSize + i] = [field |-> "payload", packet |-> p, at |-> i]
  <2>1. p - 1 \in 0..N /\ p \in Nat BY <1>1
  <2>2. u[p] = OnePacket(u[p - 1], p, sizes[p]) BY <1>6
  <2>3. u[p - 1] \in Seq(UnitSet) /\ sizes[p] \in Nat BY <1>7, <1>11, <2>1
  <2> DEFINE before == u[p - 1]
             size == sizes[p]
  <2>4. before \in Seq(UnitSet) /\ size \in Nat BY <2>3
  <2> HIDE DEF before, size
  <2>5. LET q == OnePacket(before, p, size) IN
         /\ q \in Seq(UnitSet) /\ Len(q) = Len(before) + HeadSize + size
         /\ \A i \in 1..Len(before) : q[i] = before[i]
         /\ \A i \in 1..HeadSize : q[Len(before) + i] = [field |-> "head", packet |-> p, at |-> i]
         /\ \A i \in 1..size :
              q[Len(before) + HeadSize + i] = [field |-> "payload", packet |-> p, at |-> i]
    BY <2>1, <2>4, PacketFacts
  <2> QED BY <2>1, <2>2, <2>5 DEF before, size
\* What comes later changes nothing of what came before.
<1> DEFINE Begins(p, n) == Len(u[p]) <= Len(u[n]) /\ \A i \in 1..Len(u[p]) : u[n][i] = u[p][i]
<1>13. ASSUME NEW p \in 0..N PROVE Begins(p, N)
  <2> DEFINE R == {n \in Nat : p + n <= N => Begins(p, p + n)}
  <2>1. 0 \in R BY <1>11
  <2>2. ASSUME NEW n \in Nat, n \in R PROVE n + 1 \in R
    <3> SUFFICES ASSUME p + (n + 1) <= N PROVE Begins(p, p + (n + 1)) OBVIOUS
    <3> DEFINE k == p + n
    <3>1. k \in 0..N /\ p + (n + 1) = k + 1 /\ k + 1 \in 1..N /\ (k + 1) - 1 = k BY <1>1
    <3>2. Begins(p, k) BY <2>2, <3>1
    <3>3. /\ Len(u[k + 1]) = Len(u[k]) + HeadSize + sizes[k + 1]
          /\ \A i \in 1..Len(u[k]) : u[k + 1][i] = u[k][i]
      BY <1>12, <3>1
    <3>4. Len(u[k]) <= Len(u[k + 1]) /\ Len(u[p]) <= Len(u[k + 1])
      <4>1. sizes[k + 1] \in Nat /\ Len(u[k]) \in Nat /\ Len(u[p]) \in Nat BY <1>7, <1>11, <3>1
      <4> QED BY <1>1, <3>2, <3>3, <4>1
    <3>5. \A i \in 1..Len(u[p]) : u[k + 1][i] = u[p][i]
      <4>1. \A i \in 1..Len(u[p]) : i \in 1..Len(u[k]) BY <1>11, <3>1, <3>2
      <4> QED BY <3>2, <3>3, <4>1
    <3> HIDE DEF k
    <3> QED BY <3>1, <3>4, <3>5
  <2>3. \A n \in Nat : n \in R
    <3> HIDE DEF R
    <3> QED BY <2>1, <2>2, NaturalInduction
  <2>4. N - p \in Nat /\ p + (N - p) = N /\ N <= N BY <1>1
  <2>5. N - p \in R BY <2>3, <2>4
  <2> QED BY <2>4, <2>5
<1> DEFINE start == [p \in 0..N |-> Len(u[p])]
           stream == Framed(dummy, sizes)
<1>14. stream.units = u[N] /\ stream.sizes = sizes BY <1>2, <1>4 DEF Framed
<1>15. \A p \in 0..N : start[p] = Len(u[p]) /\ start[p] \in Nat BY <1>11
<1> HIDE DEF start, stream, Begins
<1>16. /\ 0 \in 0..N /\ N \in 0..N /\ DOMAIN sizes = 1..N
      /\ sizes = [p \in 1..N |-> sizes[p]]
  BY <1>1 DEF N
<1>17. start[0] = dummy + NameSize + MetaSize BY <1>6, <1>15, <1>16, PreambleFacts
<1>18. stream.units[1].field = IF dummy = 1 THEN "dummy" ELSE "name"
  <2>1. 1 \in 1..Len(u[0])
    <3>1. Len(u[0]) = dummy + NameSize + MetaSize BY <1>6, PreambleFacts
    <3> QED BY <1>1, <3>1
  <2>2. u[N][1] = u[0][1] BY <1>13, <1>16, <2>1 DEF Begins
  <2> QED BY <1>6, <1>14, <2>2, PreambleFacts
<1>19. ASSUME NEW p \in 1..N
       PROVE  /\ start[p] = start[p - 1] + HeadSize + sizes[p]
              /\ \A i \in 1..HeadSize :
                   stream.units[start[p - 1] + i] = [field |-> "head", packet |-> p, at |-> i]
              /\ \A i \in 1..sizes[p] :
                   stream.units[start[p - 1] + HeadSize + i] = [field |-> "payload", packet |-> p, at |-> i]
  <2>1. /\ p - 1 \in 0..N /\ p \in 0..N /\ start[p - 1] = Len(u[p - 1]) /\ start[p] = Len(u[p])
        /\ start[p - 1] \in Nat /\ sizes[p] \in Nat
    BY <1>1, <1>7, <1>12, <1>15
  <2>2. start[p] = start[p - 1] + HeadSize + sizes[p] BY <1>12, <2>1
  <2>3. \A j \in 1..start[p] : stream.units[j] = u[p][j] BY <1>13, <1>14, <2>1 DEF Begins
  <2>4. ASSUME NEW i \in 1..HeadSize
        PROVE  stream.units[start[p - 1] + i] = [field |-> "head", packet |-> p, at |-> i]
    <3>1. start[p - 1] + i \in 1..start[p] BY <1>1, <2>1, <2>2
    <3>2. u[p][start[p - 1] + i] = [field |-> "head", packet |-> p, at |-> i] BY <1>12, <2>1
    <3> QED BY <2>3, <3>1, <3>2
  <2>5. ASSUME NEW i \in 1..sizes[p]
        PROVE  stream.units[start[p - 1] + HeadSize + i] = [field |-> "payload", packet |-> p, at |-> i]
    <3>1. start[p - 1] + HeadSize + i \in 1..start[p] BY <1>1, <2>1, <2>2
    <3>2. u[p][start[p - 1] + HeadSize + i] = [field |-> "payload", packet |-> p, at |-> i]
      BY <1>12, <2>1
    <3> QED BY <2>3, <3>1, <3>2
  <2> QED BY <2>2, <2>4, <2>5
<1>20. stream.units \in Seq(UnitSet) /\ start[N] = Len(stream.units) BY <1>11, <1>14, <1>15, <1>16
<1>21. Laid(stream, start, dummy)
  BY <1>7, <1>14, <1>15, <1>16, <1>17, <1>18, <1>19, <1>20 DEF Laid, N
<1> QED BY <1>21 DEF stream

\* What is left of a sequence when n units are taken, and the units taken.
LEMMA TakeFacts ==
  ASSUME NEW R, NEW s \in Seq(R), NEW n \in Nat, n <= Len(s)
  PROVE  LET rest == SubSeq(s, n + 1, Len(s))
             head == SubSeq(s, 1, n) IN
         /\ rest \in Seq(R) /\ Len(rest) = Len(s) - n
         /\ \A i \in 1..Len(rest) : rest[i] = s[n + i]
         /\ head \in Seq(R) /\ Len(head) = n
         /\ \A i \in 1..n : head[i] = s[i]
<1> DEFINE rest == SubSeq(s, n + 1, Len(s))
           head == SubSeq(s, 1, n)
           from == n + 1
           last == Len(s)
<1>1. last \in Nat /\ from \in Int /\ last \in Int /\ 1 \in Int /\ n \in Int OBVIOUS
<1>2. \A i \in from..last : s[i] \in R
  <2>1. \A i \in from..last : i \in 1..Len(s) OBVIOUS
  <2> QED BY <2>1
<1>3. \A i \in 1..n : s[i] \in R
  <2>1. \A i \in 1..n : i \in 1..Len(s) OBVIOUS
  <2> QED BY <2>1
<1> HIDE DEF from, last
<1>4. /\ SubSeq(s, from, last) \in Seq(R)
      /\ Len(SubSeq(s, from, last)) = IF from <= last THEN last - from + 1 ELSE 0
      /\ \A i \in 1..(last - from + 1) : SubSeq(s, from, last)[i] = s[from + i - 1]
  BY <1>1, <1>2, SubSeqProperties
<1>5. /\ SubSeq(s, 1, n) \in Seq(R)
      /\ Len(SubSeq(s, 1, n)) = IF 1 <= n THEN n - 1 + 1 ELSE 0
      /\ \A i \in 1..(n - 1 + 1) : SubSeq(s, 1, n)[i] = s[1 + i - 1]
  BY <1>1, <1>3, SubSeqProperties
<1>6. rest = SubSeq(s, from, last) BY DEF from, last
<1> HIDE DEF rest, head
<1>7. rest \in Seq(R) /\ Len(rest) = Len(s) - n
  <2>1. (IF from <= last THEN last - from + 1 ELSE 0) = last - n BY <1>1 DEF from, last
  <2> QED BY <1>4, <1>6, <2>1 DEF last
<1>8. ASSUME NEW i \in 1..Len(rest) PROVE rest[i] = s[n + i]
  <2>1. i \in 1..(last - from + 1) /\ from + i - 1 = n + i BY <1>1, <1>7 DEF from, last
  <2> QED BY <1>4, <1>6, <2>1
<1>9. head \in Seq(R) /\ Len(head) = n
  <2>1. (IF 1 <= n THEN n - 1 + 1 ELSE 0) = n OBVIOUS
  <2> QED BY <1>5, <2>1 DEF head
<1>10. ASSUME NEW i \in 1..n PROVE head[i] = s[i]
  <2>1. i \in 1..(n - 1 + 1) /\ 1 + i - 1 = i OBVIOUS
  <2> QED BY <1>5, <2>1 DEF head
<1> QED BY <1>7, <1>8, <1>9, <1>10 DEF rest, head

\* Two sequences of the same length with the same elements are one.
LEMMA SameUnits ==
  ASSUME NEW R, NEW s \in Seq(R), NEW t \in Seq(R), Len(s) = Len(t), \A i \in 1..Len(s) : s[i] = t[i]
  PROVE  s = t
BY SeqEqual

\* A packet begins where the one before it ends, or later.
LEMMA Ordered ==
  ASSUME NEW stream, NEW start, NEW dummy, Laid(stream, start, dummy), NEW p \in 0..PacketCount
  PROVE  start[p] <= start[PacketCount]
<1>1. PacketCount \in Nat /\ HeadSize \in Nat BY DemuxAssumption
<1> DEFINE T == {n \in Nat : p + n <= PacketCount => start[p] <= start[p + n]}
<1>2. \A q \in 0..PacketCount : start[q] \in Nat BY DEF Laid
<1>3. 0 \in T BY <1>1, <1>2
<1>4. ASSUME NEW n \in Nat, n \in T PROVE n + 1 \in T
  <2> SUFFICES ASSUME p + (n + 1) <= PacketCount PROVE start[p] <= start[p + (n + 1)] OBVIOUS
  <2> DEFINE q == p + n
  <2>1. q \in 0..PacketCount /\ p + (n + 1) = q + 1 /\ q + 1 \in 1..PacketCount /\ (q + 1) - 1 = q
    BY <1>1
  <2>2. start[p] <= start[q] BY <1>4, <2>1
  <2> HIDE DEF q
  <2>3. start[q + 1] = start[q] + HeadSize + stream.sizes[q + 1] /\ stream.sizes[q + 1] \in Nat
    BY <2>1 DEF Laid
  <2>4. start[p] <= start[q + 1] BY <1>1, <1>2, <2>1, <2>2, <2>3
  <2> QED BY <2>1, <2>4
<1> HIDE DEF T
<1>5. \A n \in Nat : n \in T BY <1>3, <1>4, NaturalInduction
<1>6. PacketCount - p \in Nat /\ p + (PacketCount - p) = PacketCount /\ PacketCount <= PacketCount BY <1>1
<1>7. PacketCount - p \in T BY <1>5, <1>6
<1> QED BY <1>6, <1>7 DEF T

-----------------------------------------------------------------------------
\* What the parser waits for in each of its states.
Expects(state, n) ==
  /\ state \in {"maybe_dummy", "device_meta", "codec_meta", "frame_header", "packet", "raw"}
  /\ state = "maybe_dummy" => n = 1
  /\ state = "device_meta" => n = NameSize
  /\ state = "codec_meta" => n = MetaSize
  /\ state = "frame_header" => n = HeadSize
  /\ state = "packet" => n \in 1..PacketMax
  /\ state = "raw" => n = 0

DemuxTyped ==
  /\ device_stream.units \in Seq(UnitSet) /\ fed \in Nat /\ fed <= Len(device_stream.units)
  /\ demux_buffer \in Seq(UnitSet) /\ Len(demux_buffer) <= fed
  /\ packets \in Seq(Seq(UnitSet))
  /\ Expects(demux_state, demux_expected)
  /\ in_feed \in BOOLEAN /\ demux_lost \in BOOLEAN
  /\ ~in_feed => Len(demux_buffer) <= 2 * PacketMax

LEMMA ExpectsLittle ==
  ASSUME NEW state, NEW n, Expects(state, n) PROVE n \in Nat /\ n <= 2 * PacketMax
BY DemuxAssumption DEF Expects

LEMMA TakeTyped ==
  ASSUME DemuxTyped, NEW n \in Nat, n <= Len(demux_buffer), Take(n)
  PROVE  /\ demux_buffer' \in Seq(UnitSet) /\ Len(demux_buffer') = Len(demux_buffer) - n
         /\ Len(demux_buffer') <= Len(demux_buffer) /\ Len(demux_buffer) \in Nat
         /\ \A i \in 1..Len(demux_buffer') : demux_buffer'[i] = demux_buffer[n + i]
<1> DEFINE s == demux_buffer
           rest == SubSeq(s, n + 1, Len(s))
<1>1. s \in Seq(UnitSet) /\ n <= Len(s) BY DEF DemuxTyped
<1>2. demux_buffer' = rest BY DEF Take
<1>3. /\ rest \in Seq(UnitSet) /\ Len(rest) = Len(s) - n
      /\ \A i \in 1..Len(rest) : rest[i] = s[n + i]
  <2> HIDE DEF s
  <2> QED BY <1>1, TakeFacts
<1>4. Len(s) \in Nat /\ Len(s) - n <= Len(s)
  <2> HIDE DEF s
  <2> QED BY <1>1
<1> HIDE DEF rest
<1> QED BY <1>2, <1>3, <1>4 DEF s

LEMMA DemuxTypedInit == ASSUME DemuxInit PROVE DemuxTyped
<1>1. /\ NameSize \in Nat /\ MetaSize \in Nat /\ HeadSize \in Nat /\ PacketMax \in Nat
  BY DemuxAssumption
<1>2. device_stream.units \in Seq(UnitSet)
  <2>1. CASE device_stream = AnnexB
    <3> DEFINE n == 2 * PacketMax + 2
    <3>1. n \in Nat /\ "annexb" \in Fields /\ 0 \in Nat BY <1>1 DEF Fields
    <3> HIDE DEF n
    <3>2. Units("annexb", 0, n) \in Seq(UnitSet) BY <3>1, UnitsFacts
    <3>3. device_stream.units = Units("annexb", 0, n) BY <2>1 DEF AnnexB, n
    <3> QED BY <3>2, <3>3
  <2>2. CASE device_stream # AnnexB
    <3>1. PICK dummy \in {0, 1}, sizes \in [1..PacketCount -> 0..(PacketMax + 1)] :
            device_stream = Framed(dummy, sizes)
      BY <2>2 DEF DemuxInit
    <3>2. \E start : Laid(Framed(dummy, sizes), start, dummy) BY StreamFacts
    <3> QED BY <3>1, <3>2 DEF Laid
  <2> QED BY <2>1, <2>2
<1>3. Len(device_stream.units) \in Nat BY <1>2
<1>4. fed = 0 /\ demux_buffer = <<>> /\ packets = <<>> /\ ~in_feed /\ ~demux_lost
      /\ demux_state = "maybe_dummy" /\ demux_expected = 1 /\ in_feed \in BOOLEAN /\ demux_lost \in BOOLEAN
  BY DEF DemuxInit
<1>5. Len(<<>>) = 0 /\ <<>> \in Seq(UnitSet) /\ <<>> \in Seq(Seq(UnitSet)) OBVIOUS
<1>6. Expects("maybe_dummy", 1) BY DEF Expects
<1> QED BY <1>1, <1>2, <1>3, <1>4, <1>5, <1>6 DEF DemuxTyped

\* More of the stream comes.
LEMMA FeedFacts ==
  ASSUME DemuxTyped, NEW n \in Nat, Feed(n)
  PROVE  /\ demux_buffer' \in Seq(UnitSet) /\ Len(demux_buffer') = Len(demux_buffer) + n
         /\ Len(demux_buffer) \in Nat /\ fed \in Nat /\ fed + n <= Len(device_stream.units)
         /\ \A i \in 1..Len(demux_buffer') :
              demux_buffer'[i] = IF i <= Len(demux_buffer) THEN demux_buffer[i]
                                 ELSE device_stream.units[fed + (i - Len(demux_buffer))]
<1> DEFINE u == device_stream.units
           b == demux_buffer
           from == fed + 1
           to == fed + n
           piece == SubSeq(u, from, to)
<1>1. /\ u \in Seq(UnitSet) /\ b \in Seq(UnitSet) /\ fed \in Nat /\ fed + n <= Len(u)
      /\ demux_buffer' = b \o piece
  BY DEF DemuxTyped, Feed
<1> HIDE DEF u, b
<1>2. /\ from \in Int /\ to \in Int /\ \A i \in from..to : u[i] \in UnitSet
      /\ Len(u) \in Nat /\ Len(b) \in Nat
  <2>1. \A i \in from..to : i \in 1..Len(u) BY <1>1
  <2> QED BY <1>1, <2>1
<1> HIDE DEF from, to, piece
<1>3. /\ piece \in Seq(UnitSet) /\ Len(piece) = IF from <= to THEN to - from + 1 ELSE 0
      /\ \A i \in 1..(to - from + 1) : piece[i] = u[from + i - 1]
  BY <1>2, SubSeqProperties DEF piece
<1>4. Len(piece) = n /\ \A i \in 1..n : piece[i] = u[fed + i]
  <2>1. (IF from <= to THEN to - from + 1 ELSE 0) = n BY <1>1 DEF from, to
  <2>2. ASSUME NEW i \in 1..n PROVE piece[i] = u[fed + i]
    <3>1. i \in 1..(to - from + 1) /\ from + i - 1 = fed + i BY <1>1 DEF from, to
    <3> QED BY <1>3, <3>1
  <2> QED BY <1>3, <2>1, <2>2
<1>5. /\ b \o piece \in Seq(UnitSet) /\ Len(b \o piece) = Len(b) + Len(piece)
      /\ \A i \in 1..(Len(b) + Len(piece)) : (b \o piece)[i] = IF i <= Len(b) THEN b[i] ELSE piece[i - Len(b)]
  BY <1>1, <1>3, ConcatProperties
<1>6. ASSUME NEW i \in 1..(Len(b) + n), ~(i <= Len(b))
      PROVE  piece[i - Len(b)] = u[fed + (i - Len(b))]
  <2>1. i - Len(b) \in 1..n BY <1>2, <1>6
  <2> QED BY <1>4, <2>1
<1>7. \A i \in 1..(Len(b) + n) : (b \o piece)[i] = IF i <= Len(b) THEN b[i] ELSE u[fed + (i - Len(b))]
  BY <1>4, <1>5, <1>6
<1>8. demux_buffer' \in Seq(UnitSet) /\ Len(demux_buffer') = Len(b) + n BY <1>1, <1>4, <1>5
<1>9. \A i \in 1..Len(demux_buffer') :
        demux_buffer'[i] = IF i <= Len(b) THEN b[i] ELSE u[fed + (i - Len(b))]
  BY <1>1, <1>7, <1>8
<1> QED BY <1>1, <1>2, <1>8, <1>9 DEF u, b

\* Packet hands on the front of the buffer.
LEMMA PacketLeaves ==
  ASSUME DemuxTyped, Packet
  PROVE  /\ demux_expected \in 1..PacketMax /\ demux_expected <= Len(demux_buffer)
         /\ Take(demux_expected)
         /\ packets' \in Seq(Seq(UnitSet)) /\ Len(packets') = Len(packets) + 1 /\ Len(packets) \in Nat
         /\ \A p \in 1..Len(packets) : packets'[p] = packets[p]
         /\ LET last == packets'[Len(packets) + 1] IN
            /\ last \in Seq(UnitSet) /\ Len(last) = demux_expected
            /\ \A i \in 1..demux_expected : last[i] = demux_buffer[i]
<1> DEFINE n == demux_expected
           b == demux_buffer
           head == SubSeq(b, 1, n)
<1>1. /\ n \in 1..PacketMax /\ n <= Len(b) /\ Take(n) /\ b \in Seq(UnitSet)
      /\ packets \in Seq(Seq(UnitSet)) /\ packets' = Append(packets, head)
  <2>1. demux_state = "packet" /\ Len(b) >= n /\ Take(n) /\ packets' = Append(packets, head)
    BY DEF Packet, Loop, Enough
  <2>2. b \in Seq(UnitSet) /\ packets \in Seq(Seq(UnitSet)) /\ (demux_state = "packet" => n \in 1..PacketMax)
    BY DEF DemuxTyped, Expects
  <2>3. Len(b) \in Nat BY <2>2
  <2> HIDE DEF n, b, head
  <2>4. n \in 1..PacketMax BY <2>1, <2>2
  <2> QED BY <2>1, <2>2, <2>3, <2>4
<1>2. PacketMax \in Nat BY DemuxAssumption
<1>3. n \in Nat BY <1>1, <1>2
<1> HIDE DEF n, b
<1>4. head \in Seq(UnitSet) /\ Len(head) = n /\ \A i \in 1..n : head[i] = b[i]
  BY <1>1, <1>3, TakeFacts
<1> HIDE DEF head
<1>5. /\ packets' \in Seq(Seq(UnitSet)) /\ Len(packets') = Len(packets) + 1 /\ Len(packets) \in Nat
      /\ \A p \in 1..Len(packets) : packets'[p] = packets[p]
      /\ packets'[Len(packets) + 1] = head
  BY <1>1, <1>4
<1> QED BY <1>1, <1>4, <1>5 DEF n, b

LEMMA DemuxTypedStep == ASSUME DemuxTyped, DemuxNext PROVE DemuxTyped'
<1>1. /\ NameSize \in Nat /\ MetaSize \in Nat /\ HeadSize \in Nat /\ PacketMax \in Nat
  BY DemuxAssumption
<1>2. Len(demux_buffer) \in Nat /\ Len(device_stream.units) \in Nat /\ fed \in Nat
  <2>1. demux_buffer \in Seq(UnitSet) /\ device_stream.units \in Seq(UnitSet) /\ fed \in Nat
    BY DEF DemuxTyped
  <2> QED BY <2>1
<1>3. demux_expected \in Nat BY ExpectsLittle DEF DemuxTyped
<1>4. CASE \E n \in 1..PieceMax : Feed(n)
  <2>1. PICK n \in 1..PieceMax : Feed(n) BY <1>4
  <2>2. n \in Nat BY DemuxAssumption
  <2>3. /\ demux_buffer' \in Seq(UnitSet) /\ Len(demux_buffer') = Len(demux_buffer) + n
        /\ fed + n <= Len(device_stream.units)
    BY <2>1, <2>2, FeedFacts
  <2>4. fed' = fed + n /\ in_feed' = TRUE /\ device_stream' = device_stream
        /\ demux_state' = demux_state /\ demux_expected' = demux_expected
        /\ packets' = packets /\ demux_lost' = demux_lost
    BY <2>1 DEF Feed
  <2>5. fed' \in Nat /\ fed' <= Len(device_stream'.units) /\ Len(demux_buffer') <= fed'
    BY <1>2, <2>2, <2>3, <2>4 DEF DemuxTyped
  <2> QED BY <2>3, <2>4, <2>5 DEF DemuxTyped
\* A reset empties the buffer.
<1>5. ASSUME Reset PROVE /\ demux_buffer' = <<>> /\ Len(demux_buffer') = 0 /\ demux_buffer' \in Seq(UnitSet)
                         /\ Expects(demux_state', demux_expected') /\ demux_lost' = TRUE
  BY <1>5 DEF Reset, Awaits, Expects
<1>6. CASE Wait
  <2>1. in_feed' = FALSE /\ device_stream' = device_stream /\ fed' = fed /\ packets' = packets
    BY <1>6 DEF Wait, Break
  <2>2. CASE Len(demux_buffer) > 2 * PacketMax
    <3>1. Reset BY <1>6, <2>2 DEF Wait, Break
    <3>2. 0 <= fed /\ 0 <= 2 * PacketMax BY <1>1, <1>2
    <3> QED BY <1>5, <2>1, <3>1, <3>2 DEF DemuxTyped
  <2>3. CASE ~(Len(demux_buffer) > 2 * PacketMax)
    <3>1. demux_buffer' = demux_buffer /\ demux_state' = demux_state /\ demux_expected' = demux_expected
          /\ demux_lost' = demux_lost
      BY <1>6, <2>3 DEF Wait, Break
    <3>2. Len(demux_buffer) <= 2 * PacketMax BY <1>1, <1>2, <2>3
    <3> QED BY <2>1, <3>1, <3>2 DEF DemuxTyped
  <2> QED BY <2>2, <2>3
\* Units are taken, and what is awaited is named.
<1>7. ASSUME NEW n \in Nat, n <= Len(demux_buffer), Take(n), Expects(demux_state', demux_expected'),
             device_stream' = device_stream, fed' = fed, packets' \in Seq(Seq(UnitSet)),
             in_feed' = TRUE, demux_lost' = demux_lost
      PROVE  DemuxTyped'
  <2>1. demux_buffer' \in Seq(UnitSet) /\ Len(demux_buffer') \in Nat /\ Len(demux_buffer') <= fed'
    <3>1. /\ demux_buffer' \in Seq(UnitSet) /\ Len(demux_buffer') <= Len(demux_buffer)
      BY <1>7, TakeTyped
    <3>2. Len(demux_buffer') \in Nat BY <3>1
    <3> QED BY <1>2, <1>7, <3>1, <3>2 DEF DemuxTyped
  <2> QED BY <1>7, <2>1 DEF DemuxTyped
<1>8. packets \in Seq(Seq(UnitSet)) BY DEF DemuxTyped
<1>9. CASE MaybeDummy
  <2>1. PICK n \in {0, 1} : Take(n) BY <1>9 DEF MaybeDummy
  <2>2. /\ n <= Len(demux_buffer) /\ n \in Nat
        /\ in_feed' = TRUE /\ fed' = fed /\ device_stream' = device_stream /\ packets' = packets
        /\ demux_lost' = demux_lost /\ demux_state' = "device_meta" /\ demux_expected' = NameSize
    <3>1. demux_state = "maybe_dummy" /\ Len(demux_buffer) >= demux_expected /\ in_feed
      BY <1>9 DEF MaybeDummy, Loop, Enough
    <3>2. demux_expected = 1 BY <3>1 DEF DemuxTyped, Expects
    <3>3. n <= Len(demux_buffer) /\ n \in Nat BY <1>2, <3>1, <3>2
    <3> QED BY <1>9, <3>1, <3>3 DEF MaybeDummy, Loop, Awaits, DemuxTyped
  <2>3. Expects(demux_state', demux_expected') BY <2>2 DEF Expects
  <2> QED BY <1>7, <1>8, <2>1, <2>2, <2>3
<1>10. CASE RawStream
  <2>1. /\ device_stream' = device_stream /\ fed' = fed /\ demux_buffer' = demux_buffer /\ packets' = packets
        /\ in_feed' = in_feed /\ in_feed /\ demux_lost' = demux_lost
        /\ demux_state' = "raw" /\ demux_expected' = 0
    BY <1>10 DEF RawStream, Awaits
  <2>2. Expects(demux_state', demux_expected') BY <2>1 DEF Expects
  <2> QED BY <2>1, <2>2 DEF DemuxTyped
<1>11. CASE Meta
  <2>1. CASE Loop("device_meta") /\ Take(NameSize) /\ Awaits("codec_meta", MetaSize)
             /\ UNCHANGED <<demux_size, packets, in_feed, demux_lost>>
    <3>1. /\ demux_state = "device_meta" /\ Len(demux_buffer) >= demux_expected /\ in_feed
          /\ in_feed' = in_feed /\ fed' = fed /\ device_stream' = device_stream /\ packets' = packets
          /\ demux_lost' = demux_lost /\ demux_state' = "codec_meta" /\ demux_expected' = MetaSize
      BY <2>1 DEF Loop, Enough, Awaits
    <3>2. demux_expected = NameSize /\ in_feed' = TRUE BY <3>1 DEF DemuxTyped, Expects
    <3>3. NameSize <= Len(demux_buffer) BY <1>1, <1>2, <3>1, <3>2
    <3>4. Expects(demux_state', demux_expected') BY <3>1 DEF Expects
    <3> QED BY <1>1, <1>7, <1>8, <2>1, <3>1, <3>2, <3>3, <3>4
  <2>2. CASE Loop("codec_meta") /\ Take(MetaSize) /\ Awaits("frame_header", HeadSize)
             /\ UNCHANGED <<demux_size, packets, in_feed, demux_lost>>
    <3>1. /\ demux_state = "codec_meta" /\ Len(demux_buffer) >= demux_expected /\ in_feed
          /\ in_feed' = in_feed /\ fed' = fed /\ device_stream' = device_stream /\ packets' = packets
          /\ demux_lost' = demux_lost /\ demux_state' = "frame_header" /\ demux_expected' = HeadSize
      BY <2>2 DEF Loop, Enough, Awaits
    <3>2. demux_expected = MetaSize /\ in_feed' = TRUE BY <3>1 DEF DemuxTyped, Expects
    <3>3. MetaSize <= Len(demux_buffer) BY <1>1, <1>2, <3>1, <3>2
    <3>4. Expects(demux_state', demux_expected') BY <3>1 DEF Expects
    <3> QED BY <1>1, <1>7, <1>8, <2>2, <3>1, <3>2, <3>3, <3>4
  <2> QED BY <1>11, <2>1, <2>2 DEF Meta
<1>12. CASE FrameHeader
  <2>1. /\ demux_state = "frame_header" /\ Len(demux_buffer) >= demux_expected /\ in_feed
        /\ fed' = fed /\ device_stream' = device_stream /\ packets' = packets
    BY <1>12 DEF FrameHeader, Loop, Enough
  <2>2. PICK size : IF Valid(size)
                    THEN /\ Take(HeadSize) /\ Awaits("packet", size) /\ demux_size' = size
                         /\ UNCHANGED <<in_feed, demux_lost>>
                    ELSE Reset /\ in_feed' = FALSE
    BY <1>12 DEF FrameHeader
  <2>3. CASE Valid(size)
    <3>1. Take(HeadSize) /\ demux_state' = "packet" /\ demux_expected' = size
          /\ in_feed' = in_feed /\ demux_lost' = demux_lost
      BY <2>2, <2>3 DEF Awaits
    <3>2. demux_expected = HeadSize /\ in_feed' = TRUE BY <2>1, <3>1 DEF DemuxTyped, Expects
    <3>3. HeadSize <= Len(demux_buffer) BY <1>1, <1>2, <2>1, <3>2
    <3>4. Expects(demux_state', demux_expected') BY <2>3, <3>1 DEF Expects, Valid
    <3> QED BY <1>1, <1>7, <1>8, <2>1, <3>1, <3>2, <3>3, <3>4
  <2>4. CASE ~Valid(size)
    <3>1. Reset /\ in_feed' = FALSE BY <2>2, <2>4
    <3>2. 0 <= fed /\ 0 <= 2 * PacketMax BY <1>1, <1>2
    <3> QED BY <1>5, <2>1, <3>1, <3>2 DEF DemuxTyped
  <2> QED BY <2>3, <2>4
<1>13. CASE Packet
  <2>1. /\ demux_expected \in 1..PacketMax /\ demux_expected <= Len(demux_buffer) /\ Take(demux_expected)
        /\ packets' \in Seq(Seq(UnitSet))
    BY <1>13, PacketLeaves
  <2>2. /\ in_feed /\ in_feed' = in_feed /\ fed' = fed /\ device_stream' = device_stream
        /\ demux_lost' = demux_lost /\ demux_state' = "frame_header" /\ demux_expected' = HeadSize
    BY <1>13 DEF Packet, Loop, Awaits
  <2>3. Expects(demux_state', demux_expected') BY <2>2 DEF Expects
  <2>4. in_feed' = TRUE BY <2>2 DEF DemuxTyped
  <2> QED BY <1>3, <1>7, <2>1, <2>2, <2>3, <2>4
<1> QED BY <1>4, <1>6, <1>9, <1>10, <1>11, <1>12, <1>13 DEF DemuxNext

-----------------------------------------------------------------------------
\* How much of the stream the parser has gone through.
Gone == fed - Len(demux_buffer)

\* The first n packets have come out right.
Right(n) ==
  \A p \in 1..n :
    Valid(device_stream.sizes[p]) /\ packets[p] = Units("payload", p, device_stream.sizes[p])

\* A parser that keeps its place is where its state says.
InPlace(start, dummy) ==
  /\ \A i \in 1..Len(demux_buffer) : demux_buffer[i] = device_stream.units[Gone + i]
  /\ Len(packets) <= PacketCount /\ Right(Len(packets))
  /\ demux_state # "raw"
  /\ demux_state = "maybe_dummy" => Gone = 0 /\ Len(packets) = 0
  /\ demux_state = "device_meta" => Gone = dummy /\ Len(packets) = 0
  /\ demux_state = "codec_meta" => Gone = dummy + NameSize /\ Len(packets) = 0
  /\ demux_state = "frame_header" => Gone = start[Len(packets)]
  /\ demux_state = "packet" =>
       /\ Len(packets) < PacketCount /\ Gone = start[Len(packets)] + HeadSize
       /\ demux_expected = device_stream.sizes[Len(packets) + 1] /\ Valid(demux_expected)
  /\ ~in_feed => Len(demux_buffer) < demux_expected

\* One that has lost it did so at a packet that is invalid.
LostAfter ==
  \E b \in 1..PacketCount :
    ~Valid(device_stream.sizes[b]) /\ b - 1 <= Len(packets) /\ Right(b - 1)

DemuxPlaced ==
  device_stream # AnnexB =>
    \E start, dummy : /\ Laid(device_stream, start, dummy)
                      /\ IF demux_lost THEN LostAfter ELSE InPlace(start, dummy)

LEMMA RightKept ==
  ASSUME NEW n \in Nat, NEW m \in Nat, n <= m, device_stream' = device_stream, Right(n),
         \A p \in 1..m : packets'[p] = packets[p]
  PROVE  Right(n)'
<1>1. \A p \in 1..n : p \in 1..m OBVIOUS
<1> QED BY <1>1 DEF Right

LEMMA PlacedInit == ASSUME DemuxInit PROVE DemuxPlaced
<1> SUFFICES ASSUME device_stream # AnnexB
             PROVE  \E start, dummy : /\ Laid(device_stream, start, dummy)
                                      /\ IF demux_lost THEN LostAfter ELSE InPlace(start, dummy)
  BY DEF DemuxPlaced
<1>1. PICK dummy \in {0, 1}, sizes \in [1..PacketCount -> 0..(PacketMax + 1)] :
        device_stream = Framed(dummy, sizes)
  BY DEF DemuxInit
<1>2. PICK start : Laid(device_stream, start, dummy) BY <1>1, StreamFacts
<1>3. /\ fed = 0 /\ demux_state = "maybe_dummy" /\ demux_buffer = <<>> /\ demux_expected = 1
      /\ packets = <<>> /\ in_feed = FALSE /\ demux_lost = FALSE
  BY DEF DemuxInit
<1>4. Len(demux_buffer) = 0 /\ Len(packets) = 0 BY <1>3
<1>5. Gone = 0
  <2>1. fed = 0 BY <1>3
  <2>2. fed - Len(demux_buffer) = 0 BY <1>4, <2>1
  <2> QED BY <2>2 DEF Gone
<1>6. PacketCount \in Nat BY DemuxAssumption
<1>7. \A i \in 1..Len(demux_buffer) : demux_buffer[i] = device_stream.units[Gone + i] BY <1>4
<1>8. Right(Len(packets)) BY <1>4 DEF Right
<1>9. Len(packets) <= PacketCount BY <1>4, <1>6
<1>10. Len(demux_buffer) < demux_expected BY <1>3, <1>4
<1>11. InPlace(start, dummy) BY <1>3, <1>4, <1>5, <1>7, <1>8, <1>9, <1>10 DEF InPlace
<1> QED BY <1>2, <1>3, <1>11

LEMMA LostStep ==
  ASSUME DemuxTyped, DemuxNext, LostAfter, demux_lost PROVE demux_lost' /\ LostAfter'
<1>1. device_stream' = device_stream /\ demux_lost'
  <2>1. CASE \E n \in 1..PieceMax : Feed(n) BY <2>1 DEF Feed
  <2>2. CASE Wait BY <2>2 DEF Wait, Break, Reset
  <2>3. CASE MaybeDummy BY <2>3 DEF MaybeDummy, Loop
  <2>4. CASE RawStream BY <2>4 DEF RawStream
  <2>5. CASE Meta BY <2>5 DEF Meta, Loop
  <2>6. CASE FrameHeader BY <2>6 DEF FrameHeader, Loop, Reset
  <2>7. CASE Packet BY <2>7 DEF Packet, Loop
  <2> QED BY <2>1, <2>2, <2>3, <2>4, <2>5, <2>6, <2>7 DEF DemuxNext
<1>2. Len(packets) \in Nat
  <2>1. packets \in Seq(Seq(UnitSet)) BY DEF DemuxTyped
  <2> QED BY <2>1
<1>3. /\ Len(packets') \in Nat /\ Len(packets) <= Len(packets')
      /\ \A p \in 1..Len(packets) : packets'[p] = packets[p]
  <2>1. CASE Packet
    <3>1. /\ Len(packets') = Len(packets) + 1
          /\ \A p \in 1..Len(packets) : packets'[p] = packets[p]
      BY <2>1, PacketLeaves
    <3> QED BY <1>2, <3>1
  <2>2. CASE ~Packet
    <3>1. packets' = packets
      <4>1. CASE \E n \in 1..PieceMax : Feed(n) BY <4>1 DEF Feed
      <4>2. CASE Wait BY <4>2 DEF Wait, Break
      <4>3. CASE MaybeDummy BY <4>3 DEF MaybeDummy
      <4>4. CASE RawStream BY <4>4 DEF RawStream
      <4>5. CASE Meta BY <4>5 DEF Meta
      <4>6. CASE FrameHeader BY <4>6 DEF FrameHeader
      <4> QED BY <2>2, <4>1, <4>2, <4>3, <4>4, <4>5, <4>6 DEF DemuxNext
    <3> QED BY <1>2, <3>1
  <2> QED BY <2>1, <2>2
<1>4. PICK b \in 1..PacketCount :
        ~Valid(device_stream.sizes[b]) /\ b - 1 <= Len(packets) /\ Right(b - 1)
  BY DEF LostAfter
<1>5. PacketCount \in Nat BY DemuxAssumption
<1>6. b - 1 \in Nat /\ b - 1 <= Len(packets') BY <1>2, <1>3, <1>4, <1>5
<1>7. Right(b - 1)'
  <2> DEFINE n == b - 1
             m == Len(packets)
  <2>1. n \in Nat /\ m \in Nat /\ n <= m /\ Right(n) /\ \A p \in 1..m : packets'[p] = packets[p]
    BY <1>2, <1>3, <1>4, <1>6
  <2> HIDE DEF n, m
  <2>2. Right(n)' BY <1>1, <2>1, RightKept
  <2> QED BY <2>2 DEF n
<1>8. ~Valid(device_stream'.sizes[b]) BY <1>1, <1>4
<1> QED BY <1>1, <1>6, <1>7, <1>8 DEF LostAfter

LEMMA PlaceStep ==
  ASSUME DemuxTyped, DemuxNext, NEW start, NEW dummy, Laid(device_stream, start, dummy),
         ~demux_lost, InPlace(start, dummy)
  PROVE  device_stream' = device_stream /\ IF demux_lost' THEN LostAfter' ELSE InPlace(start, dummy)'
<1> DEFINE u == device_stream.units
<1>k. Len(packets) \in Nat
  <2>1. packets \in Seq(Seq(UnitSet)) BY DEF DemuxTyped
  <2> QED BY <2>1
<1> SUFFICES ASSUME NEW k \in Nat, k = Len(packets)
             PROVE  device_stream' = device_stream /\ IF demux_lost' THEN LostAfter' ELSE InPlace(start, dummy)'
  BY <1>k
<1>1. /\ NameSize \in Nat \ {0} /\ MetaSize \in Nat \ {0} /\ HeadSize \in Nat \ {0}
      /\ PacketMax \in Nat \ {0} /\ PacketCount \in Nat \ {0} /\ dummy \in {0, 1}
  BY DemuxAssumption DEF Laid
<1>2. /\ u \in Seq(UnitSet) /\ fed \in Nat /\ fed <= Len(u) /\ demux_buffer \in Seq(UnitSet)
      /\ Len(demux_buffer) <= fed /\ packets \in Seq(Seq(UnitSet)) /\ Expects(demux_state, demux_expected)
      /\ in_feed \in BOOLEAN /\ demux_lost = FALSE
  BY DEF DemuxTyped
<1>3. Len(u) \in Nat /\ Len(demux_buffer) \in Nat /\ k \in Nat BY <1>2
<1>4. Gone \in Nat /\ fed = Gone + Len(demux_buffer) BY <1>2, <1>3 DEF Gone
<1>5. k <= PacketCount /\ Right(k) /\ demux_state # "raw"
      /\ \A i \in 1..Len(demux_buffer) : demux_buffer[i] = u[Gone + i]
  BY DEF InPlace
<1>6. demux_expected \in Nat /\ demux_expected <= 2 * PacketMax BY <1>2, ExpectsLittle
<1>7. ASSUME packets' = packets, device_stream' = device_stream PROVE Right(Len(packets))'
  <2>1. Right(k)' BY <1>3, <1>5, <1>7, RightKept
  <2> QED BY <1>7, <2>1
\* Units that are taken leave the others where they are.
<1>8. ASSUME NEW n \in Nat, n <= Len(demux_buffer), Take(n), fed' = fed, device_stream' = device_stream
      PROVE  /\ Gone' = Gone + n
             /\ \A i \in 1..Len(demux_buffer') : demux_buffer'[i] = device_stream'.units[Gone' + i]
  <2>1. /\ Len(demux_buffer') = Len(demux_buffer) - n
        /\ \A i \in 1..Len(demux_buffer') : demux_buffer'[i] = demux_buffer[n + i]
    BY <1>8, TakeTyped
  <2>2. Gone' = Gone + n BY <1>3, <1>4, <1>8, <2>1 DEF Gone
  <2>3. ASSUME NEW i \in 1..Len(demux_buffer')
        PROVE  demux_buffer'[i] = device_stream'.units[Gone' + i]
    <3>1. n + i \in 1..Len(demux_buffer) /\ Gone' + i = Gone + (n + i) BY <1>3, <1>4, <1>8, <2>1, <2>2
    <3>2. demux_buffer[n + i] = u[Gone + (n + i)] BY <1>5, <3>1
    <3> QED BY <1>8, <2>1, <3>1, <3>2
  <2> QED BY <2>2, <2>3
<1>9. CASE \E n \in 1..PieceMax : Feed(n)
  <2>1. PICK n \in 1..PieceMax : Feed(n) BY <1>9
  <2>2. n \in Nat BY DemuxAssumption
  <2>3. /\ Len(demux_buffer') = Len(demux_buffer) + n
        /\ \A i \in 1..Len(demux_buffer') :
              demux_buffer'[i] = IF i <= Len(demux_buffer) THEN demux_buffer[i]
                                 ELSE device_stream.units[fed + (i - Len(demux_buffer))]
    BY <2>1, <2>2, FeedFacts
  <2>4. /\ in_feed' = TRUE /\ fed' = fed + n /\ device_stream' = device_stream
        /\ demux_state' = demux_state /\ demux_expected' = demux_expected
        /\ packets' = packets /\ demux_lost' = demux_lost
    BY <2>1 DEF Feed
  <2>5. Gone' = Gone BY <1>3, <1>4, <2>2, <2>3, <2>4 DEF Gone
  <2>6. ASSUME NEW i \in 1..Len(demux_buffer')
        PROVE  demux_buffer'[i] = device_stream'.units[Gone' + i]
    <3>1. CASE i <= Len(demux_buffer)
      <4>1. i \in 1..Len(demux_buffer) BY <1>3, <2>2, <2>3, <3>1
      <4> QED BY <1>5, <2>3, <2>4, <2>5, <3>1, <4>1
    <3>2. CASE ~(i <= Len(demux_buffer))
      <4>1. fed + (i - Len(demux_buffer)) = Gone + i BY <1>3, <1>4, <2>2, <2>3
      <4> QED BY <2>3, <2>4, <2>5, <3>2, <4>1
    <3> QED BY <3>1, <3>2
  <2>7. InPlace(start, dummy)'
    <3>1. Right(Len(packets))' BY <1>7, <2>4
    <3> QED BY <2>4, <2>5, <2>6, <3>1 DEF InPlace
  <2> QED BY <1>2, <2>4, <2>7
\* A parser that waits in its place has less than it awaits, which is not much.
<1>10. CASE Wait
  <2>1. Len(demux_buffer) < demux_expected
    <3>1. ~(demux_state # "raw" /\ Len(demux_buffer) >= demux_expected) BY <1>10 DEF Wait, Enough
    <3> QED BY <1>3, <1>5, <1>6, <3>1
  <2>2. ~(Len(demux_buffer) > 2 * PacketMax) BY <1>1, <1>3, <1>6, <2>1
  <2>3. /\ in_feed' = FALSE /\ fed' = fed /\ device_stream' = device_stream /\ packets' = packets
        /\ demux_buffer' = demux_buffer /\ demux_state' = demux_state
        /\ demux_expected' = demux_expected /\ demux_lost' = demux_lost
    BY <1>10, <2>2 DEF Wait, Break
  <2>4. Gone' = Gone BY <2>3 DEF Gone
  <2>5. Right(Len(packets))' BY <1>7, <2>3
  <2>6. InPlace(start, dummy)' BY <2>1, <2>3, <2>4, <2>5 DEF InPlace
  <2> QED BY <1>2, <2>3, <2>6
<1>11. CASE MaybeDummy
  <2>1. /\ demux_state = "maybe_dummy" /\ in_feed /\ Len(demux_buffer) >= demux_expected
        /\ fed' = fed /\ device_stream' = device_stream /\ packets' = packets /\ in_feed' = in_feed
        /\ demux_lost' = demux_lost /\ demux_state' = "device_meta" /\ demux_expected' = NameSize
    BY <1>11 DEF MaybeDummy, Loop, Enough, Awaits
  <2>2. Gone = 0 /\ k = 0 /\ demux_expected = 1 BY <1>2, <2>1 DEF InPlace, Expects
  <2>3. 1 <= Len(demux_buffer) BY <1>3, <2>1, <2>2
  <2>4. demux_buffer[1].field = IF dummy = 1 THEN "dummy" ELSE "name"
    <3>1. 1 \in 1..Len(demux_buffer) /\ Gone + 1 = 1 BY <1>3, <2>2, <2>3
    <3>2. demux_buffer[1] = u[1] BY <1>5, <3>1
    <3> QED BY <3>2 DEF Laid
  <2>5. Take(dummy)
    <3>1. CASE dummy = 1
      <4>1. demux_buffer[1].field = "dummy" BY <2>4, <3>1
      <4> QED BY <1>11, <3>1, <4>1 DEF MaybeDummy
    <3>2. CASE dummy = 0
      <4>1. demux_buffer[1].field = "name" BY <2>4, <3>2
      <4> QED BY <1>2, <1>11, <3>2, <4>1 DEF MaybeDummy
    <3> QED BY <1>1, <3>1, <3>2
  <2>6. dummy \in Nat /\ dummy <= Len(demux_buffer) BY <1>1, <1>3, <2>3
  <2>7. /\ Gone' = Gone + dummy
        /\ \A i \in 1..Len(demux_buffer') : demux_buffer'[i] = device_stream'.units[Gone' + i]
    BY <1>8, <2>1, <2>5, <2>6
  <2>8. Gone' = dummy BY <2>2, <2>6, <2>7
  <2>9. Right(Len(packets))' BY <1>7, <2>1
  <2>10. InPlace(start, dummy)' BY <1>5, <2>1, <2>2, <2>7, <2>8, <2>9 DEF InPlace
  <2> QED BY <1>2, <2>1, <2>10
\* The stream of a device that was asked for packets does not start as Annex B.
<1>12. CASE RawStream
  <2>1. demux_state = "maybe_dummy" /\ Len(demux_buffer) >= 2 /\ demux_buffer[1].field = "annexb"
    BY <1>12 DEF RawStream, IsAnnexB
  <2>2. Gone = 0 BY <2>1 DEF InPlace
  <2>3. 1 \in 1..Len(demux_buffer) /\ Gone + 1 = 1 BY <1>3, <2>1, <2>2
  <2>4. demux_buffer[1] = u[1] BY <1>5, <2>3
  <2>5. u[1].field = IF dummy = 1 THEN "dummy" ELSE "name" BY DEF Laid
  <2> QED BY <2>1, <2>4, <2>5
<1>13. CASE Meta
  <2>1. ASSUME Loop("device_meta"), Take(NameSize), Awaits("codec_meta", MetaSize),
               UNCHANGED <<demux_size, packets, in_feed, demux_lost>>
        PROVE  device_stream' = device_stream /\ demux_lost' = FALSE /\ InPlace(start, dummy)'
    <3>1. /\ demux_state = "device_meta" /\ in_feed /\ Len(demux_buffer) >= demux_expected
          /\ fed' = fed /\ device_stream' = device_stream /\ packets' = packets /\ in_feed' = in_feed
          /\ demux_lost' = demux_lost /\ demux_state' = "codec_meta" /\ demux_expected' = MetaSize
      BY <2>1 DEF Loop, Enough, Awaits
    <3>2. Gone = dummy /\ k = 0 /\ demux_expected = NameSize BY <1>2, <3>1 DEF InPlace, Expects
    <3>3. NameSize \in Nat /\ NameSize <= Len(demux_buffer) BY <1>1, <1>3, <3>1, <3>2
    <3>4. /\ Gone' = Gone + NameSize
          /\ \A i \in 1..Len(demux_buffer') : demux_buffer'[i] = device_stream'.units[Gone' + i]
      BY <1>8, <2>1, <3>1, <3>3
    <3>5. Right(Len(packets))' BY <1>7, <3>1
    <3>6. Gone' = dummy + NameSize BY <3>2, <3>4
    <3>7. InPlace(start, dummy)' BY <1>5, <3>1, <3>2, <3>4, <3>5, <3>6 DEF InPlace
    <3> QED BY <1>2, <3>1, <3>7
  <2>2. ASSUME Loop("codec_meta"), Take(MetaSize), Awaits("frame_header", HeadSize),
               UNCHANGED <<demux_size, packets, in_feed, demux_lost>>
        PROVE  device_stream' = device_stream /\ demux_lost' = FALSE /\ InPlace(start, dummy)'
    <3>1. /\ demux_state = "codec_meta" /\ in_feed /\ Len(demux_buffer) >= demux_expected
          /\ fed' = fed /\ device_stream' = device_stream /\ packets' = packets /\ in_feed' = in_feed
          /\ demux_lost' = demux_lost /\ demux_state' = "frame_header" /\ demux_expected' = HeadSize
      BY <2>2 DEF Loop, Enough, Awaits
    <3>2. Gone = dummy + NameSize /\ k = 0 /\ demux_expected = MetaSize BY <1>2, <3>1 DEF InPlace, Expects
    <3>3. MetaSize \in Nat /\ MetaSize <= Len(demux_buffer) BY <1>1, <1>3, <3>1, <3>2
    <3>4. /\ Gone' = Gone + MetaSize
          /\ \A i \in 1..Len(demux_buffer') : demux_buffer'[i] = device_stream'.units[Gone' + i]
      BY <1>8, <2>2, <3>1, <3>3
    <3>5. Right(Len(packets))' BY <1>7, <3>1
    <3>6. start[0] = dummy + NameSize + MetaSize BY DEF Laid
    <3>7. Gone' = start[Len(packets')] BY <3>1, <3>2, <3>4, <3>6
    <3>8. InPlace(start, dummy)' BY <1>5, <3>1, <3>4, <3>5, <3>7 DEF InPlace
    <3> QED BY <1>2, <3>1, <3>8
  <2> QED BY <1>13, <2>1, <2>2 DEF Meta
<1>14. CASE FrameHeader
  <2>1. /\ demux_state = "frame_header" /\ in_feed /\ Len(demux_buffer) >= demux_expected
        /\ fed' = fed /\ device_stream' = device_stream /\ packets' = packets
    BY <1>14 DEF FrameHeader, Loop, Enough
  <2>2. Gone = start[k] /\ demux_expected = HeadSize BY <1>2, <2>1 DEF InPlace, Expects
  <2>3. HeadSize \in Nat /\ HeadSize <= Len(demux_buffer) BY <1>1, <1>3, <2>1, <2>2
  <2>4. k < PacketCount
    <3>1. start[PacketCount] = Len(u) BY DEF Laid
    <3>2. k # PacketCount BY <1>1, <1>2, <1>3, <1>4, <2>2, <2>3, <3>1
    <3> QED BY <1>1, <1>3, <1>5, <3>2
  <2>5. k + 1 \in 1..PacketCount /\ (k + 1) - 1 = k BY <1>1, <1>3, <2>4
  <2>6. \A i \in 1..HeadSize : u[start[k] + i] = [field |-> "head", packet |-> k + 1, at |-> i]
    <3>1. \A i \in 1..HeadSize :
            u[start[(k + 1) - 1] + i] = [field |-> "head", packet |-> k + 1, at |-> i]
      BY <2>5 DEF Laid
    <3> QED BY <2>5, <3>1
  <2> DEFINE head == SubSeq(demux_buffer, 1, HeadSize)
             size == device_stream.sizes[k + 1]
  <2>7. head \in Seq(UnitSet) /\ Len(head) = HeadSize /\ \A i \in 1..HeadSize : head[i] = demux_buffer[i]
    BY <1>2, <2>3, TakeFacts
  <2>8. \A i \in 1..HeadSize : head[i] = [field |-> "head", packet |-> k + 1, at |-> i]
    <3>1. \A i \in 1..HeadSize : i \in 1..Len(demux_buffer) BY <1>3, <2>3
    <3> HIDE DEF head
    <3> QED BY <1>5, <2>2, <2>6, <2>7, <3>1
  <2>9. head = Units("head", k + 1, HeadSize)
    <3> DEFINE t == Units("head", k + 1, HeadSize)
    <3>1. /\ t \in Seq(UnitSet) /\ Len(t) = HeadSize
          /\ \A i \in 1..HeadSize : t[i] = [field |-> "head", packet |-> k + 1, at |-> i]
      <4> DEFINE p == k + 1
      <4>1. p \in Nat /\ "head" \in Fields BY <1>3 DEF Fields
      <4> HIDE DEF p
      <4>2. LET v == Units("head", p, HeadSize) IN
            /\ v \in Seq(UnitSet) /\ Len(v) = HeadSize
            /\ \A i \in 1..HeadSize : v[i] = [field |-> "head", packet |-> p, at |-> i]
        BY <2>3, <4>1, UnitsFacts
      <4> QED BY <4>2 DEF p
    <3> HIDE DEF head, t
    <3>2. Len(head) = Len(t) /\ \A i \in 1..Len(head) : head[i] = t[i] BY <2>7, <2>8, <3>1
    <3>3. head = t BY <2>7, <3>1, <3>2, SameUnits
    <3> QED BY <3>3 DEF t
  <2>10. Says(head) = {size}
    <3>1. k + 1 \in DOMAIN device_stream.sizes BY <2>5 DEF Laid
    <3>2. head[1].packet = k + 1
      <4>1. 1 \in 1..HeadSize BY <1>1
      <4> HIDE DEF head
      <4>2. head[1] = [field |-> "head", packet |-> k + 1, at |-> 1] BY <2>8, <4>1
      <4> QED BY <4>2
    <3> HIDE DEF head
    <3> QED BY <2>9, <3>1, <3>2 DEF Says
  <2>11. IF Valid(size)
         THEN /\ Take(HeadSize) /\ Awaits("packet", size) /\ UNCHANGED <<in_feed, demux_lost>>
         ELSE Reset /\ in_feed' = FALSE
    <3>1. \E s \in Says(head) :
            IF Valid(s)
            THEN /\ Take(HeadSize) /\ Awaits("packet", s) /\ demux_size' = s
                 /\ UNCHANGED <<in_feed, demux_lost>>
            ELSE Reset /\ in_feed' = FALSE
      BY <1>14 DEF FrameHeader
    <3> HIDE DEF head, size
    <3> QED BY <2>10, <3>1
  <2> HIDE DEF head
  <2>12. CASE Valid(size)
    <3>1. /\ Take(HeadSize) /\ demux_state' = "packet" /\ demux_expected' = size
          /\ in_feed' = in_feed /\ demux_lost' = demux_lost
      BY <2>11, <2>12 DEF Awaits
    <3>2. /\ Gone' = Gone + HeadSize
          /\ \A i \in 1..Len(demux_buffer') : demux_buffer'[i] = device_stream'.units[Gone' + i]
      BY <1>8, <2>1, <2>3, <3>1
    <3>3. Right(Len(packets))' BY <1>7, <2>1
    <3>4. /\ Len(packets') = k /\ Gone' = start[k] + HeadSize
          /\ demux_expected' = device_stream'.sizes[Len(packets') + 1] /\ Valid(demux_expected')
      BY <2>1, <2>2, <2>12, <3>1, <3>2
    <3>5. InPlace(start, dummy)'
      <4> HIDE DEF size, u
      <4> QED BY <1>5, <2>1, <2>4, <3>1, <3>2, <3>3, <3>4 DEF InPlace, Valid
    <3> QED BY <1>2, <2>1, <3>1, <3>5
  <2>13. CASE ~Valid(size)
    <3>1. demux_lost' = TRUE BY <2>11, <2>13 DEF Reset
    <3>2. Right(k)' BY <1>3, <1>5, <2>1, RightKept
    <3>3. /\ ~Valid(device_stream'.sizes[k + 1]) /\ (k + 1) - 1 <= Len(packets') /\ Right((k + 1) - 1)'
      <4>1. Len(packets') = k /\ k <= k BY <1>3, <2>1
      <4>2. Right((k + 1) - 1)' BY <2>5, <3>2
      <4> QED BY <2>1, <2>5, <2>13, <4>1, <4>2
    <3>4. LostAfter'
      <4> SUFFICES \E b \in 1..PacketCount :
            ~Valid(device_stream'.sizes[b]) /\ b - 1 <= Len(packets') /\ Right(b - 1)'
        BY DEF LostAfter
      <4> USE <2>5
      <4> WITNESS k + 1 \in 1..PacketCount
      <4> QED BY <3>3
    <3> QED BY <2>1, <3>1, <3>4
  <2> QED BY <2>12, <2>13
<1>15. CASE Packet
  <2>1. /\ demux_state = "packet" /\ in_feed /\ Len(demux_buffer) >= demux_expected
        /\ fed' = fed /\ device_stream' = device_stream /\ in_feed' = in_feed
        /\ demux_lost' = demux_lost /\ demux_state' = "frame_header" /\ demux_expected' = HeadSize
    BY <1>15 DEF Packet, Loop, Enough, Awaits
  <2> DEFINE size == device_stream.sizes[k + 1]
             last == packets'[k + 1]
  <2>2. k < PacketCount /\ Gone = start[k] + HeadSize /\ demux_expected = size /\ Valid(size)
    BY <2>1 DEF InPlace
  <2>3. size \in Nat BY <1>6, <2>2
  <2>4. /\ demux_expected <= Len(demux_buffer) /\ Take(demux_expected)
        /\ packets' \in Seq(Seq(UnitSet)) /\ Len(packets') = k + 1
        /\ \A p \in 1..k : packets'[p] = packets[p]
        /\ last \in Seq(UnitSet) /\ Len(last) = demux_expected
        /\ \A i \in 1..demux_expected : last[i] = demux_buffer[i]
    BY <1>15, PacketLeaves
  <2>5. k + 1 \in 1..PacketCount /\ (k + 1) - 1 = k /\ k + 1 \in Nat BY <1>1, <1>3, <2>2
  <2>6. /\ start[k + 1] = start[k] + HeadSize + size
        /\ \A i \in 1..size : u[start[k] + HeadSize + i] = [field |-> "payload", packet |-> k + 1, at |-> i]
    <3>1. /\ start[k + 1] = start[(k + 1) - 1] + HeadSize + device_stream.sizes[k + 1]
          /\ \A i \in 1..device_stream.sizes[k + 1] :
               u[start[(k + 1) - 1] + HeadSize + i] = [field |-> "payload", packet |-> k + 1, at |-> i]
      BY <2>5 DEF Laid
    <3> QED BY <2>5, <3>1
  <2> HIDE DEF last
  <2>7. \A i \in 1..size : last[i] = [field |-> "payload", packet |-> k + 1, at |-> i]
    <3>1. \A i \in 1..size : i \in 1..Len(demux_buffer) BY <1>3, <2>2, <2>3, <2>4
    <3> HIDE DEF size
    <3> QED BY <1>5, <2>2, <2>4, <2>6, <3>1
  <2>8. last = Units("payload", k + 1, size)
    <3> DEFINE p == k + 1
               v == Units("payload", p, size)
    <3>1. p \in Nat /\ "payload" \in Fields BY <2>5 DEF Fields
    <3> HIDE DEF p, size
    <3>2. /\ v \in Seq(UnitSet) /\ Len(v) = size
          /\ \A i \in 1..size : v[i] = [field |-> "payload", packet |-> p, at |-> i]
      BY <2>3, <3>1, UnitsFacts
    <3> HIDE DEF v
    <3>3. last \in Seq(UnitSet) /\ v \in Seq(UnitSet) /\ Len(last) = size /\ Len(v) = size
      BY <2>2, <2>4, <3>2
    <3>4. \A i \in 1..size : last[i] = [field |-> "payload", packet |-> p, at |-> i] BY <2>7 DEF p
    <3>5. Len(last) = Len(v) /\ \A i \in 1..Len(last) : last[i] = v[i] BY <3>2, <3>3, <3>4
    <3>6. last = v BY <3>3, <3>5, SameUnits
    <3> QED BY <3>6 DEF v, p
  <2>9. /\ Gone' = Gone + demux_expected
        /\ \A i \in 1..Len(demux_buffer') : demux_buffer'[i] = device_stream'.units[Gone' + i]
    BY <1>6, <1>8, <2>1, <2>4
  <2>10. Gone' = start[Len(packets')] BY <2>2, <2>4, <2>6, <2>9
  <2>11. Right(Len(packets))'
    <3>1. Right(k)'
      <4>1. /\ k <= k /\ device_stream' = device_stream /\ Right(k)
            /\ \A p \in 1..k : packets'[p] = packets[p]
        BY <1>5, <2>1, <2>4
      <4> QED BY <4>1, RightKept
    <3>2. Valid(device_stream'.sizes[k + 1])
          /\ packets'[k + 1] = Units("payload", k + 1, device_stream'.sizes[k + 1])
      BY <2>1, <2>2, <2>8 DEF last
    <3>3. \A p \in 1..(k + 1) : p \in 1..k \/ p = k + 1 BY <1>3
    <3>4. \A p \in 1..(k + 1) : /\ Valid(device_stream'.sizes[p])
                                /\ packets'[p] = Units("payload", p, device_stream'.sizes[p])
      <4> QED BY <3>1, <3>2, <3>3 DEF Right
    <3> QED BY <2>4, <3>4 DEF Right
  <2>12. Len(packets') <= PacketCount BY <1>1, <1>3, <2>2, <2>4
  <2>13. in_feed' = TRUE BY <1>2, <2>1
  <2>14. InPlace(start, dummy)' BY <2>1, <2>9, <2>10, <2>11, <2>12, <2>13 DEF InPlace
  <2> QED BY <1>2, <2>1, <2>14
<1> QED BY <1>9, <1>10, <1>11, <1>12, <1>13, <1>14, <1>15 DEF DemuxNext

DemuxInv == DemuxTyped /\ DemuxPlaced

LEMMA DemuxInvStep == ASSUME DemuxInv, DemuxNext PROVE DemuxInv'
<1>1. DemuxTyped' BY DemuxTypedStep DEF DemuxInv
<1>2. device_stream' = device_stream
  <2>1. CASE \E n \in 1..PieceMax : Feed(n) BY <2>1 DEF Feed
  <2>2. CASE Wait BY <2>2 DEF Wait, Break
  <2>3. CASE MaybeDummy BY <2>3 DEF MaybeDummy, Loop
  <2>4. CASE RawStream BY <2>4 DEF RawStream
  <2>5. CASE Meta BY <2>5 DEF Meta, Loop
  <2>6. CASE FrameHeader BY <2>6 DEF FrameHeader, Loop
  <2>7. CASE Packet BY <2>7 DEF Packet, Loop
  <2> QED BY <2>1, <2>2, <2>3, <2>4, <2>5, <2>6, <2>7 DEF DemuxNext
<1>3. ASSUME device_stream # AnnexB
      PROVE  \E start, dummy : /\ Laid(device_stream, start, dummy)'
                               /\ IF demux_lost' THEN LostAfter' ELSE InPlace(start, dummy)'
  <2>1. PICK start, dummy : /\ Laid(device_stream, start, dummy)
                            /\ IF demux_lost THEN LostAfter ELSE InPlace(start, dummy)
    BY <1>3 DEF DemuxInv, DemuxPlaced
  <2>2. DemuxTyped BY DEF DemuxInv
  <2>3. Laid(device_stream, start, dummy)' BY <1>2, <2>1 DEF Laid
  <2>4. IF demux_lost' THEN LostAfter' ELSE InPlace(start, dummy)'
    <3>1. CASE demux_lost
      <4>1. LostAfter BY <2>1, <3>1
      <4> QED BY <2>2, <3>1, <4>1, LostStep
    <3>2. CASE ~demux_lost
      <4>1. InPlace(start, dummy) BY <2>1, <3>2
      <4> QED BY <2>1, <2>2, <3>2, <4>1, PlaceStep
    <3> QED BY <3>1, <3>2
  <2> QED BY <2>3, <2>4
<1>4. device_stream' # AnnexB => device_stream # AnnexB BY <1>2
<1>5. DemuxPlaced' BY <1>3, <1>4 DEF DemuxPlaced
<1> QED BY <1>1, <1>5 DEF DemuxInv

LEMMA DemuxInvSame == ASSUME DemuxInv, UNCHANGED demuxVars PROVE DemuxInv'
<1>1. /\ device_stream' = device_stream /\ fed' = fed /\ demux_state' = demux_state
      /\ demux_buffer' = demux_buffer /\ demux_expected' = demux_expected /\ packets' = packets
      /\ in_feed' = in_feed /\ demux_lost' = demux_lost
  BY DEF demuxVars
<1>2. DemuxTyped' BY <1>1 DEF DemuxInv, DemuxTyped
<1>3. ASSUME NEW start, NEW dummy, Laid(device_stream, start, dummy),
             IF demux_lost THEN LostAfter ELSE InPlace(start, dummy)
      PROVE  Laid(device_stream, start, dummy)' /\ IF demux_lost' THEN LostAfter' ELSE InPlace(start, dummy)'
  <2>1. Laid(device_stream, start, dummy)' BY <1>1, <1>3 DEF Laid
  <2>2. LostAfter' <=> LostAfter BY <1>1 DEF LostAfter, Right
  <2>3. InPlace(start, dummy)' <=> InPlace(start, dummy) BY <1>1 DEF InPlace, Right, Gone
  <2> QED BY <1>1, <1>3, <2>1, <2>2, <2>3
<1>4. DemuxPlaced' BY <1>1, <1>3 DEF DemuxInv, DemuxPlaced
<1> QED BY <1>2, <1>4 DEF DemuxInv

\* A parser in its place that has the whole stream and waits has handed on
\* every packet.
LEMMA AllOut ==
  ASSUME DemuxTyped, NEW start, NEW dummy, Laid(device_stream, start, dummy), InPlace(start, dummy),
         ~in_feed, fed = Len(device_stream.units)
  PROVE  Len(packets) = PacketCount
<1> DEFINE k == Len(packets)
           whole == start[PacketCount]
<1>1. /\ NameSize \in Nat \ {0} /\ MetaSize \in Nat \ {0} /\ HeadSize \in Nat \ {0}
      /\ PacketCount \in Nat \ {0} /\ dummy \in {0, 1}
  BY DemuxAssumption DEF Laid
<1>2. packets \in Seq(Seq(UnitSet)) /\ demux_buffer \in Seq(UnitSet) /\ fed \in Nat
      /\ Expects(demux_state, demux_expected)
  BY DEF DemuxTyped
<1>3. k \in Nat /\ Len(demux_buffer) \in Nat BY <1>2
<1>4. k <= PacketCount /\ Len(demux_buffer) < demux_expected /\ demux_state # "raw" BY DEF InPlace
<1>5. whole = fed /\ start[0] = dummy + NameSize + MetaSize
      /\ \A p \in 0..PacketCount : start[p] \in Nat
  BY DEF Laid
<1>6. 0 \in 0..PacketCount /\ k \in 0..PacketCount BY <1>1, <1>3, <1>4
<1>7. start[0] <= whole BY <1>6, Ordered
<1>8. demux_expected \in Nat BY <1>2, ExpectsLittle
<1>9. Gone = fed - Len(demux_buffer) BY DEF Gone
<1> HIDE DEF whole
<1>10. fed < Gone + demux_expected BY <1>2, <1>3, <1>4, <1>8, <1>9
<1>11. ASSUME k # PacketCount
       PROVE  k + 1 \in 1..PacketCount /\ start[k] + HeadSize + device_stream.sizes[k + 1] <= whole
              /\ device_stream.sizes[k + 1] \in Nat
  <2>1. k + 1 \in 1..PacketCount /\ k + 1 \in 0..PacketCount /\ (k + 1) - 1 = k BY <1>1, <1>3, <1>4, <1>11
  <2>2. start[k + 1] = start[(k + 1) - 1] + HeadSize + device_stream.sizes[k + 1]
        /\ device_stream.sizes[k + 1] \in Nat
    BY <2>1 DEF Laid
  <2>3. start[k + 1] <= whole BY <2>1, Ordered DEF whole
  <2> QED BY <2>1, <2>2, <2>3
<1>12. demux_state # "maybe_dummy"
  <2> SUFFICES ASSUME demux_state = "maybe_dummy" PROVE FALSE OBVIOUS
  <2>1. Gone = 0 /\ demux_expected = 1 BY <1>2 DEF InPlace, Expects
  <2> QED BY <1>1, <1>2, <1>5, <1>6, <1>7, <1>10, <2>1
<1>13. demux_state # "device_meta"
  <2> SUFFICES ASSUME demux_state = "device_meta" PROVE FALSE OBVIOUS
  <2>1. Gone = dummy /\ demux_expected = NameSize BY <1>2 DEF InPlace, Expects
  <2> QED BY <1>1, <1>2, <1>5, <1>6, <1>7, <1>10, <2>1
<1>14. demux_state # "codec_meta"
  <2> SUFFICES ASSUME demux_state = "codec_meta" PROVE FALSE OBVIOUS
  <2>1. Gone = dummy + NameSize /\ demux_expected = MetaSize BY <1>2 DEF InPlace, Expects
  <2> QED BY <1>1, <1>2, <1>5, <1>6, <1>7, <1>10, <2>1
<1>15. CASE demux_state = "frame_header"
  <2>1. Gone = start[k] /\ demux_expected = HeadSize BY <1>2, <1>15 DEF InPlace, Expects
  <2> SUFFICES ASSUME k # PacketCount PROVE FALSE OBVIOUS
  <2>2. start[k] + HeadSize + device_stream.sizes[k + 1] <= whole
        /\ device_stream.sizes[k + 1] \in Nat /\ start[k] \in Nat
    BY <1>5, <1>6, <1>11
  <2> HIDE DEF k
  <2> QED BY <1>1, <1>2, <1>5, <1>10, <2>1, <2>2
<1>16. CASE demux_state = "packet"
  <2>1. Gone = start[k] + HeadSize /\ demux_expected = device_stream.sizes[k + 1] /\ k < PacketCount
    BY <1>16 DEF InPlace
  <2>2. start[k] + HeadSize + device_stream.sizes[k + 1] <= whole
        /\ device_stream.sizes[k + 1] \in Nat /\ start[k] \in Nat
    BY <1>3, <1>5, <1>6, <1>11, <2>1
  <2> HIDE DEF k
  <2> QED BY <1>1, <1>2, <1>5, <1>10, <2>1, <2>2
<1> QED BY <1>2, <1>4, <1>12, <1>13, <1>14, <1>15, <1>16 DEF Expects

LEMMA DemuxInvImplies == ASSUME DemuxInv PROVE DemuxerExact
<1> DEFINE sizes == device_stream.sizes
           bad == {p \in DOMAIN sizes : ~Valid(sizes[p])}
           first == CHOOSE p \in bad : \A q \in bad : p <= q
           good == IF bad = {} THEN Len(sizes) ELSE first - 1
           k == Len(packets)
<1>1. DemuxTyped /\ DemuxPlaced BY DEF DemuxInv
<1>2. PacketCount \in Nat BY DemuxAssumption
<1>3. k \in Nat
  <2>1. packets \in Seq(Seq(UnitSet)) BY <1>1 DEF DemuxTyped
  <2> QED BY <2>1
<1>4. ASSUME device_stream # AnnexB
      PROVE  /\ \A p \in 1..Min2(good, k) : packets[p] = Units("payload", p, sizes[p])
             /\ bad = {} => ~demux_lost /\ k <= good
             /\ ~in_feed /\ fed = Len(device_stream.units) => k >= good
  <2>1. PICK start, dummy : /\ Laid(device_stream, start, dummy)
                            /\ IF demux_lost THEN LostAfter ELSE InPlace(start, dummy)
    BY <1>1, <1>4 DEF DemuxPlaced
  <2>2. DOMAIN sizes = 1..PacketCount BY <2>1 DEF Laid
  <2>3. bad \subseteq 1..PacketCount /\ bad \subseteq Nat BY <1>2, <2>2
  <2>4. bad = {} => good = PacketCount
    <3>1. Len(sizes) = PacketCount
      <4>1. \A p \in 1..PacketCount : sizes[p] \in Nat BY <2>1 DEF Laid
      <4>2. sizes = [p \in 1..PacketCount |-> sizes[p]]
        BY <2>1 DEF Laid
      <4> QED BY <1>2, <2>2, <4>1, <4>2
    <3> QED BY <3>1
  <2>5. bad # {} => first \in bad /\ (\A q \in bad : first <= q) /\ good = first - 1
    <3> SUFFICES ASSUME bad # {} PROVE first \in bad /\ \A q \in bad : first <= q OBVIOUS
    <3> HIDE DEF bad
    <3>1. \E p \in bad : \A q \in bad : p <= q BY <2>3, LeastNumber
    <3> QED BY <3>1
  <2>6. \A p \in 1..PacketCount : p \in bad <=> ~Valid(sizes[p]) BY <2>2
  <2> HIDE DEF bad, first, good
  <2>7. CASE demux_lost
    <3>1. PICK b \in 1..PacketCount : ~Valid(sizes[b]) /\ b - 1 <= k /\ Right(b - 1)
      BY <2>1, <2>7 DEF LostAfter
    <3>2. b \in bad BY <2>6, <3>1
    <3>3. first \in 1..PacketCount /\ first <= b /\ ~Valid(sizes[first]) /\ good = first - 1
      BY <2>3, <2>5, <2>6, <3>2
    <3>4. ~(first <= b - 1)
      <4> SUFFICES ASSUME first <= b - 1 PROVE FALSE OBVIOUS
      <4>1. first \in 1..(b - 1) BY <1>2, <3>3
      <4> QED BY <3>1, <3>3, <4>1 DEF Right
    <3>5. first = b /\ good = b - 1 /\ good \in Nat /\ good <= k BY <1>2, <1>3, <3>1, <3>3, <3>4
    <3>6. Min2(good, k) = good BY <3>5 DEF Min2
    <3>7. \A p \in 1..good : packets[p] = Units("payload", p, sizes[p]) BY <3>1, <3>5 DEF Right
    <3> QED BY <1>3, <3>2, <3>5, <3>6, <3>7
  <2>8. CASE ~demux_lost
    <3>1. InPlace(start, dummy) BY <2>1, <2>8
    <3>2. k <= PacketCount /\ Right(k) BY <3>1 DEF InPlace
    <3>3. good \in Nat /\ k <= good
      <4>1. CASE bad = {} BY <1>2, <1>3, <2>4, <3>2, <4>1
      <4>2. CASE bad # {}
        <5>1. first \in 1..PacketCount /\ ~Valid(sizes[first]) /\ good = first - 1
          BY <2>3, <2>5, <2>6, <4>2
        <5>2. ~(first <= k)
          <6> SUFFICES ASSUME first <= k PROVE FALSE OBVIOUS
          <6>1. first \in 1..k BY <1>2, <1>3, <5>1
          <6> QED BY <3>2, <5>1, <6>1 DEF Right
        <5> QED BY <1>2, <1>3, <5>1, <5>2
      <4> QED BY <4>1, <4>2
    <3>4. \A p \in 1..Min2(good, k) : packets[p] = Units("payload", p, sizes[p])
      <4>1. \A p \in 1..Min2(good, k) : p \in 1..k BY <1>3, <3>3 DEF Min2
      <4> QED BY <3>2, <4>1 DEF Right
    <3>5. ASSUME ~in_feed, fed = Len(device_stream.units) PROVE k >= good
      <4>1. k = PacketCount BY <1>1, <2>1, <3>1, <3>5, AllOut
      <4>2. good <= PacketCount
        <5>1. CASE bad = {} BY <1>2, <2>4, <5>1
        <5>2. CASE bad # {}
          <6>1. first \in 1..PacketCount /\ good = first - 1 BY <2>3, <2>5, <5>2
          <6> QED BY <1>2, <6>1
        <5> QED BY <5>1, <5>2
      <4> QED BY <1>2, <3>3, <4>1, <4>2
    <3> QED BY <2>8, <3>3, <3>4, <3>5
  <2> QED BY <2>7, <2>8
<1>5. ~in_feed => Len(demux_buffer) <= 2 * PacketMax BY <1>1 DEF DemuxTyped
<1> QED BY <1>4, <1>5 DEF DemuxerExact

\* DemuxerExact for every size of the fields and of a packet, every number of
\* packets and every way the stream is cut: while it keeps its place the
\* parser's buffer is the part of the stream that follows what it has taken, at
\* the place its state names, and it loses its place only at an invalid size.
THEOREM PacketsComeOutWhole == DemuxSpec => []DemuxerExact
<1>1. DemuxInit => DemuxInv BY DemuxTypedInit, PlacedInit DEF DemuxInv
<1>2. DemuxInv /\ [DemuxNext]_demuxVars => DemuxInv' BY DemuxInvStep, DemuxInvSame
<1>3. DemuxInv => DemuxerExact BY DemuxInvImplies
<1> QED BY <1>1, <1>2, <1>3, PTL DEF DemuxSpec
=============================================================================
