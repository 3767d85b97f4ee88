------------------------------ MODULE LoginGuard ------------------------------
(***************************************************************************)
(* The login guard of app/security.py, the proofs of work of               *)
(* app/login_guard.py and the login route of app/routers/public.py.        *)
(*                                                                         *)
(* Passwords are checked in threads, many at a time.  So an attempt is     *)
(* charged to its address and its account before the check and refunded    *)
(* when the password was right.  Charges and lockouts live in memory; a    *)
(* thread mirrors them to the database, from which a restart takes them.   *)
(* The route, the reservations and the answers run on the event loop; the  *)
(* check of a proof and that of a password run in threads.                 *)
(*                                                                         *)
(* A lockout remembers the attempts it was made of.  The code compares the *)
(* moment until which it lasts, a float that no two lockouts share; in     *)
(* ticks of a clock two may, so their attempts tell them apart here.       *)
(* The history "guesses" holds what the guard counted and has not been     *)
(* told to forget: it loses the attempts of an address whose lockout ends, *)
(* is renewed, or is taken from the database, which has no contributors.   *)
(***************************************************************************)
EXTENDS Naturals, FiniteSets

CONSTANTS
  Attempts,        \* bound: the requests to /api/auth/login, numbered as they come
  Addresses, Names,
  Challenges,      \* bound: the challenges that are issued
  MaxAttempts,     \* lockout_threshold
  CaptchaAfter,    \* captcha_after_failures
  GuardWindow,     \* failure_window_seconds, in ticks of the clock
  Lockout,         \* lockout_seconds
  Ttl,             \* captcha_ttl_seconds
  IssueInterval,   \* captcha_issue_interval_seconds
  MaxLive,         \* 64 live challenges of one source
  MaxClock,        \* bound: the ticks
  MaxEvents        \* bound: switches, unlocks, saves and restarts

ASSUME GuardAssumption ==
  /\ Addresses \cap Names = {}   \* the keys "ip:" and "user:" differ
  /\ {MaxAttempts, CaptchaAfter, Lockout, Ttl} \subseteq Nat \ {0}
  /\ {GuardWindow, IssueInterval, MaxLive, MaxClock, MaxEvents} \cup Attempts \subseteq Nat

VARIABLES
  attempt,     \* each request
  failures,    \* _LOGIN_FAILURES, by key: the attempts charged
  lockout,     \* _LOGIN_LOCKOUTS, by address: until when (0: not)
  lockout_by,  \* _LOGIN_LOCKOUT_USERS: the attempts of these users that made it
  guard_on,    \* the setting "enabled"
  challenge,   \* login_pow_challenges
  last_issue,  \* _LAST_ISSUE_AT
  mirror_token,\* a token is in the queue of the persistence thread
  saved,       \* login_guard_state
  tick,        \* the clock
  events,      \* switches, unlocks, saves and restarts so far (bounded)
  guesses      \* history: reserved attempts not known to be the owner's

guardVars == <<attempt, failures, lockout, lockout_by, guard_on, challenge,
               last_issue, mirror_token, saved, tick, events, guesses>>

Keys == Addresses \cup Names
NoChallenge == "none"
NobodyFailed == [k \in Keys |-> {}]
NoLockout == [ip \in Addresses |-> 0]
NothingSaved == [failures |-> NobodyFailed, lockout |-> NoLockout, guesses |-> {}]

GuardInit ==
  /\ attempt = [a \in Attempts |-> [pc |-> "new", ip |-> "", user |-> "", at |-> 0,
                                    by |-> {}, proof |-> NoChallenge]]
  /\ failures = NobodyFailed /\ lockout = NoLockout
  /\ lockout_by = [ip \in Addresses |-> {}]
  /\ guard_on = TRUE
  /\ challenge = [c \in Challenges |-> [pc |-> "unknown", ip |-> "", user |-> "", expires |-> 0]]
  /\ last_issue = [ip \in Addresses |-> 0]
  /\ mirror_token = FALSE /\ saved = NothingSaved
  /\ tick = 1 /\ events = 0 /\ guesses = {}

-----------------------------------------------------------------------------
(* Counting.  Every reader prunes what has left the window first. *)
Recent(as, now) == {a \in as : now - attempt[a].at <= GuardWindow}
Failed(key) == Cardinality(Recent(failures[key], tick))
Locked(ip) == lockout[ip] > tick

\* record_login_failure and reserve_login_attempt charge an attempt alike: the
\* charge that reaches the threshold locks the address and clears its count.
Trips(a) == Failed(attempt[a].ip) + 1 >= MaxAttempts
Contributors(a) == Recent(failures[attempt[a].ip], tick) \cup {a}

Charge(a, pc) ==
  LET ip == attempt[a].ip u == attempt[a].user IN
  /\ failures' = [failures EXCEPT
       ![u] = Recent(@, tick) \cup {a},
       ![ip] = IF Trips(a) THEN {} ELSE Recent(@, tick) \cup {a}]
  /\ lockout' = IF Trips(a) THEN [lockout EXCEPT ![ip] = tick + Lockout] ELSE lockout
  /\ lockout_by' = IF Trips(a) THEN [lockout_by EXCEPT ![ip] = Contributors(a)] ELSE lockout_by
  /\ attempt' = [attempt EXCEPT ![a].pc = pc, ![a].at = tick,
                  ![a].by = IF Trips(a) THEN Contributors(a) ELSE {}]

Goes(a, pc) == attempt' = [attempt EXCEPT ![a].pc = pc]
Ends(a, pc) == attempt' = [attempt EXCEPT ![a].pc = pc, ![a].by = {}]
CountsKept == UNCHANGED <<failures, lockout, lockout_by>>
SavedKept == UNCHANGED saved
OutsideKept == UNCHANGED <<guard_on, challenge, last_issue, tick>>
Happens == events < MaxEvents /\ events' = events + 1
From(ip) == {a \in guesses : attempt[a].ip = ip}
OnlyOf(u, as) == \A a \in as : attempt[a].user = u

-----------------------------------------------------------------------------
(* The login route. *)

\* login_rate_limit_status decides whether a proof is needed.
Arrive(a, ip, u) ==
  /\ attempt[a].pc = "new" /\ \A b \in Attempts : attempt[b].pc = "new" => a <= b
  /\ attempt' = [attempt EXCEPT ![a] = [@ EXCEPT
       !.ip = ip, !.user = u,
       !.pc = IF guard_on /\ Locked(ip) THEN "refused"
              ELSE IF guard_on /\ (Failed(ip) >= CaptchaAfter \/ Failed(u) >= CaptchaAfter)
              THEN "proving" ELSE "ready"]]
  /\ CountsKept /\ SavedKept /\ OutsideKept /\ UNCHANGED <<mirror_token, guesses, events>>

\* verify_proof, in a thread: the row of the challenge is read,
ReadProof(a, c) ==
  LET row == challenge[c] IN
  /\ attempt[a].pc = "proving"
  /\ \/ /\ row.pc = "issued" /\ row.expires > tick
        /\ row.ip = attempt[a].ip /\ row.user = attempt[a].user
        /\ attempt' = [attempt EXCEPT ![a].pc = "consuming", ![a].proof = c]
     \/ Ends(a, "refused")
  /\ CountsKept /\ SavedKept /\ OutsideKept /\ UNCHANGED <<mirror_token, guesses, events>>

\* and the challenge is used up, if nobody was faster.
ConsumeProof(a) ==
  LET c == attempt[a].proof
      won == challenge[c].pc = "issued" /\ challenge[c].expires > tick
  IN /\ attempt[a].pc = "consuming"
     /\ Goes(a, IF won THEN "ready" ELSE "refused")
     /\ challenge' = IF won THEN [challenge EXCEPT ![c].pc = "used"] ELSE challenge
     /\ CountsKept /\ SavedKept
     /\ UNCHANGED <<mirror_token, guesses, guard_on, last_issue, tick, events>>

\* Variant: the limit is looked at, and the charge made only by a failure.
ReserveOnFailure(a) ==
  /\ attempt[a].pc = "ready"
  /\ Goes(a, IF guard_on /\ Locked(attempt[a].ip) THEN "refused" ELSE "checking")
  /\ guesses' = IF guard_on /\ ~Locked(attempt[a].ip) THEN guesses \cup {a} ELSE guesses
  /\ CountsKept /\ SavedKept /\ OutsideKept /\ UNCHANGED <<mirror_token, events>>
\* reserve_login_attempt: the limit is looked at and the attempt charged.
Reserve(a) ==
  /\ attempt[a].pc = "ready"
  /\ \/ ~guard_on /\ Goes(a, "checking") /\ CountsKept /\ UNCHANGED guesses
     \/ guard_on /\ Locked(attempt[a].ip) /\ Ends(a, "refused") /\ CountsKept /\ UNCHANGED guesses
     \/ /\ guard_on /\ ~Locked(attempt[a].ip)
        /\ Charge(a, "charged")
        /\ guesses' = guesses \cup {a}
  /\ SavedKept /\ OutsideKept /\ UNCHANGED <<mirror_token, events>>

\* The password was wrong.  The charge is the record of it; an attempt that
\* was let through while the guard was off is recorded now.
LoginFails(a) ==
  /\ \/ /\ attempt[a].pc = "checking" /\ guard_on /\ Charge(a, "failed")
        /\ guesses' = IF Trips(a) /\ Locked(attempt[a].ip) THEN guesses \ From(attempt[a].ip)
                      ELSE guesses
     \/ /\ attempt[a].pc = "charged" \/ (attempt[a].pc = "checking" /\ ~guard_on)
        /\ Ends(a, "failed") /\ CountsKept /\ UNCHANGED guesses
  /\ mirror_token' = TRUE
  /\ SavedKept /\ OutsideKept /\ UNCHANGED events

\* The password was right, but no session was made: the charge stays.
SessionRefused(a) ==
  /\ attempt[a].pc \in {"charged", "checking"}
  /\ Ends(a, "failed")
  /\ CountsKept /\ SavedKept /\ OutsideKept /\ UNCHANGED <<mirror_token, guesses, events>>

\* refund_login_attempt takes the charge back, or the lockout it tripped if
\* nobody else contributed; record_login_success forgets what the account
\* itself failed.  What other accounts failed at this address stays.
Released(a) ==
  LET ip == attempt[a].ip u == attempt[a].user
      refunded == attempt[a].by # {} /\ lockout_by[ip] = attempt[a].by
  IN /\ refunded \/ (guard_on /\ lockout[ip] # 0)
     /\ OnlyOf(u, lockout_by[ip])

Own(a) == {b \in Attempts : attempt[b].user = attempt[a].user}

LoginSucceeds(a) ==
  LET ip == attempt[a].ip u == attempt[a].user IN
  /\ attempt[a].pc \in {"charged", "checking"}
  /\ Ends(a, "done")
  /\ failures' = [failures EXCEPT ![u] = IF guard_on THEN {} ELSE @ \ {a},
                                      ![ip] = @ \ (IF guard_on THEN Own(a) ELSE {a})]
  /\ lockout' = IF Released(a) THEN [lockout EXCEPT ![ip] = 0] ELSE lockout
  /\ lockout_by' = IF Released(a) THEN [lockout_by EXCEPT ![ip] = {}] ELSE lockout_by
  /\ guesses' = guesses \ (IF guard_on \/ Released(a) THEN Own(a) \cap From(ip) ELSE {a})
  /\ mirror_token' = TRUE
  /\ SavedKept /\ OutsideKept /\ UNCHANGED events

-----------------------------------------------------------------------------
(* Challenges, settings, time. *)

\* issue_challenge and create_pow_challenge: one of a source in an interval,
\* so many of a source alive, expired ones pruned in the same transaction.
Live(ip) == {c \in Challenges : challenge[c].pc \in {"issued", "used"}
                                /\ challenge[c].ip = ip /\ challenge[c].expires > tick}

IssueChallenge(c, ip, u) ==
  /\ challenge[c].pc = "unknown"
  /\ tick - last_issue[ip] >= IssueInterval
  /\ last_issue' = [last_issue EXCEPT ![ip] = tick]
  /\ Cardinality(Live(ip)) < MaxLive
  /\ challenge' = [d \in Challenges |->
       IF d = c THEN [pc |-> "issued", ip |-> ip, user |-> u, expires |-> tick + Ttl]
       ELSE IF challenge[d].pc # "unknown" /\ challenge[d].expires <= tick
            THEN [challenge[d] EXCEPT !.pc = "pruned"] ELSE challenge[d]]
  /\ CountsKept /\ SavedKept /\ UNCHANGED <<attempt, guard_on, mirror_token, tick, guesses, events>>

\* save_login_guard_config.
SwitchGuard ==
  /\ Happens
  /\ guard_on' = ~guard_on
  /\ CountsKept /\ SavedKept
  /\ UNCHANGED <<attempt, challenge, last_issue, mirror_token, tick, guesses>>

\* clear_login_guard_key: an administrator unlocks an address.
Unlock(ip) ==
  /\ Happens
  /\ failures' = [failures EXCEPT ![ip] = {}]
  /\ lockout' = [lockout EXCEPT ![ip] = 0]
  /\ lockout_by' = [lockout_by EXCEPT ![ip] = {}]
  /\ guesses' = guesses \ From(ip)
  /\ mirror_token' = TRUE
  /\ SavedKept /\ OutsideKept /\ UNCHANGED attempt

\* A lockout that ends takes the charges it was made of with it.
Expired(ip, now) == lockout[ip] \in 1..now

Tick ==
  /\ tick < MaxClock /\ tick' = tick + 1
  /\ guesses' = {a \in guesses : ~Expired(attempt[a].ip, tick + 1)}
  /\ lockout' = [ip \in Addresses |-> IF Expired(ip, tick + 1) THEN 0 ELSE lockout[ip]]
  /\ lockout_by' = [ip \in Addresses |-> IF Expired(ip, tick + 1) THEN {} ELSE lockout_by[ip]]
  /\ SavedKept
  /\ UNCHANGED <<attempt, failures, guard_on, challenge, last_issue, mirror_token, events>>

-----------------------------------------------------------------------------
(* The persistence thread, and a restart. *)

\* The thread copies the counts under their lock and saves the copy; a save
\* that fails is only logged.  (The copy and the commit are one step: a crash
\* between them is one before both.)
PersistState ==
  /\ Happens
  /\ mirror_token /\ mirror_token' = FALSE
  /\ saved' \in {saved, [failures |-> failures, lockout |-> lockout, guesses |-> guesses]}
  /\ UNCHANGED <<attempt, guesses>> /\ CountsKept /\ OutsideKept

\* enable_login_guard_persistence.  Who contributed to a lockout is not saved.
Restart ==
  /\ Happens
  /\ failures' = [k \in Keys |-> Recent(saved.failures[k], tick)]
  /\ lockout' = [ip \in Addresses |-> IF saved.lockout[ip] > tick THEN saved.lockout[ip] ELSE 0]
  /\ lockout_by' = [ip \in Addresses |-> {}]
  /\ attempt' = [a \in Attempts |-> IF attempt[a].pc \in {"new", "failed", "done"} THEN attempt[a]
                                    ELSE [attempt[a] EXCEPT !.pc = "refused", !.by = {}]]
  /\ mirror_token' = TRUE
  /\ last_issue' = [ip \in Addresses |-> 0]
  /\ guesses' = {a \in guesses \cap saved.guesses : lockout'[attempt[a].ip] = 0}
  /\ UNCHANGED <<guard_on, challenge, saved, tick>>

GuardNext ==
  \/ \E a \in Attempts :
       \/ \E ip \in Addresses, u \in Names : Arrive(a, ip, u)
       \/ \E c \in Challenges : ReadProof(a, c)
       \/ ConsumeProof(a) \/ Reserve(a) \/ LoginFails(a) \/ SessionRefused(a) \/ LoginSucceeds(a)
  \/ \E c \in Challenges, ip \in Addresses, u \in Names : IssueChallenge(c, ip, u)
  \/ SwitchGuard \/ \E ip \in Addresses : Unlock(ip)
  \/ Tick \/ PersistState \/ Restart

GuardSpec == GuardInit /\ [][GuardNext]_guardVars

-----------------------------------------------------------------------------
(* Properties. *)

\* However many logins run at once, whoever else logs in from the address and
\* whenever the server restarts, the guesses made from an address within a
\* window do not pass the threshold, counted since its last lockout ended, was
\* renewed, or came back from the database; and one proof of work carries one
\* attempt.
AttemptsBounded ==
  /\ \A ip \in Addresses : Cardinality(Recent(From(ip), tick)) <= MaxAttempts
  /\ \A a, b \in Attempts :
       /\ attempt[a].proof = attempt[b].proof /\ attempt[a].proof # NoChallenge
       /\ {attempt[a].pc, attempt[b].pc} \cap {"proving", "consuming", "refused"} = {}
       => a = b
=============================================================================
