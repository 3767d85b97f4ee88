-------------------------------- MODULE IpBans --------------------------------
(***************************************************************************)
(* Banned addresses: app/ip_ban.py over app/storage_bans.py, as            *)
(* app/access_gate.py asks them on every request and every handshake.      *)
(*                                                                         *)
(* The rows of ip_bans are the truth.  Requests look at a snapshot of them *)
(* that is loaded again when it is older than a TTL and after each change  *)
(* this process makes.  Changes are made in threads: a transaction, then   *)
(* the reload; the command line and other tools write the same rows.       *)
(***************************************************************************)
EXTENDS Naturals, FiniteSets

CONSTANTS
  BanIps,        \* addresses
  ProtectedIps,  \* loopback, own and proxy addresses
  BanCallers,    \* threads of administrators and of the maintenance task
  SnapshotTtl,   \* SNAPSHOT_TTL_SECONDS, in ticks
  BanTicks       \* bound: the clock stops here

ASSUME BanAssumption ==
  /\ ProtectedIps \subseteq BanIps /\ BanIps \cap {"idle", "expired"} = {}
  /\ SnapshotTtl \in Nat \ {0} /\ BanTicks \in Nat

VARIABLES
  ban_row,     \* ip_bans: until when, Forever, or not in force
  ban_clock,
  ban_seen,    \* _snapshot: the same, of the addresses in it
  ban_loaded,  \* _snapshot_loaded_at (-1 is never: 0, the clock starts at 1)
  ban_call,    \* what a thread has still to do
  load_failed, \* history: the last reload could not read the rows
  foreign      \* history: rows others changed since they were last read

banVars == <<ban_row, ban_clock, ban_seen, ban_loaded, ban_call, load_failed, foreign>>

NotBanned == 0
Forever == BanTicks + 10
InForce(until) == until > ban_clock
Durations == {1, 2, BanTicks + 9}   \* the last is permanent
Until(d) == IF d = BanTicks + 9 THEN Forever ELSE ban_clock + d

BanInit ==
  /\ ban_row = [ip \in BanIps |-> NotBanned] /\ ban_seen = [ip \in BanIps |-> NotBanned]
  /\ ban_clock = 1 /\ ban_loaded = 0
  /\ ban_call = [c \in BanCallers |-> "idle"]
  /\ load_failed = FALSE /\ foreign = {}

-----------------------------------------------------------------------------
(* Changes. *)

\* ban and upsert_ban: a second ban of an address replaces its time.
Ban(c, ip, d) ==
  /\ ban_call[c] = "idle" /\ ip \notin ProtectedIps
  /\ ban_row' = [ban_row EXCEPT ![ip] = Until(d)]
  /\ ban_call' = [ban_call EXCEPT ![c] = ip]
  /\ UNCHANGED <<ban_clock, ban_seen, ban_loaded, load_failed, foreign>>

\* unban and revoke_ban reload even when there was nothing to lift.
Unban(c, ip) ==
  /\ ban_call[c] = "idle"
  /\ ban_row' = [ban_row EXCEPT ![ip] = NotBanned]
  /\ ban_call' = [ban_call EXCEPT ![c] = ip]
  /\ UNCHANGED <<ban_clock, ban_seen, ban_loaded, load_failed, foreign>>

\* expire_due and expire_bans mark what has run out, in one transaction.
RunOut == {ip \in BanIps : ban_row[ip] # NotBanned /\ ~InForce(ban_row[ip])}

ExpireDue(c) ==
  /\ ban_call[c] = "idle" /\ RunOut # {}
  /\ ban_row' = [ip \in BanIps |-> IF ip \in RunOut THEN NotBanned ELSE ban_row[ip]]
  /\ ban_call' = [ban_call EXCEPT ![c] = "expired"]
  /\ UNCHANGED <<ban_clock, ban_seen, ban_loaded, load_failed, foreign>>

\* Another process lifts or sets a ban: nothing reloads here.
BanOutside(ip, d) ==
  /\ ip \notin ProtectedIps
  /\ ban_row' = [ban_row EXCEPT ![ip] = IF d = 1 THEN NotBanned ELSE Until(d)]
  /\ foreign' = foreign \cup {ip}
  /\ UNCHANGED <<ban_clock, ban_seen, ban_loaded, ban_call, load_failed>>

-----------------------------------------------------------------------------
(* Reading. *)
ActiveRows == [ip \in BanIps |-> IF InForce(ban_row[ip]) THEN ban_row[ip] ELSE NotBanned]
Stale == ban_loaded = 0 \/ ban_clock - ban_loaded >= SnapshotTtl

\* _load_snapshot_locked: rows that cannot be read leave the old snapshot.
Load ==
  /\ ban_loaded' = ban_clock
  /\ \/ ban_seen' = ActiveRows /\ load_failed' = FALSE /\ foreign' = {}
     \/ ban_seen' = ban_seen /\ load_failed' = TRUE /\ foreign' = foreign

\* Variant: the reload after a change waits for the TTL.
RefreshUnforced(c) ==
  /\ ban_call[c] # "idle"
  /\ ban_call' = [ban_call EXCEPT ![c] = "idle"]
  /\ IF Stale THEN Load ELSE UNCHANGED <<ban_seen, ban_loaded, load_failed, foreign>>
  /\ UNCHANGED <<ban_row, ban_clock>>
\* refresh_snapshot forces the reload.
RefreshSnapshot(c) ==
  /\ ban_call[c] # "idle"
  /\ ban_call' = [ban_call EXCEPT ![c] = "idle"]
  /\ Load
  /\ UNCHANGED <<ban_row, ban_clock>>

\* is_banned, asked by access_gate.evaluate: reloads an old snapshot and takes
\* a ban that has run out from it.
AskGate(ip) ==
  /\ IF Stale THEN Load
     ELSE /\ ban_seen[ip] # NotBanned /\ ~InForce(ban_seen[ip])
          /\ ban_seen' = [ban_seen EXCEPT ![ip] = NotBanned]
          /\ UNCHANGED <<ban_loaded, load_failed, foreign>>
  /\ UNCHANGED <<ban_row, ban_clock, ban_call>>

BanTick ==
  /\ ban_clock < BanTicks /\ ban_clock' = ban_clock + 1
  /\ UNCHANGED <<ban_row, ban_seen, ban_loaded, ban_call, load_failed, foreign>>

BanNext ==
  \/ \E c \in BanCallers :
       \/ ExpireDue(c) \/ RefreshSnapshot(c)
       \/ \E ip \in BanIps : Unban(c, ip) \/ \E d \in Durations : Ban(c, ip, d)
  \/ \E ip \in BanIps : AskGate(ip) \/ \E d \in Durations : BanOutside(ip, d)
  \/ BanTick

BanSpec == BanInit /\ [][BanNext]_banVars

-----------------------------------------------------------------------------
(* Properties. *)

\* What the gate would say now, if the rows can be read.
Denied(ip) == IF Stale THEN InForce(ban_row[ip]) ELSE InForce(ban_seen[ip])

\* Once a ban or its lifting has returned, the gate follows it at once, and
\* not only after the TTL, whatever other changes and reloads run beside it;
\* it may lag only while the rows cannot be read or after another process
\* changed them.  Protected addresses are never shut out.
BansEnforced ==
  \A ip \in BanIps :
    /\ ip \in ProtectedIps => ~InForce(ban_row[ip]) /\ ~InForce(ban_seen[ip])
    /\ Denied(ip) # InForce(ban_row[ip]) =>
         load_failed \/ ip \in foreign \/ \E c \in BanCallers : ban_call[c] = ip
=============================================================================
