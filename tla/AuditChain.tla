------------------------------ MODULE AuditChain ------------------------------
(***************************************************************************)
(* The audit log in the database, app/storage.py and app/storage_audit.py: *)
(* a chain of hashes whose front is cut off by number and by age, and the  *)
(* alerts projected from it.                                               *)
(*                                                                         *)
(* Each function is one transaction.  A hash is the pair of the hash before*)
(* and the event, which is what a digest stands for; an event is its row   *)
(* id.  An event of a dedupe_key that is in the log changes nothing and is *)
(* left out.                                                               *)
(***************************************************************************)
EXTENDS Naturals, Sequences, FiniteSets

CONSTANTS
  RowLimits,   \* AUDIT_MAX_ROWS, one of these at each start
  PruneBatch,  \* min(AUDIT_PRUNE_BATCH, a tenth of AUDIT_MAX_ROWS)
  AlertLimit,  \* AUDIT_ALERT_MAX_ROWS
  RetentionDays,\* log_retention_days
  LegacyRows,  \* events of a database from before the chain
  Dates,       \* bound: the wall clock's days, in any order
  MaxRecords,  \* bound: events
  MaxStarts    \* bound: starts

ASSUME ChainAssumption ==
  /\ RowLimits \subseteq Nat \ {0} /\ {PruneBatch, AlertLimit} \subseteq Nat \ {0}
  /\ {RetentionDays, LegacyRows, MaxRecords, MaxStarts} \subseteq Nat /\ Dates \subseteq Nat

VARIABLES
  log,        \* audit_log: [id, date, kind, prev, hash], by id
  integrity,  \* audit_integrity_state
  alerts,     \* audit_alerts: [id, visible, handled, link]
  next_row,   \* AUTOINCREMENT
  max_rows,   \* AUDIT_MAX_ROWS of this process
  trimmed_on, \* the day of the last retention run
  date,       \* the wall clock
  starts,
  todo,       \* history: visible alerts nobody has handled
  cut_fresh   \* history: rows cut off by age that were not old enough

chainVars == <<log, integrity, alerts, next_row, max_rows, trimmed_on, date, starts, todo, cut_fresh>>

NoHash == <<>>
HashOf(prev, id) == <<prev, id>>
NoState == [missing |-> TRUE, anchor |-> NoHash, head |-> NoHash, head_id |-> 0, count |-> 0]

\* A database of an older version has rows without hashes, and no state.
ChainInit ==
  /\ log = [i \in 1..LegacyRows |-> [id |-> i, date |-> 1, kind |-> "plain", prev |-> NoHash, hash |-> NoHash]]
  /\ integrity = NoState /\ alerts = {} /\ next_row = LegacyRows + 1 /\ max_rows = 0
  /\ trimmed_on = 0 /\ date = 1 /\ starts = 0 /\ todo = {} /\ cut_fresh = {}

Running == starts > 0

\* _prune_audit_alerts: the oldest that are handled or hidden, up to the excess.
AlertsPruned(as) ==
  LET done == {a \in as : a.handled \/ ~a.visible}
      older(a) == Cardinality({b \in done : b.id < a.id})
  IN {a \in as : ~(a \in done /\ older(a) + AlertLimit < Cardinality(as))}

\* Variant: the anchor stays where it was.
AnchorStays(state, row, number) == [state EXCEPT !.count = @ - number]
AnchorAt(state, row, number) == [state EXCEPT !.anchor = row.hash, !.count = @ - number]

\* What both ways of cutting do: the rows up to "last" go, which are the first
\* ones since the log is in the order of ids; the hash of the last row cut off
\* is the anchor of the chain, and alerts no longer point to the rows.
CutTo(db, last) ==
  LET boundary == CHOOSE i \in DOMAIN db.log : db.log[i].id = last IN
  [log |-> SubSeq(db.log, boundary + 1, Len(db.log)),
   integrity |-> AnchorAt(db.integrity, db.log[boundary], boundary),
   alerts |-> AlertsPruned({[a EXCEPT !.link = @ /\ a.id > last] : a \in db.alerts})]

\* _prune_audit_prefix: room for "reserve" rows, a batch at a time; nothing if
\* the number recorded is not that of the rows.
Pruned(db, limit, reserve) ==
  LET target == IF limit > reserve THEN limit - reserve ELSE 0
      excess == db.integrity.count - target
      wanted == IF excess > PruneBatch THEN excess ELSE PruneBatch
      number == IF wanted > db.integrity.count THEN db.integrity.count ELSE wanted
  IN IF db.integrity.count <= target \/ Len(db.log) # db.integrity.count THEN db
     ELSE CutTo(db, db.log[number].id)

Database == [log |-> log, integrity |-> integrity, alerts |-> alerts]
Becomes(db) == log' = db.log /\ integrity' = db.integrity /\ alerts' = db.alerts

\* record_audit_event; "alert": one an administrator has to look at, "noise":
\* a failure that the dashboard does not show, so it has no alert.
AlertFor(id) == [id |-> id, visible |-> TRUE, handled |-> FALSE, link |-> TRUE]

RecordEvent(kind) ==
  LET db == Pruned(Database, max_rows, 1)
      hash == HashOf(integrity.head, next_row)
  IN /\ Running /\ next_row <= MaxRecords
     /\ log' = Append(db.log, [id |-> next_row, date |-> date, kind |-> kind,
                               prev |-> integrity.head, hash |-> hash])
     /\ integrity' = [db.integrity EXCEPT !.head = hash, !.head_id = next_row, !.count = @ + 1]
     /\ alerts' = db.alerts \cup (IF kind = "alert" THEN {AlertFor(next_row)} ELSE {})
     /\ todo' = IF kind = "alert" THEN todo \cup {next_row} ELSE todo
     /\ next_row' = next_row + 1
     /\ UNCHANGED <<max_rows, trimmed_on, date, starts, cut_fresh>>

\* prune_audit_log_by_age: the rows before the first that is young enough.
Expired(r, today) == r.date + RetentionDays < today
OldRows(rows, today) ==
  {r \in {rows[i] : i \in DOMAIN rows} : /\ Expired(r, today)
     /\ \A i \in DOMAIN rows : ~Expired(rows[i], today) => r.id < rows[i].id}

TrimmedByAge(db, today) ==
  LET old == OldRows(db.log, today)
      last == CHOOSE r \in old : \A q \in old : q.id <= r.id
  IN IF old = {} \/ Len(db.log) # db.integrity.count THEN db ELSE CutTo(db, last.id)

\* run_log_retention: once a day.
Trim ==
  LET db == TrimmedByAge(Database, date) IN
  /\ Running /\ RetentionDays > 0 /\ trimmed_on # date /\ trimmed_on' = date
  /\ Becomes(db)
  /\ cut_fresh' = cut_fresh \cup {r \in {log[i] : i \in DOMAIN log} :
                    ~Expired(r, date) /\ \A i \in DOMAIN db.log : db.log[i].id # r.id}
  /\ UNCHANGED <<next_row, max_rows, date, starts, todo>>

\* _migrate_audit_log: the chain of a database that has none, or whose number
\* of rows is not the one recorded, is derived again from the anchor.
Hashes(anchor, rows) ==
  LET hashAt[i \in 0..Len(rows)] ==
        IF i = 0 THEN anchor ELSE HashOf(hashAt[i - 1], rows[i].id)
  IN hashAt

Rebuilt(db) ==
  LET hashAt == Hashes(db.integrity.anchor, db.log)
      n == Len(db.log)
  IN IF ~db.integrity.missing /\ db.integrity.count = n THEN db
     ELSE [db EXCEPT
       !.log = [i \in 1..n |-> [db.log[i] EXCEPT !.prev = hashAt[i - 1], !.hash = hashAt[i]]],
       !.integrity = [missing |-> FALSE, anchor |-> db.integrity.anchor, head |-> hashAt[n],
                      head_id |-> IF n = 0 THEN 0 ELSE db.log[n].id, count |-> n]]

\* _migrate_audit_alerts: every alert gets its link again, and failures of the
\* log that have no alert, handled long ago or hidden, get one.
Projected(db) ==
  LET missing == {i \in DOMAIN db.log : db.log[i].kind # "plain" /\ \A a \in db.alerts : a.id # db.log[i].id} IN
  [db EXCEPT !.alerts = AlertsPruned(
     {[a EXCEPT !.link = @ \/ a.visible] : a \in db.alerts}
     \cup {[AlertFor(db.log[i].id) EXCEPT !.visible = (db.log[i].kind = "alert")] : i \in missing})]

Start(limit) ==
  LET db == Projected(Rebuilt(Database))
      fits == IF db.integrity.count > limit THEN Pruned(db, limit, 0) ELSE db
  IN /\ starts < MaxStarts /\ starts' = starts + 1
     /\ max_rows' = limit /\ Becomes(fits)
     /\ UNCHANGED <<next_row, trimmed_on, date, todo, cut_fresh>>

\* resolve_audit_alert
Resolve(a) ==
  /\ Running /\ ~a.handled
  /\ alerts' = (alerts \ {a}) \cup {[a EXCEPT !.handled = TRUE]} /\ todo' = todo \ {a.id}
  /\ UNCHANGED <<log, integrity, next_row, max_rows, trimmed_on, date, starts, cut_fresh>>

\* The wall clock goes on, or is set back.
ClockSet(d) ==
  /\ d # date /\ date' = d
  /\ UNCHANGED <<log, integrity, alerts, next_row, max_rows, trimmed_on, starts, todo, cut_fresh>>

ChainNext ==
  \/ \E kind \in {"plain", "alert", "noise"} : RecordEvent(kind)
  \/ Trim \/ \E limit \in RowLimits : Start(limit)
  \/ \E a \in alerts : Resolve(a)
  \/ \E d \in Dates : ClockSet(d)

ChainSpec == ChainInit /\ [][ChainNext]_chainVars

-----------------------------------------------------------------------------
(* Properties. *)

\* verify_audit_integrity
Verifies ==
  /\ ~integrity.missing /\ integrity.count = Len(log)
  /\ \A i \in DOMAIN log :
       /\ log[i].prev = IF i = 1 THEN integrity.anchor ELSE log[i - 1].hash
       /\ log[i].hash = HashOf(log[i].prev, log[i].id)
  /\ integrity.head_id = IF log = <<>> THEN 0 ELSE log[Len(log)].id
  /\ integrity.head = IF log = <<>> THEN integrity.anchor ELSE log[Len(log)].hash

\* However the front is cut off, by number or age, with the clock set back or
\* the limit lowered: the chain of the rows that are left verifies, there are
\* no more than the limit, what is young enough has not gone by age, and no
\* alert that waits for somebody has gone at all.
AuditChainSound ==
  Running =>
    /\ log # <<>> => Verifies
    /\ Len(log) <= max_rows
    /\ cut_fresh = {}
    /\ \A id \in todo : \E a \in alerts : a.id = id /\ a.visible /\ ~a.handled

\* The docstring of prune_audit_log_by_age: rows are trimmed "without breaking
\* the chain", those of a quiet installation too.
AlwaysVerifies == Running => Verifies
=============================================================================
