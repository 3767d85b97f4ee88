----------------------------- MODULE AccessLog -----------------------------
(***************************************************************************)
(* The log of requests: AccessLogWriter of app/access_log.py, its tables   *)
(* (app/storage_access.py), the retention and the export.                  *)
(*                                                                         *)
(* A record is the hour it was made in; every record is of one address.    *)
(* Requests submit from their threads, one thread writes, and a            *)
(* transaction is one step.  The limit on the rows of the summary, far     *)
(* above what it holds, is left out.                                       *)
(***************************************************************************)
EXTENDS Naturals, Sequences, SequencesExt, FiniteSetsExt

CONSTANTS
  AccessQueue,   \* maxsize
  AccessBatch,   \* BATCH_MAX
  AccessRows,    \* MAX_DETAIL_ROWS
  RetentionHours,\* access_retention_days, in hours
  PruneRows,     \* PRUNE_BATCH * PRUNE_MAX_BATCHES
  PageRows,      \* MAX_PAGE_SIZE
  LastHour,      \* bound: the clock
  MaxRequests,   \* bound: requests
  MaxExports,    \* bound: exports
  MaxDeaths      \* bound: starts of the program after the first

ASSUME AccessAssumption ==
  /\ {AccessQueue, AccessBatch, AccessRows, PruneRows, PageRows, LastHour, MaxRequests} \subseteq Nat \ {0}
  /\ {RetentionHours, MaxExports, MaxDeaths} \subseteq Nat

VARIABLES
  access_hour,     \* the clock
  access_items,    \* _items
  access_writer,   \* the thread of _run
  access_stopping, \* _stopping
  unfinished,      \* _unfinished
  drops,           \* _dropped_total, _last_drop_ts, _reported_drops
  access_rows,     \* table access_records
  access_summary,  \* table access_ip_summary, by hour: the dropped of address ''
  dropped_setting, \* _access_log_dropped_total
  export,          \* an administrator's export
  history          \* history: requests, losses by hour, what died with the program,
                   \* the first hour that was not pruned

accessVars == <<access_hour, access_items, access_writer, access_stopping, unfinished, drops,
                access_rows, access_summary, dropped_setting, export, history>>
accessMemory == <<access_items, access_writer, access_stopping, unfinished, drops>>
accessTables == <<access_rows, access_summary, dropped_setting>>

AccessHours == 1..LastHour
NoDrops == [total |-> 0, hour |-> 0, reported |-> 0]
Thread(pc) == [pc |-> pc, batch |-> <<>>, last |-> FALSE, due |-> FALSE, total |-> 0, hour |-> 0]
NoExport == [pc |-> "idle", cursor |-> 0, got |-> <<>>, before |-> {}]

AccessInit ==
  /\ access_hour = 1 /\ access_items = <<>> /\ access_writer = Thread("loop") /\ access_stopping = FALSE
  /\ unfinished = 0 /\ drops = NoDrops
  /\ access_rows = {} /\ access_summary = [h \in AccessHours |-> 0] /\ dropped_setting = 0
  /\ export = NoExport
  /\ history = [requests |-> 0, inserted |-> 0, hours |-> {}, gone |-> 0, deaths |-> 0,
                exports |-> 0, pruned |-> 0]

Alive == access_writer.pc # "ended"

\* _note_drop_locked, n times
NoteDrops(n) == drops' = [drops EXCEPT !.total = @ + n, !.hour = access_hour]
Lost(h) == [h EXCEPT !.hours = @ \cup {access_hour}]

-----------------------------------------------------------------------------
(* Requests. *)

Refused == access_stopping \/ ~Alive \/ Len(access_items) >= AccessQueue

Submit ==
  /\ history.requests < MaxRequests
  /\ IF Refused
     THEN /\ NoteDrops(1)
          /\ history' = Lost([history EXCEPT !.requests = @ + 1])
          /\ UNCHANGED <<access_items, unfinished>>
     ELSE /\ access_items' = Append(access_items, access_hour)
          /\ unfinished' = unfinished + 1
          /\ history' = [history EXCEPT !.requests = @ + 1]
          /\ UNCHANGED drops
  /\ UNCHANGED <<access_hour, access_writer, access_stopping, accessTables, export>>

-----------------------------------------------------------------------------
(* The writer. *)

\* Variant: the thread ends with what is in the queue.
LastTurnAnyway == access_stopping
LastTurn == access_stopping /\ access_items = <<>>

Drain ==
  LET n == Min({Len(access_items), AccessBatch})
  IN /\ access_writer.pc = "loop"
     /\ access_items' = SubSeq(access_items, n + 1, Len(access_items))
     /\ access_writer' = [access_writer EXCEPT !.batch = SubSeq(access_items, 1, n), !.last = LastTurn,
                            !.pc = IF n > 0 THEN "writing" ELSE "written"]
     /\ UNCHANGED <<access_hour, access_stopping, unfinished, drops, accessTables, export, history>>

\* The rows above one, by id.
Newer(rows, r) == {s \in rows : s.id > r.id}
Newest(rows, n) == {r \in rows : Cardinality(Newer(rows, r)) < n}

\* record_access_batch: all of it, or nothing.
WriteBatch ==
  /\ access_writer.pc = "writing"
  /\ LET batch == access_writer.batch
         inserted == {[id |-> history.inserted + i, hour |-> batch[i]] : i \in DOMAIN batch}
     IN /\ access_rows' = Newest(access_rows \cup inserted, AccessRows)
        /\ history' = [history EXCEPT !.inserted = @ + Len(batch)]
  /\ access_writer' = [access_writer EXCEPT !.pc = "stored"]
  /\ UNCHANGED <<access_hour, access_items, access_stopping, unfinished, drops, access_summary,
                 dropped_setting, export>>
WriteFails ==
  /\ access_writer.pc = "writing"
  /\ access_writer' = [access_writer EXCEPT !.pc = "failed"]
  /\ UNCHANGED <<access_hour, access_items, access_stopping, unfinished, drops, accessTables, export, history>>

\* Variant: a batch that could not be written is not counted as dropped.
SettleForgets ==
  /\ access_writer.pc \in {"stored", "failed"}
  /\ unfinished' = unfinished - Len(access_writer.batch)
  /\ access_writer' = [access_writer EXCEPT !.pc = "written", !.batch = <<>>]
  /\ UNCHANGED <<access_hour, access_items, access_stopping, drops, accessTables, export, history>>
Settle ==
  /\ access_writer.pc \in {"stored", "failed"}
  /\ unfinished' = unfinished - Len(access_writer.batch)
  /\ access_writer' = [access_writer EXCEPT !.pc = "written", !.batch = <<>>]
  /\ IF access_writer.pc = "failed" THEN NoteDrops(Len(access_writer.batch)) /\ history' = Lost(history)
     ELSE UNCHANGED <<drops, history>>
  /\ UNCHANGED <<access_hour, access_items, access_stopping, accessTables, export>>

EndTurn(w) == [w EXCEPT !.pc = IF w.last THEN "ended" ELSE "loop", !.last = FALSE]

\* _report_drops, in the last turn or once in a while ("due")
ReadDrops(due) ==
  /\ access_writer.pc = "written"
  /\ access_writer' =
       IF (access_writer.last \/ due) /\ drops.total # drops.reported
       THEN [access_writer EXCEPT !.pc = "reporting", !.total = drops.total, !.hour = drops.hour]
       ELSE EndTurn(access_writer)
  /\ UNCHANGED <<access_hour, access_items, access_stopping, unfinished, drops, accessTables, export, history>>

\* The losses since the last report go to the hour of the last of them.
PersistDrops ==
  LET delta == access_writer.total - drops.reported
  IN /\ access_writer.pc = "reporting"
     /\ dropped_setting' = dropped_setting + delta
     /\ access_summary' = [access_summary EXCEPT ![access_writer.hour] = @ + delta]
     /\ drops' = [drops EXCEPT !.reported = access_writer.total]
     /\ access_writer' = EndTurn([access_writer EXCEPT !.total = 0, !.hour = 0])
     /\ UNCHANGED <<access_hour, access_items, access_stopping, unfinished, access_rows, export, history>>
ReportFails ==
  /\ access_writer.pc = "reporting"
  /\ access_writer' = EndTurn([access_writer EXCEPT !.total = 0, !.hour = 0])
  /\ UNCHANGED <<access_hour, access_items, access_stopping, unfinished, drops, accessTables, export, history>>

StopWriter ==
  /\ ~access_stopping /\ access_stopping' = TRUE
  /\ UNCHANGED <<access_hour, access_items, access_writer, unfinished, drops, accessTables, export, history>>

\* The program ends, at any point, and starts again.
Restart ==
  /\ history.deaths < MaxDeaths
  /\ history' = [history EXCEPT !.deaths = @ + 1,
       !.gone = @ + Len(access_items) + (drops.total - drops.reported)
                  + (IF access_writer.pc = "stored" THEN 0 ELSE Len(access_writer.batch))]
  /\ access_items' = <<>> /\ access_writer' = Thread("loop") /\ access_stopping' = FALSE
  /\ unfinished' = 0 /\ drops' = NoDrops /\ export' = NoExport
  /\ UNCHANGED <<access_hour, accessTables>>

-----------------------------------------------------------------------------
(* Retention and administrators. *)

AccessTick ==
  /\ access_hour < LastHour /\ access_hour' = access_hour + 1
  /\ UNCHANGED <<accessMemory, accessTables, export, history>>

\* prune_access_records: old rows, in the order of their ids, up to a number;
\* then the hours of the summary before the oldest row.
PruneAccess ==
  LET old == {r \in access_rows : RetentionHours > 0 /\ r.hour + RetentionHours < access_hour}
      cut == {r \in old : Cardinality({s \in old : s.id < r.id}) < PruneRows}
      kept == Newest(access_rows \ cut, AccessRows)
      oldest == IF kept = {} THEN access_hour ELSE Min({r.hour : r \in kept})
  IN /\ access_rows' = kept
     /\ access_summary' = [h \in AccessHours |-> IF h < oldest THEN 0 ELSE access_summary[h]]
     /\ <<access_rows, access_summary>>' # <<access_rows, access_summary>>
     /\ history' = [history EXCEPT !.pruned = Max({@, oldest})]
     /\ UNCHANGED <<access_hour, accessMemory, dropped_setting, export>>

BeginExport ==
  /\ export.pc # "paging" /\ history.exports < MaxExports
  /\ export' = [pc |-> "paging", cursor |-> history.inserted + 1, got |-> <<>>, before |-> access_rows]
  /\ history' = [history EXCEPT !.exports = @ + 1]
  /\ UNCHANGED <<access_hour, accessMemory, accessTables>>

\* ORDER BY id DESC
NewestFirst(rows) ==
  [i \in 1..Cardinality(rows) |-> CHOOSE r \in rows : Cardinality(Newer(rows, r)) = i - 1]

\* query_access_records: by id, newest first, after the last id of the page before
ExportPage ==
  LET below == {r \in access_rows : r.id < export.cursor}
      page == Newest(below, PageRows)
  IN /\ export.pc = "paging"
     /\ export' = [export EXCEPT
          !.got = @ \o NewestFirst(page),
          !.cursor = IF page = {} THEN @ ELSE Min({r.id : r \in page}),
          !.pc = IF below = page THEN "done" ELSE "paging"]
     /\ UNCHANGED <<access_hour, accessMemory, accessTables, history>>

AccessNext ==
  \/ Submit \/ Drain \/ WriteBatch \/ WriteFails \/ Settle
  \/ \E due \in BOOLEAN : ReadDrops(due)
  \/ PersistDrops \/ ReportFails \/ StopWriter \/ Restart
  \/ AccessTick \/ PruneAccess \/ BeginExport \/ ExportPage

AccessSpec == AccessInit /\ [][AccessNext]_accessVars

-----------------------------------------------------------------------------
(* Properties. *)

Writing == access_writer.pc \in {"writing", "failed"}

InHand == IF access_writer.pc \in {"writing", "stored", "failed"} THEN Len(access_writer.batch) ELSE 0

\* A barrier that returns TRUE, seeing nothing unfinished, is right: every
\* accepted request is in the table or counted as lost.
BarrierRight == unfinished = Len(access_items) + InHand

\* The thread ends only with an empty queue.
EndsEmpty == ~Alive => access_items = <<>>

\* An export gets each row once, and every row that was there from its
\* beginning to its end.
ExportWhole ==
  /\ \A i, j \in DOMAIN export.got : i < j => export.got[i].id > export.got[j].id
  /\ export.pc = "done" => export.before \cap access_rows \subseteq Range(export.got)

\* What the log says of its work holds: barriers, the last turn of the thread,
\* and exports.
AccessSound == BarrierRight /\ EndsEmpty /\ ExportWhole

\* The detailed log keeps the abstract promise.
Abstract == INSTANCE AccessPromise WITH
  waiting <- Len(access_items) + (IF Writing THEN Len(access_writer.batch) ELSE 0),
  recorded <- history.inserted,
  lost <- dropped_setting + (drops.total - drops.reported),
  shown <- dropped_setting,
  gone <- history.gone
PromiseKept == Abstract!Promise

\* access_status_counts: a window with losses is said to be incomplete.
Sampled(from, to) == \E h \in from..to : access_summary[h] > 0

\* ... so every hour with losses is, once they are all reported and unless
\* the hour was pruned.
LossesShown ==
  drops.total = drops.reported /\ history.deaths = 0 =>
    \A h \in history.hours : h >= history.pruned => Sampled(h, h)
=============================================================================
