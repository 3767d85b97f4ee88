------------------------------ MODULE GeoDatabase ------------------------------
(***************************************************************************)
(* The country database: the reader of app/geo_access.py, which opens it   *)
(* again when the file has changed, and app/geo_updater.py, which          *)
(* downloads, validates and swaps it in under the reader's lock.           *)
(*                                                                         *)
(* Requests look addresses up at any time; somebody else may replace the   *)
(* file; the process may die between any two file operations.              *)
(***************************************************************************)
EXTENDS Integers, FiniteSets

CONSTANTS
  Builds,        \* build dates of databases
  MaxAge,        \* MAX_DATABASE_AGE_SECONDS, in days
  MaxPerDay,     \* MAX_DOWNLOADS_PER_DAY (the model is one day of attempts)
  LastDay,       \* bound: the clock stops here
  MaxOutside     \* bound: replacements by others, rotated keys and crashes

ASSUME GeoAssumption == Builds \subseteq Nat \ {0} /\ {MaxAge, MaxPerDay, LastDay, MaxOutside} \subseteq Nat

VARIABLES
  db_file,     \* GeoLite2-Country.mmdb: a build, Missing or Broken
  bak_file,    \* GeoLite2-Country.mmdb.bak
  temp_file,   \* the temporary file of the update
  reader,      \* _reader, _reader_error and whether the check interval runs
  update,      \* what the update in progress does next; it holds _update_lock
  geo_state,   \* the saved counter of attempts
  day,
  keypair,     \* the saved credentials
  trusted,     \* history: what others put in place and what was validated
  last_good,   \* history: the database in date an update set out to replace
  changed,     \* history: others replaced the file since it was looked at
  fetches,     \* history: downloads begun
  keys_used,   \* history: credentials the update in progress has sent
  geo_events   \* bounded

hist == <<trusted, last_good, changed>>
files == <<db_file, bak_file, temp_file>>
geoVars == <<files, hist, reader, update, geo_state, day, keypair, fetches, keys_used, geo_events>>

Missing == 0
Broken == -1
Contents == Builds \cup {Missing, Broken}
Usable(c) == c \in Builds /\ c <= day + 1 /\ day - c <= MaxAge
Closed == [open |-> Missing, error |-> FALSE, checked |-> FALSE]

GeoInit ==
  /\ db_file \in Contents /\ trusted = {db_file}
  /\ last_good = Missing /\ changed = FALSE
  /\ bak_file = Missing /\ temp_file = Missing
  /\ reader = Closed /\ update = "none"
  /\ geo_state = 0 /\ day = 1 /\ keypair = 1
  /\ fetches = 0 /\ keys_used = {} /\ geo_events = 0

ByOthers == geo_events < MaxOutside /\ geo_events' = geo_events + 1

\* The updater swaps files under the reader's lock.
ReaderFree == update \notin {"swap", "activate", "restore"}

-----------------------------------------------------------------------------
(* The reader. *)

\* _ensure_reader looks at the file once in READER_CHECK_SECONDS.  A file it
\* cannot open is an error; the reader it had stays, but answers nobody.
Opened(r, file) ==
  IF file = Missing THEN [open |-> Missing, error |-> TRUE, checked |-> TRUE]
  ELSE IF Usable(file) THEN [open |-> file, error |-> FALSE, checked |-> TRUE]
  ELSE [open |-> r.open, error |-> TRUE, checked |-> TRUE]

Answers(r) == ~r.error /\ Usable(r.open)

\* lookup: a request, and every other caller of _ensure_reader.
MustLook(r) == ~r.checked \/ (r.open = Missing /\ ~r.error)

Lookup ==
  /\ ReaderFree /\ MustLook(reader) /\ reader' = Opened(reader, db_file)
  /\ changed' = FALSE
  /\ UNCHANGED <<files, update, geo_state, day, keypair, trusted, last_good, fetches, keys_used, geo_events>>

\* The interval is over.
CheckDue ==
  /\ reader.checked /\ reader' = [reader EXCEPT !.checked = FALSE]
  /\ UNCHANGED <<files, update, geo_state, day, keypair, hist, fetches, keys_used, geo_events>>

-----------------------------------------------------------------------------
(* The update. *)

\* enqueue_update, update_now: one at a time.  The attempt is counted and
\* saved before anything is sent; without that there is no update.
ReserveUpdate ==
  /\ update = "none" /\ geo_state < MaxPerDay
  /\ geo_state' = geo_state + 1
  /\ update' = "head" /\ keys_used' = {}
  /\ UNCHANGED <<files, reader, day, keypair, hist, fetches, geo_events>>

\* The version is asked for; nothing new, or any error, ends the update.
\* (The reader it looks at meanwhile is a Lookup.)
AskVersion ==
  /\ update = "head"
  /\ keys_used' = keys_used \cup {keypair} /\ fetches' = fetches + 1
  /\ update' \in {"get", "none"}
  /\ UNCHANGED <<files, reader, geo_state, day, keypair, hist, geo_events>>

\* Whatever the archive holds lands in a temporary file beside the database.
\* (The server does not go back to an older build than the one in place.)
Download(c) ==
  /\ update = "get" /\ c \in Contents /\ (c \in Builds => c >= db_file)
  /\ keys_used' = keys_used \cup {keypair}
  /\ IF c = Missing THEN update' = "none" /\ UNCHANGED temp_file
     ELSE update' = "validate" /\ temp_file' = c
  /\ UNCHANGED <<db_file, bak_file, reader, geo_state, day, keypair, hist, fetches, geo_events>>

\* Variant: any database that opens is accepted.
AcceptsAny(c) == c \in Builds
Accepts(c) == Usable(c)

\* _validate_mmdb and the date; the temporary file goes if it is refused, or
\* if the deadline is over.
Validate ==
  /\ update = "validate"
  /\ \/ Accepts(temp_file) /\ update' = "swap" /\ UNCHANGED temp_file
     \/ update' = "none" /\ temp_file' = Missing
  /\ trusted' = IF Usable(temp_file) THEN trusted \cup {temp_file} ELSE trusted
  /\ UNCHANGED <<db_file, bak_file, reader, geo_state, day, keypair, last_good, changed, fetches, keys_used, geo_events>>

\* The old file is copied to the backup; a copy that fails ends the update.
BackUp ==
  /\ update = "swap"
  /\ \/ bak_file' = (IF db_file = Missing THEN bak_file ELSE db_file)
        /\ update' = "activate" /\ UNCHANGED temp_file
     \/ update' = "none" /\ temp_file' = Missing /\ UNCHANGED bak_file
  /\ last_good' = IF Usable(db_file) THEN db_file ELSE Missing
  /\ UNCHANGED <<db_file, reader, geo_state, day, keypair, trusted, changed, fetches, keys_used, geo_events>>

\* os.replace, and the reader is opened again; opening may fail once more.
Activate ==
  /\ update = "activate"
  /\ db_file' = temp_file /\ temp_file' = Missing
  /\ \/ reader' = Opened(Closed, temp_file)
     \/ reader' = [Closed EXCEPT !.error = TRUE, !.checked = TRUE]
  /\ update' = IF Answers(reader') THEN "none" ELSE "restore"
  /\ changed' = FALSE
  /\ last_good' = IF Answers(reader') THEN Missing ELSE last_good
  /\ UNCHANGED <<bak_file, geo_state, day, keypair, trusted, fetches, keys_used, geo_events>>

\* Variant: a failed activation is only reported.
PutBackNothing ==
  /\ update = "restore"
  /\ db_file' = Missing /\ update' = "none"
  /\ UNCHANGED <<bak_file, temp_file, reader, geo_state, day, keypair, hist, fetches, keys_used, geo_events>>
\* Activation failed: the backup is put back and opened.
PutBack ==
  /\ update = "restore"
  /\ IF bak_file = Missing THEN UNCHANGED <<db_file, reader>>
     ELSE db_file' = bak_file /\ reader' = Opened(Closed, bak_file)
  /\ update' = "none"
  /\ UNCHANGED <<bak_file, temp_file, geo_state, day, keypair, hist, fetches, keys_used, geo_events>>

-----------------------------------------------------------------------------
(* Everything else. *)

\* configure_credentials takes the lock of the update.
RotateKeys ==
  /\ ByOthers /\ update = "none"
  /\ keypair' = keypair + 1
  /\ UNCHANGED <<files, reader, update, geo_state, day, hist, fetches, keys_used>>

\* cleanup_old: expired files of our own go, the open one is closed first.
CleanUp ==
  LET old(c) == c \in Builds /\ ~Usable(c) IN
  /\ update = "none" /\ (old(db_file) \/ old(bak_file))
  /\ db_file' = IF old(db_file) THEN Missing ELSE db_file
  /\ bak_file' = IF old(bak_file) THEN Missing ELSE bak_file
  /\ reader' = IF old(db_file) THEN Closed ELSE reader
  /\ UNCHANGED <<temp_file, update, geo_state, day, keypair, hist, fetches, keys_used, geo_events>>

ReplaceOutside(c) ==
  /\ ByOthers
  /\ db_file' = c /\ trusted' = trusted \cup {c}
  /\ last_good' = Missing /\ changed' = TRUE
  /\ UNCHANGED <<bak_file, temp_file, reader, update, geo_state, day, keypair, fetches, keys_used>>

\* (A temporary file has a random name: the one left behind is never opened.)
\* The history takes what is in place now for what was to be kept, if it is in date.
Crash ==
  /\ ByOthers
  /\ reader' = Closed /\ update' = "none" /\ temp_file' = Missing
  /\ last_good' = IF Usable(db_file) THEN Missing ELSE last_good
  /\ UNCHANGED <<db_file, bak_file, geo_state, day, keypair, trusted, changed, fetches, keys_used>>

\* (A swap does not last over midnight.)
NextDay ==
  /\ ReaderFree /\ day < LastDay /\ day' = day + 1
  /\ UNCHANGED <<files, reader, update, geo_state, keypair, hist, fetches, keys_used, geo_events>>

GeoNext ==
  \/ Lookup \/ CheckDue
  \/ ReserveUpdate \/ AskVersion \/ (\E c \in Contents : Download(c)) \/ Validate
  \/ BackUp \/ Activate \/ PutBack
  \/ RotateKeys \/ CleanUp \/ (\E c \in Contents : ReplaceOutside(c)) \/ Crash \/ NextDay

GeoSpec == GeoInit /\ [][GeoNext]_geoVars

-----------------------------------------------------------------------------
(* Properties. *)

\* "原子替换与 keep-last-good": an update never leaves a file in place that
\* nobody put there and that was not validated, and never loses a database
\* that is in date when it fails, wherever it does or dies; what requests are answered from
\* is the file in place, unless others changed it within the check interval;
\* no request to the server goes uncounted, and none of an update is sent with
\* another key than the first.
DatabaseKept ==
  /\ db_file \in trusted \cup {Missing}
  /\ Usable(last_good) => Usable(db_file)
  /\ Answers(reader) /\ ReaderFree /\ ~changed => reader.open = db_file
  /\ fetches <= geo_state /\ geo_state <= MaxPerDay
  /\ Cardinality(keys_used) <= 1
=============================================================================
