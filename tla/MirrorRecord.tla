---------------------------- MODULE MirrorRecord ----------------------------
(***************************************************************************)
(* MirrorRecordRegistry of app/mirror_record.py for one device: a viewer   *)
(* starts a record, the others are invited, and when it is stopped those   *)
(* that take part upload theirs, which are passed on to the viewer that    *)
(* started it.                                                             *)
(*                                                                         *)
(* A call does its work under the registry's lock, with the time it read   *)
(* before it waited for the lock, and pushes its notices when the lock is  *)
(* free again: two steps.  Calls of the routes are in threads; those of    *)
(* the video websocket are in the event loop, one at a time, and viewers   *)
(* come and go between them.  A pushed notice may be refused by a full     *)
(* queue, or reach a viewer that has left; what is in it, notices that     *)
(* only tell a page what to show, and grid viewers are left out.  A page   *)
(* calls with its own user's name: the others' calls are refused.          *)
(***************************************************************************)
EXTENDS Naturals, FiniteSets

CONSTANTS
  Pages,          \* connections of viewers; a page that comes back is another
  RecUserOf,      \* their users
  RecAdmins,      \* users that may start and stop
  RecThreads,     \* bound: requests at a time
  RecTtl,         \* RECORD_TTL_SECONDS
  RecGrace,       \* RECORD_UPLOAD_GRACE_SECONDS
  RecPlaces,      \* RECORD_MAX_PARTICIPANTS
  RecLag,         \* bound: how old the time of a call is
  RecTimes,       \* bound: the clock
  RecStarts       \* bound: records

ASSUME RecordAssumption ==
  /\ {RecTtl, RecPlaces} \subseteq Nat \ {0} /\ {RecGrace, RecLag, RecTimes, RecStarts} \subseteq Nat
  /\ "loop" \notin RecThreads /\ IsFiniteSet(Pages)

VARIABLES
  rec_clock,
  rec_pages,   \* "away", "on" (in clients), "watching" (attach_client was called), "left"
  records,     \* _sessions, by their order
  pushing,     \* of the threads and of the event loop: the notices it still pushes
  asked,       \* history: upload requests pushed
  mains        \* history: pages that were a record's initiator_client_id

recordVars == <<rec_clock, rec_pages, records, pushing, asked, mains>>

Ids == 1..RecStarts
Unused == [status |-> "unused"]
Purged == [status |-> "purged"]
\* "responded" is all but invited; "away" is only shown, and left out.
NoPart == [state |-> "none", uploaded |-> FALSE]
Invited == [NoPart EXCEPT !.state = "invited"]

RecordInit ==
  /\ rec_clock = 0 /\ rec_pages = [p \in Pages |-> "away"]
  /\ records = [i \in Ids |-> Unused]
  /\ pushing = [k \in RecThreads \cup {"loop"} |-> {}]
  /\ asked = {} /\ mains = {}

Online == {p \in Pages : rec_pages[p] \in {"on", "watching"}}
Parts(r) == {p \in Pages : r.parts[p] # NoPart}

-----------------------------------------------------------------------------
(* A call. *)

\* _purge_locked
Unexpired(now) == [i \in Ids |-> IF records[i].status = "live" /\ records[i].expires <= now THEN Purged ELSE records[i]]
\* _find_for_device_locked, which is at most one
ActiveIds(rs) == {i \in Ids : rs[i].status = "live" /\ ~rs[i].stopped}
Live(rs, i) == i \in Ids /\ rs[i].status = "live"

Notice(type, i, to) == [type |-> type, id |-> i, to |-> to]

\* The call of k leaves these records, and notices for the pages that are there.
Done(k, rs, notices) ==
  /\ pushing[k] = {} /\ records' = rs
  /\ pushing' = [pushing EXCEPT ![k] = {n \in notices : n.to \in Online}]
  /\ UNCHANGED <<rec_clock, asked>>
Quiet(k, rs) == Done(k, rs, {}) /\ UNCHANGED mains

Notify(k) ==
  /\ pushing[k] # {}
  /\ asked' = asked \cup {n \in pushing[k] : n.type = "upload"}
  /\ pushing' = [pushing EXCEPT ![k] = {}]
  /\ UNCHANGED <<rec_clock, rec_pages, records, mains>>

-----------------------------------------------------------------------------
(* The administrators' calls. *)

FirstUnused == CHOOSE i \in Ids : records[i] = Unused /\ \A j \in Ids : records[j] = Unused => i <= j
Started(p, now, invited) ==
  [status |-> "live", by |-> p, user |-> RecUserOf[p], expires |-> now + RecTtl,
   stopped |-> FALSE, deadline |-> 0,
   parts |-> [q \in Pages |-> IF q \in invited THEN Invited ELSE NoPart]]
AtMostPlaces(S, T) == S \subseteq T /\ (S = T \/ Cardinality(S) = RecPlaces) /\ Cardinality(S) <= RecPlaces

\* The page was there before the lock was taken, and may have left since.
StartRecord(k, p, now) ==
  LET rs == Unexpired(now)
  IN /\ rec_pages[p] # "away" /\ RecUserOf[p] \in RecAdmins /\ \E i \in Ids : records[i] = Unused
     /\ IF ActiveIds(rs) # {} THEN Quiet(k, rs)
        ELSE \E invited \in SUBSET (Online \ {p}) :
          /\ AtMostPlaces(invited, Online \ {p})
          /\ mains' = mains \cup {p}
          /\ Done(k, [rs EXCEPT ![FirstUnused] = Started(p, now, invited)],
                  {Notice("invite", FirstUnused, q) : q \in invited})

StopRecord(k, i, user, now) ==
  LET rs == Unexpired(now)
      accepted == {p \in Pages : rs[i].parts[p].state = "accepted"}
  IN IF ~(Live(rs, i) /\ rs[i].user = user) THEN Quiet(k, rs)
     ELSE /\ Done(k, [rs EXCEPT ![i].stopped = TRUE, ![i].deadline = now + RecGrace],
                  {Notice("upload", i, p) : p \in {q \in accepted : ~rs[i].parts[q].uploaded}})
          /\ UNCHANGED mains

StatusOf(k, now) == Quiet(k, Unexpired(now))

-----------------------------------------------------------------------------
(* The viewers' calls. *)

Respond(k, i, p, accept, now) ==
  LET rs == Unexpired(now)
  IN IF ~(Live(rs, i) /\ ~rs[i].stopped /\ rs[i].parts[p] # NoPart) THEN Quiet(k, rs)
     ELSE /\ Done(k, [rs EXCEPT ![i].parts[p].state = IF accept THEN "accepted" ELSE "declined"],
                  {Notice("participant", i, rs[i].by)})
          /\ UNCHANGED mains

MayUpload(r, p, now) ==
  ~r.parts[p].uploaded /\ r.parts[p].state = "accepted" /\ ~(r.stopped /\ now > r.deadline)

Upload(k, i, p, now) ==
  LET rs == Unexpired(now)
  IN IF ~(Live(rs, i) /\ MayUpload(rs[i], p, now)) THEN Quiet(k, rs)
     ELSE /\ Done(k, [rs EXCEPT ![i].parts[p].uploaded = TRUE, ![i].parts[p].state = "uploaded"],
                  {Notice("bundle", i, rs[i].by)})
          /\ UNCHANGED mains

\* Variant: the user of a page that shows a record is not compared.
ClaimsAny(r, i, p, claim) == claim = i
Claims(r, i, p, claim) == claim = i /\ r.user = RecUserOf[p]

\* The record under way: its initiator is back, or a viewer is invited, or there again.
AttachActive(k, rs, i, p, claim) ==
  LET part == rs[i].parts[p]
  IN IF Claims(rs[i], i, p, claim)
     THEN /\ mains' = mains \cup {p}
          /\ Done(k, [rs EXCEPT ![i].by = p], {})
     ELSE IF part = NoPart /\ Cardinality(Parts(rs[i])) >= RecPlaces THEN Quiet(k, rs)
     ELSE /\ Done(k, [rs EXCEPT ![i].parts[p] = IF part = NoPart THEN Invited ELSE part],
                  IF part \in {NoPart, Invited} THEN {Notice("invite", i, p)} ELSE {})
          /\ UNCHANGED mains

\* A record stopped lately, of several any: what the page owes is asked for again.
AttachStopped(k, rs, p, now) ==
  LET recent == {i \in Ids : Live(rs, i) /\ rs[i].stopped /\ rs[i].deadline > now}
      owes(i) == rs[i].parts[p].state = "accepted" /\ ~rs[i].parts[p].uploaded
  IN IF recent = {} THEN Quiet(k, rs)
     ELSE /\ \E i \in recent : Done(k, rs, {Notice("upload", j, p) : j \in {j \in {i} : owes(j)}})
          /\ UNCHANGED mains

\* A page claims the record it had, or none (0).
Attach(k, p, claim, now) ==
  LET rs == Unexpired(now)
  IN IF p \notin Online THEN Quiet(k, rs)
     ELSE IF ActiveIds(rs) = {} THEN AttachStopped(k, rs, p, now)
     ELSE \E i \in ActiveIds(rs) : AttachActive(k, rs, i, p, claim)

-----------------------------------------------------------------------------
(* The video websocket and the stream, in the event loop. *)

LoopIdle == pushing["loop"] = {}

Connect(p) ==
  /\ LoopIdle /\ rec_pages[p] = "away"
  /\ rec_pages' = [rec_pages EXCEPT ![p] = "on"]
  /\ UNCHANGED <<rec_clock, records, pushing, asked, mains>>

VideoAttach(p, now) ==
  /\ rec_pages[p] = "on" /\ rec_pages' = [rec_pages EXCEPT ![p] = "watching"]
  /\ Attach("loop", p, 0, now)

\* remove_client and note_client_left
Disconnect(p, now) ==
  LET rs == Unexpired(now)
      found == {i \in ActiveIds(rs) : rs[i].parts[p] # NoPart /\ ~rs[i].parts[p].uploaded}
  IN /\ p \in Online /\ rec_pages' = [rec_pages EXCEPT ![p] = "left"]
     /\ IF found = {} THEN Quiet("loop", rs)
        ELSE /\ \E i \in found :
                  Done("loop", rs, {Notice("participant", i, rs[i].by)})
             /\ UNCHANGED mains

\* cancel_for_device: the record goes on.
StreamStops(now) == Quiet("loop", Unexpired(now)) /\ UNCHANGED rec_pages

RecTick ==
  /\ rec_clock < RecTimes /\ rec_clock' = rec_clock + 1
  /\ UNCHANGED <<rec_pages, records, pushing, asked, mains>>

UsedIds == {i \in Ids : records[i] # Unused}
ReadAt == {now \in 0..rec_clock : now + RecLag >= rec_clock}

RecordNext ==
  \/ RecTick
  \/ \E k \in DOMAIN pushing : Notify(k)
  \/ \E p \in Pages : Connect(p)
  \/ \E now \in ReadAt :
       \/ \E p \in Pages : VideoAttach(p, now) \/ Disconnect(p, now)
       \/ StreamStops(now)
       \/ \E k \in RecThreads :
            /\ UNCHANGED rec_pages
            /\ \/ StatusOf(k, now)
               \/ \E p \in Pages : StartRecord(k, p, now)
               \/ \E i \in UsedIds, u \in RecAdmins : StopRecord(k, i, u, now)
               \/ \E i \in UsedIds, p \in Pages :
                    \/ \E accept \in BOOLEAN : Respond(k, i, p, accept, now)
                    \/ Upload(k, i, p, now)
                    \/ Attach(k, p, i, now)

RecordSpec == RecordInit /\ [][RecordNext]_recordVars

-----------------------------------------------------------------------------
(* Properties. *)

\* A viewer that is there misses no record: whether it came before the record
\* or after, it takes part, was its initiator, or there was no place left.
NobodyMissed ==
  \A i \in Ids, p \in Pages :
    /\ records[i].status = "live" /\ ~records[i].stopped /\ rec_pages[p] = "watching"
    => records[i].parts[p] # NoPart \/ p \in mains \/ Cardinality(Parts(records[i])) >= RecPlaces

\* A record is stopped only for good, and then all that still owe theirs and
\* are there have been asked.
EveryoneAsked ==
  \A i \in Ids :
    records[i].status = "live" /\ records[i].stopped =>
      \A p \in Parts(records[i]) :
        records[i].parts[p].state = "accepted" /\ ~records[i].parts[p].uploaded /\ p \in Online =>
          \/ Notice("upload", i, p) \in asked
          \/ \E k \in DOMAIN pushing : Notice("upload", i, p) \in pushing[k]

\* What others recorded, and whether they take part, is told to pages of the
\* user that started the record only.
OnlyToInitiator ==
  \A k \in DOMAIN pushing : \A n \in pushing[k] :
    n.type \in {"participant", "bundle"} /\ Live(records, n.id) => RecUserOf[n.to] = records[n.id].user

RecordSound == NobodyMissed /\ EveryoneAsked /\ OnlyToInitiator
=============================================================================
