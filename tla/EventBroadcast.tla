---------------------------- MODULE EventBroadcast ----------------------------
(***************************************************************************)
(* The event WebSockets of app/mirror_manager.py for one device: how a     *)
(* page joins ("hello" with a snapshot, then what was broadcast meanwhile) *)
(* and how a change of the session's state is broadcast to all pages.      *)
(*                                                                         *)
(* A state of the session is its number: a change makes the next one.  All *)
(* coroutines run on one event loop; a step is what lies between two       *)
(* awaits.                                                                 *)
(***************************************************************************)
EXTENDS Naturals, SequencesExt

CONSTANTS
  Pages,      \* event WebSockets; each joins at most once
  MaxChanges  \* bound: changes of the session's state

ASSUME EventAssumption == MaxChanges \in Nat

VARIABLES
  now,       \* the state of the session
  waiting,   \* broadcasts waiting for the device's lock in broadcast_locks
  cast,      \* the broadcast that holds it
  page,      \* "out", "joined", "snapped", "flushing", "ready", "gone"
  listed,    \* MirrorManager.events
  snap,      \* the state in a page's hello message
  pending,   \* EventClient.pending
  sending,   \* who holds EventClient.send_lock: "no", "hello", "cast"
  seen,      \* the state the page has been told last
  until      \* the user of the page may view the device until this state

eventVars == <<now, waiting, cast, page, listed, snap, pending, sending, seen, until>>

\* The right has not been taken away.
Forever == MaxChanges + 1

\* What a broadcast does: the pages it read from the dict, those of them that
\* it has still to send to, and those that failed.
NoCast == [pc |-> "none", state |-> 0, left |-> {}, failed |-> {}]

EventInit ==
  /\ now = 0 /\ waiting = <<>> /\ cast = NoCast
  /\ page = [c \in Pages |-> "out"] /\ listed = {}
  /\ snap = [c \in Pages |-> 0] /\ pending = [c \in Pages |-> <<>>]
  /\ sending = [c \in Pages |-> "no"] /\ seen = [c \in Pages |-> 0]
  /\ until = [c \in Pages |-> Forever]

MayView(c) == until[c] = Forever

\* The session changes, and whoever changed it broadcasts a snapshot; between
\* taking it and queueing for the lock there is no await.
Change ==
  /\ now < MaxChanges
  /\ now' = now + 1 /\ waiting' = Append(waiting, now + 1)
  /\ UNCHANGED <<cast, page, listed, snap, pending, sending, seen, until>>

-----------------------------------------------------------------------------
\* register_event_ws lists the page before it asks a thread for the devices,
Join(c) ==
  /\ page[c] = "out" /\ MayView(c)
  /\ page' = [page EXCEPT ![c] = "joined"]
  /\ listed' = listed \cup {c}
  /\ UNCHANGED <<now, waiting, cast, snap, pending, sending, seen, until>>

\* takes the snapshot and the send lock,
TakeSnapshot(c) ==
  /\ page[c] = "joined" /\ sending[c] = "no"
  /\ page' = [page EXCEPT ![c] = "snapped"]
  /\ snap' = [snap EXCEPT ![c] = now]
  /\ sending' = [sending EXCEPT ![c] = "hello"]
  /\ UNCHANGED <<now, waiting, cast, listed, pending, seen, until>>

\* sends the hello message,
SendHello(c) ==
  /\ page[c] = "snapped"
  /\ page' = [page EXCEPT ![c] = "flushing"]
  /\ seen' = [seen EXCEPT ![c] = snap[c]]
  /\ UNCHANGED <<now, waiting, cast, listed, snap, pending, sending, until>>

\* and, still holding the send lock, everything that came in meanwhile.
FlushPending(c) ==
  /\ page[c] = "flushing"
  /\ page' = [page EXCEPT ![c] = "ready"]
  /\ seen' = [seen EXCEPT ![c] = IF pending[c] = <<>> THEN @ ELSE Last(pending[c])]
  /\ pending' = [pending EXCEPT ![c] = <<>>]
  /\ sending' = [sending EXCEPT ![c] = "no"]
  /\ UNCHANGED <<now, waiting, cast, listed, snap, until>>

\* The page goes away, or its session is revoked, at any time.
GoAway(c) ==
  /\ page[c] \notin {"out", "gone"}
  /\ page' = [page EXCEPT ![c] = "gone"]
  /\ listed' = listed \ {c}
  /\ sending' = [sending EXCEPT ![c] = IF @ = "hello" THEN "no" ELSE @]
  /\ UNCHANGED <<now, waiting, cast, snap, pending, seen, until>>

\* An administrator takes the right to view the device away.
RevokeView(c) ==
  /\ MayView(c)
  /\ until' = [until EXCEPT ![c] = now]
  /\ UNCHANGED <<now, waiting, cast, page, listed, snap, pending, sending, seen>>

-----------------------------------------------------------------------------
\* Faulty: no lock per device, any of the waiting broadcasts goes next.
BeginAnyCast ==
  /\ cast.pc = "none"
  /\ \E i \in DOMAIN waiting :
       /\ waiting' = RemoveAt(waiting, i)
       /\ cast' = [NoCast EXCEPT !.pc = IF listed = {} THEN "none" ELSE "rights",
                                 !.state = waiting[i], !.left = listed]
  /\ UNCHANGED <<now, page, listed, snap, pending, sending, seen, until>>
\* broadcast has the device's lock and copies the dict,
BeginCast ==
  /\ cast.pc = "none" /\ waiting # <<>>
  /\ waiting' = Tail(waiting)
  /\ cast' = [NoCast EXCEPT !.pc = IF listed = {} THEN "none" ELSE "rights",
                            !.state = Head(waiting), !.left = listed]
  /\ UNCHANGED <<now, page, listed, snap, pending, sending, seen, until>>

\* Faulty: everybody who is listed.
ReadNoRights ==
  /\ cast.pc = "rights"
  /\ cast' = [cast EXCEPT !.pc = "send"]
  /\ UNCHANGED <<now, waiting, page, listed, snap, pending, sending, seen, until>>
\* has a thread look up who may see it (event_users_with_view_access),
ReadRights ==
  /\ cast.pc = "rights"
  /\ cast' = [cast EXCEPT !.pc = "send", !.left = {c \in @ : MayView(c)}]
  /\ UNCHANGED <<now, waiting, page, listed, snap, pending, sending, seen, until>>

\* and sends it to all of them at once: a page that is not ready gets it
\* after the hello message.
CastTo(c) ==
  /\ cast.pc = "send" /\ c \in cast.left /\ sending[c] = "no"
  /\ IF page[c] # "ready"
     THEN /\ pending' = [pending EXCEPT ![c] = Append(@, cast.state)]
          /\ cast' = [cast EXCEPT !.left = @ \ {c}]
          /\ UNCHANGED sending
     ELSE /\ sending' = [sending EXCEPT ![c] = "cast"]
          /\ UNCHANGED <<pending, cast>>
  /\ UNCHANGED <<now, waiting, page, listed, snap, seen, until>>

CastSent(c) ==
  /\ sending[c] = "cast"
  /\ sending' = [sending EXCEPT ![c] = "no"]
  /\ cast' = [cast EXCEPT !.left = @ \ {c}]
  /\ seen' = [seen EXCEPT ![c] = cast.state]
  /\ UNCHANGED <<now, waiting, page, listed, snap, pending, until>>

\* After a second without the send lock, or in it, or with an error: the
\* page fails, whether the message has reached it or not.
CastFails(c) ==
  /\ cast.pc = "send" /\ c \in cast.left
  /\ sending[c] \in {"cast", "hello"}
  /\ sending' = [sending EXCEPT ![c] = IF @ = "cast" THEN "no" ELSE @]
  /\ cast' = [cast EXCEPT !.left = @ \ {c}, !.failed = @ \cup {c}]
  /\ UNCHANGED <<now, waiting, page, listed, snap, pending, seen, until>>

\* Faulty: a page that failed stays.
EndCastKeepsFailed ==
  /\ cast.pc = "send" /\ cast.left = {}
  /\ cast' = NoCast
  /\ UNCHANGED <<now, waiting, page, listed, snap, pending, sending, seen, until>>
\* All have been sent to or failed; those that failed are closed.
EndCast ==
  /\ cast.pc = "send" /\ cast.left = {}
  /\ listed' = listed \ cast.failed
  /\ page' = [c \in Pages |-> IF c \in cast.failed THEN "gone" ELSE page[c]]
  /\ sending' = [c \in Pages |-> IF c \in cast.failed THEN "no" ELSE sending[c]]
  /\ cast' = NoCast
  /\ UNCHANGED <<now, waiting, snap, pending, seen, until>>

-----------------------------------------------------------------------------
EventNext ==
  \/ Change \/ BeginCast \/ ReadRights \/ EndCast
  \/ \E c \in Pages :
       \/ Join(c) \/ TakeSnapshot(c) \/ SendHello(c) \/ FlushPending(c) \/ GoAway(c)
       \/ RevokeView(c) \/ CastTo(c) \/ CastSent(c) \/ CastFails(c)

EventSpec == EventInit /\ [][EventNext]_eventVars

-----------------------------------------------------------------------------
\* Once the broadcasts are out, every page that is still connected shows the
\* present state, however its hello, its snapshot and the broadcasts of that
\* time crossed: a page that has missed one is closed.
PagesCurrent ==
  cast.pc = "none" /\ waiting = <<>> =>
    \A c \in Pages : page[c] = "ready" /\ MayView(c) => seen[c] = now

\* A page is told the broadcasts in their order, and is left with the present
\* state; only the snapshot of its hello message may be ahead of the broadcasts
\* that were waiting then.
PagesFollow ==
  [][/\ \A c \in Pages : page[c] = "ready" /\ seen[c] # snap[c] => seen'[c] >= seen[c]
     /\ PagesCurrent']_eventVars

\* No broadcast tells a user of a change that came after the right to view
\* the device was gone: the rights are looked up anew for every broadcast,
\* after it has the device's lock.
NotToldAfterRevoke ==
  \A c \in Pages : page[c] = "ready" /\ seen[c] # snap[c] => seen[c] <= until[c]

=============================================================================
