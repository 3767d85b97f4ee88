------------------------------ MODULE Connections ------------------------------
(***************************************************************************)
(* app/account_access.py and app/routers/websockets.py: an account's       *)
(* WebSockets, what each of them stands on, and how they are closed when   *)
(* that is withdrawn while they connect, serve or cannot be closed.        *)
(*                                                                         *)
(* A ground is a login session, the account, the right to a device or the  *)
(* address a socket comes from.  It is withdrawn in the database first;    *)
(* then the sockets listed in the registry are closed.  Every check and    *)
(* every database access runs in a thread: a step is what lies between two *)
(* awaits.                                                                 *)
(***************************************************************************)
EXTENDS Naturals, FiniteSets

CONSTANTS
  Conns,         \* WebSockets of one account; each connects once
  EventConns,    \* those of /ws/events, which stand on no device
  SessionOf,     \* the login session, device and address of each
  DeviceOf,
  AddressOf,
  Revokers,      \* requests and monitor rounds that close sockets
  MaxWithdrawn   \* bound: how often something is withdrawn

ASSUME ConnAssumption == EventConns \subseteq Conns /\ MaxWithdrawn \in Nat

VARIABLES
  withdrawn,   \* the grounds that no longer hold
  kicked,      \* history: the sessions ended by their id
  withdrawals, \* how often that happened (bounded)
  conn,        \* how far a socket has got
  listed_conns,\* UserConnectionRegistry._connections
  revoking,    \* _pending_revocations
  revoker      \* what a request or the monitor is about to close

connVars == <<withdrawn, kicked, withdrawals, conn, listed_conns, revoking, revoker>>

Account == [kind |-> "account", of |-> "account"]
Ground(kind, x) == [kind |-> kind, of |-> x]

GroundsOf(w) ==
  {Account, Ground("session", SessionOf[w]), Ground("address", AddressOf[w])}
    \cup (IF w \in EventConns THEN {} ELSE {Ground("device", DeviceOf[w])})

AllGrounds == UNION {GroundsOf(w) : w \in Conns}

Resting == [pc |-> "idle", ground |-> Account, batch |-> {}, done |-> {}]

ConnInit ==
  /\ withdrawn = {} /\ kicked = {} /\ withdrawals = 0
  /\ conn = [w \in Conns |-> "new"]
  /\ listed_conns = {} /\ revoking = {}
  /\ revoker = [r \in Revokers |-> Resting]

-----------------------------------------------------------------------------
(* A socket on its way.  What is looked at before each stage: the gate of  *)
(* the handshake, the session, the account, the right; after the socket is *)
(* listed the session, the gate and, in video_socket and control_socket,   *)
(* session and right once more.                                            *)
Looks == [new |-> {"address"}, gated |-> {"session"}, signed |-> {"account"},
          active |-> {"account", "device"}, listed |-> {"session", "account"},
          verified |-> {"address"}, admitted |-> {"session", "account"},
          checked |-> {"account", "device"}]

\* Variant: video and control sockets are not checked again once listed.
FollowingUnchecked(w) ==
  IF w \in EventConns
  THEN [new |-> "gated", gated |-> "ready", listed |-> "serving"]
  ELSE [new |-> "gated", gated |-> "signed", signed |-> "active", active |-> "ready",
        listed |-> "serving"]
Following(w) ==
  IF w \in EventConns
  THEN [new |-> "gated", gated |-> "ready", listed |-> "verified", verified |-> "serving"]
  ELSE [new |-> "gated", gated |-> "signed", signed |-> "active", active |-> "ready",
        listed |-> "verified", verified |-> "admitted", admitted |-> "checked",
        checked |-> "serving"]

Stands(w, kinds) == \A g \in GroundsOf(w) \cap withdrawn : g.kind \notin kinds

\* The next check of the handshake holds.
PassCheck(w) ==
  /\ conn[w] \in DOMAIN Following(w) /\ Stands(w, Looks[conn[w]])
  /\ conn' = [conn EXCEPT ![w] = Following(w)[conn[w]]]
  /\ UNCHANGED <<withdrawn, kicked, withdrawals, listed_conns, revoking, revoker>>

RegisterConn(w) ==
  /\ conn[w] = "ready"
  /\ conn' = [conn EXCEPT ![w] = "listed"]
  /\ listed_conns' = listed_conns \cup {w}
  /\ UNCHANGED <<withdrawn, kicked, withdrawals, revoking, revoker>>

\* unregister takes the socket out of both tables.
Unregister(w) ==
  /\ conn' = [conn EXCEPT ![w] = "gone"]
  /\ listed_conns' = listed_conns \ {w} /\ revoking' = revoking \ {w}
  /\ UNCHANGED <<withdrawn, kicked, withdrawals, revoker>>

\* A check does not hold; a serving socket rechecks its session and right.
FailCheck(w) ==
  /\ \/ conn[w] \in DOMAIN Following(w) /\ ~Stands(w, Looks[conn[w]])
     \/ conn[w] = "serving" /\ ~Stands(w, {"session", "account", "device"})
  /\ Unregister(w)

\* The client goes, or the coroutine sees that its socket has been closed.
LeaveConn(w) == conn[w] \in {"serving", "closed"} /\ Unregister(w)

-----------------------------------------------------------------------------
(* Closing. *)

\* The registry holds the hash of a session's token.  Logging out names the
\* token.  Ending a session of the list names its id, which is that hash and
\* is hashed once more: no socket matches.
Targets(r) ==
  {w \in listed_conns : revoker[r].ground \in GroundsOf(w) /\ revoker[r].pc # "kick"}

\* A request changes the database.  A session may end by logout or by id.
Withdraw(r, g, how) ==
  /\ revoker[r].pc = "idle" /\ withdrawals < MaxWithdrawn
  /\ g \notin withdrawn /\ (how = "kick" => g.kind = "session")
  /\ withdrawn' = withdrawn \cup {g}
  /\ kicked' = IF how = "kick" THEN kicked \cup {g} ELSE kicked
  /\ withdrawals' = withdrawals + 1
  /\ revoker' = [revoker EXCEPT ![r] = [Resting EXCEPT !.pc = how, !.ground = g]]
  /\ UNCHANGED <<conn, listed_conns, revoking>>

\* The right, the account or the address is allowed again.
RestoreGround(g) ==
  /\ g \in withdrawn /\ g.kind # "session"
  /\ withdrawn' = withdrawn \ {g}
  /\ UNCHANGED <<kicked, withdrawals, conn, listed_conns, revoking, revoker>>

\* The monitor closes what expired accounts and banned addresses still have,
MonitorGround(r, g) ==
  /\ revoker[r].pc = "idle" /\ g \in withdrawn /\ g.kind \in {"account", "address"}
  /\ revoker' = [revoker EXCEPT ![r] = [Resting EXCEPT !.pc = "close", !.ground = g]]
  /\ UNCHANGED <<withdrawn, kicked, withdrawals, conn, listed_conns, revoking>>

\* and tries again what could not be closed.
RetryPending(r) ==
  /\ revoker[r].pc = "idle" /\ revoking # {}
  /\ revoker' = [revoker EXCEPT ![r] = [Resting EXCEPT !.pc = "closing", !.batch = revoking]]
  /\ UNCHANGED <<withdrawn, kicked, withdrawals, conn, listed_conns, revoking>>

SnapshotForRevocation(r) ==
  /\ revoker[r].pc \in {"close", "kick"}
  /\ revoking' = revoking \cup Targets(r)
  /\ revoker' = [revoker EXCEPT ![r].pc = "closing", ![r].batch = Targets(r)]
  /\ UNCHANGED <<withdrawn, kicked, withdrawals, conn, listed_conns>>

\* One of the gathered closes ends: the socket is closed, or was already, or
\* close raised or took too long.
CloseConn(r, w) ==
  /\ revoker[r].pc = "closing" /\ w \in revoker[r].batch
  /\ \/ /\ conn' = [conn EXCEPT ![w] = IF @ = "gone" THEN @ ELSE "closed"]
        /\ revoker' = [revoker EXCEPT ![r].batch = @ \ {w}, ![r].done = @ \cup {w}]
     \/ /\ conn[w] \notin {"closed", "gone"}
        /\ revoker' = [revoker EXCEPT ![r].batch = @ \ {w}]
        /\ UNCHANGED conn
  /\ UNCHANGED <<withdrawn, kicked, withdrawals, listed_conns, revoking>>

DiscardClosed(r) ==
  /\ revoker[r].pc = "closing" /\ revoker[r].batch = {}
  /\ listed_conns' = listed_conns \ revoker[r].done
  /\ revoking' = IF listed_conns = {} THEN revoking ELSE revoking \ revoker[r].done
  /\ revoker' = [revoker EXCEPT ![r] = Resting]
  /\ UNCHANGED <<withdrawn, kicked, withdrawals, conn>>

ConnNext ==
  \/ \E w \in Conns : \/ PassCheck(w) \/ RegisterConn(w) \/ FailCheck(w) \/ LeaveConn(w)
  \/ \E r \in Revokers :
       \/ \E g \in AllGrounds : MonitorGround(r, g) \/ \E how \in {"close", "kick"} : Withdraw(r, g, how)
       \/ RetryPending(r) \/ SnapshotForRevocation(r) \/ DiscardClosed(r)
       \/ \E w \in Conns : CloseConn(r, w)
  \/ \E g \in AllGrounds : RestoreGround(g)

ConnSpec == ConnInit /\ [][ConnNext]_connVars

-----------------------------------------------------------------------------
(* Properties. *)

\* A request that still has to look for the sockets on a ground.
Unsearched(g) == \E r \in Revokers : revoker[r].pc = "close" /\ revoker[r].ground = g

\* No socket serves on something withdrawn unless it is already marked to be
\* closed, or the request that withdrew it has not looked yet: nothing slips
\* between the checks of the handshake and the snapshot of the registry.
\* (Sessions ended by their id are KickCloses.)  Only listed sockets are marked.
RevokedIsMarked ==
  /\ revoking \subseteq listed_conns
  /\ \A w \in Conns : conn[w] = "serving" =>
       \A g \in GroundsOf(w) \cap withdrawn :
         g \in kicked \/ w \in revoking \/ Unsearched(g)

\* "踢出一条登录会话：删库中的哈希行 + 关掉该会话正在使用的 WebSocket": once
\* the request has ended, a socket of the session that serves is at least
\* marked to be closed.
KickCloses ==
  \A w \in Conns :
    LET g == Ground("session", SessionOf[w]) IN
    /\ conn[w] = "serving" /\ g \in withdrawn
    /\ \A r \in Revokers : revoker[r].ground # g \/ revoker[r].pc = "idle"
    => w \in revoking
=============================================================================
