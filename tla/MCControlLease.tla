--------------------------- MODULE MCControlLease ---------------------------
(* Instances of ControlLease for TLC: two sockets, a request and an          *)
(* administrator, with many messages, or with an administrative change; and  *)
(* one socket over time.  "part" is chosen at the start.                     *)
EXTENDS ControlLease, TLC

CONSTANTS u1, u2, s1, s2, v1

TwoUsers == {u1, u2}
OneAdmin == {u2}
TwoSockets == {s1, s2}
OneViewer == {v1}
Owners == (s1 :> u1) @@ (s2 :> u2) @@ (v1 :> u1)

Fence == INSTANCE ControlLease WITH MaxTime <- 0, MaxCalls <- 3, MaxChanges <- 0
Loss == INSTANCE ControlLease WITH MaxTime <- 0, MaxCalls <- 2, MaxChanges <- 1

\* Nobody but s1 and its user does anything.
Alone == /\ \A c \in Callers \ {s1} : pc'[c] = pc[c]
         /\ rights'[u2] = rights[u2]

VARIABLE part

LeaseInit == part \in {"fence", "loss", "time"} /\ Init

LeaseNext ==
  \/ part = "fence" /\ Fence!Next /\ UNCHANGED part
  \/ part = "loss" /\ Loss!Next /\ UNCHANGED part
  \/ part = "time" /\ Next /\ Alone /\ UNCHANGED part

LeaseSpec == LeaseInit /\ [][LeaseNext]_<<part, vars>>

=============================================================================
