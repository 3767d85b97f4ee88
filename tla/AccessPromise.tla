--------------------------- MODULE AccessPromise ---------------------------
(***************************************************************************)
(* What app/access_log.py promises: a request is recorded, or counted as   *)
(* lost, or still waiting; never two of these.  What is shown of the       *)
(* losses lags behind, is never more than there were, and outlives the     *)
(* process; what waited when the process died is gone.                     *)
(***************************************************************************)
EXTENDS Naturals

VARIABLES waiting, recorded, lost, shown, gone

promiseVars == <<waiting, recorded, lost, shown, gone>>

PromiseInit == waiting = 0 /\ recorded = 0 /\ lost = 0 /\ shown = 0 /\ gone = 0

Admit == waiting' = waiting + 1 /\ UNCHANGED <<recorded, lost, shown, gone>>
Refuse == lost' = lost + 1 /\ UNCHANGED <<waiting, recorded, shown, gone>>

Record == \E n \in 1..waiting :
  /\ waiting' = waiting - n /\ recorded' = recorded + n
  /\ UNCHANGED <<lost, shown, gone>>
Lose == \E n \in 1..waiting :
  /\ waiting' = waiting - n /\ lost' = lost + n
  /\ UNCHANGED <<recorded, shown, gone>>

Show == shown' \in shown..lost /\ UNCHANGED <<waiting, recorded, lost, gone>>

Die == /\ waiting' = 0 /\ gone' = gone + waiting + (lost - shown) /\ lost' = shown
       /\ UNCHANGED <<recorded, shown>>

PromiseNext == Admit \/ Refuse \/ Record \/ Lose \/ Show \/ Die

Promise == PromiseInit /\ [][PromiseNext]_promiseVars
=============================================================================
