-------------------------------- MODULE Credit --------------------------------
(***************************************************************************)
(* What a package promises: its credit is counted down atomically, an      *)
(* action is served at most once for each unit, and a package that was     *)
(* taken back has no credit. Packages implements this when requests do not *)
(* overlap.                                                                *)
(***************************************************************************)
EXTENDS Naturals

CONSTANT Row

VARIABLES left, granted

(* A unit is used up, and the action served unless something fails.            *)
Use(i) ==
    /\ left[i] > 0
    /\ left' = [left EXCEPT ![i] = left[i] - 1]
    /\ granted' \in {granted, [granted EXCEPT ![i] = granted[i] + 1]}

Withdraw(i) == left' = [left EXCEPT ![i] = 0] /\ UNCHANGED granted

CreditInit == left \in [Row -> Nat] /\ granted = [i \in Row |-> 0]

CreditNext == \E i \in Row : Use(i) \/ Withdraw(i)

CreditSpec == CreditInit /\ [][CreditNext]_<<left, granted>>
=============================================================================
