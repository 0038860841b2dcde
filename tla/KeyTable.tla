------------------------------ MODULE KeyTable ------------------------------
(***************************************************************************)
(* What state.json promises its readers: at every instant a whole table of *)
(* keys, in which a key moves forward or is pruned.  A value is the        *)
(* sequence number of the put that wrote it; 0 is an absent key.           *)
(***************************************************************************)
EXTENDS Integers

CONSTANTS Keys, Prunable

VARIABLE table

Init == table = [k \in Keys |-> 0]

Step(S) ==
    /\ table' \in [Keys -> Nat]
    /\ \A k \in Keys : IF k \in S THEN table'[k] = 0 ELSE table'[k] >= table[k]

Next == \E S \in SUBSET Prunable : Step(S)

Spec == Init /\ [][Next]_table
=============================================================================
