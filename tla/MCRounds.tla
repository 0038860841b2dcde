------------------------------ MODULE MCRounds ------------------------------
(***************************************************************************)
(* Small instances of Rounds.  Two sources carry the same announcement (f1 *)
(* and f2); f3 is another one, weak enough to tell the ranking apart.      *)
(***************************************************************************)
EXTENDS Rounds

CONSTANTS f1, f2, f3, b1, b2

MCFindings == {f1, f2, f3}
MCTwoFindings == {f1, f3}
MCTitleOf == [f \in Findings |-> IF f = f3 THEN "qwen" ELSE "glm"]
MCScore == [f \in Findings |-> IF f = f3 THEN 90 ELSE 95]
MCDeadline == [f \in Findings |-> IF f = f3 THEN 1 ELSE MaxTime]
=============================================================================
