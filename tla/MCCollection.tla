---------------------------- MODULE MCCollection ----------------------------
(***************************************************************************)
(* One catalogue with a recent and an old model, one price page with two   *)
(* facts of which only one fits its list, and one search with two queries  *)
(* whose single result is the page of the recent model.                    *)
(***************************************************************************)
EXTENDS Collection, TLC

CONSTANTS models, prices, engine, m1, m2, p1, p2

MCSources == {models, prices, engine}
MCThings == {m1, m2, p1, p2}
MCListed == {m1, p1}
MCRank == (models :> 2) @@ (prices :> 3) @@ (engine :> 1)
MCKindOf == (models :> "openrouter") @@ (prices :> "snapshot") @@ (engine :> "search")
MCOn == (models :> {m1, m2}) @@ (prices :> {p1, p2}) @@ (engine :> {m1})
MCWanted == MCOn
MCFingerprint == [x \in MCThings |-> x]
MCCreated == [x \in MCThings |-> IF x = m1 THEN 1 ELSE 0]
MCCap == [s \in MCSources |-> 1]
=============================================================================
