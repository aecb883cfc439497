--------------------------- MODULE MCLifeChoices ---------------------------
(* Small instances of LifeChoices.                                         *)
EXTENDS LifeChoices, TLC

CONSTANTS s1, s2, t1, t2, t3

TwoThenOne == (t1 :> s1) @@ (t2 :> s1) @@ (t3 :> s2)
ColdAndWarm == (s1 :> "cold") @@ (s2 :> "warm")
AllCold == [s \in Sessions |-> "cold"]
Alike == Permutations({t1, t2})
=============================================================================
