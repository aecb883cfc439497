------------------------------- MODULE MCWorld -------------------------------
(* Instances of World for TLC.                                                *)
EXTENDS World, TLC

\* The texts, the sweepers and the town sweepers are each interchangeable.
Symmetry ==
    Permutations(Texts) \cup Permutations(Sweepers) \cup Permutations(TownSweepers)
=============================================================================
