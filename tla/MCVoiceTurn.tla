----------------------------- MODULE MCVoiceTurn -----------------------------
(* Instances of VoiceTurn for TLC.                                           *)
EXTENDS VoiceTurn, TLC

Symmetry == Permutations(Calls) \cup Permutations(Interrupts)
=============================================================================
