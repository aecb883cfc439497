-------------------------- MODULE MCProfileRebuild --------------------------
(* Small instances of ProfileRebuild.                                       *)
EXTENDS ProfileRebuild, TLC

CONSTANTS u1, u2, t1, t2, t3

TwoThenOne == (t1 :> u1) @@ (t2 :> u1) @@ (t3 :> u2)
BothOne == (t1 :> u1) @@ (t2 :> u1)
=============================================================================
