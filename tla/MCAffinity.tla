----------------------------- MODULE MCAffinity -----------------------------
(* Small instances of Affinity.                                            *)
EXTENDS Affinity, TLC

CONSTANTS s1, s2, t1, t2

\* A row last written a day ago when a ghost wrote it, now otherwise.
Stored(score, pending, streak) ==
    LET at == IF streak > 0 THEN -Day ELSE 0 IN
    [id |-> 1, score |-> score, pending |-> pending, streak |-> streak,
     total |-> streak, ghostAt |-> IF streak > 0 THEN at ELSE Never,
     at |-> at, clauseAt |-> Never]

\* A relationship at the top of its second tier, one point held back.
Warm == {Stored(3, 1, 0), NoRow}
\* One ghost behind it, its hour long past.
Ghosted == {Stored(3, 0, 1)}
Signs == {-1, 0, 1}
Alike == Permutations(Turns)
=============================================================================
