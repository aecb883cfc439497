----------------------------- MODULE MCTurnQueue -----------------------------
(* Instances of TurnQueue for TLC: the sessions, the users, the turns.       *)
EXTENDS TurnQueue, TLC

CONSTANTS t1, t2, t3

\* t1 and t2 share a session, t3 has its own; one user owns both.
TwoSessions == (t1 :> "s1" @@ t2 :> "s1" @@ t3 :> "s2")
OneSession == [t \in Turns |-> "s1"]
OneUser == [s \in Sessions |-> "u1"]
=============================================================================
