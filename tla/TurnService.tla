----------------------------- MODULE TurnService -----------------------------
(***************************************************************************)
(* What a client of the chat turn endpoints may rely on, with no queue, no *)
(* worker and no attempt in sight: a posted turn stays open until it is    *)
(* settled, gets at most one reply and only while it is open, and gets one *)
(* failure notice exactly when it is settled as failed.                    *)
(***************************************************************************)
EXTENDS Integers

CONSTANT Turns

VARIABLES
    phase,     \* "absent", "open", "done" or "failed"
    replies,   \* how many drives have answered the turn
    notices    \* how many failure notices the turn has

vars == <<phase, replies, notices>>

Init ==
    /\ phase = [t \in Turns |-> "absent"]
    /\ replies = [t \in Turns |-> 0]
    /\ notices = [t \in Turns |-> 0]

Post(t) ==
    /\ phase[t] = "absent"
    /\ phase' = [phase EXCEPT ![t] = "open"]
    /\ UNCHANGED <<replies, notices>>

Reply(t) ==
    /\ phase[t] = "open"
    /\ replies[t] = 0
    /\ replies' = [replies EXCEPT ![t] = 1]
    /\ UNCHANGED <<phase, notices>>

Complete(t) ==
    /\ phase[t] = "open"
    /\ phase' = [phase EXCEPT ![t] = "done"]
    /\ UNCHANGED <<replies, notices>>

\* One sweep may fail several open turns.
Fail(failing) ==
    /\ \A t \in failing : phase[t] = "open"
    /\ phase' = [t \in Turns |-> IF t \in failing THEN "failed" ELSE phase[t]]
    /\ notices' = [t \in Turns |-> IF t \in failing THEN notices[t] + 1 ELSE notices[t]]
    /\ UNCHANGED replies

Next ==
    \/ \E t \in Turns : Post(t) \/ Reply(t) \/ Complete(t)
    \/ \E failing \in SUBSET Turns : Fail(failing)

Spec == Init /\ [][Next]_vars
=============================================================================
