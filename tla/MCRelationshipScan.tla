-------------------------- MODULE MCRelationshipScan --------------------------
(* Instances of RelationshipScan for TLC.                                     *)
EXTENDS RelationshipScan, TLC

\* A live scan may let its claim go stale anywhere, or only while it waits for
\* its turn in a batch, as DREAMING_CLAIM_STALE_SECS is to exceed the scan itself.
AnyStage == Stages
SlowBatch == {"batched"}
=============================================================================
