--------------------------- MODULE ProfileRebuild ---------------------------
(***************************************************************************)
(* The profile derived from a user's fact ledger: the extractions that     *)
(* record a turn's facts and count them, the claim on the user's state     *)
(* row, the inline rebuild and the sweeper that take it, call the model    *)
(* and write the profile, and the erasure that deletes it all under them.  *)
(*                                                                         *)
(* A fact is named by the turn that brought it; a profile, and the payload *)
(* of an audit row, by the facts the model was shown.  An erasure is one   *)
(* transaction that starts with the state row, the row every profile write *)
(* locks, so it is one step here.                                          *)
(*                                                                         *)
(* A definition placed just before another, same parameters, that no other *)
(* definition uses is a mutant of it: the bug a property is there to catch.*)
(***************************************************************************)
EXTENDS Integers, FiniteSets, SequencesExt

CONSTANTS
    Users,
    Turns,           \* the turns whose extraction finds a fact to record
    Sweepers,        \* the sweepers, one to a serving process
    UserOf,          \* the user each turn belongs to
    Transient,       \* turns whose fact supports no field of a profile
    NoRow,           \* the absence of a state row
    RebuildK,        \* REBUILD_K
    MaxFailures,     \* MAX_REBUILD_FAILURES
    Batch,           \* PROFILE_REBUILD_BATCH, the users claimed in one sweep
    Quiesced,        \* the user's traffic is stopped before an erasure
    MaxErasures,     \* bound on erasures
    MaxSlow,         \* bound on claims that go stale under a live rebuild
    MaxFaults        \* bound on failed database calls and process crashes

Workers == Turns \cup Sweepers

ASSUME WorkersAssumption == Turns \cap Sweepers = {}
ASSUME UsersAssumption == IsFiniteSet(Users)
ASSUME UserOfAssumption == UserOf \in [Turns -> Users] /\ Transient \subseteq Turns
ASSUME KnobAssumption ==
    RebuildK \in Nat \ {0} /\ MaxFailures \in Nat \ {0} /\ Batch \in Nat \ {0}
ASSUME BoundAssumption ==
    /\ Quiesced \in BOOLEAN
    /\ MaxErasures \in Nat /\ MaxSlow \in Nat /\ MaxFaults \in Nat

VARIABLES
    ledger,      \* engine.human_facts: the facts of each user
    row,         \* engine.human_profile_state: each user's row, or NoRow
    profile,     \* engine.human_insights: the facts behind each profile, {} for none
    noted,       \* engine.human_insights_events: the facts behind kept payloads
    at,          \* where each worker is
    batch,       \* the users each sweeper claimed and has not settled
    view,        \* the facts each worker's rebuild read
    outcome,     \* the RebuildOutcome each worker is about to settle
    \* what the model remembers for the properties
    erased,      \* facts that were in the ledger when their user was erased
    spoiled,     \* users who lost a claim under a live worker, by age or erasure
    \* how much happened so far
    erasures, slow, faults

tables == <<ledger, row, profile, noted>>
work == <<at, batch, view, outcome>>
ghosts == <<erased, spoiled>>
bounds == <<erasures, slow, faults>>
vars == <<tables, work, ghosts, bounds>>

-----------------------------------------------------------------------------
\* claim is claimed_at: none, younger than claim_stale, or older; quiet says
\* that last_fact_at is older than PROFILE_REBUILD_IDLE_SECS.
ProfileState == [pending : Nat, failures : 0..(MaxFailures - 1),
                 claim : {"none", "fresh", "stale"}, quiet : BOOLEAN]

\* No row is NoRow.
ASSUME RowAssumption == NoRow \notin ProfileState

\* An extraction calls its model, writes the ledger, counts, claims; a sweeper
\* has users due; either reads the ledger, calls, writes the profile, notes
\* what the model said, settles.
Rebuilding == {"read", "call", "write", "note", "settle"}
Stages == {"idle", "extract", "ledger", "count", "claim", "due", "done"} \cup Rebuilding

Outcomes == {"ok", "empty", "failed"}

\* Every variable has its type; the failure streak stays within what the
\* statements of profile_state.rs allow.
TypeOK ==
    /\ ledger \in [Users -> SUBSET Turns]
    /\ row \in [Users -> ProfileState \cup {NoRow}]
    /\ profile \in [Users -> SUBSET Turns]
    /\ noted \in [Users -> SUBSET Turns]
    /\ at \in [Workers -> Stages]
    /\ batch \in [Sweepers -> Seq(Users)]
    /\ view \in [Workers -> SUBSET Turns]
    /\ outcome \in [Workers -> Outcomes]
    /\ erased \subseteq Turns
    /\ spoiled \subseteq Users
    /\ erasures \in 0..MaxErasures /\ slow \in 0..MaxSlow
    /\ faults \in 0..MaxFaults

Init ==
    /\ ledger = [u \in Users |-> {}]
    /\ row = [u \in Users |-> NoRow]
    /\ profile = [u \in Users |-> {}]
    /\ noted = [u \in Users |-> {}]
    /\ at = [w \in Workers |-> "idle"]
    /\ batch = [w \in Sweepers |-> <<>>]
    /\ view = [w \in Workers |-> {}]
    /\ outcome = [w \in Workers |-> "empty"]
    /\ erased = {} /\ spoiled = {}
    /\ erasures = 0 /\ slow = 0 /\ faults = 0

-----------------------------------------------------------------------------
Exists(u) == row[u] # NoRow
Pending(u) == Exists(u) /\ row[u].pending > 0
Claimed(u) == Exists(u) /\ row[u].claim # "none"
MayClaimInAnyCase(u) == Pending(u)
MayClaim(u) == Pending(u) /\ row[u].claim # "fresh"

UserAt(w) == IF w \in Turns THEN UserOf[w] ELSE Head(batch[w])
Rebuilders(u) == {w \in Workers : at[w] \in Rebuilding /\ UserAt(w) = u}
Queueing(u) == {w \in Sweepers : \E i \in DOMAIN batch[w] : batch[w][i] = u}
Busy(u) == Rebuilders(u) \cup Queueing(u) # {}

GoTo(w, stage) == at' = [at EXCEPT ![w] = stage]
Fault == faults < MaxFaults /\ faults' = faults + 1

\* The worker is through with its user: a turn's task ends, a sweeper turns to
\* the next of its batch.
Leave(w) ==
    /\ batch' = IF w \in Sweepers THEN [batch EXCEPT ![w] = Tail(@)] ELSE batch
    /\ at' = [at EXCEPT ![w] = CASE w \in Turns -> "done"
                                 [] w \in Sweepers -> IF batch'[w] = <<>> THEN "idle" ELSE "due"]
    /\ view' = [view EXCEPT ![w] = {}]
    /\ outcome' = [outcome EXCEPT ![w] = "empty"]

SettleAs(w, o) ==
    /\ GoTo(w, "settle")
    /\ outcome' = [outcome EXCEPT ![w] = o]

-----------------------------------------------------------------------------
\* A reply is done and its facts are asked for.
Begin(t) ==
    /\ at[t] = "idle"
    /\ Quiesced => erasures = 0
    /\ GoTo(t, "extract")
    /\ UNCHANGED <<tables, batch, view, outcome, ghosts, bounds>>

\* extract_facts: facts, or none.
Extract(t) ==
    /\ at[t] = "extract"
    /\ \E next \in {"ledger", "done"} : GoTo(t, next)
    /\ UNCHANGED <<tables, batch, view, outcome, ghosts, bounds>>

\* record_facts: the ledger first; a failed write leaves the count alone.
Record(t) ==
    /\ at[t] = "ledger"
    /\ \/ /\ ledger' = [ledger EXCEPT ![UserOf[t]] = @ \cup {t}]
          /\ GoTo(t, "count")
          /\ UNCHANGED faults
       \/ Fault /\ GoTo(t, "done") /\ UNCHANGED ledger
    /\ UNCHANGED <<row, profile, noted, batch, view, outcome, ghosts, erasures, slow>>

\* bump: one more, creating the row on first use, and the idle window restarts.
BumpedRowAfresh(u) == [pending |-> 1, failures |-> 0, claim |-> "none", quiet |-> FALSE]
BumpedRow(u) ==
    IF Exists(u) THEN [row[u] EXCEPT !.pending = @ + 1, !.quiet = FALSE]
    ELSE [pending |-> 1, failures |-> 0, claim |-> "none", quiet |-> FALSE]

Bump(t) ==
    LET u == UserOf[t] IN
    /\ at[t] = "count"
    /\ \/ /\ row' = [row EXCEPT ![u] = BumpedRow(u)]
          /\ GoTo(t, IF BumpedRow(u).pending >= RebuildK THEN "claim" ELSE "done")
          /\ UNCHANGED faults
       \/ Fault /\ GoTo(t, "done") /\ UNCHANGED row
    /\ UNCHANGED <<ledger, profile, noted, batch, view, outcome, ghosts, erasures, slow>>

\* claim: for the extraction that made the count due, if nobody holds it.
Claim(t) ==
    LET u == UserOf[t] IN
    /\ at[t] = "claim"
    /\ \/ /\ MayClaim(u)
          /\ row' = [row EXCEPT ![u].claim = "fresh"]
          /\ GoTo(t, "read")
          /\ UNCHANGED faults
       \/ ~MayClaim(u) /\ GoTo(t, "done") /\ UNCHANGED <<row, faults>>
       \/ Fault /\ GoTo(t, "done") /\ UNCHANGED row
    /\ UNCHANGED <<ledger, profile, noted, batch, view, outcome, ghosts, erasures, slow>>

\* claim_due: users whose facts have sat idle, a batch of them stamped at once.
Due == {u \in Users : MayClaim(u) /\ row[u].quiet}
ClaimDue(w) ==
    /\ at[w] = "idle"
    /\ \E us \in SUBSET Due :
          /\ us # {} /\ Cardinality(us) <= Batch
          /\ Cardinality(us) = Batch \/ us = Due
          /\ row' = [u \in Users |->
                        IF u \in us THEN [row[u] EXCEPT !.claim = "fresh"] ELSE row[u]]
          /\ \E queue \in SetToSeqs(us) : batch' = [batch EXCEPT ![w] = queue]
    /\ GoTo(w, "due")
    /\ UNCHANGED <<ledger, profile, noted, view, outcome, ghosts, bounds>>

\* rebuild_claimed: the claim is stamped anew before the user's rebuild; a user
\* who has none left, or whose stamp fails, is passed over.
Refresh(w) ==
    LET u == UserAt(w) IN
    /\ at[w] = "due"
    /\ \/ /\ Claimed(u)
          /\ row' = [row EXCEPT ![u].claim = "fresh"]
          /\ GoTo(w, "read")
          /\ UNCHANGED <<batch, view, outcome, faults>>
       \/ ~Claimed(u) /\ Leave(w) /\ UNCHANGED <<row, faults>>
       \/ Fault /\ Leave(w) /\ UNCHANGED row
    /\ UNCHANGED <<ledger, profile, noted, ghosts, erasures, slow>>

-----------------------------------------------------------------------------
\* rebuild: the ledger is read; one that supports no field needs no model.
Read(w) ==
    LET facts == ledger[UserAt(w)] IN
    /\ at[w] = "read"
    /\ \/ /\ facts \subseteq Transient
          /\ SettleAs(w, "empty")
          /\ UNCHANGED <<view, faults>>
       \/ /\ ~(facts \subseteq Transient)
          /\ GoTo(w, "call")
          /\ view' = [view EXCEPT ![w] = facts]
          /\ UNCHANGED <<outcome, faults>>
       \/ Fault /\ SettleAs(w, "failed") /\ UNCHANGED view
    /\ UNCHANGED <<tables, batch, ghosts, erasures, slow>>

\* The model answers with a profile; with an object no field of which survives
\* the projection, or with no object, both kept for the audit; or not at all.
Call(w) ==
    /\ at[w] = "call"
    /\ \/ GoTo(w, "write") /\ outcome' = [outcome EXCEPT ![w] = "ok"]
       \/ \E o \in {"empty", "failed"} :
             GoTo(w, "note") /\ outcome' = [outcome EXCEPT ![w] = o]
       \/ SettleAs(w, "failed")
    /\ UNCHANGED <<tables, batch, view, ghosts, bounds>>

\* replace_profile_if_claimed: written under the state row's lock, while the row
\* is claimed, by whomever.  A claim that is gone is nobody's to settle.
MayWriteUnclaimed(u) == TRUE
MayWrite(u) == Claimed(u)

Write(w) ==
    LET u == UserAt(w) IN
    /\ at[w] = "write"
    /\ \/ /\ MayWrite(u)
          /\ profile' = [profile EXCEPT ![u] = view[w]]
          /\ GoTo(w, "note")
          /\ UNCHANGED <<batch, view, outcome, faults>>
       \/ ~MayWrite(u) /\ Leave(w) /\ UNCHANGED <<profile, faults>>
       \/ Fault /\ SettleAs(w, "failed") /\ UNCHANGED <<profile, batch, view>>
    /\ UNCHANGED <<ledger, row, noted, ghosts, erasures, slow>>

\* write_profile_event: what the model said is kept for the operator; a lost
\* audit row is only logged.
Note(w) ==
    /\ at[w] = "note"
    /\ GoTo(w, "settle")
    /\ \/ /\ noted' = [noted EXCEPT ![UserAt(w)] = @ \cup view[w]]
          /\ UNCHANGED faults
       \/ Fault /\ UNCHANGED noted
    /\ UNCHANGED <<ledger, row, profile, batch, view, outcome, ghosts, erasures, slow>>

\* finish_ok: the count restarts, the claim is released, whoever's it is.
FinishedOk(r) == [r EXCEPT !.pending = 0, !.failures = 0, !.claim = "none"]

\* finish_failed: the last strike drops the count; any other leaves it to the
\* sweeper after another idle window.
StrikesOut(r) == r.failures + 1 >= MaxFailures
FinishedFailedAtOnce(r) == [r EXCEPT !.failures = 0, !.quiet = FALSE, !.claim = "none"]
FinishedFailed(r) ==
    [r EXCEPT !.pending = IF StrikesOut(r) THEN 0 ELSE @,
              !.failures = IF StrikesOut(r) THEN 0 ELSE @ + 1,
              !.quiet = FALSE, !.claim = "none"]

\* rebuild_user: the state row is settled by outcome, if it is still there and
\* the statement does not fail.
Settle(w) ==
    LET u == UserAt(w) IN
    /\ at[w] = "settle"
    /\ \/ /\ row' = [row EXCEPT ![u] = CASE @ = NoRow -> NoRow
                                         [] @ # NoRow /\ outcome[w] = "failed" -> FinishedFailed(@)
                                         [] @ # NoRow /\ outcome[w] # "failed" -> FinishedOk(@)]
          /\ UNCHANGED faults
       \/ Fault /\ UNCHANGED row
    /\ Leave(w)
    /\ UNCHANGED <<ledger, profile, noted, ghosts, erasures, slow>>

-----------------------------------------------------------------------------
\* erase_user: the state row, the ledger, the profile and the audit payloads go
\* in one transaction; workers are not told.
Extracting(u) ==
    \E t \in Turns : UserOf[t] = u /\ at[t] \in {"extract", "ledger", "count"}

Erase(u) ==
    /\ erasures < MaxErasures
    /\ Quiesced => ~Extracting(u)
    /\ erasures' = erasures + 1
    /\ row' = [row EXCEPT ![u] = NoRow]
    /\ ledger' = [ledger EXCEPT ![u] = {}]
    /\ profile' = [profile EXCEPT ![u] = {}]
    /\ noted' = [noted EXCEPT ![u] = {}]
    /\ erased' = erased \cup ledger[u]
    /\ spoiled' = IF Busy(u) THEN spoiled \cup {u} ELSE spoiled
    /\ UNCHANGED <<work, slow, faults>>

\* A claim outlives claim_stale: its worker is dead, or slow.
Lapse(u) ==
    /\ Exists(u) /\ row[u].claim = "fresh"
    /\ Busy(u) => slow < MaxSlow
    /\ slow' = IF Busy(u) THEN slow + 1 ELSE slow
    /\ spoiled' = IF Busy(u) THEN spoiled \cup {u} ELSE spoiled
    /\ row' = [row EXCEPT ![u].claim = "stale"]
    /\ UNCHANGED <<ledger, profile, noted, work, erased, erasures, faults>>

\* The idle window passes with no new fact.
GoQuiet(u) ==
    /\ Exists(u) /\ ~row[u].quiet
    /\ row' = [row EXCEPT ![u].quiet = TRUE]
    /\ UNCHANGED <<ledger, profile, noted, work, ghosts, bounds>>

\* The serving processes die; extractions and batches under way are forgotten.
Crash ==
    /\ Fault
    /\ at' = [w \in Workers |-> CASE w \in Sweepers -> "idle"
                                  [] w \in Turns -> IF at[w] = "idle" THEN "idle" ELSE "done"]
    /\ batch' = [w \in Sweepers |-> <<>>]
    /\ view' = [w \in Workers |-> {}]
    /\ outcome' = [w \in Workers |-> "empty"]
    /\ UNCHANGED <<tables, ghosts, erasures, slow>>

Rebuild(w) == Read(w) \/ Call(w) \/ Write(w) \/ Note(w) \/ Settle(w)

Next ==
    \/ \E t \in Turns : Begin(t) \/ Extract(t) \/ Record(t) \/ Bump(t) \/ Claim(t)
    \/ \E w \in Sweepers : ClaimDue(w) \/ Refresh(w)
    \/ \E w \in Workers : Rebuild(w)
    \/ \E u \in Users : Erase(u) \/ Lapse(u) \/ GoQuiet(u)
    \/ Crash

Spec == Init /\ [][Next]_vars

\* A task that runs goes on, the sweepers tick, time passes.
FairSpec ==
    /\ Spec
    /\ \A w \in Sweepers : WF_vars(ClaimDue(w)) /\ WF_vars(Refresh(w))
    /\ \A w \in Workers : WF_vars(Rebuild(w))
    /\ \A u \in Users : WF_vars(Lapse(u)) /\ WF_vars(GoQuiet(u))

-----------------------------------------------------------------------------
\* "Claiming is what keeps two workers off the same user" (rebuild_user), until
\* a claim is lost under a live worker: a worker that lost it settles, and so
\* releases, the claim of the one that took over.
OneRebuilder ==
    \A u \in Users : u \in spoiled \/ Cardinality(Rebuilders(u)) <= 1

\* "The write is refused instead of re-creating a profile the erase just
\* removed" (replace_profile_if_claimed): a user with no state row, erased and
\* no fact counted since, has no profile, whatever rebuild was in flight.
ErasedStaysErased ==
    \A u \in Users : ~Exists(u) => profile[u] = {}

\* A profile is never replaced by one drawn from an older ledger, unless a claim
\* was lost under its worker (claim, rebuild, replace_profile_if_claimed).
ProfileKeepsUp ==
    [][\A u \in Users :
          profile[u] \subseteq profile'[u] \/ u \in spoiled' \/ erasures' > erasures]_vars

\* Counted facts are rebuilt from, given up after MAX_REBUILD_FAILURES or erased
\* in the end, whatever crashed or went stale, and however often the model
\* fails (claim_due, finish_ok, finish_failed).
CountSettles ==
    \A u \in Users : Pending(u) ~> ~Pending(u)
=============================================================================
