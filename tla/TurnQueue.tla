------------------------------ MODULE TurnQueue ------------------------------
(***************************************************************************)
(* The chat turn queue: engine.chat_turn_queue, the handlers that insert   *)
(* into it, the worker that claims from it, the drives that generate a     *)
(* turn's reply, and the ladder that settles a driven turn.                *)
(*                                                                         *)
(* A turn is one user message, named by its client_msg_id.  A drive is one *)
(* attempt to answer it: <<t, n>> is the drive that holds the claim with   *)
(* attempts = n.  The database survives a crash, the drives and the worker *)
(* do not.  One process serves the deployment.                             *)
(*                                                                         *)
(* A definition placed just before another, same parameters, that no other *)
(* definition uses is a mutant of it: the bug a property is there to catch.*)
(***************************************************************************)
EXTENDS Integers, FiniteSets

CONSTANTS
    Turns,         \* the client_msg_ids that may be posted
    SessionOf,     \* the chat session each turn belongs to
    UserOf,        \* the user who owns each session
    Volatile,      \* turns only their own handler can drive: group, BYOC, BYOK
    MaxAttempts,   \* CHAT_QUEUE_MAX_ATTEMPTS
    PendingCap,    \* CHAT_QUEUE_PENDING_CAP
    Concurrency,   \* CHAT_QUEUE_CONCURRENCY, permits of the worker's semaphore
    StreamSlots,   \* CONCURRENT_STREAMS_PER_USER
    GenTimeout,    \* CHAT_QUEUE_GEN_TIMEOUT_SECS, in ticks
    ClaimStale,    \* CHAT_QUEUE_CLAIM_STALE_SECS, in ticks
    MaxFaults,     \* bound on database calls that fail or commit too late
    MaxCrashes     \* bound on process crashes

Sessions == {SessionOf[t] : t \in Turns}

ASSUME SessionsAssumption == UserOf \in [Sessions -> {UserOf[s] : s \in Sessions}]
ASSUME TurnsAssumption == IsFiniteSet(Turns)
ASSUME VolatileAssumption == Volatile \subseteq Turns
ASSUME KnobAssumption ==
    /\ MaxAttempts \in Nat \ {0}
    /\ PendingCap \in Nat \ {0}
    /\ Concurrency \in Nat
    /\ StreamSlots \in Nat \ {0}
    /\ GenTimeout \in Nat \ {0}
    /\ ClaimStale \in Nat \ {0}
ASSUME BoundAssumption ==
    /\ MaxFaults \in Nat
    /\ MaxCrashes \in Nat

Attempts == 1..MaxAttempts
Drives == Turns \X Attempts
TurnOf(d) == d[1]
AttemptOf(d) == d[2]

\* The age past which a claim is a dead worker's: no drive settles that late.
StaleAge == GenTimeout + ClaimStale
Ages == 0..(StaleAge + 1)

Statuses == {"absent", "pending", "claimed", "done", "failed"}
Origins == {"none", "async", "stream"}

\* Where a drive is: its handler has yet to spawn it; it reads the served
\* guard; it generates; a reply is stored but its Done frame not yet counted;
\* it re-reads the guard before going terminal; it is about to write one of the
\* three verdicts; or its task is gone.
Generating == {"spawning", "guard", "generating", "stored"}
Settling == {"recheck", "mark_done", "mark_failed", "release"}
Live == Generating \cup Settling
Stages == Live \cup {"none", "gone"}

VARIABLES
    \* engine.chat_turn_queue
    status,      \* status of the turn's row, "absent" before it is posted
    attempts,    \* attempts
    age,         \* now() - claimed_at, in ticks, saturating past StaleAge
    created,     \* rank of created_at, 0 before the turn is posted
    origin,      \* which endpoint inserted the row
    \* engine.chat_messages
    servedBy,    \* the attempts whose drive stored a reply or a ghost mark in time
    lateBy,      \* those whose reply was committed after the drive was abandoned
    notices,     \* how many system_error rows the turn has
    \* the process
    stage,       \* where each drive is
    doneSeen,    \* the drive has counted a Done frame
    worker,      \* "idle", "claiming" or "down"
    inFlight,    \* abandoned drives whose COMMIT is still at the database
    \* bounds
    faults, crashes

rowVars == <<status, attempts, age, created, origin>>
messageVars == <<servedBy, lateBy, notices>>
taskVars == <<stage, doneSeen>>
boundVars == <<faults, crashes>>
vars == <<rowVars, messageVars, taskVars, worker, inFlight, boundVars>>

TypeOK ==
    /\ status \in [Turns -> Statuses]
    /\ attempts \in [Turns -> 0..MaxAttempts]
    /\ age \in [Turns -> Ages]
    /\ created \in [Turns -> Nat]
    /\ origin \in [Turns -> Origins]
    /\ servedBy \in [Turns -> SUBSET Attempts]
    /\ lateBy \in [Turns -> SUBSET Attempts]
    /\ notices \in [Turns -> Nat]
    /\ stage \in [Drives -> Stages]
    /\ doneSeen \in [Drives -> BOOLEAN]
    /\ worker \in {"idle", "claiming", "down"}
    /\ inFlight \subseteq Drives
    /\ faults \in 0..MaxFaults
    /\ crashes \in 0..MaxCrashes

Init ==
    /\ status = [t \in Turns |-> "absent"]
    /\ attempts = [t \in Turns |-> 0]
    /\ age = [t \in Turns |-> 0]
    /\ created = [t \in Turns |-> 0]
    /\ origin = [t \in Turns |-> "none"]
    /\ servedBy = [t \in Turns |-> {}]
    /\ lateBy = [t \in Turns |-> {}]
    /\ notices = [t \in Turns |-> 0]
    /\ stage = [d \in Drives |-> "none"]
    /\ doneSeen = [d \in Drives |-> FALSE]
    /\ worker = "idle"
    /\ inFlight = {}
    /\ faults = 0
    /\ crashes = 0

-----------------------------------------------------------------------------
\* Reading the tables.

Up == worker # "down"
Open(t) == status[t] \in {"pending", "claimed"}
Terminal(t) == status[t] \in {"done", "failed"}
SameSession(t) == {u \in Turns : SessionOf[u] = SessionOf[t]}

\* turn_already_served: the driving row has an assistant row or a ghost mark.
Served(t) == servedBy[t] # {} \/ lateBy[t] # {}

\* The mode a drive settles in: the handler of a stream turn drives attempt 1
\* and goes terminal on failure, every later attempt is the worker's.
Ladder(d) == ~(origin[TurnOf(d)] = "stream" /\ AttemptOf(d) = 1)

LiveDrives == {d \in Drives : stage[d] \in Live}
PermitsHeld == {d \in LiveDrives : Ladder(d)}
SlotsHeld(user) ==
    {d \in LiveDrives : ~Ladder(d) /\ UserOf[SessionOf[TurnOf(d)]] = user}

\* One more database call fails, or commits too late.
Fault == faults < MaxFaults /\ faults' = faults + 1
NoFault == UNCHANGED faults

-----------------------------------------------------------------------------
\* The endpoints.

AnswerFailedFirst(t) ==
    CASE status[t] = "absent" -> "new"
      [] status[t] = "failed" -> "failed"
      [] status[t] \notin {"absent", "failed"} /\ Served(t) -> "completed"
      [] OTHER -> "in_progress"

\* What a POST that repeats an earlier client_msg_id is told.
Answer(t) ==
    CASE status[t] = "absent" -> "new"
      [] status[t] # "absent" /\ Served(t) -> "completed"
      [] status[t] = "failed" /\ ~Served(t) -> "failed"
      [] OTHER -> "in_progress"

\* The next created_at: later than that of every stored row.
NextCreated == Cardinality({t \in Turns : status[t] # "absent"}) + 1

\* enqueue_user_message: user row and pending row in one transaction, rolled
\* back at the depth cap.  The upsert's UPDATE of the session row serializes the
\* count with every other enqueue of the session.
InsertPending(t) ==
    /\ status[t] = "absent"
    /\ Cardinality({u \in SameSession(t) : Open(u)}) < PendingCap
    /\ status' = [status EXCEPT ![t] = "pending"]
    /\ created' = [created EXCEPT ![t] = NextCreated]
    /\ origin' = [origin EXCEPT ![t] = "async"]
    /\ UNCHANGED <<attempts, age>>

\* enqueue_user_message_claimed: born claimed, first attempt, no cap.
InsertClaimed(t) ==
    /\ status[t] = "absent"
    /\ status' = [status EXCEPT ![t] = "claimed"]
    /\ attempts' = [attempts EXCEPT ![t] = 1]
    /\ age' = [age EXCEPT ![t] = 0]
    /\ created' = [created EXCEPT ![t] = NextCreated]
    /\ origin' = [origin EXCEPT ![t] = "stream"]

\* send_message_async: the worker drives the turn, so what only a handler holds
\* (a BYOK configuration, a BYOC card, a group) is refused.
EnqueueAsync(t) ==
    /\ Up
    /\ t \notin Volatile
    /\ InsertPending(t)
    /\ UNCHANGED <<messageVars, taskVars, worker, inFlight, boundVars>>

\* send_message_stream: a stream slot is taken before the row is stored, and the
\* handler goes on to spawn the drive.
EnqueueStream(t) ==
    /\ Up
    /\ Cardinality(SlotsHeld(UserOf[SessionOf[t]])) < StreamSlots
    /\ InsertClaimed(t)
    /\ stage' = [stage EXCEPT ![<<t, 1>>] = "spawning"]
    /\ UNCHANGED <<messageVars, doneSeen, worker, inFlight, boundVars>>

\* The handler spawns the detached drive task.
Spawn(d) ==
    /\ stage[d] = "spawning"
    /\ stage' = [stage EXCEPT ![d] = "generating"]
    /\ UNCHANGED <<rowVars, messageVars, doneSeen, worker, inFlight, boundVars>>

\* The client leaves while the handler awaits the enqueue: the transaction has
\* committed and the drive is never spawned.
HandlerDropped(d) ==
    /\ stage[d] = "spawning"
    /\ stage' = [stage EXCEPT ![d] = "gone"]
    /\ UNCHANGED <<rowVars, messageVars, doneSeen, worker, inFlight, boundVars>>

-----------------------------------------------------------------------------
\* The worker: drain_once.

Exhausted(t) == attempts[t] >= MaxAttempts

StaleOnlyIfExhausted(t) ==
    status[t] = "claimed" /\ age[t] > GenTimeout + ClaimStale /\ Exhausted(t)
Stale(t) == status[t] = "claimed" /\ age[t] > GenTimeout + ClaimStale

ReapWithoutNotice ==
    /\ worker = "idle"
    /\ status' = [t \in Turns |->
                    IF Stale(t) THEN IF Exhausted(t) THEN "failed" ELSE "pending"
                    ELSE status[t]]
    /\ age' = [t \in Turns |-> IF Stale(t) THEN 0 ELSE age[t]]
    /\ worker' = "claiming"
    /\ UNCHANGED <<attempts, created, origin, messageVars, taskVars, inFlight, boundVars>>

\* reap_stale, one transaction: exhausted stale claims fail with a notice, the
\* others return to pending.  Then the claim loop starts.
Reap ==
    /\ worker = "idle"
    /\ status' = [t \in Turns |->
                    IF Stale(t) THEN IF Exhausted(t) THEN "failed" ELSE "pending"
                    ELSE status[t]]
    /\ notices' = [t \in Turns |->
                    IF Stale(t) /\ Exhausted(t) THEN notices[t] + 1 ELSE notices[t]]
    /\ age' = [t \in Turns |-> IF Stale(t) THEN 0 ELSE age[t]]
    /\ worker' = "claiming"
    /\ UNCHANGED <<attempts, created, origin, servedBy, lateBy, taskVars, inFlight,
                   boundVars>>

HeadOfBusySession(t) ==
    /\ status[t] = "pending"
    /\ \A u \in SameSession(t) : status[u] = "pending" => created[u] <= created[t]

\* The newest pending turn of a session none of whose turns is claimed.
SessionHead(t) ==
    /\ status[t] = "pending"
    /\ \A u \in SameSession(t) :
        /\ status[u] # "claimed"
        /\ status[u] = "pending" => created[u] <= created[t]

\* Among the session heads, claim_next takes the oldest.
Claimable(t) ==
    /\ SessionHead(t)
    /\ \A u \in Turns : SessionHead(u) => created[t] <= created[u]

PermitFree == Cardinality(PermitsHeld) < Concurrency

TakeClaim(t) ==
    /\ status' = [status EXCEPT ![t] = "claimed"]
    /\ attempts' = [attempts EXCEPT ![t] = @ + 1]
    /\ age' = [age EXCEPT ![t] = 0]
    /\ UNCHANGED <<created, origin>>

\* claim_next returned a turn: its drive is spawned with the permit.
ClaimNext(t) ==
    /\ worker = "claiming"
    /\ PermitFree
    /\ Claimable(t)
    /\ TakeClaim(t)
    /\ stage' = [stage EXCEPT ![<<t, attempts[t] + 1>>] = "guard"]
    /\ UNCHANGED <<messageVars, doneSeen, worker, inFlight, boundVars>>

\* The claim committed and its answer was lost: nobody drives the claimed row,
\* and the drain ends on the error.
ClaimLost(t) ==
    /\ worker = "claiming"
    /\ PermitFree
    /\ Claimable(t)
    /\ TakeClaim(t)
    /\ Fault
    /\ worker' = "idle"
    /\ UNCHANGED <<messageVars, taskVars, inFlight, crashes>>

\* The drain ends: no permit, nothing to claim, or the claim query failed.
EndDrain ==
    /\ worker = "claiming"
    /\ \/ /\ ~PermitFree \/ ~\E t \in Turns : Claimable(t)
          /\ NoFault
       \/ Fault
    /\ worker' = "idle"
    /\ UNCHANGED <<rowVars, messageVars, taskVars, inFlight, crashes>>

-----------------------------------------------------------------------------
\* A drive.

\* Where settle_turn goes with an outcome.
AfterSuccess == "mark_done"
AfterUnservable == "mark_failed"
AfterFailure(d) ==
    IF ~Ladder(d) \/ AttemptOf(d) >= MaxAttempts THEN "recheck" ELSE "release"

\* classify_outcome: any Done frame counted makes the turn a success.
Outcome(d, done) == IF done THEN AfterSuccess ELSE AfterFailure(d)

MoveTo(d, s) == stage' = [stage EXCEPT ![d] = s]

ReadGuardUnconditionally(d) ==
    /\ stage[d] = "guard"
    /\ MoveTo(d, IF TurnOf(d) \in Volatile THEN AfterUnservable ELSE "generating")
    /\ UNCHANGED <<rowVars, messageVars, doneSeen, worker, inFlight, boundVars>>

\* drive_turn reads the served guard, then loads the turn.
ReadGuard(d) ==
    /\ stage[d] = "guard"
    /\ \/ Served(TurnOf(d)) /\ MoveTo(d, AfterSuccess) /\ NoFault
       \/ /\ ~Served(TurnOf(d))
          /\ MoveTo(d, IF TurnOf(d) \in Volatile THEN AfterUnservable ELSE "generating")
          /\ NoFault
       \/ Fault /\ MoveTo(d, AfterFailure(d))
    /\ UNCHANGED <<rowVars, messageVars, doneSeen, worker, inFlight, crashes>>

\* run_stream stores a reply row, or marks the user row ghosted, ahead of the
\* Done frame.  A failed write is only logged and the Done frame follows.
StoreReply(d) ==
    /\ stage[d] = "generating"
    /\ \/ /\ servedBy' = [servedBy EXCEPT ![TurnOf(d)] = @ \cup {AttemptOf(d)}]
          /\ NoFault
       \/ Fault /\ UNCHANGED servedBy
    /\ MoveTo(d, "stored")
    /\ UNCHANGED <<rowVars, lateBy, notices, doneSeen, worker, inFlight, crashes>>

\* drive_to_exhaustion counts the Done frame; a burst may go on to another reply.
CountDone(d) ==
    /\ stage[d] = "stored"
    /\ doneSeen' = [doneSeen EXCEPT ![d] = TRUE]
    /\ MoveTo(d, "generating")
    /\ UNCHANGED <<rowVars, messageVars, worker, inFlight, boundVars>>

\* The frame stream ends after a Done frame, or with an Error frame after any
\* number of them.
EndStream(d) ==
    /\ stage[d] = "generating"
    /\ \E error \in BOOLEAN :
        /\ error \/ doneSeen[d]
        /\ MoveTo(d, Outcome(d, doneSeen[d]))
    /\ UNCHANGED <<rowVars, messageVars, doneSeen, worker, inFlight, boundVars>>

\* tokio::time::timeout drops the drive.  Its outcome is a failure whatever it
\* had counted; a COMMIT it was waiting for may still land.
Timeout(d) ==
    /\ stage[d] \in {"guard", "generating", "stored"}
    /\ age[TurnOf(d)] >= GenTimeout
    /\ MoveTo(d, AfterFailure(d))
    /\ \/ UNCHANGED inFlight /\ NoFault
       \/ /\ stage[d] = "generating"
          /\ inFlight' = inFlight \cup {d}
          /\ Fault
    /\ UNCHANGED <<rowVars, messageVars, doneSeen, worker, crashes>>

CommitLands(d) ==
    /\ d \in inFlight
    /\ inFlight' = inFlight \ {d}
    /\ lateBy' = [lateBy EXCEPT ![TurnOf(d)] = @ \cup {AttemptOf(d)}]
    /\ UNCHANGED <<rowVars, servedBy, notices, taskVars, worker, boundVars>>

-----------------------------------------------------------------------------
\* settle_turn.

RecheckSkipped(d) ==
    /\ stage[d] = "recheck"
    /\ MoveTo(d, "mark_failed")
    /\ UNCHANGED <<rowVars, messageVars, doneSeen, worker, inFlight, boundVars>>

\* Before a terminal failure the served guard is read again; a failed read
\* falls through to the failure.
Recheck(d) ==
    /\ stage[d] = "recheck"
    /\ \/ MoveTo(d, IF Served(TurnOf(d)) THEN "mark_done" ELSE "mark_failed") /\ NoFault
       \/ Fault /\ MoveTo(d, "mark_failed")
    /\ UNCHANGED <<rowVars, messageVars, doneSeen, worker, inFlight, crashes>>

\* The three verdicts update the row by id, whatever its status.
MarkDone(d) ==
    /\ stage[d] = "mark_done"
    /\ status' = [status EXCEPT ![TurnOf(d)] = "done"]
    /\ MoveTo(d, "gone")
    /\ UNCHANGED <<attempts, age, created, origin, messageVars, doneSeen,
                   worker, inFlight, boundVars>>

MarkFailedWithNotice(d) ==
    /\ stage[d] = "mark_failed"
    /\ status' = [status EXCEPT ![TurnOf(d)] = "failed"]
    /\ notices' = [notices EXCEPT ![TurnOf(d)] = @ + 1]
    /\ MoveTo(d, "gone")
    /\ UNCHANGED <<attempts, age, created, origin, servedBy, lateBy, doneSeen,
                   worker, inFlight, boundVars>>

Release(d) ==
    /\ stage[d] = "release"
    /\ status' = [status EXCEPT ![TurnOf(d)] = "pending"]
    /\ age' = [age EXCEPT ![TurnOf(d)] = 0]
    /\ MoveTo(d, "gone")
    /\ UNCHANGED <<attempts, created, origin, messageVars, doneSeen,
                   worker, inFlight, boundVars>>

\* A verdict that cannot be written is logged: the row stays claimed with no drive.
VerdictLost(d) ==
    /\ stage[d] \in {"mark_done", "mark_failed", "release"}
    /\ Fault
    /\ MoveTo(d, "gone")
    /\ UNCHANGED <<rowVars, messageVars, doneSeen, worker, inFlight, crashes>>

-----------------------------------------------------------------------------
\* Time and the process.

\* A tick of the clock.  The timeout fires when it is due, and a drive settles
\* within the claim_stale grace that follows its generation deadline.
OnTime(d) ==
    /\ stage[d] \in Generating => age[TurnOf(d)] < GenTimeout
    /\ stage[d] \in Settling => age[TurnOf(d)] < StaleAge

Tick ==
    /\ \E t \in Turns : status[t] = "claimed" /\ age[t] <= StaleAge
    /\ \A d \in Drives : OnTime(d)
    /\ age' = [t \in Turns |->
                IF status[t] = "claimed" /\ age[t] <= StaleAge
                THEN age[t] + 1 ELSE age[t]]
    /\ UNCHANGED <<status, attempts, created, origin, messageVars, taskVars,
                   worker, inFlight, boundVars>>

\* The process dies: every task is lost, the tables stay.
Crash ==
    /\ Up
    /\ crashes < MaxCrashes
    /\ crashes' = crashes + 1
    /\ worker' = "down"
    /\ stage' = [d \in Drives |-> IF stage[d] \in Live THEN "gone" ELSE stage[d]]
    /\ \/ UNCHANGED inFlight /\ NoFault
       \/ /\ inFlight' = inFlight \cup {d \in Drives : stage[d] = "generating"}
          /\ Fault
    /\ UNCHANGED <<rowVars, messageVars, doneSeen>>

Restart ==
    /\ worker = "down"
    /\ worker' = "idle"
    /\ UNCHANGED <<rowVars, messageVars, taskVars, inFlight, boundVars>>

Enqueue == \E t \in Turns : EnqueueAsync(t) \/ EnqueueStream(t)
Drain == Reap \/ (\E t \in Turns : ClaimNext(t) \/ ClaimLost(t)) \/ EndDrain
Generate(d) ==
    \/ Spawn(d) \/ HandlerDropped(d) \/ ReadGuard(d) \/ StoreReply(d)
    \/ CountDone(d) \/ EndStream(d) \/ Timeout(d)
Settle(d) ==
    \/ Recheck(d) \/ MarkDone(d) \/ MarkFailedWithNotice(d) \/ Release(d)
    \/ VerdictLost(d)

Next ==
    \/ Enqueue
    \/ Drain
    \/ \E d \in Drives : Generate(d) \/ Settle(d) \/ CommitLands(d)
    \/ Tick
    \/ Crash
    \/ Restart

\* Tasks are scheduled, the worker wakes on its interval, time passes and a dead
\* process is restarted.  Nothing obliges a client to post, a generation to
\* produce anything before its timeout, or a fault to happen.
Fairness ==
    /\ WF_vars(Drain)
    /\ \A d \in Drives :
        /\ WF_vars(Spawn(d) \/ HandlerDropped(d))
        /\ WF_vars(ReadGuard(d))
        /\ WF_vars(CountDone(d))
        /\ WF_vars(Timeout(d))
        /\ WF_vars(Settle(d))
    /\ WF_vars(Tick)
    /\ WF_vars(Restart)

Spec == Init /\ [][Next]_vars
FairSpec == Spec /\ Fairness
-----------------------------------------------------------------------------
(***************************************************************************)
(* What the queue promises.                                                *)
(***************************************************************************)

\* A live drive holds its claim: its row is still claimed, and by its own
\* attempt.  The reap threshold is the generation timeout plus the grace so that
\* no claim is taken from under a drive, and two ladders never write one row.
ClaimHeldByItsDrive ==
    \A d \in LiveDrives :
        /\ status[TurnOf(d)] = "claimed"
        /\ attempts[TurnOf(d)] = AttemptOf(d)

\* The worker drives one turn of a session at a time: claim_next's in-flight
\* guard is the only thing that serializes a session.
OneLadderPerSession ==
    \A d, e \in PermitsHeld :
        SessionOf[TurnOf(d)] = SessionOf[TurnOf(e)] => d = e

\* A turn waiting to be claimed has an attempt left, whether it was released by
\* the ladder or by the reaper, so a claim never exceeds MaxAttempts.
WaitingHasAttemptsLeft ==
    \A t \in Turns : status[t] = "pending" => attempts[t] < MaxAttempts

\* A terminal failure is told to the user exactly once: a failed turn has one
\* system_error row and no other turn has any.
OneNoticePerFailure ==
    \A t \in Turns : notices[t] = IF status[t] = "failed" THEN 1 ELSE 0

\* A turn is answered by one drive only, across retries, reaped claims and
\* restarts: drive_turn's replay guard.  Only a reply whose COMMIT outlived its
\* drive may join another, as its drive no longer holds the claim.
OneReply == \A t \in Turns : Cardinality(servedBy[t]) <= 1

\* A turn that has a reply is never failed (turn_already_served: "must not be
\* driven (or failed) again").
FailedIsUnserved ==
    \A t \in Turns : status[t] = "failed" => ~Served(t)

\* A turn settled as done has a reply or a ghost mark (classify_outcome: "any
\* Done => history already has a served reply").
DoneIsServed ==
    \A t \in Turns : status[t] = "done" => Served(t)

\* While no database call has failed and no process has died, both hold: a turn
\* is settled as what its history says, through timeouts, retries and reaps.
SettledAsServed ==
    faults = 0 /\ crashes = 0 => FailedIsUnserved /\ DoneIsServed

\* A settled turn stays as it was settled: its status, the reply of a drive that
\* held its claim and its notices never change again, so no drive, verdict or reap
\* comes late to it.
SettledForGood ==
    [][\A t \in Turns : Terminal(t) =>
        /\ status'[t] = status[t]
        /\ servedBy'[t] = servedBy[t]
        /\ notices'[t] = notices[t]]_vars

\* What a repeated POST is told is final once it is "completed" or "failed" ("a
\* same-id retry can never succeed"), but that a failed turn is "completed" after
\* all when a reply's COMMIT lands on it late.
AnswerIsFinal ==
    [][\A t \in Turns :
        /\ Answer(t) = "completed" => Answer(t)' = "completed"
        /\ Answer(t) = "failed" => Answer(t)' = "failed" \/ lateBy'[t] # lateBy[t]]_vars

\* Every posted turn is settled in the end, done or failed: a lost drive, a lost
\* verdict, a lost claim and a dead process are all recovered.
EveryTurnSettles ==
    \A t \in Turns : (status[t] # "absent") ~> Terminal(t)
-----------------------------------------------------------------------------
\* The queue seen from outside.
Phase == [t \in Turns |-> IF Open(t) THEN "open" ELSE status[t]]
Replies == [t \in Turns |-> Cardinality(servedBy[t])]

Service == INSTANCE TurnService WITH
    phase <- Phase, replies <- Replies, notices <- notices

\* The queue implements the service a client relies on: through claims,
\* retries, reaps and restarts a turn is posted, answered and settled once.  A
\* reply committed late is beside what the service promises.
ImplementsService == Service!Spec
=============================================================================
