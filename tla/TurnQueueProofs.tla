--------------------------- MODULE TurnQueueProofs ---------------------------
(***************************************************************************)
(* Theorems about TurnQueue for any turns, sessions and knobs.             *)
(*                                                                         *)
(* The inductive invariant says what a claim is, turn by turn: a live      *)
(* drive holds the claim of its turn, by its own attempt, and the claim is *)
(* no older than the drive's stage allows, hence never stale.  So a reap   *)
(* never meets a live drive, and no two drives of a turn are live at once. *)
(***************************************************************************)
EXTENDS TurnQueue, FiniteSetTheorems, TLAPS

\* A live drive holds a claim young enough for its stage.
DriveInv(t, n) ==
    stage[<<t, n>>] \in Live =>
        /\ status[t] = "claimed"
        /\ attempts[t] = n
        /\ stage[<<t, n>>] \in Generating => age[t] <= GenTimeout
        /\ stage[<<t, n>>] \in Settling => age[t] <= StaleAge
        /\ stage[<<t, n>>] = "release" => n < MaxAttempts

TurnInv(t) ==
    /\ status[t] = "absent" => attempts[t] = 0
    /\ status[t] = "pending" => attempts[t] < MaxAttempts
    /\ notices[t] = IF status[t] = "failed" THEN 1 ELSE 0
    /\ \A n \in Attempts : DriveInv(t, n)

ClaimInv == TypeOK /\ \A t \in Turns : TurnInv(t)

-----------------------------------------------------------------------------
\* A drive is a turn and an attempt.
LEMMA DriveParts ==
    ASSUME NEW d \in Drives
    PROVE  /\ TurnOf(d) \in Turns
           /\ AttemptOf(d) \in Attempts
           /\ d = <<TurnOf(d), AttemptOf(d)>>
  BY DEF Drives, TurnOf, AttemptOf

\* A turn and an attempt make a drive.
LEMMA DrivePair ==
    ASSUME NEW t \in Turns, NEW n \in Attempts
    PROVE  /\ <<t, n>> \in Drives
           /\ TurnOf(<<t, n>>) = t
           /\ AttemptOf(<<t, n>>) = n
  BY DEF Drives, TurnOf, AttemptOf

\* The next creation rank is a number: there are finitely many turns.
LEMMA NextCreatedType == NextCreated \in Nat
  <1> DEFINE stored == {t \in Turns : status[t] # "absent"}
  <1>1. IsFiniteSet(stored)
    BY TurnsAssumption, FS_Subset
  <1>2. Cardinality(stored) \in Nat
    BY <1>1, FS_CardinalityType
  <1> QED
    BY <1>2 DEF NextCreated

\* A turn whose row and drives a step leaves alone keeps its invariant.
LEMMA Untouched ==
    ASSUME NEW t \in Turns, TurnInv(t),
           status'[t] = status[t], attempts'[t] = attempts[t], age'[t] = age[t],
           notices'[t] = notices[t],
           \A n \in Attempts : stage'[<<t, n>>] = stage[<<t, n>>]
    PROVE  TurnInv(t)'
  BY DEF TurnInv, DriveInv

-----------------------------------------------------------------------------
\* The initial state is well typed.
LEMMA TypeInit == Init => TypeOK
  BY KnobAssumption, BoundAssumption
  DEF Init, TypeOK, Stages, Statuses, Origins, Ages, StaleAge

\* Every step keeps the types.
LEMMA TypeStep ==
    ASSUME TypeOK, \A t \in Turns : TurnInv(t), [Next]_vars
    PROVE  TypeOK'
<1> USE KnobAssumption, BoundAssumption
<1> USE DEF TypeOK, rowVars, messageVars, taskVars, boundVars
<1>1. ASSUME NEW t \in Turns, EnqueueAsync(t) PROVE TypeOK'
  BY <1>1, NextCreatedType DEF EnqueueAsync, InsertPending, Statuses, Origins
<1>2. ASSUME NEW t \in Turns, EnqueueStream(t) PROVE TypeOK'
  <2>1. 1 \in 0..MaxAttempts /\ 0 \in Ages
    BY DEF Ages, StaleAge
  <2> QED
    BY <1>2, <2>1, NextCreatedType DEF EnqueueStream, InsertClaimed, Statuses, Origins,
       Stages, Live, Generating
<1>3. CASE Reap
  BY <1>3 DEF Reap, Stale, Exhausted, Statuses, Ages, StaleAge
<1>4. ASSUME NEW t \in Turns, ClaimNext(t) \/ ClaimLost(t) PROVE TypeOK'
  <2>1. attempts[t] < MaxAttempts
    BY <1>4 DEF ClaimNext, ClaimLost, Claimable, SessionHead, TurnInv
  <2> QED
    BY <1>4, <2>1 DEF ClaimNext, ClaimLost, TakeClaim, Fault, Statuses, Ages, StaleAge,
       Stages, Live, Generating
<1>5. CASE EndDrain
  BY <1>5 DEF EndDrain, Fault, NoFault
<1>6. ASSUME NEW d \in Drives, Generate(d) PROVE TypeOK'
  <2> USE DEF MoveTo, Stages, Live, Generating, Settling, Fault, NoFault,
          AfterFailure, AfterSuccess, AfterUnservable
  <2>1. CASE Spawn(d)
    BY <2>1 DEF Spawn
  <2>2. CASE HandlerDropped(d)
    BY <2>2 DEF HandlerDropped
  <2>3. CASE ReadGuard(d)
    BY <2>3 DEF ReadGuard
  <2>4. CASE StoreReply(d)
    BY <2>4, DriveParts DEF StoreReply
  <2>5. CASE CountDone(d)
    BY <2>5 DEF CountDone
  <2>6. CASE EndStream(d)
    BY <2>6 DEF EndStream, Outcome
  <2>7. CASE Timeout(d)
    BY <2>7 DEF Timeout
  <2> QED
    BY <1>6, <2>1, <2>2, <2>3, <2>4, <2>5, <2>6, <2>7 DEF Generate
<1>7. ASSUME NEW d \in Drives, Settle(d) PROVE TypeOK'
  <2> USE DriveParts DEF MoveTo, Stages, Live, Settling, Statuses, Fault, NoFault
  <2>1. CASE Recheck(d)
    BY <2>1 DEF Recheck
  <2>2. CASE MarkDone(d)
    BY <2>2 DEF MarkDone
  <2>3. CASE MarkFailedWithNotice(d)
    BY <2>3 DEF MarkFailedWithNotice
  <2>4. CASE Release(d)
    BY <2>4 DEF Release, Ages, StaleAge
  <2>5. CASE VerdictLost(d)
    BY <2>5 DEF VerdictLost
  <2> QED
    BY <1>7, <2>1, <2>2, <2>3, <2>4, <2>5 DEF Settle
<1>8. ASSUME NEW d \in Drives, CommitLands(d) PROVE TypeOK'
  BY <1>8, DriveParts DEF CommitLands
<1>9. CASE Tick
  BY <1>9 DEF Tick, Ages, StaleAge
<1>10. CASE Crash
  BY <1>10 DEF Crash, Stages, Fault, NoFault
<1>11. CASE Restart
  BY <1>11 DEF Restart
<1>12. CASE UNCHANGED vars
  BY <1>12 DEF vars
<1> QED
  BY <1>1, <1>2, <1>3, <1>4, <1>5, <1>6, <1>7, <1>8, <1>9, <1>10, <1>11, <1>12
  DEF Next, Enqueue, Drain

-----------------------------------------------------------------------------
\* Two live drives of one turn are the same drive.
LEMMA OneLiveDrive ==
    ASSUME NEW t \in Turns, TurnInv(t), NEW n \in Attempts, stage[<<t, n>>] \in Live,
           NEW m \in Attempts, stage[<<t, m>>] \in Live
    PROVE  m = n
  BY DEF TurnInv, DriveInv

\* What a step of drive <<t, n>> must show when it leaves other turns alone.
LEMMA DriveStep ==
    ASSUME ClaimInv, TypeOK',
           NEW t \in Turns, NEW n \in Attempts, stage[<<t, n>>] \in Live,
           \A u \in Turns \ {t} : /\ status'[u] = status[u]
                                  /\ attempts'[u] = attempts[u]
                                  /\ age'[u] = age[u]
                                  /\ notices'[u] = notices[u],
           stage' = [stage EXCEPT ![<<t, n>>] = stage'[<<t, n>>]],
           status'[t] # "absent",
           status'[t] = "pending" => attempts'[t] < MaxAttempts,
           notices'[t] = IF status'[t] = "failed" THEN 1 ELSE 0,
           DriveInv(t, n)'
    PROVE  \A u \in Turns : TurnInv(u)'
<1>1. ASSUME NEW u \in Turns, u # t PROVE TurnInv(u)'
  <2>1. \A m \in Attempts : stage'[<<u, m>>] = stage[<<u, m>>]
    BY <1>1, DrivePair DEF ClaimInv, TypeOK
  <2> QED
    BY <1>1, <2>1, Untouched DEF ClaimInv
<1>2. ASSUME NEW m \in Attempts, m # n PROVE DriveInv(t, m)'
  <2>1. stage'[<<t, m>>] = stage[<<t, m>>]
    BY <1>2, DrivePair DEF ClaimInv, TypeOK
  <2>2. stage[<<t, m>>] \notin Live
    BY <1>2, OneLiveDrive DEF ClaimInv
  <2> QED
    BY <2>1, <2>2 DEF DriveInv
<1>3. TurnInv(t)'
  BY <1>2 DEF TurnInv
<1> QED
  BY <1>1, <1>3

\* Every step keeps what the claim invariant says of each turn.
LEMMA TurnStep ==
    ASSUME ClaimInv, TypeOK', [Next]_vars
    PROVE  \A t \in Turns : TurnInv(t)'
<1> USE KnobAssumption, BoundAssumption
<1> USE DEF TypeOK, rowVars, messageVars, taskVars, boundVars
<1>1. ASSUME NEW t \in Turns, EnqueueAsync(t) PROVE \A u \in Turns : TurnInv(u)'
  <2> USE DEF EnqueueAsync, InsertPending, ClaimInv
  <2>1. ASSUME NEW u \in Turns, u # t PROVE TurnInv(u)'
    <3>1. /\ status'[u] = status[u] /\ attempts'[u] = attempts[u] /\ age'[u] = age[u]
          /\ notices'[u] = notices[u] /\ stage' = stage
      BY <1>1, <2>1
    <3> QED
      BY <3>1, Untouched
  <2>2. TurnInv(t)'
    BY <1>1 DEF TurnInv, DriveInv
  <2> QED
    BY <2>1, <2>2
<1>2. ASSUME NEW t \in Turns, EnqueueStream(t) PROVE \A u \in Turns : TurnInv(u)'
  <2> USE DEF EnqueueStream, InsertClaimed, ClaimInv
  <2>1. ASSUME NEW u \in Turns, u # t PROVE TurnInv(u)'
    <3>1. /\ status'[u] = status[u] /\ attempts'[u] = attempts[u] /\ age'[u] = age[u]
          /\ notices'[u] = notices[u]
      BY <1>2, <2>1
    <3>2. \A n \in Attempts : stage'[<<u, n>>] = stage[<<u, n>>]
      BY <1>2, <2>1, DrivePair
    <3> QED
      BY <3>1, <3>2, Untouched
  <2>2. ASSUME NEW n \in Attempts PROVE DriveInv(t, n)'
    <3>1. 1 \in Attempts /\ <<t, 1>> \in Drives /\ <<t, n>> \in Drives
      BY DrivePair DEF Attempts
    <3>2. stage[<<t, n>>] \notin Live
      BY <1>2 DEF TurnInv, DriveInv
    <3>3. CASE n = 1
      BY <1>2, <3>1, <3>3 DEF DriveInv, Generating, Settling, Live
    <3>4. CASE n # 1
      BY <1>2, <3>1, <3>2, <3>4 DEF DriveInv
    <3> QED
      BY <3>3, <3>4
  <2>3. TurnInv(t)'
    BY <1>2, <2>2 DEF TurnInv
  <2> QED
    BY <2>1, <2>3
<1>3. ASSUME Reap PROVE \A u \in Turns : TurnInv(u)'
  <2> SUFFICES ASSUME NEW u \in Turns PROVE TurnInv(u)'
    OBVIOUS
  <2> USE <1>3 DEF Reap, ClaimInv
  <2>1. CASE Stale(u)
    <3>1. \A n \in Attempts : stage[<<u, n>>] \notin Live
      <4>1. age[u] \in Int /\ age[u] > GenTimeout /\ age[u] > StaleAge
        BY <2>1 DEF Stale, StaleAge, Ages
      <4> QED
        BY <4>1 DEF TurnInv, DriveInv, Live, StaleAge
    <3> QED
      BY <2>1, <3>1 DEF Stale, Exhausted, TurnInv, DriveInv
  <2>2. CASE ~Stale(u)
    <3>1. /\ status'[u] = status[u] /\ attempts'[u] = attempts[u] /\ age'[u] = age[u]
          /\ notices'[u] = notices[u] /\ stage' = stage
      BY <2>2
    <3> QED
      BY <3>1, Untouched
  <2> QED
    BY <2>1, <2>2
<1>4. ASSUME NEW t \in Turns, ClaimNext(t) \/ ClaimLost(t)
      PROVE  \A u \in Turns : TurnInv(u)'
  <2> DEFINE n == attempts[t] + 1
  <2>1. /\ status[t] = "pending" /\ attempts[t] < MaxAttempts /\ n \in Attempts
        /\ \A m \in Attempts : stage[<<t, m>>] \notin Live
    BY <1>4 DEF ClaimNext, ClaimLost, Claimable, SessionHead, ClaimInv, TurnInv, DriveInv, Attempts
  <2>2. /\ status' = [status EXCEPT ![t] = "claimed"]
        /\ attempts' = [attempts EXCEPT ![t] = n]
        /\ age' = [age EXCEPT ![t] = 0]
        /\ notices' = notices
        /\ stage' = stage \/ stage' = [stage EXCEPT ![<<t, n>>] = "guard"]
    BY <1>4 DEF ClaimNext, ClaimLost, TakeClaim
  <2>3. ASSUME NEW u \in Turns, u # t PROVE TurnInv(u)'
    <3>1. /\ status'[u] = status[u] /\ attempts'[u] = attempts[u] /\ age'[u] = age[u]
          /\ notices'[u] = notices[u]
      BY <2>2, <2>3 DEF ClaimInv
    <3>2. \A m \in Attempts : stage'[<<u, m>>] = stage[<<u, m>>]
      BY <2>2, <2>3, DrivePair DEF ClaimInv
    <3> QED
      BY <3>1, <3>2, Untouched DEF ClaimInv
  <2>4. ASSUME NEW m \in Attempts PROVE DriveInv(t, m)'
    <3>1. /\ status'[t] = "claimed" /\ attempts'[t] = n /\ age'[t] = 0
      BY <2>2 DEF ClaimInv
    <3>2. CASE m = n
      <4>1. stage'[<<t, m>>] \in {stage[<<t, m>>], "guard"}
        BY <2>2, <3>2, DrivePair DEF ClaimInv
      <4> QED
        BY <2>1, <3>1, <3>2, <4>1 DEF DriveInv, Live, Generating, Settling, StaleAge
    <3>3. CASE m # n
      <4>1. stage'[<<t, m>>] = stage[<<t, m>>]
        BY <2>2, <3>3, DrivePair DEF ClaimInv
      <4> QED
        BY <2>1, <4>1 DEF DriveInv
    <3> QED
      BY <3>2, <3>3
  <2>5. TurnInv(t)'
    BY <2>1, <2>2, <2>4 DEF ClaimInv, TurnInv
  <2> QED
    BY <2>3, <2>5
<1>5. ASSUME UNCHANGED <<status, attempts, age, notices, stage>>
      PROVE  \A u \in Turns : TurnInv(u)'
  BY <1>5, Untouched DEF ClaimInv
<1>6. ASSUME NEW d \in Drives, Generate(d) \/ Settle(d)
      PROVE  \A u \in Turns : TurnInv(u)'
  <2> DEFINE t == TurnOf(d)
             n == AttemptOf(d)
  <2>1. t \in Turns /\ n \in Attempts /\ d = <<t, n>>
    BY DriveParts
  <2> HIDE DEF t, n
  <2>2. stage[<<t, n>>] \in Live
    BY <1>6, <2>1 DEF Generate, Settle, Spawn, HandlerDropped, ReadGuard, StoreReply,
       CountDone, EndStream, Timeout, Recheck, MarkDone, MarkFailedWithNotice, Release,
       VerdictLost, Live, Generating, Settling
  <2>3. /\ status[t] = "claimed" /\ attempts[t] = n
        /\ age[t] \in Int
        /\ stage[<<t, n>>] \in Generating => age[t] <= GenTimeout
        /\ stage[<<t, n>>] \in Settling => age[t] <= StaleAge
        /\ stage[<<t, n>>] = "release" => n < MaxAttempts
        /\ notices[t] = 0
    BY <2>1, <2>2 DEF ClaimInv, TurnInv, DriveInv, Ages
  <2>4. ASSUME /\ UNCHANGED <<status, attempts, age, notices>>
               /\ stage' = [stage EXCEPT ![d] = stage'[d]]
               /\ stage'[d] \in Generating => stage[d] \in Generating
               /\ stage'[d] = "release" => n < MaxAttempts
        PROVE  \A u \in Turns : TurnInv(u)'
    <3>1. DriveInv(t, n)'
      BY <2>1, <2>2, <2>3, <2>4 DEF DriveInv, Live, StaleAge
    <3> QED
      BY <2>1, <2>2, <2>3, <2>4, <3>1, DriveStep DEF ClaimInv
  <2>5. CASE Generate(d)
    <3> USE DEF MoveTo, AfterSuccess, AfterUnservable, AfterFailure, Generating, ClaimInv
    <3>1. /\ UNCHANGED <<status, attempts, age, notices>>
          /\ stage' = [stage EXCEPT ![d] = stage'[d]]
      BY <2>5 DEF Generate, Spawn, HandlerDropped, ReadGuard, StoreReply, CountDone,
         EndStream, Timeout
    <3>2. stage[d] \in Generating
      BY <2>5 DEF Generate, Spawn, HandlerDropped, ReadGuard, StoreReply, CountDone,
         EndStream, Timeout
    <3>3. stage'[d] = "release" => n < MaxAttempts
      BY <2>5, <2>1 DEF Generate, Spawn, HandlerDropped, ReadGuard, StoreReply, CountDone,
         EndStream, Outcome, Timeout, t, n, Attempts
    <3> QED
      BY <2>4, <3>1, <3>2, <3>3
  <2>6. CASE Recheck(d) \/ VerdictLost(d)
    <3>1. /\ UNCHANGED <<status, attempts, age, notices>>
          /\ stage' = [stage EXCEPT ![d] = stage'[d]]
          /\ stage'[d] \in {"mark_done", "mark_failed", "gone"}
      BY <2>6 DEF Recheck, VerdictLost, MoveTo, ClaimInv
    <3> QED
      BY <2>4, <3>1 DEF Generating
  <2>7. CASE MarkDone(d) \/ MarkFailedWithNotice(d) \/ Release(d)
    <3>1. /\ \A u \in Turns \ {t} : /\ status'[u] = status[u]
                                    /\ attempts'[u] = attempts[u]
                                    /\ age'[u] = age[u]
                                    /\ notices'[u] = notices[u]
          /\ attempts' = attempts
          /\ stage' = [stage EXCEPT ![d] = "gone"]
          /\ stage'[d] = "gone"
      BY <2>7 DEF MarkDone, MarkFailedWithNotice, Release, MoveTo, t, ClaimInv
    <3>2. /\ status'[t] \in {"done", "failed", "pending"}
          /\ status'[t] = "pending" => stage[d] = "release"
          /\ notices'[t] = IF status'[t] = "failed" THEN 1 ELSE 0
      BY <2>1, <2>3, <2>7 DEF MarkDone, MarkFailedWithNotice, Release, t, ClaimInv
    <3>3. DriveInv(t, n)'
      BY <2>1, <3>1 DEF DriveInv, Live, Generating, Settling
    <3>4. attempts'[t] < MaxAttempts \/ status'[t] # "pending"
      BY <2>1, <2>3, <3>1, <3>2
    <3> QED
      BY <2>1, <2>2, <3>1, <3>2, <3>3, <3>4, DriveStep
  <2> QED
    BY <1>6, <2>5, <2>6, <2>7 DEF Settle
<1>7. ASSUME Tick PROVE \A u \in Turns : TurnInv(u)'
  <2> SUFFICES ASSUME NEW u \in Turns PROVE TurnInv(u)'
    OBVIOUS
  <2>1. /\ UNCHANGED <<status, attempts, notices, stage>>
        /\ age'[u] \in {age[u], age[u] + 1} /\ age[u] \in Int
    BY <1>7 DEF Tick, ClaimInv, Ages
  <2>2. ASSUME NEW m \in Attempts PROVE DriveInv(u, m)'
    <3>1. /\ stage[<<u, m>>] \in Generating => age[u] < GenTimeout
          /\ stage[<<u, m>>] \in Settling => age[u] < StaleAge
      BY <1>7, DrivePair DEF Tick, OnTime
    <3>2. DriveInv(u, m)
      BY DEF ClaimInv, TurnInv
    <3> QED
      BY <2>1, <3>1, <3>2 DEF DriveInv, Live, StaleAge
  <2> QED
    BY <2>1, <2>2 DEF ClaimInv, TurnInv
<1>8. ASSUME Crash PROVE \A u \in Turns : TurnInv(u)'
  <2>1. UNCHANGED <<status, attempts, age, notices>>
    BY <1>8 DEF Crash
  <2>2. \A d \in Drives : stage'[d] \notin Live
    BY <1>8 DEF Crash, Live, Generating, Settling, ClaimInv
  <2> QED
    BY <2>1, <2>2, DrivePair DEF ClaimInv, TurnInv, DriveInv
<1> QED
  BY <1>1, <1>2, <1>3, <1>4, <1>5, <1>6, <1>7, <1>8
  DEF Next, Enqueue, Drain, vars, EndDrain, CommitLands, Restart

\* The claim invariant holds initially.
LEMMA ClaimInvInit == Init => ClaimInv
<1> SUFFICES ASSUME Init PROVE ClaimInv
  OBVIOUS
<1>1. \A t \in Turns : TurnInv(t)
  BY KnobAssumption, DrivePair DEF Init, TurnInv, DriveInv, Live, Generating, Settling
<1> QED
  BY <1>1, TypeInit DEF ClaimInv

\* The claim invariant holds throughout, whatever the crashes and faults.
THEOREM ClaimInvariance == Spec => []ClaimInv
<1>1. ClaimInv /\ [Next]_vars => ClaimInv'
  BY TypeStep, TurnStep DEF ClaimInv
<1> QED
  BY ClaimInvInit, <1>1, PTL DEF Spec

\* Every reachable state is well typed.
THEOREM TypeCorrectness == Spec => []TypeOK
  BY ClaimInvariance, PTL DEF ClaimInv

\* A live drive holds its claim: no reap, retry or second claim runs beside it.
THEOREM ClaimHeld == Spec => []ClaimHeldByItsDrive
<1>1. ClaimInv => ClaimHeldByItsDrive
  <2> SUFFICES ASSUME ClaimInv, NEW d \in Drives, stage[d] \in Live
               PROVE  status[TurnOf(d)] = "claimed" /\ attempts[TurnOf(d)] = AttemptOf(d)
    BY DEF ClaimHeldByItsDrive, LiveDrives
  <2> QED
    BY DriveParts DEF ClaimInv, TurnInv, DriveInv
<1> QED
  BY <1>1, ClaimInvariance, PTL

\* A released or reaped turn that waits again has an attempt left.
THEOREM AttemptsBounded == Spec => []WaitingHasAttemptsLeft
<1>1. ClaimInv => WaitingHasAttemptsLeft
  BY DEF ClaimInv, TurnInv, WaitingHasAttemptsLeft
<1> QED
  BY <1>1, ClaimInvariance, PTL

\* A failed turn has exactly one failure notice, and no other turn has one.
THEOREM NoticeOnce == Spec => []OneNoticePerFailure
<1>1. ClaimInv => OneNoticePerFailure
  BY DEF ClaimInv, TurnInv, OneNoticePerFailure
<1> QED
  BY <1>1, ClaimInvariance, PTL

-----------------------------------------------------------------------------
(***************************************************************************)
(* One reply per turn, but for those whose COMMIT landed after their drive *)
(* was abandoned: these may join the reply of another drive, and are kept  *)
(* apart (lateBy).                                                         *)
(***************************************************************************)

\* The stages in which a drive may still store a reply, or has just done so.
Answering == {"spawning", "generating", "stored"}

\* At most one attempt has answered a turn, and an answering drive is the one.
ReplyInv ==
    \A t \in Turns :
        /\ status[t] = "absent" => servedBy[t] = {}
        /\ \E m \in Attempts : servedBy[t] \subseteq {m}
        /\ \A n \in Attempts : stage[<<t, n>>] \in Answering => servedBy[t] \subseteq {n}

\* The reply invariant holds initially: nothing is served and no drive lives.
LEMMA ReplyInit == Init => ReplyInv
  BY KnobAssumption, DrivePair DEF Init, ReplyInv, Answering, Attempts

\* The drive of a served turn is not answering, unless it served the turn.
LEMMA ReplyStep ==
    ASSUME ClaimInv, ClaimInv', ReplyInv, [Next]_vars
    PROVE  ReplyInv'
<1> USE DEF ReplyInv, ClaimInv, TypeOK, rowVars, messageVars, taskVars, boundVars
<1>1. ASSUME servedBy' = servedBy,
             \A t \in Turns : status'[t] = "absent" => status[t] = "absent",
             \A t \in Turns : \A n \in Attempts :
                stage'[<<t, n>>] \in Answering =>
                    stage[<<t, n>>] \in Answering \/ servedBy[t] = {}
      PROVE  ReplyInv'
  BY <1>1
<1>2. ASSUME NEW t \in Turns, EnqueueAsync(t) PROVE ReplyInv'
  BY <1>1, <1>2 DEF EnqueueAsync, InsertPending
<1>3. ASSUME NEW t \in Turns, EnqueueStream(t) PROVE ReplyInv'
  <2>1. \A u \in Turns : \A n \in Attempts :
           stage'[<<u, n>>] = stage[<<u, n>>] \/ servedBy[u] = {}
    BY <1>3, DrivePair DEF EnqueueStream, InsertClaimed
  <2> QED
    BY <1>1, <1>3, <2>1 DEF EnqueueStream, InsertClaimed
<1>4. ASSUME Reap PROVE ReplyInv'
  <2>1. \A t \in Turns : status'[t] = "absent" => status[t] = "absent"
    BY <1>4 DEF Reap
  <2> QED
    BY <1>1, <1>4, <2>1 DEF Reap
<1>5. ASSUME NEW t \in Turns, ClaimNext(t) \/ ClaimLost(t) PROVE ReplyInv'
  <2>1. \A d \in Drives : stage'[d] \in {stage[d], "guard"}
    BY <1>5 DEF ClaimNext, ClaimLost
  <2>2. \A u \in Turns : status'[u] = "absent" => status[u] = "absent"
    BY <1>5 DEF ClaimNext, ClaimLost, TakeClaim
  <2> QED
    BY <1>1, <1>5, <2>1, <2>2, DrivePair DEF ClaimNext, ClaimLost, Answering
<1>6. ASSUME NEW d \in Drives, StoreReply(d) PROVE ReplyInv'
  <2> DEFINE t == TurnOf(d)
             n == AttemptOf(d)
  <2>1. t \in Turns /\ n \in Attempts /\ d = <<t, n>>
    BY DriveParts
  <2> HIDE DEF t, n
  <2>2. /\ stage[d] = "generating" /\ servedBy[t] \subseteq {n}
        /\ \A m \in Attempts : m # n => stage[<<t, m>>] \notin Live
    BY <1>6, <2>1, OneLiveDrive DEF StoreReply, Answering, Live, Generating
  <2>3. /\ servedBy'[t] \subseteq {n}
        /\ \A u \in Turns \ {t} : servedBy'[u] = servedBy[u]
        /\ status' = status
        /\ stage' = [stage EXCEPT ![d] = "stored"]
    BY <1>6, <2>1, <2>2 DEF StoreReply, MoveTo, t, n
  <2>4. status[t] # "absent"
    BY <2>1, <2>2 DEF TurnInv, DriveInv, Live, Generating
  <2>5. \A m \in Attempts : m # n => stage'[<<t, m>>] \notin Answering
    BY <2>1, <2>2, <2>3, DrivePair DEF Live, Generating, Answering
  <2>6. \A u \in Turns \ {t} : \A m \in Attempts : stage'[<<u, m>>] = stage[<<u, m>>]
    BY <2>1, <2>3, DrivePair
  <2> QED
    BY <2>1, <2>3, <2>4, <2>5, <2>6
<1>7. ASSUME NEW d \in Drives, ReadGuard(d) PROVE ReplyInv'
  <2>1. \A e \in Drives : stage'[e] \in Answering =>
           stage[e] \in Answering \/ (servedBy[TurnOf(e)] = {})
    BY <1>7 DEF ReadGuard, MoveTo, Served, AfterSuccess, AfterUnservable, AfterFailure,
       Answering
  <2> QED
    BY <1>1, <1>7, <2>1, DrivePair DEF ReadGuard
<1>8. ASSUME NEW d \in Drives,
             Spawn(d) \/ HandlerDropped(d) \/ CountDone(d) \/ EndStream(d) \/ Timeout(d)
      PROVE  ReplyInv'
  <2>1. \A e \in Drives : stage'[e] \in Answering => stage[e] \in Answering
    BY <1>8 DEF Spawn, HandlerDropped, CountDone, EndStream, Timeout, MoveTo, Outcome,
       AfterSuccess, AfterFailure, Answering
  <2>2. servedBy' = servedBy /\ status' = status
    BY <1>8 DEF Spawn, HandlerDropped, CountDone, EndStream, Timeout
  <2> QED
    BY <1>1, <2>1, <2>2, DrivePair
<1>9. ASSUME NEW d \in Drives, Settle(d) PROVE ReplyInv'
  <2>1. \A e \in Drives : stage'[e] \in Answering => stage[e] \in Answering
    BY <1>9 DEF Settle, Recheck, MarkDone, MarkFailedWithNotice, Release, VerdictLost,
       MoveTo, Answering
  <2>2. /\ servedBy' = servedBy
        /\ \A t \in Turns : status'[t] = "absent" => status[t] = "absent"
    BY <1>9 DEF Settle, Recheck, MarkDone, MarkFailedWithNotice, Release, VerdictLost
  <2> QED
    BY <1>1, <2>1, <2>2, DrivePair
<1>10. ASSUME Crash PROVE ReplyInv'
  <2>1. \A e \in Drives : stage'[e] \in Answering => stage[e] \in Answering
    BY <1>10 DEF Crash, Answering
  <2> QED
    BY <1>1, <1>10, <2>1, DrivePair DEF Crash
<1>11. ASSUME EndDrain \/ Tick \/ Restart \/ UNCHANGED vars PROVE ReplyInv'
  BY <1>1, <1>11 DEF EndDrain, Tick, Restart, vars
<1>12. ASSUME NEW d \in Drives, CommitLands(d) PROVE ReplyInv'
  BY <1>1, <1>12 DEF CommitLands
<1> QED
  BY <1>2, <1>3, <1>4, <1>5, <1>6, <1>7, <1>8, <1>9, <1>10, <1>11, <1>12
  DEF Next, Enqueue, Drain, Generate

\* The reply invariant holds throughout.
THEOREM ReplyInvariance == Spec => [](ClaimInv /\ ReplyInv)
<1>1. ClaimInv /\ ReplyInv /\ [Next]_vars => (ClaimInv /\ ReplyInv)'
  <2>1. ClaimInv /\ [Next]_vars => ClaimInv'
    BY TypeStep, TurnStep DEF ClaimInv
  <2> QED
    BY <2>1, ReplyStep
<1> QED
  BY ClaimInvInit, ReplyInit, <1>1, PTL DEF Spec

\* At most one drive answers a turn before it is abandoned, across retries, reaps
\* and restarts.
THEOREM ReplyOnce == Spec => []OneReply
<1>1. ReplyInv => OneReply
  <2> SUFFICES ASSUME ReplyInv, NEW t \in Turns
               PROVE  Cardinality(servedBy[t]) <= 1
    BY DEF OneReply
  <2>1. PICK m \in Attempts : servedBy[t] \subseteq {m}
    BY DEF ReplyInv
  <2>2. CASE servedBy[t] = {}
    BY <2>2, FS_EmptySet
  <2>3. CASE servedBy[t] = {m}
    <3>1. Cardinality({m}) = 1
      BY FS_Singleton
    <3> QED
      BY <2>3, <3>1
  <2> QED
    BY <2>1, <2>2, <2>3
<1> QED
  BY <1>1, ReplyInvariance, PTL

-----------------------------------------------------------------------------
\* A settled turn has no live drive.
LEMMA SettledIsIdle ==
    ASSUME ClaimInv, NEW t \in Turns, Terminal(t), NEW n \in Attempts
    PROVE  stage[<<t, n>>] \notin Live
  BY DEF ClaimInv, TurnInv, DriveInv, Terminal

\* A step leaves the status, the replies and the notices of a settled turn alone.
LEMMA SettledStep ==
    ASSUME ClaimInv, ReplyInv, [Next]_vars, NEW t \in Turns, Terminal(t)
    PROVE  status'[t] = status[t] /\ servedBy'[t] = servedBy[t] /\ notices'[t] = notices[t]
<1> USE DEF Terminal, ClaimInv, TypeOK, rowVars, messageVars, taskVars, boundVars
<1>1. ASSUME NEW u \in Turns, EnqueueAsync(u) \/ EnqueueStream(u)
      PROVE  status'[t] = status[t] /\ servedBy'[t] = servedBy[t] /\ notices'[t] = notices[t]
  BY <1>1 DEF EnqueueAsync, InsertPending, EnqueueStream, InsertClaimed
<1>2. ASSUME Reap
      PROVE  status'[t] = status[t] /\ servedBy'[t] = servedBy[t] /\ notices'[t] = notices[t]
  BY <1>2 DEF Reap, Stale
<1>3. ASSUME NEW u \in Turns, ClaimNext(u) \/ ClaimLost(u)
      PROVE  status'[t] = status[t] /\ servedBy'[t] = servedBy[t] /\ notices'[t] = notices[t]
  BY <1>3 DEF ClaimNext, ClaimLost, Claimable, SessionHead, TakeClaim
<1>4. ASSUME NEW d \in Drives, Generate(d) \/ Settle(d)
      PROVE  status'[t] = status[t] /\ servedBy'[t] = servedBy[t] /\ notices'[t] = notices[t]
  <2>1. stage[d] \in Live
    BY <1>4 DEF Generate, Settle, Spawn, HandlerDropped, ReadGuard, StoreReply,
       CountDone, EndStream, Timeout, Recheck, MarkDone, MarkFailedWithNotice, Release,
       VerdictLost, Live, Generating, Settling
  <2>2. TurnOf(d) # t
    BY <2>1, DriveParts, SettledIsIdle
  <2> QED
    BY <1>4, <2>2, DriveParts DEF Generate, Settle, Spawn, HandlerDropped, ReadGuard,
       StoreReply, CountDone, EndStream, Timeout, Recheck, MarkDone,
       MarkFailedWithNotice, Release, VerdictLost
<1>5. ASSUME NEW d \in Drives, CommitLands(d)
      PROVE  status'[t] = status[t] /\ servedBy'[t] = servedBy[t] /\ notices'[t] = notices[t]
  BY <1>5 DEF CommitLands
<1> QED
  BY <1>1, <1>2, <1>3, <1>4, <1>5
  DEF Next, Enqueue, Drain, EndDrain, Tick, Crash, Restart, vars

\* A settled turn is never settled again, answered again by a drive that holds
\* its claim, or told again.
THEOREM SettlementIsFinal == Spec => SettledForGood
<1>1. ClaimInv /\ ReplyInv /\ [Next]_vars =>
        [\A t \in Turns : Terminal(t) =>
            /\ status'[t] = status[t]
            /\ servedBy'[t] = servedBy[t]
            /\ notices'[t] = notices[t]]_vars
  BY SettledStep
<1> QED
  BY <1>1, ReplyInvariance, PTL DEF Spec, SettledForGood

-----------------------------------------------------------------------------
\* The queue implements the service: every step of a claim, a drive or a sweep
\* posts, answers or settles turns, or changes nothing a client relies on.
LEMMA ServiceInit == Init => Service!Init
  BY FS_EmptySet DEF Init, Service!Init, Phase, Replies, Open

\* Every step of the queue is a step of the service or changes nothing it shows.
LEMMA ServiceStep ==
    ASSUME ClaimInv, ReplyInv, ClaimInv', ReplyInv', [Next]_vars
    PROVE  [Service!Next]_(Service!vars)
<1> USE DEF ClaimInv, TypeOK, rowVars, messageVars, taskVars, boundVars, Phase, Replies, Open
<1>1. ASSUME UNCHANGED <<Phase, Replies, notices>> PROVE [Service!Next]_(Service!vars)
  BY <1>1 DEF Service!vars
<1>2. ASSUME NEW t \in Turns, EnqueueAsync(t) \/ EnqueueStream(t)
      PROVE  Service!Next
  <2>1. Service!Post(t)
    BY <1>2 DEF EnqueueAsync, InsertPending, EnqueueStream, InsertClaimed, Service!Post
  <2> QED
    BY <2>1 DEF Service!Next
<1>3. ASSUME Reap PROVE Service!Next
  <2>1. PICK failing \in SUBSET Turns : failing = {t \in Turns : Stale(t) /\ Exhausted(t)}
    OBVIOUS
  <2>2. Service!Fail(failing)
    BY <1>3, <2>1 DEF Reap, Stale, Exhausted, Service!Fail
  <2> QED
    BY <2>2 DEF Service!Next
<1>4. ASSUME NEW t \in Turns, ClaimNext(t) \/ ClaimLost(t)
      PROVE  UNCHANGED <<Phase, Replies, notices>>
  BY <1>4 DEF ClaimNext, ClaimLost, Claimable, SessionHead, TakeClaim
<1>5. ASSUME NEW d \in Drives, StoreReply(d) PROVE [Service!Next]_(Service!vars)
  <2> DEFINE t == TurnOf(d)
             n == AttemptOf(d)
  <2>1. t \in Turns /\ n \in Attempts /\ d = <<t, n>>
    BY DriveParts
  <2>2. /\ status[t] = "claimed" /\ servedBy[t] \subseteq {n}
        /\ \/ servedBy'[t] \in {servedBy[t], {n}} /\ n \in servedBy'[t]
           \/ servedBy' = servedBy
        /\ \A u \in Turns \ {t} : servedBy'[u] = servedBy[u]
        /\ UNCHANGED <<status, notices>>
    BY <1>5, <2>1 DEF StoreReply, TurnInv, DriveInv, ReplyInv, Answering, Live, Generating
  <2> HIDE DEF t, n
  <2>3. CASE servedBy'[t] = servedBy[t]
    BY <1>1, <2>2, <2>3
  <2>4. CASE servedBy'[t] # servedBy[t]
    <3>1. servedBy[t] = {} /\ servedBy'[t] = {n}
      BY <2>2, <2>4
    <3>2. Cardinality(servedBy[t]) = 0 /\ Cardinality(servedBy'[t]) = 1
      BY <3>1, FS_EmptySet, FS_Singleton
    <3>3. Replies' = [Replies EXCEPT ![t] = 1]
      BY <2>1, <2>2, <3>2
    <3>4. Service!Reply(t)
      BY <2>1, <2>2, <3>2, <3>3 DEF Service!Reply
    <3> QED
      BY <2>1, <3>4 DEF Service!Next
  <2> QED
    BY <2>3, <2>4
<1>6. ASSUME NEW d \in Drives, Generate(d) \/ Recheck(d) \/ VerdictLost(d), ~StoreReply(d)
      PROVE  UNCHANGED <<Phase, Replies, notices>>
  BY <1>6 DEF Generate, Spawn, HandlerDropped, ReadGuard, CountDone, EndStream, Timeout,
     Recheck, VerdictLost
<1>7. ASSUME NEW d \in Drives, MarkDone(d) \/ MarkFailedWithNotice(d) \/ Release(d)
      PROVE  [Service!Next]_(Service!vars)
  <2> DEFINE t == TurnOf(d)
             n == AttemptOf(d)
  <2>1. t \in Turns /\ n \in Attempts /\ d = <<t, n>>
    BY DriveParts
  <2>2. status[t] = "claimed"
    BY <1>7, <2>1 DEF MarkDone, MarkFailedWithNotice, Release, TurnInv, DriveInv, Live, Settling
  <2>3. CASE MarkDone(d)
    <3>1. Service!Complete(t)
      BY <2>1, <2>2, <2>3 DEF MarkDone, Service!Complete
    <3> QED
      BY <2>1, <3>1 DEF Service!Next
  <2>4. CASE MarkFailedWithNotice(d)
    <3>1. Service!Fail({t})
      BY <2>1, <2>2, <2>4 DEF MarkFailedWithNotice, Service!Fail
    <3>2. {t} \in SUBSET Turns
      BY <2>1
    <3> QED
      BY <3>1, <3>2 DEF Service!Next
  <2>5. CASE Release(d)
    BY <1>1, <2>1, <2>2, <2>5 DEF Release
  <2> QED
    BY <1>7, <2>3, <2>4, <2>5
<1>8. ASSUME NEW d \in Drives, CommitLands(d) PROVE UNCHANGED <<Phase, Replies, notices>>
  BY <1>8 DEF CommitLands
<1>9. ASSUME EndDrain \/ Tick \/ Crash \/ Restart \/ UNCHANGED vars
      PROVE  UNCHANGED <<Phase, Replies, notices>>
  BY <1>9 DEF EndDrain, Tick, Crash, Restart, vars
<1> QED
  BY <1>1, <1>2, <1>3, <1>4, <1>5, <1>6, <1>7, <1>8, <1>9
  DEF Next, Enqueue, Drain, Generate, Settle

\* The queue refines the service a client relies on.
THEOREM QueueImplementsService == Spec => ImplementsService
<1>1. /\ ClaimInv /\ ReplyInv /\ (ClaimInv /\ ReplyInv)' /\ [Next]_vars
        => [Service!Next]_(Service!vars)
  BY ServiceStep
<1> QED
  BY ServiceInit, <1>1, ReplyInvariance, PTL DEF Spec, ImplementsService, Service!Spec
-----------------------------------------------------------------------------
(***************************************************************************)
(* One ladder per session.  The claim of a ladder drive is told from the   *)
(* row: a stream turn's first attempt is its handler's, every other claim  *)
(* is the worker's, and the worker claims in a session none of whose turns *)
(* is claimed.  What a handler claims beside it is no ladder's.            *)
(***************************************************************************)

\* The worker's claims.
WorkerClaim(t) == status[t] = "claimed" /\ ~(origin[t] = "stream" /\ attempts[t] = 1)

\* A session has one of them at most.
LaneInv ==
    \A t, u \in Turns :
        WorkerClaim(t) /\ WorkerClaim(u) /\ SessionOf[t] = SessionOf[u] => t = u

\* A step adds at most one worker's claim, in a session that had no claim.
LEMMA LaneEffect ==
    ASSUME ClaimInv, ClaimInv', [Next]_vars
    PROVE  \/ \A u \in Turns : WorkerClaim(u)' => WorkerClaim(u)
           \/ \E t \in Turns :
                /\ \A u \in Turns \ {t} : WorkerClaim(u)' => WorkerClaim(u)
                /\ \A u \in Turns : SessionOf[u] = SessionOf[t] => status[u] # "claimed"
<1> USE DEF rowVars, messageVars, taskVars, boundVars
<1>0. /\ status \in [Turns -> Statuses] /\ origin \in [Turns -> Origins]
      /\ attempts \in [Turns -> 0..MaxAttempts]
  BY DEF ClaimInv, TypeOK
<1>1. ASSUME NEW t \in Turns, EnqueueAsync(t)
      PROVE  \A u \in Turns : WorkerClaim(u)' => WorkerClaim(u)
  BY <1>0, <1>1 DEF EnqueueAsync, InsertPending, WorkerClaim
<1>2. ASSUME NEW t \in Turns, EnqueueStream(t)
      PROVE  \A u \in Turns : WorkerClaim(u)' => WorkerClaim(u)
  BY <1>0, <1>2 DEF EnqueueStream, InsertClaimed, WorkerClaim
<1>3. ASSUME Reap
      PROVE  \A u \in Turns : WorkerClaim(u)' => WorkerClaim(u)
  BY <1>0, <1>3 DEF Reap, WorkerClaim
<1>4. ASSUME NEW t \in Turns, ClaimNext(t) \/ ClaimLost(t)
      PROVE  /\ \A u \in Turns \ {t} : WorkerClaim(u)' => WorkerClaim(u)
             /\ \A u \in Turns : SessionOf[u] = SessionOf[t] => status[u] # "claimed"
  <2>1. SessionHead(t) /\ TakeClaim(t)
    BY <1>4 DEF ClaimNext, ClaimLost, Claimable
  <2>2. \A u \in Turns \ {t} : WorkerClaim(u)' => WorkerClaim(u)
    BY <1>0, <2>1 DEF TakeClaim, WorkerClaim
  <2> QED
    BY <2>1, <2>2 DEF SessionHead, SameSession
<1>5. ASSUME NEW d \in Drives, Generate(d) \/ Recheck(d) \/ VerdictLost(d) \/ CommitLands(d)
      PROVE  UNCHANGED <<status, attempts, origin>>
  BY <1>5 DEF Generate, Spawn, HandlerDropped, ReadGuard, StoreReply, CountDone, EndStream,
     Timeout, Recheck, VerdictLost, CommitLands
<1>6. ASSUME NEW d \in Drives, MarkDone(d) \/ MarkFailedWithNotice(d) \/ Release(d)
      PROVE  \A u \in Turns : WorkerClaim(u)' => WorkerClaim(u)
  <2>1. /\ \A u \in Turns : status'[u] = "claimed" => status[u] = "claimed"
        /\ UNCHANGED <<attempts, origin>>
    BY <1>0, <1>6, DriveParts DEF MarkDone, MarkFailedWithNotice, Release
  <2> QED
    BY <2>1 DEF WorkerClaim
<1>7. ASSUME UNCHANGED <<status, attempts, origin>>
      PROVE  \A u \in Turns : WorkerClaim(u)' => WorkerClaim(u)
  BY <1>7 DEF WorkerClaim
<1>8. ASSUME EndDrain \/ Tick \/ Crash \/ Restart \/ UNCHANGED vars
      PROVE  UNCHANGED <<status, attempts, origin>>
  BY <1>8 DEF EndDrain, Tick, Crash, Restart, vars
<1> QED
  BY <1>1, <1>2, <1>3, <1>4, <1>5, <1>6, <1>7, <1>8
  DEF Next, Enqueue, Drain, Settle

\* The sessions' lanes hold initially and are kept by every step.
LEMMA LaneInit == Init => LaneInv
  BY DEF Init, LaneInv, WorkerClaim

\* A new claim of the worker is the only one of its session.
LEMMA LaneStep ==
    ASSUME ClaimInv, ClaimInv', LaneInv, [Next]_vars
    PROVE  LaneInv'
<1>1. CASE \A u \in Turns : WorkerClaim(u)' => WorkerClaim(u)
  BY <1>1 DEF LaneInv
<1>2. ASSUME NEW t \in Turns,
             \A u \in Turns \ {t} : WorkerClaim(u)' => WorkerClaim(u),
             \A u \in Turns : SessionOf[u] = SessionOf[t] => status[u] # "claimed"
      PROVE  LaneInv'
  <2>1. \A u \in Turns \ {t} : WorkerClaim(u)' => SessionOf[u] # SessionOf[t]
    BY <1>2 DEF WorkerClaim
  <2> QED
    BY <1>2, <2>1 DEF LaneInv
<1> QED
  BY <1>1, <1>2, LaneEffect

\* The worker drives one turn of a session at a time, for any number of
\* permits, whatever streams, reaps, lost claims and crashes come between.
THEOREM LadderPerSession == Spec => []OneLadderPerSession
<1>1. ClaimInv /\ LaneInv => OneLadderPerSession
  <2> SUFFICES ASSUME ClaimInv, LaneInv, NEW d \in PermitsHeld, NEW e \in PermitsHeld,
                      SessionOf[TurnOf(d)] = SessionOf[TurnOf(e)]
               PROVE  d = e
    BY DEF OneLadderPerSession
  <2>1. ASSUME NEW f \in PermitsHeld
        PROVE  /\ f \in Drives /\ WorkerClaim(TurnOf(f))
               /\ attempts[TurnOf(f)] = AttemptOf(f)
    <3>1. f \in Drives /\ stage[f] \in Live /\ Ladder(f)
      BY DEF PermitsHeld, LiveDrives
    <3>2. status[TurnOf(f)] = "claimed" /\ attempts[TurnOf(f)] = AttemptOf(f)
      BY <3>1, DriveParts DEF ClaimInv, TurnInv, DriveInv
    <3> QED
      BY <3>1, <3>2 DEF WorkerClaim, Ladder
  <2>2. TurnOf(d) = TurnOf(e)
    BY <2>1, DriveParts DEF LaneInv
  <2>3. AttemptOf(d) = AttemptOf(e)
    BY <2>1, <2>2
  <2> QED
    BY <2>1, <2>2, <2>3, DriveParts
<1>2. ClaimInv /\ LaneInv /\ [Next]_vars => (ClaimInv /\ LaneInv)'
  BY TypeStep, TurnStep, LaneStep DEF ClaimInv
<1> QED
  BY ClaimInvInit, LaneInit, <1>1, <1>2, PTL DEF Spec

-----------------------------------------------------------------------------
(***************************************************************************)
(* What a turn is settled as.  While nothing has failed, a verdict on its  *)
(* way to the row agrees with the history, and a claimed turn that was     *)
(* answered still has a drive past its handler: so a reap that fails an    *)
(* exhausted claim meets a turn nobody answered.                           *)
(***************************************************************************)

Smooth == faults = 0 /\ crashes = 0

\* Where one drive is, against the history of its turn.
VerdictInv(t, n) ==
    /\ stage[<<t, n>>] \in {"spawning", "mark_failed"} => ~Served(t)
    /\ stage[<<t, n>>] \in {"stored", "mark_done"} => Served(t)
    /\ doneSeen[<<t, n>>] => Served(t)

\* A served turn that is claimed has a drive that will settle it.
Attended(t) == \E n \in Attempts : stage[<<t, n>>] \in Live \ {"spawning"}

SettledTurn(t) ==
    /\ lateBy[t] = {}
    /\ status[t] = "failed" => ~Served(t)
    /\ status[t] = "done" => Served(t)
    /\ status[t] = "claimed" /\ Served(t) => Attended(t)
    /\ \A n \in Attempts : VerdictInv(t, n)

SettleInv == Smooth => inFlight = {} /\ \A t \in Turns : SettledTurn(t)

\* A turn whose row, replies and drives a step leaves alone is settled as before.
LEMMA SettleUntouched ==
    ASSUME NEW t \in Turns, SettledTurn(t),
           status'[t] = status[t], servedBy'[t] = servedBy[t], lateBy'[t] = lateBy[t],
           \A n \in Attempts : /\ stage'[<<t, n>>] = stage[<<t, n>>]
                               /\ doneSeen'[<<t, n>>] = doneSeen[<<t, n>>]
    PROVE  SettledTurn(t)'
  BY DEF SettledTurn, Attended, VerdictInv, Served

\* What a step of drive <<t, n>> must show when it leaves other turns alone.
LEMMA SettleDrive ==
    ASSUME ClaimInv, \A u \in Turns : SettledTurn(u),
           NEW t \in Turns, NEW n \in Attempts, stage[<<t, n>>] \in Live,
           \A u \in Turns \ {t} : status'[u] = status[u] /\ servedBy'[u] = servedBy[u],
           lateBy' = lateBy,
           stage' = [stage EXCEPT ![<<t, n>>] = stage'[<<t, n>>]],
           doneSeen' = [doneSeen EXCEPT ![<<t, n>>] = doneSeen'[<<t, n>>]],
           Served(t) => Served(t)',
           status'[t] = "failed" => ~Served(t)',
           status'[t] = "done" => Served(t)',
           status'[t] = "claimed" /\ Served(t)' => stage'[<<t, n>>] \in Live \ {"spawning"},
           VerdictInv(t, n)'
    PROVE  \A u \in Turns : SettledTurn(u)'
<1>1. ASSUME NEW u \in Turns, u # t PROVE SettledTurn(u)'
  <2>1. \A m \in Attempts : /\ stage'[<<u, m>>] = stage[<<u, m>>]
                            /\ doneSeen'[<<u, m>>] = doneSeen[<<u, m>>]
    BY <1>1, DrivePair DEF ClaimInv, TypeOK
  <2> QED
    BY <1>1, <2>1, SettleUntouched
<1>2. ASSUME NEW m \in Attempts, m # n PROVE VerdictInv(t, m)'
  <2>1. stage'[<<t, m>>] = stage[<<t, m>>] /\ doneSeen'[<<t, m>>] = doneSeen[<<t, m>>]
    BY <1>2, DrivePair DEF ClaimInv, TypeOK
  <2>2. stage[<<t, m>>] \notin Live
    BY <1>2, OneLiveDrive DEF ClaimInv
  <2>3. VerdictInv(t, m)
    BY DEF SettledTurn
  <2> QED
    BY <2>1, <2>2, <2>3 DEF VerdictInv, Live, Generating, Settling
<1>3. SettledTurn(t)'
  BY <1>2 DEF SettledTurn, Attended
<1> QED
  BY <1>1, <1>3

\* Nothing is settled initially.
LEMMA SettleInit == Init => SettleInv
  BY DrivePair DEF Init, SettleInv, SettledTurn, VerdictInv, Served

\* A step of a drive that writes no verdict to the row.
LEMMA SettleGenerate ==
    ASSUME ClaimInv, ReplyInv, \A u \in Turns : SettledTurn(u), Smooth',
           NEW d \in Drives, Generate(d) \/ Recheck(d)
    PROVE  \A u \in Turns : SettledTurn(u)'
<1> DEFINE t == TurnOf(d)
           n == AttemptOf(d)
<1>1. t \in Turns /\ n \in Attempts /\ d = <<t, n>>
  BY DriveParts
<1>2. /\ status \in [Turns -> Statuses] /\ servedBy \in [Turns -> SUBSET Attempts]
      /\ stage \in [Drives -> Stages] /\ doneSeen \in [Drives -> BOOLEAN]
      /\ faults \in Nat
  BY DEF ClaimInv, TypeOK
<1>3. ~Fault
  BY <1>2 DEF Smooth, Fault
<1>4. stage[d] \in Live
  BY DEF Generate, Spawn, HandlerDropped, ReadGuard, StoreReply, CountDone, EndStream,
     Timeout, Recheck, Live, Generating, Settling
<1>5. /\ status[t] = "claimed"
      /\ VerdictInv(t, n)
  BY <1>1, <1>4 DEF ClaimInv, TurnInv, DriveInv, SettledTurn
<1>6. /\ UNCHANGED <<status, lateBy>>
      /\ stage' = [stage EXCEPT ![d] = stage'[d]]
      /\ doneSeen' = [doneSeen EXCEPT ![d] = doneSeen'[d]]
  BY <1>2 DEF Generate, Spawn, HandlerDropped, ReadGuard, StoreReply, CountDone, EndStream,
     Timeout, Recheck, MoveTo, rowVars, messageVars, taskVars
<1> HIDE DEF t, n
<1>7. ASSUME UNCHANGED servedBy,
             Served(t) => stage'[d] \in Live \ {"spawning"},
             VerdictInv(t, n)'
      PROVE  \A u \in Turns : SettledTurn(u)'
  BY <1>1, <1>4, <1>5, <1>6, <1>7, SettleDrive DEF Served
<1> USE DEF VerdictInv, Live, Generating, Settling, Served
<1>8. CASE Spawn(d)
  <2>1. stage'[d] = "generating" /\ UNCHANGED <<servedBy, doneSeen>>
    BY <1>2, <1>8 DEF Spawn, messageVars
  <2> QED
    BY <1>1, <1>5, <1>6, <1>7, <2>1
<1>9. CASE HandlerDropped(d)
  <2>1. stage[d] = "spawning" /\ stage'[d] = "gone" /\ UNCHANGED <<servedBy, doneSeen>>
    BY <1>2, <1>9 DEF HandlerDropped, messageVars
  <2> QED
    BY <1>1, <1>5, <1>6, <1>7, <2>1
<1>10. CASE ReadGuard(d)
  <2>1. /\ UNCHANGED <<servedBy, doneSeen>>
        /\ \/ Served(t) /\ stage'[d] = "mark_done"
           \/ ~Served(t) /\ stage'[d] \in {"mark_failed", "generating"}
    BY <1>2, <1>3, <1>10
    DEF ReadGuard, MoveTo, AfterSuccess, AfterUnservable, messageVars, t
  <2> QED
    BY <1>1, <1>5, <1>6, <1>7, <2>1
<1>11. CASE StoreReply(d)
  <2>1. /\ servedBy' = [servedBy EXCEPT ![t] = @ \cup {n}]
        /\ stage'[d] = "stored" /\ UNCHANGED doneSeen
    BY <1>2, <1>3, <1>11 DEF StoreReply, MoveTo, t, n
  <2>2. /\ \A u \in Turns \ {t} : servedBy'[u] = servedBy[u]
        /\ Served(t)'
    BY <1>1, <1>2, <2>1
  <2>3. VerdictInv(t, n)'
    BY <1>1, <2>1, <2>2
  <2>4. stage'[d] \in Live \ {"spawning"}
    BY <2>1
  <2> HIDE DEF VerdictInv, Live, Served
  <2> QED
    BY <1>1, <1>4, <1>5, <1>6, <2>2, <2>3, <2>4, SettleDrive
<1>12. CASE CountDone(d)
  <2>1. stage[d] = "stored" /\ stage'[d] = "generating" /\ UNCHANGED servedBy
    BY <1>2, <1>12 DEF CountDone, MoveTo, messageVars
  <2> QED
    BY <1>1, <1>5, <1>6, <1>7, <2>1
<1>13. CASE EndStream(d) \/ Timeout(d)
  <2>1. /\ UNCHANGED <<servedBy, doneSeen>>
        /\ \/ doneSeen[d] /\ stage'[d] = "mark_done"
           \/ stage'[d] \in {"recheck", "release"}
    BY <1>2, <1>13
    DEF EndStream, Timeout, MoveTo, Outcome, AfterSuccess, AfterFailure, messageVars
  <2> QED
    BY <1>1, <1>5, <1>6, <1>7, <2>1
<1>14. CASE Recheck(d)
  <2>1. /\ UNCHANGED <<servedBy, doneSeen>>
        /\ stage'[d] = IF Served(t) THEN "mark_done" ELSE "mark_failed"
    BY <1>2, <1>3, <1>14 DEF Recheck, MoveTo, messageVars, t
  <2> QED
    BY <1>1, <1>5, <1>6, <1>7, <2>1
<1> QED
  BY <1>8, <1>9, <1>10, <1>11, <1>12, <1>13, <1>14 DEF Generate

\* A verdict written to the row, by a drive that had it.
LEMMA SettleVerdict ==
    ASSUME ClaimInv, \A u \in Turns : SettledTurn(u),
           NEW d \in Drives, MarkDone(d) \/ MarkFailedWithNotice(d) \/ Release(d)
    PROVE  \A u \in Turns : SettledTurn(u)'
<1> DEFINE t == TurnOf(d)
           n == AttemptOf(d)
<1>1. t \in Turns /\ n \in Attempts /\ d = <<t, n>>
  BY DriveParts
<1>2. /\ status \in [Turns -> Statuses] /\ stage \in [Drives -> Stages]
      /\ doneSeen \in [Drives -> BOOLEAN]
  BY DEF ClaimInv, TypeOK
<1>3. stage[d] \in {"mark_done", "mark_failed", "release"}
  BY DEF MarkDone, MarkFailedWithNotice, Release
<1>4. VerdictInv(t, n)
  BY <1>1 DEF SettledTurn
<1>5. /\ UNCHANGED <<servedBy, lateBy, doneSeen>>
      /\ stage' = [stage EXCEPT ![d] = "gone"]
      /\ \A u \in Turns \ {t} : status'[u] = status[u]
      /\ \/ stage[d] = "mark_done" /\ status'[t] = "done"
         \/ stage[d] = "mark_failed" /\ status'[t] = "failed"
         \/ status'[t] = "pending"
  BY <1>1, <1>2 DEF MarkDone, MarkFailedWithNotice, Release, MoveTo, messageVars
<1> HIDE DEF t, n
<1>6. stage'[d] = "gone"
  BY <1>2, <1>5
<1>7. VerdictInv(t, n)'
  BY <1>1, <1>4, <1>5, <1>6 DEF VerdictInv, Served
<1>8. /\ status'[t] = "failed" => ~Served(t)'
      /\ status'[t] = "done" => Served(t)'
      /\ status'[t] # "claimed"
      /\ Served(t) => Served(t)'
  BY <1>1, <1>4, <1>5 DEF VerdictInv, Served
<1>9. /\ stage' = [stage EXCEPT ![<<t, n>>] = stage'[<<t, n>>]]
      /\ doneSeen' = [doneSeen EXCEPT ![<<t, n>>] = doneSeen'[<<t, n>>]]
  BY <1>1, <1>2, <1>5, <1>6
<1>10. stage[<<t, n>>] \in Live
  BY <1>1, <1>3 DEF Live, Settling
<1> QED
  BY <1>1, <1>5, <1>7, <1>8, <1>9, <1>10, SettleDrive

\* Every step keeps it.
LEMMA SettleStep ==
    ASSUME ClaimInv, ClaimInv', ReplyInv, SettleInv, [Next]_vars
    PROVE  SettleInv'
<1> USE DEF rowVars, messageVars, taskVars, boundVars
<1> SUFFICES ASSUME Smooth' PROVE inFlight' = {} /\ \A u \in Turns : SettledTurn(u)'
  BY DEF SettleInv
<1>0. /\ status \in [Turns -> Statuses] /\ stage \in [Drives -> Stages]
      /\ faults \in Nat /\ crashes \in Nat
  BY DEF ClaimInv, TypeOK
<1>1. ~Fault /\ ~Crash
  BY <1>0 DEF Smooth, Fault, Crash
<1>2. Smooth
  <2>1. faults' = faults
    BY <1>1 DEF Next, vars, Enqueue, Drain, EnqueueAsync, EnqueueStream, Reap, ClaimNext,
       ClaimLost, EndDrain, Generate, Settle, Spawn, HandlerDropped, ReadGuard, StoreReply,
       CountDone, EndStream, Timeout, Recheck, MarkDone, MarkFailedWithNotice, Release,
       VerdictLost, CommitLands, Tick, Restart, NoFault
  <2>2. crashes' = crashes
    BY <1>1 DEF Next, vars, Enqueue, Drain, EnqueueAsync, EnqueueStream, Reap, ClaimNext,
       ClaimLost, EndDrain, Generate, Settle, Spawn, HandlerDropped, ReadGuard, StoreReply,
       CountDone, EndStream, Timeout, Recheck, MarkDone, MarkFailedWithNotice, Release,
       VerdictLost, CommitLands, Tick, Restart
  <2> QED
    BY <2>1, <2>2 DEF Smooth
<1>3. inFlight = {} /\ \A u \in Turns : SettledTurn(u)
  BY <1>2 DEF SettleInv
<1>4. ASSUME NEW t \in Turns, EnqueueAsync(t)
      PROVE  \A u \in Turns : SettledTurn(u)'
  <2>1. /\ UNCHANGED <<servedBy, lateBy, stage, doneSeen>> /\ status'[t] = "pending"
        /\ \A u \in Turns \ {t} : status'[u] = status[u]
    BY <1>0, <1>4 DEF EnqueueAsync, InsertPending
  <2>2. SettledTurn(t)'
    BY <1>3, <2>1 DEF SettledTurn, VerdictInv, Served
  <2> QED
    BY <1>3, <2>1, <2>2, SettleUntouched
<1>5. ASSUME NEW t \in Turns, EnqueueStream(t)
      PROVE  \A u \in Turns : SettledTurn(u)'
  <2>1. /\ UNCHANGED <<servedBy, lateBy, doneSeen>>
        /\ stage' = [stage EXCEPT ![<<t, 1>>] = "spawning"]
        /\ status' = [status EXCEPT ![t] = "claimed"]
        /\ status[t] = "absent"
    BY <1>5 DEF EnqueueStream, InsertClaimed
  <2>2. ~Served(t)
    BY <1>3, <2>1 DEF ReplyInv, SettledTurn, Served
  <2>3. ASSUME NEW u \in Turns, u # t PROVE SettledTurn(u)'
    <3>1. \A n \in Attempts : stage'[<<u, n>>] = stage[<<u, n>>]
      BY <1>0, <2>1, <2>3, DrivePair
    <3> QED
      BY <1>0, <1>3, <2>1, <2>3, <3>1, SettleUntouched
  <2>4. ASSUME NEW n \in Attempts PROVE VerdictInv(t, n)'
    <3>1. stage'[<<t, n>>] \in {"spawning", stage[<<t, n>>]}
      BY <1>0, <2>1, DrivePair
    <3>2. VerdictInv(t, n)
      BY <1>3 DEF SettledTurn
    <3> QED
      BY <2>1, <2>2, <3>1, <3>2 DEF VerdictInv, Served
  <2>5. SettledTurn(t)'
    BY <1>0, <2>1, <2>2, <2>4 DEF SettledTurn, Served
  <2> QED
    BY <2>3, <2>5
<1>6. ASSUME Reap
      PROVE  \A u \in Turns : SettledTurn(u)'
  <2>1. ASSUME NEW u \in Turns, Stale(u) PROVE SettledTurn(u)'
    <3>1. age[u] \in Int /\ age[u] > GenTimeout /\ age[u] > StaleAge /\ status[u] = "claimed"
      BY <2>1, KnobAssumption DEF Stale, StaleAge, Ages, ClaimInv, TypeOK
    <3>2. ASSUME NEW n \in Attempts PROVE stage[<<u, n>>] \notin Live
      <4>1. DriveInv(u, n)
        BY DEF ClaimInv, TurnInv
      <4> QED
        BY <3>1, <4>1, KnobAssumption DEF DriveInv, Live, StaleAge
    <3>3. ~Served(u)
      BY <1>3, <3>1, <3>2 DEF SettledTurn, Attended
    <3>4. UNCHANGED <<servedBy, lateBy, stage, doneSeen>> /\ status'[u] \in {"failed", "pending"}
      BY <1>6, <2>1 DEF Reap
    <3> QED
      BY <1>3, <3>3, <3>4 DEF SettledTurn, VerdictInv, Served
  <2>2. ASSUME NEW u \in Turns, ~Stale(u) PROVE SettledTurn(u)'
    <3>1. UNCHANGED <<servedBy, lateBy, stage, doneSeen>> /\ status'[u] = status[u]
      BY <1>6, <2>2 DEF Reap
    <3> QED
      BY <1>3, <3>1, SettleUntouched
  <2> QED
    BY <2>1, <2>2
<1>7. ASSUME NEW t \in Turns, ClaimNext(t)
      PROVE  \A u \in Turns : SettledTurn(u)'
  <2> DEFINE n == attempts[t] + 1
  <2>1. n \in Attempts /\ \A m \in Attempts : stage[<<t, m>>] \notin Live
    BY <1>7, KnobAssumption
    DEF ClaimNext, Claimable, SessionHead, ClaimInv, TypeOK, TurnInv, DriveInv, Attempts
  <2>2. /\ UNCHANGED <<servedBy, lateBy, doneSeen>>
        /\ stage' = [stage EXCEPT ![<<t, n>>] = "guard"]
        /\ status' = [status EXCEPT ![t] = "claimed"]
    BY <1>7 DEF ClaimNext, TakeClaim
  <2> HIDE DEF n
  <2>3. ASSUME NEW u \in Turns, u # t PROVE SettledTurn(u)'
    <3>1. \A m \in Attempts : stage'[<<u, m>>] = stage[<<u, m>>]
      BY <1>0, <2>1, <2>2, <2>3, DrivePair
    <3> QED
      BY <1>0, <1>3, <2>2, <2>3, <3>1, SettleUntouched
  <2>4. ASSUME NEW m \in Attempts PROVE VerdictInv(t, m)'
    <3>1. stage'[<<t, m>>] \in {"guard", stage[<<t, m>>]}
      BY <1>0, <2>1, <2>2, DrivePair
    <3>2. VerdictInv(t, m)
      BY <1>3 DEF SettledTurn
    <3> QED
      BY <2>2, <3>1, <3>2 DEF VerdictInv, Served
  <2>5. Attended(t)'
    BY <1>0, <2>1, <2>2, DrivePair DEF Attended, Live, Generating
  <2>6. SettledTurn(t)'
    BY <1>0, <1>3, <2>2, <2>4, <2>5 DEF SettledTurn
  <2> QED
    BY <2>3, <2>6
<1>8. ASSUME NEW d \in Drives, Generate(d) \/ Settle(d)
      PROVE  \A u \in Turns : SettledTurn(u)'
  <2>1. ~VerdictLost(d)
    BY <1>1 DEF VerdictLost
  <2> QED
    BY <1>3, <1>8, <2>1, SettleGenerate, SettleVerdict DEF Settle
<1>9. ASSUME EndDrain \/ Tick \/ Restart \/ UNCHANGED vars
      PROVE  \A u \in Turns : SettledTurn(u)'
  <2>1. UNCHANGED <<status, servedBy, lateBy, stage, doneSeen>>
    BY <1>9 DEF EndDrain, Tick, Restart, vars
  <2> QED
    BY <1>3, <2>1, SettleUntouched
<1>10. ASSUME NEW t \in Turns PROVE ~ClaimLost(t)
  BY <1>1 DEF ClaimLost
<1>11. ASSUME NEW d \in Drives PROVE ~CommitLands(d)
  BY <1>3 DEF CommitLands
<1>12. inFlight' = {}
  BY <1>1, <1>3 DEF Next, vars, Enqueue, Drain, EnqueueAsync, EnqueueStream, Reap, ClaimNext,
     ClaimLost, EndDrain, Generate, Settle, Spawn, HandlerDropped, ReadGuard, StoreReply,
     CountDone, EndStream, Timeout, Recheck, MarkDone, MarkFailedWithNotice, Release,
     VerdictLost, CommitLands, Tick, Restart
<1>13. \A u \in Turns : SettledTurn(u)'
  BY <1>1, <1>4, <1>5, <1>6, <1>7, <1>8, <1>9, <1>10, <1>11 DEF Next, Enqueue, Drain
<1> QED
  BY <1>12, <1>13

\* While no database call has failed and no process has died, a failed turn was
\* never answered and a done one was, through timeouts, retries and reaps.
THEOREM SettledRight == Spec => []SettledAsServed
<1>1. SettleInv => SettledAsServed
  BY DEF SettleInv, SettledTurn, Smooth, SettledAsServed, FailedIsUnserved, DoneIsServed
<1>2. ClaimInv /\ ReplyInv /\ SettleInv /\ [Next]_vars => (ClaimInv /\ ReplyInv /\ SettleInv)'
  <2>1. ClaimInv /\ [Next]_vars => ClaimInv'
    BY TypeStep, TurnStep DEF ClaimInv
  <2> QED
    BY <2>1, ReplyStep, SettleStep
<1> QED
  BY ClaimInvInit, ReplyInit, SettleInit, <1>1, <1>2, PTL DEF Spec

-----------------------------------------------------------------------------
\* A reply stays stored, and a posted turn stays posted.
LEMMA ServedStays ==
    ASSUME ClaimInv, [Next]_vars, NEW t \in Turns
    PROVE  /\ Served(t) => Served(t)'
           /\ status[t] # "absent" => status'[t] # "absent"
<1> USE DEF rowVars, messageVars, taskVars, boundVars
<1>0. /\ status \in [Turns -> Statuses]
      /\ servedBy \in [Turns -> SUBSET Attempts] /\ lateBy \in [Turns -> SUBSET Attempts]
  BY DEF ClaimInv, TypeOK
<1>1. Served(t) => Served(t)'
  <2>1. UNCHANGED <<servedBy, lateBy>> \/ \E d \in Drives : StoreReply(d) \/ CommitLands(d)
    BY DEF Next, vars, Enqueue, Drain, EnqueueAsync, EnqueueStream, Reap, ClaimNext,
       ClaimLost, EndDrain, Generate, Settle, Spawn, HandlerDropped, ReadGuard,
       CountDone, EndStream, Timeout, Recheck, MarkDone, MarkFailedWithNotice, Release,
       VerdictLost, Tick, Crash, Restart
  <2>2. ASSUME NEW d \in Drives, StoreReply(d) \/ CommitLands(d)
        PROVE  servedBy[t] \subseteq servedBy'[t] /\ lateBy[t] \subseteq lateBy'[t]
    BY <1>0, <2>2, DriveParts DEF StoreReply, CommitLands
  <2> QED
    BY <2>1, <2>2 DEF Served
<1>2. status[t] # "absent" => status'[t] # "absent"
  <2>1. ASSUME NEW d \in Drives, Generate(d) \/ Settle(d) \/ CommitLands(d)
        PROVE  status'[t] \in {status[t], "done", "failed", "pending"}
    BY <1>0, <2>1, DriveParts DEF Generate, Settle, Spawn, HandlerDropped, ReadGuard, StoreReply,
       CountDone, EndStream, Timeout, Recheck, MarkDone, MarkFailedWithNotice, Release,
       VerdictLost, CommitLands
  <2>2. ASSUME NEW u \in Turns, EnqueueAsync(u) \/ EnqueueStream(u)
        PROVE  status'[t] \in {status[t], "pending", "claimed"}
    BY <1>0, <2>2 DEF EnqueueAsync, EnqueueStream, InsertPending, InsertClaimed
  <2>3. ASSUME Drain
        PROVE  status'[t] \in {status[t], "pending", "claimed", "failed"}
    BY <1>0, <2>3 DEF Drain, Reap, ClaimNext, ClaimLost, TakeClaim, EndDrain
  <2> QED
    BY <2>1, <2>2, <2>3 DEF Next, Enqueue, Tick, Crash, Restart, vars
<1> QED
  BY <1>1, <1>2

\* "completed" is not taken back.
LEMMA CompletedStep ==
    ASSUME ClaimInv, [Next]_vars, NEW t \in Turns, Answer(t) = "completed"
    PROVE  Answer(t)' = "completed"
<1>1. status[t] # "absent" /\ Served(t)
  BY DEF Answer
<1>2. status'[t] # "absent" /\ Served(t)'
  BY <1>1, ServedStays
<1> QED
  BY <1>2 DEF Answer

\* "failed" is taken back by a late commit only.
LEMMA FailedStep ==
    ASSUME ClaimInv, ReplyInv, [Next]_vars, NEW t \in Turns, Answer(t) = "failed",
           lateBy'[t] = lateBy[t]
    PROVE  Answer(t)' = "failed"
<1>1. status[t] = "failed" /\ ~Served(t)
  BY DEF Answer
<1>2. status'[t] = "failed" /\ servedBy'[t] = servedBy[t]
  BY <1>1, SettledStep DEF Terminal
<1> QED
  BY <1>1, <1>2 DEF Answer, Served

\* "completed" is a final answer to a repeated POST, and "failed" is one unless a
\* reply of the turn was committed too late.
THEOREM AnswersAreFinal == Spec => AnswerIsFinal
<1>1. ClaimInv /\ ReplyInv /\ [Next]_vars =>
        [\A t \in Turns :
            /\ Answer(t) = "completed" => Answer(t)' = "completed"
            /\ Answer(t) = "failed" => Answer(t)' = "failed" \/ lateBy'[t] # lateBy[t]]_vars
  BY CompletedStep, FailedStep
<1> QED
  BY <1>1, ReplyInvariance, PTL DEF Spec, AnswerIsFinal
=============================================================================
