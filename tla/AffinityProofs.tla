---------------------------- MODULE AffinityProofs ----------------------------
(***************************************************************************)
(* What holds of a relationship's rows, their log and its journal in every *)
(* instance: types, a log that accounts for the row, a balance the gate    *)
(* owes, a journal without moments that were lost within a day, archives   *)
(* that stay forgotten, the newest feeling clause.                         *)
(***************************************************************************)
EXTENDS Affinity, SequenceTheorems, WellFoundedInduction, NaturalsInduction, TLAPS

(***************************************************************************)
(* Arithmetic                                                              *)
(***************************************************************************)

LEMMA Constants ==
    /\ Day \in Nat /\ Day > 0 /\ Width \in Nat /\ Width > 0 /\ Tiers \in Nat /\ Tiers > 0
    /\ Theta \in Nat /\ Verdicts \subseteq Int
    /\ MaxTime \in Nat /\ MaxFaults \in Nat /\ Never \in Int
    /\ Top \in Nat
<1>1. /\ Day \in Nat /\ Day > 0 /\ Width \in Nat /\ Width > 0 /\ Tiers \in Nat /\ Tiers > 0
      /\ Theta \in Nat /\ Verdicts \subseteq Int /\ MaxTime \in Nat /\ MaxFaults \in Nat
  BY LadderAssumption, ClockAssumption
<1>2. Tiers * Width - 1 \in Nat
  BY <1>1
<1> QED
  BY <1>1, <1>2 DEF Never, Top

LEMMA DivType == ASSUME NEW w \in Nat \ {0}, NEW x \in Nat PROVE x \div w \in Nat
  OBVIOUS

LEMMA DivGrows ==
    ASSUME NEW w \in Nat \ {0}, NEW x \in Nat, NEW y \in Nat, x <= y
    PROVE  x \div w <= y \div w
  OBVIOUS

LEMMA DivOfLarge ==
    ASSUME NEW w \in Nat \ {0}, NEW x \in Nat, x \div w # 0 PROVE x >= w
  OBVIOUS

LEMMA ClampType ==
    ASSUME NEW n \in Int
    PROVE  /\ Clamp(n) \in 0..Top
           /\ n <= Top => Clamp(n) >= n
           /\ \A m \in 0..Top : n <= m => Clamp(n) <= m
  BY Constants DEF Clamp

\* One tier down is a score of the ladder, and of no higher tier.
LEMMA DroppedType ==
    ASSUME NEW n \in 0..Top
    PROVE  Dropped(n) \in 0..Top /\ Tier(Dropped(n)) <= Tier(n)
<1>0. n \in Nat /\ n <= Top /\ Top \in Nat /\ Width \in Nat \ {0} /\ n \div Width \in Nat
  BY Constants, DivType
<1>1. CASE Tier(n) = 1
  <2>1. Dropped(n) = 0
    BY <1>1 DEF Dropped
  <2>2. 0 \div Width <= n \div Width /\ 0 \div Width \in Nat
    BY <1>0, DivGrows, DivType
  <2> QED
    BY <1>0, <2>1, <2>2 DEF Tier
<1>2. CASE Tier(n) # 1
  <2>1. n >= Width
    BY <1>0, <1>2, DivOfLarge DEF Tier
  <2>2. Dropped(n) = n - Width /\ n - Width \in Nat /\ n - Width <= n
    BY <1>0, <1>2, <2>1 DEF Dropped
  <2>3. (n - Width) \div Width <= n \div Width /\ (n - Width) \div Width \in Nat
    BY <1>0, <2>2, DivGrows, DivType
  <2> QED
    BY <1>0, <2>2, <2>3 DEF Tier
<1> QED
  BY <1>1, <1>2

\* Absence takes points and gives none.
LEMMA DriftType ==
    ASSUME NEW r \in AffinityRows, now \in Nat, r.at <= now
    PROVE  /\ Drift(r) \in Nat
           /\ Drifted(r) \in 0..Top /\ Drifted(r) <= r.score /\ Drifted(r) >= r.score - Drift(r)
<1>1. r.at \in Int /\ r.score \in 0..Top
  BY DEF AffinityRows
<1>2. Drift(r) \in Nat
  <2>1. now - r.at \in Nat /\ Day \in Nat \ {0}
    BY <1>1, Constants
  <2> QED
    BY <2>1, DivType DEF Drift
<1>3. r.score - Drift(r) \in Int /\ r.score - Drift(r) <= r.score /\ r.score - Drift(r) <= Top
  BY <1>1, <1>2, Constants
<1> QED
  BY <1>1, <1>2, <1>3, ClampType DEF Drifted

\* The gate loses nothing of a verdict.
LEMMA GateType ==
    ASSUME NEW held \in Int, NEW rho \in Int
    PROVE  /\ Gate(held, rho).committed \in Int /\ Gate(held, rho).pending \in Int
           /\ Gate(held, rho).pending = held + rho - Gate(held, rho).committed
<1> DEFINE sum == held + rho
<1>1. sum \in Int /\ Theta \in Nat
  BY Constants
<1>2. \/ Gate(held, rho) = [committed |-> sum, pending |-> 0]
      \/ Gate(held, rho) = [committed |-> 0, pending |-> sum]
  BY DEF Gate
<1>3. /\ Gate(held, rho).committed \in {0, sum}
      /\ Gate(held, rho).pending = sum - Gate(held, rho).committed
  <2> HIDE DEF sum
  <2> QED
    BY <1>1, <1>2
<1> QED
  BY <1>1, <1>3

LEMMA SlowedType == ASSUME NEW n \in Int, NEW slow PROVE Slowed(n, slow) \in Int
  BY DEF Slowed

-----------------------------------------------------------------------------
(***************************************************************************)
(* The invariant the others stand on                                       *)
(***************************************************************************)

\* A row is of a live session, or was opened by a turn that outlived it.
RowHolds(s) ==
    /\ row[s] = NoRow => log[s] = <<>> /\ heard[s] = Never
    /\ row[s] # NoRow => /\ row[s].id = IF s \in live THEN 1 ELSE 2
                         /\ row[s].at <= now

\* A judged turn found its session live; a transaction began before now.
Knows(r) ==
    /\ r.pc = "judged" => r.id = 1
    /\ r.pc = "locking" => r.began <= now
    /\ r.pc = "locking" /\ r.kind = "message" => r.id = 1

AffinityInv ==
    /\ TypeOK
    /\ \A s \in Sessions : RowHolds(s)
    /\ \A t \in Turns : Knows(turn[t])

\* TypeOK and the links, entry by entry.
LEMMA Entries ==
    ASSUME AffinityInv
    PROVE  /\ now \in Nat /\ 0 \in 0..MaxFaults
           /\ \A s \in Sessions :
                /\ row[s] = NoRow \/ row[s] \in AffinityRows
                /\ row[s] # NoRow => /\ row[s] \in AffinityRows /\ row[s].at <= now
                                     /\ row[s].id = IF s \in live THEN 1 ELSE 2
                /\ log[s] \in Seq(EventRows) /\ Len(log[s]) \in Nat
                /\ heard[s] \in Int
           /\ \A t \in Turns : turn[t] \in TurnRows /\ turn[t].s \in Sessions /\ Knows(turn[t])
<1>1. now \in Nat /\ 0 \in 0..MaxFaults
  BY Constants DEF AffinityInv, TypeOK
<1>2. ASSUME NEW s \in Sessions
      PROVE  /\ row[s] = NoRow \/ row[s] \in AffinityRows
             /\ row[s] # NoRow => /\ row[s] \in AffinityRows /\ row[s].at <= now
                                  /\ row[s].id = IF s \in live THEN 1 ELSE 2
             /\ log[s] \in Seq(EventRows) /\ heard[s] \in Int
  BY DEF AffinityInv, TypeOK, RowHolds
<1>3. \A s \in Sessions : Len(log[s]) \in Nat
  BY <1>2, LenProperties
<1>4. \A t \in Turns : turn[t] \in TurnRows /\ turn[t].s \in Sessions /\ Knows(turn[t])
  BY DEF AffinityInv, TypeOK, TurnRows
<1> QED
  BY <1>1, <1>2, <1>3, <1>4

LEMMA NoRowIsNone == ASSUME NEW r \in AffinityRows PROVE r # NoRow
  BY DEF AffinityRows, NoRow

-----------------------------------------------------------------------------
(***************************************************************************)
(* The turns                                                               *)
(***************************************************************************)

OwnTurn(t) ==
    /\ turn' \in [Turns -> TurnRows]
    /\ \A u \in Turns : u # t => turn'[u] = turn[u]
    /\ Knows(turn'[t])

\* A turn that goes where nothing is asked of it.
LEMMA Gone ==
    ASSUME AffinityInv, NEW t \in Turns,
           NEW pc \in {"idle", "admitted", "deciding", "replied", "judging", "summing",
                       "writing", "done"},
           Goto(t, pc)
    PROVE  OwnTurn(t)
<1>1. turn \in [Turns -> TurnRows]
  BY DEF AffinityInv, TypeOK
<1> QED
  BY <1>1 DEF Goto, Step, OwnTurn, TurnRows, Knows

LEMMA Written ==
    ASSUME AffinityInv, NEW t \in Turns, NEW r \in TurnRows, Knows(r), Step(t, r)
    PROVE  OwnTurn(t)
<1>1. turn \in [Turns -> TurnRows]
  BY DEF AffinityInv, TypeOK
<1> QED
  BY <1>1 DEF Step, OwnTurn

LEMMA TurnStep ==
    ASSUME AffinityInv, NEW t \in Turns,
           \/ \E s \in Sessions : Admit(t, s) \/ Answer(t, s)
           \/ Load(t) \/ DecideGhost(t) \/ Reply(t) \/ RecordGhost(t)
           \/ ResetStreak(t) \/ LoadIfLive(t) \/ Begin(t) \/ PersistWithEvent(t)
           \/ GiveUp(t) \/ ReadFeeling(t) \/ SetFeelingClause(t)
           \/ PersistLifeChoiceDrop(t)
    PROVE  OwnTurn(t)
<1>0. /\ turn \in [Turns -> TurnRows] /\ turn[t] \in TurnRows /\ turn[t].s \in Sessions
      /\ Knows(turn[t]) /\ now \in Nat
      /\ \A s \in Sessions : row[s] = NoRow \/ row[s] \in AffinityRows
  BY Entries DEF AffinityInv, TypeOK
<1>1. CASE \E s \in Sessions : Admit(t, s)
  <2>1. PICK s \in Sessions : Step(t, [turn[t] EXCEPT !.pc = "admitted", !.s = s])
    BY <1>1 DEF Admit
  <2> DEFINE r == [turn[t] EXCEPT !.pc = "admitted", !.s = s]
  <2>2. r \in TurnRows /\ Knows(r)
    BY <1>0 DEF TurnRows, Knows
  <2> HIDE DEF r
  <2> QED
    BY <2>1, <2>2, Written DEF r
<1>2. CASE \E s \in Sessions : Answer(t, s)
  <2>1. PICK s \in Sessions : Answer(t, s)
    BY <1>2
  <2> DEFINE id == row[s].id
             r == [turn[t] EXCEPT !.pc = "locking", !.s = s, !.kind = "answer",
                                  !.began = now, !.id = id]
  <2>2. id \in 0..2
    <3>1. row[s] # NoRow
      BY <2>1 DEF Answer
    <3> QED
      BY <1>0, <3>1 DEF AffinityRows
  <2>3. Step(t, r)
    BY <2>1 DEF Answer
  <2> HIDE DEF id
  <2>4. r \in TurnRows /\ r.pc = "locking" /\ r.kind = "answer" /\ r.began = now
    BY <1>0, <2>2 DEF TurnRows
  <2> HIDE DEF r
  <2>5. Knows(r)
    BY <1>0, <2>4 DEF Knows
  <2> QED
    BY <2>3, <2>4, <2>5, Written
<1>3. CASE Load(t)
  <2> DEFINE s == turn[t].s
             old == IF row[s] = NoRow THEN NewRow(IF s \in live THEN 1 ELSE 2) ELSE row[s]
             id == old.id
             streak == old.streak
             ghostAt == old.ghostAt
             r == [turn[t] EXCEPT !.pc = "deciding", !.id = id,
                                  !.streak = streak, !.ghostAt = ghostAt]
  <2>1. Step(t, r)
    BY <1>3 DEF Load
  <2>2. id \in 0..2 /\ streak \in Nat /\ ghostAt \in Int
    BY <1>0, Constants DEF NewRow, AffinityRows
  <2> HIDE DEF id, streak, ghostAt
  <2>3. r \in TurnRows /\ Knows(r)
    BY <1>0, <2>2 DEF TurnRows, Knows
  <2> HIDE DEF r
  <2> QED
    BY <2>1, <2>3, Written
<1>4. CASE DecideGhost(t)
  <2> DEFINE r == [turn[t] EXCEPT !.pc = "locking", !.kind = "ghost", !.began = now]
  <2>1. Step(t, r)
    BY <1>4 DEF DecideGhost
  <2>2. r \in TurnRows /\ r.pc = "locking" /\ r.kind = "ghost" /\ r.began = now
    BY <1>0 DEF TurnRows
  <2> HIDE DEF r
  <2>3. Knows(r)
    BY <1>0, <2>2 DEF Knows
  <2> QED
    BY <2>1, <2>2, <2>3, Written
<1>5. CASE Reply(t)
  <2> DEFINE r == [turn[t] EXCEPT !.pc = "replied", !.kind = "message"]
  <2>1. Step(t, r) \/ Goto(t, "done")
    BY <1>5 DEF Reply
  <2>2. r \in TurnRows /\ Knows(r)
    BY <1>0 DEF TurnRows, Knows
  <2> HIDE DEF r
  <2> QED
    BY <2>1, <2>2, Written, Gone
<1>6. CASE RecordGhost(t) \/ PersistLifeChoiceDrop(t) \/ SetFeelingClause(t)
  <2>1. Goto(t, "done")
    BY <1>6 DEF RecordGhost, PersistLifeChoiceDrop, SetFeelingClause
  <2> QED
    BY <2>1, Gone
<1>7. CASE ResetStreak(t)
  <2>1. Goto(t, "judging")
    BY <1>7 DEF ResetStreak
  <2> QED
    BY <2>1, Gone
<1>8. CASE LoadIfLive(t)
  <2> DEFINE s == turn[t].s
             old == IF row[s] = NoRow THEN NewRow(1) ELSE row[s]
             id == old.id
             r == [turn[t] EXCEPT !.pc = "judged", !.id = id]
  <2>1. CASE \E pc \in AfterFailure(t) : Goto(t, pc)
    BY <2>1, Gone DEF AfterFailure
  <2>2. CASE s \in live /\ Step(t, r)
    <3>1. id = 1 /\ id \in 0..2
      BY <1>0, <2>2, Entries DEF NewRow
    <3> HIDE DEF id
    <3>2. r \in TurnRows /\ r.pc = "judged" /\ r.id = 1
      BY <1>0, <3>1 DEF TurnRows
    <3> HIDE DEF r
    <3>3. Knows(r)
      BY <3>2 DEF Knows
    <3> QED
      BY <2>2, <3>2, <3>3, Written
  <2> QED
    BY <1>8, <2>1, <2>2 DEF LoadIfLive
<1>9. CASE Begin(t)
  <2> DEFINE r == [turn[t] EXCEPT !.pc = "locking", !.began = now]
  <2>1. Step(t, r)
    BY <1>9 DEF Begin
  <2>2. turn[t].id = 1
    BY <1>0, <1>9 DEF Begin, Knows
  <2>3. r \in TurnRows /\ r.pc = "locking" /\ r.began = now /\ r.id = turn[t].id
    BY <1>0 DEF TurnRows
  <2> HIDE DEF r
  <2>4. Knows(r)
    BY <1>0, <2>2, <2>3 DEF Knows
  <2> QED
    BY <2>1, <2>3, <2>4, Written
<1>10. CASE PersistWithEvent(t)
  <2>1. Goto(t, "summing") \/ Goto(t, "done")
    BY <1>10 DEF PersistWithEvent
  <2> QED
    BY <2>1, Gone
<1>11. CASE GiveUp(t)
  <2>1. \E pc \in AfterFailure(t) : Goto(t, pc)
    BY <1>11 DEF GiveUp
  <2> QED
    BY <2>1, Gone DEF AfterFailure
<1>12. CASE ReadFeeling(t)
  <2> DEFINE at == row[turn[t].s].at
             r == [turn[t] EXCEPT !.pc = "writing", !.asOf = at]
  <2>1. CASE Goto(t, "done")
    BY <2>1, Gone
  <2>2. CASE row[turn[t].s] # NoRow /\ Step(t, r)
    <3>1. at \in Int
      BY <1>0, <2>2 DEF AffinityRows
    <3> HIDE DEF at
    <3>2. r \in TurnRows /\ Knows(r)
      BY <1>0, <3>1 DEF TurnRows, Knows
    <3> HIDE DEF r
    <3> QED
      BY <2>2, <3>2, Written
  <2> QED
    BY <1>12, <2>1, <2>2 DEF ReadFeeling
<1> QED
  BY <1>1, <1>2, <1>3, <1>4, <1>5, <1>6, <1>7, <1>8, <1>9, <1>10, <1>11, <1>12

LEMMA TurnsStep ==
    ASSUME AffinityInv, [Next]_vars
    PROVE  /\ turn' \in [Turns -> TurnRows]
           /\ \A t \in Turns : Knows(turn[t])' 
           /\ now' \in 0..MaxTime /\ now' >= now /\ faults' \in 0..MaxFaults
<1>0. /\ turn \in [Turns -> TurnRows] /\ now \in 0..MaxTime /\ faults \in 0..MaxFaults
      /\ now \in Nat /\ \A t \in Turns : Knows(turn[t])
  BY Entries DEF AffinityInv, TypeOK
<1>1. now' \in {now, now + 1} /\ now' \in 0..MaxTime /\ faults' \in 0..MaxFaults
  <2>1. now' = now \/ (now < MaxTime /\ now' = now + 1)
    BY DEF Next, vars, Tick, Admit, Answer, Load, DecideGhost, Reply, RecordGhost, ResetStreak,
       LoadIfLive, Begin, PersistWithEvent, GiveUp, ReadFeeling, SetFeelingClause,
       PersistLifeChoiceDrop, ArchiveRelationship
  <2>2. faults' = faults \/ Fault
    BY DEF Next, vars, Tick, Admit, Answer, Load, DecideGhost, Reply, RecordGhost, ResetStreak,
       LoadIfLive, Begin, PersistWithEvent, GiveUp, ReadFeeling, SetFeelingClause,
       PersistLifeChoiceDrop, ArchiveRelationship
  <2> QED
    BY <1>0, <2>1, <2>2, Constants DEF Fault
<1>2. /\ turn' \in [Turns -> TurnRows]
      /\ \A t \in Turns : turn'[t] = turn[t] \/ Knows(turn'[t])
  <2>1. CASE turn' = turn
    BY <1>0, <2>1
  <2>2. CASE \E t \in Turns : OwnTurn(t)
    BY <2>2 DEF OwnTurn
  <2>3. turn' = turn \/ \E t \in Turns : OwnTurn(t)
    BY TurnStep DEF Next, vars, ArchiveRelationship, Tick
  <2> QED
    BY <2>1, <2>2, <2>3
<1>3. ASSUME NEW t \in Turns PROVE Knows(turn[t])'
  <2>1. Knows(turn'[t]) /\ turn'[t] \in TurnRows
    BY <1>0, <1>2
  <2> QED
    BY <1>0, <1>1, <2>1 DEF Knows, TurnRows
<1> QED
  BY <1>0, <1>1, <1>2, <1>3

-----------------------------------------------------------------------------
(***************************************************************************)
(* What a step makes of the rows, the log and the journal                  *)
(***************************************************************************)

EventTypes == {"message", "ghost", "life_choice"}

Same ==
    /\ now' \in {now, now + 1}
    /\ UNCHANGED <<live, row, log, journal, heard>>
Opened(s) ==
    /\ row[s] = NoRow
    /\ row' = [row EXCEPT ![s] = NewRow(IF s \in live THEN 1 ELSE 2)]
    /\ UNCHANGED <<now, live, log, journal, heard>>
Reset(s) ==
    /\ row[s] # NoRow
    /\ row' = [row EXCEPT ![s] = [row[s] EXCEPT !.streak = 0, !.at = now]]
    /\ UNCHANGED <<now, live, log, journal, heard>>
Summed(s, a) ==
    /\ row[s] # NoRow /\ NotOlder(row[s], a)
    /\ row' = [row EXCEPT ![s].clauseAt = a]
    /\ heard' = [heard EXCEPT ![s] = IF a > @ THEN a ELSE @]
    /\ UNCHANGED <<now, live, log, journal>>
Outdated(s, a) ==
    /\ row[s] # NoRow /\ ~NotOlder(row[s], a)
    /\ heard' = [heard EXCEPT ![s] = IF a > @ THEN a ELSE @]
    /\ UNCHANGED <<now, live, row, log, journal>>
Archived ==
    /\ live' = {} /\ now' = now
    /\ row' = [s \in Sessions |-> NoRow]
    /\ log' = [s \in Sessions |-> <<>>]
    /\ journal' = [k \in 2..Tiers |-> NoEntry]
    /\ heard' = [s \in Sessions |-> Never]

\* What a logged write of session s at an instant leaves of its row.
Follows(s, at, before, after, type, rho, committed, drop) ==
    /\ row[s] # NoRow /\ at <= now
    /\ before.total = row[s].total /\ before.score \in {row[s].score, Drifted(row[s])}
    /\ after.id = row[s].id /\ after.clauseAt = row[s].clauseAt /\ after.at = at
    /\ after.total = row[s].total + (IF type = "ghost" THEN 1 ELSE 0)
    /\ after.pending = IF drop THEN 0 ELSE row[s].pending + rho - committed
    /\ type = "message" => s \in live
Logged(s, at, before, after, type, rho, committed, drop) ==
    /\ Follows(s, at, before, after, type, rho, committed, drop)
    /\ row' = [row EXCEPT ![s] = after]
    /\ log' = [log EXCEPT ![s] =
                 Append(log[s], Event(type, before, after, rho, committed, drop))]
    /\ \/ journal' = journal /\ after.score = before.score
       \/ /\ RecordLabelMoves(s, before.score, after.score, at)
          /\ type # "message" => Tier(after.score) <= Tier(before.score)
    /\ UNCHANGED <<now, live, heard>>

SomeLogged ==
    \E s \in Sessions, at \in Nat, before, after \in AffinityRows, type \in EventTypes,
       rho, committed \in Int, drop \in BOOLEAN :
      Logged(s, at, before, after, type, rho, committed, drop)

\* A row a turn finds is its own.
LEMMA FoundRow ==
    ASSUME AffinityInv, NEW t \in Turns, Found(t), turn[t].pc = "locking"
    PROVE  /\ turn[t].s \in Sessions /\ row[turn[t].s] # NoRow
           /\ row[turn[t].s] \in AffinityRows /\ row[turn[t].s].at <= now
           /\ turn[t].began \in Nat /\ turn[t].began <= now
           /\ turn[t].kind = "message" => turn[t].s \in live
<1>1. /\ turn[t].s \in Sessions /\ turn[t] \in TurnRows /\ Knows(turn[t])
      /\ row[turn[t].s] # NoRow
  BY Entries DEF Found
<1>2. /\ row[turn[t].s] \in AffinityRows /\ row[turn[t].s].at <= now
      /\ row[turn[t].s].id = IF turn[t].s \in live THEN 1 ELSE 2
  BY <1>1, Entries
<1>3. ASSUME turn[t].kind = "message" PROVE turn[t].s \in live
  <2>1. row[turn[t].s].id = turn[t].id
    BY <1>3 DEF Found
  <2>2. turn[t].id = 1
    BY <1>1, <1>3 DEF Knows
  <2> QED
    BY <1>2, <2>1, <2>2
<1> QED
  BY <1>1, <1>2, <1>3 DEF TurnRows, Knows

LEMMA GhostEffect ==
    ASSUME AffinityInv, NEW t \in Turns, RecordGhost(t) PROVE SomeLogged
<1> DEFINE s == turn[t].s
           r == row[s]
           at == turn[t].began
           streak == r.streak + 1
           total == r.total + 1
           after == [r EXCEPT !.streak = streak, !.total = total, !.ghostAt = at, !.at = at]
<1>1. /\ s \in Sessions /\ r # NoRow /\ r \in AffinityRows /\ at \in Nat /\ at <= now
  BY FoundRow DEF RecordGhost
<1>2. /\ row' = [row EXCEPT ![s] = after]
      /\ log' = [log EXCEPT ![s] = Append(log[s], Event("ghost", r, after, 0, 0, FALSE))]
      /\ UNCHANGED <<now, live, journal, heard>>
  BY <1>1 DEF RecordGhost, Recorded, AffinityInv, TypeOK
<1>3. streak \in Nat /\ total \in Nat /\ at \in Int /\ r.pending \in Int
  BY <1>1 DEF AffinityRows
<1> HIDE DEF r, at, streak, total
<1>4. /\ after \in AffinityRows /\ after.id = r.id /\ after.clauseAt = r.clauseAt
      /\ after.at = at /\ after.total = total /\ after.pending = r.pending
      /\ after.score = r.score
  BY <1>1, <1>3 DEF AffinityRows
<1> HIDE DEF s, after
<1> PICK rho \in Int : rho = 0
  OBVIOUS
<1> PICK committed \in Int : committed = 0
  OBVIOUS
<1> PICK drop \in BOOLEAN : drop = FALSE
  BY Zenon
<1>5. rho = 0 /\ committed = 0 /\ drop = FALSE
  OBVIOUS
<1>6. Follows(s, at, r, after, "ghost", rho, committed, drop)
  BY <1>1, <1>3, <1>4, <1>5 DEF Follows, total, r
<1>7. Logged(s, at, r, after, "ghost", rho, committed, drop)
  BY <1>2, <1>4, <1>5, <1>6 DEF Logged, r
<1> QED
  BY <1>1, <1>4, <1>5, <1>7 DEF SomeLogged, EventTypes

\* The row a judged turn writes.
LEMMA VerdictRow ==
    ASSUME AffinityInv, NEW t \in Turns, Found(t), turn[t].pc = "locking",
           NEW rho \in Int, NEW refused \in BOOLEAN, NEW slow \in BOOLEAN
    PROVE  LET r == row[turn[t].s]
               base == Baseline(t)
               after == Verdict(t, rho, refused, slow)
               committed == Gate(r.pending, rho).committed
           IN  /\ base \in AffinityRows /\ after \in AffinityRows /\ committed \in Int
               /\ base.total = r.total /\ base.score = Drifted(r)
               /\ after.id = r.id /\ after.clauseAt = r.clauseAt /\ after.at = turn[t].began
               /\ after.total = r.total
               /\ after.pending = IF refused THEN 0 ELSE r.pending + rho - committed
<1> DEFINE r == row[turn[t].s]
           at == turn[t].began
           base == Baseline(t)
           gate == Gate(r.pending, rho)
           score == IF refused THEN Dropped(base.score)
                    ELSE Clamp(base.score + Slowed(gate.committed, slow))
           pending == IF refused THEN 0 ELSE gate.pending
<1>1. r \in AffinityRows /\ r.at <= now /\ at \in Nat /\ now \in Nat
  BY FoundRow, Entries
<1>2. Drifted(r) \in 0..Top
  BY <1>1, DriftType
<1>3. base = [r EXCEPT !.score = Drifted(r)]
  BY DEF Baseline
<1>4. /\ base \in AffinityRows /\ base.total = r.total /\ base.score = Drifted(r)
      /\ base.id = r.id /\ base.clauseAt = r.clauseAt
  BY <1>1, <1>2, <1>3 DEF AffinityRows
<1>5. /\ gate.committed \in Int /\ gate.pending \in Int
      /\ gate.pending = r.pending + rho - gate.committed
  BY <1>1, GateType DEF AffinityRows
<1>6. score \in 0..Top
  <2>1. base.score \in 0..Top
    BY <1>2, <1>4
  <2>2. Dropped(base.score) \in 0..Top
    BY <2>1, DroppedType
  <2>3. base.score + Slowed(gate.committed, slow) \in Int
    BY <1>5, <2>1, SlowedType
  <2>4. Clamp(base.score + Slowed(gate.committed, slow)) \in 0..Top
    BY <2>3, ClampType
  <2> QED
    BY <2>2, <2>4
<1>7. pending \in Int
  BY <1>5
<1>8. Verdict(t, rho, refused, slow) = [base EXCEPT !.score = score, !.pending = pending, !.at = at]
  BY DEF Verdict, Held
<1> HIDE DEF base, score, at
<1> DEFINE after == [base EXCEPT !.score = score, !.pending = pending, !.at = at]
<1>9. /\ after \in AffinityRows /\ after.id = base.id /\ after.clauseAt = base.clauseAt
      /\ after.at = at /\ after.total = base.total /\ after.pending = pending
  <2> HIDE DEF pending
  <2>1. at \in Int /\ base \in AffinityRows /\ score \in 0..Top /\ pending \in Int
    BY <1>1, <1>4, <1>6, <1>7 DEF at
  <2> QED
    BY <2>1 DEF AffinityRows
<1> HIDE DEF after
<1> QED
  BY <1>4, <1>5, <1>8, <1>9 DEF base, after, at

LEMMA VerdictEffect ==
    ASSUME AffinityInv, NEW t \in Turns, PersistWithEvent(t) PROVE SomeLogged
<1> DEFINE s == turn[t].s
           at == turn[t].began
<1>1. turn[t].pc = "locking" /\ turn[t].kind = "message" /\ Found(t)
  BY DEF PersistWithEvent
<1>2. PICK rho \in Verdicts, refused \in BOOLEAN, slow \in BOOLEAN :
         /\ row' = [row EXCEPT ![s] = Verdict(t, rho, refused, slow)]
         /\ log' = [log EXCEPT ![s] = Append(@,
                Event("message", Baseline(t), Verdict(t, rho, refused, slow), rho,
                      Gate(Held(t), rho).committed, refused))]
         /\ RecordLabelMoves(s, Baseline(t).score, Verdict(t, rho, refused, slow).score, at)
  BY DEF PersistWithEvent
<1> DEFINE r == row[s]
           base == Baseline(t)
           after == Verdict(t, rho, refused, slow)
           committed == Gate(r.pending, rho).committed
<1>3. rho \in Int
  BY Constants
<1>4. /\ base \in AffinityRows /\ after \in AffinityRows /\ committed \in Int
      /\ base.total = r.total /\ base.score = Drifted(r)
      /\ after.id = r.id /\ after.clauseAt = r.clauseAt /\ after.at = at
      /\ after.total = r.total
      /\ after.pending = IF refused THEN 0 ELSE r.pending + rho - committed
  BY <1>1, <1>3, VerdictRow
<1>5. s \in Sessions /\ r # NoRow /\ r \in AffinityRows /\ at \in Nat /\ at <= now /\ s \in live
  BY <1>1, FoundRow
<1>6. /\ row' = [row EXCEPT ![s] = after]
      /\ log' = [log EXCEPT ![s] =
                   Append(log[s], Event("message", base, after, rho, committed, refused))]
      /\ RecordLabelMoves(s, base.score, after.score, at)
      /\ UNCHANGED <<now, live, heard>>
  BY <1>2, <1>5 DEF PersistWithEvent, Held, AffinityInv, TypeOK
<1> HIDE DEF s, at, base, after, committed
<1>7. Follows(s, at, base, after, "message", rho, committed, refused)
  BY <1>4, <1>5 DEF Follows, AffinityRows
<1>8. Logged(s, at, base, after, "message", rho, committed, refused)
  BY <1>6, <1>7 DEF Logged
<1> QED
  BY <1>3, <1>4, <1>5, <1>8 DEF SomeLogged, EventTypes

LEMMA ChoiceEffect ==
    ASSUME AffinityInv, NEW t \in Turns, PersistLifeChoiceDrop(t) PROVE SomeLogged
<1> DEFINE s == turn[t].s
           r == row[s]
           at == turn[t].began
           base == Baseline(t)
           score == Dropped(base.score)
           pending == 0
           after == [base EXCEPT !.score = score, !.pending = pending, !.at = at]
<1>1. /\ s \in Sessions /\ r # NoRow /\ r \in AffinityRows /\ r.at <= now
      /\ at \in Nat /\ at <= now /\ now \in Nat
  BY FoundRow, Entries DEF PersistLifeChoiceDrop
<1>2. /\ row' = [row EXCEPT ![s] = after]
      /\ log' = [log EXCEPT ![s] =
                   Append(log[s], Event("life_choice", base, after, 0, 0, TRUE))]
      /\ RecordLabelMoves(s, base.score, after.score, at)
      /\ UNCHANGED <<now, live, heard>>
  BY <1>1 DEF PersistLifeChoiceDrop, AffinityInv, TypeOK
<1>3. Drifted(r) \in 0..Top
  BY <1>1, DriftType
<1>4. base = [r EXCEPT !.score = Drifted(r)]
  BY DEF Baseline
<1>5. /\ base \in AffinityRows /\ base.total = r.total /\ base.score = Drifted(r)
      /\ base.id = r.id /\ base.clauseAt = r.clauseAt
  BY <1>1, <1>3, <1>4 DEF AffinityRows
<1>6. score \in 0..Top /\ Tier(score) <= Tier(base.score)
  BY <1>3, <1>5, DroppedType
<1> HIDE DEF s, at, base, score
<1>7. /\ after \in AffinityRows /\ after.id = base.id /\ after.clauseAt = base.clauseAt
      /\ after.at = at /\ after.total = base.total /\ after.pending = 0 /\ after.score = score
  <2>1. at \in Int /\ base \in AffinityRows /\ score \in 0..Top
    BY <1>1, <1>5, <1>6
  <2>2. pending \in Int /\ pending = 0
    OBVIOUS
  <2> HIDE DEF pending
  <2>3. after \in AffinityRows
    BY <2>1, <2>2 DEF AffinityRows
  <2>4. /\ after.id = base.id /\ after.clauseAt = base.clauseAt /\ after.at = at
        /\ after.total = base.total /\ after.pending = 0 /\ after.score = score
    BY <2>1, <2>2 DEF AffinityRows
  <2> HIDE DEF after
  <2> QED
    BY <2>3, <2>4
<1> HIDE DEF after
<1> PICK rho \in Int : rho = 0
  OBVIOUS
<1> PICK committed \in Int : committed = 0
  OBVIOUS
<1> PICK drop \in BOOLEAN : drop = TRUE
  BY Zenon
<1>8. rho = 0 /\ committed = 0 /\ drop = TRUE
  OBVIOUS
<1>9. Follows(s, at, base, after, "life_choice", rho, committed, drop)
  BY <1>1, <1>5, <1>7, <1>8 DEF Follows, AffinityRows
<1>10. Logged(s, at, base, after, "life_choice", rho, committed, drop)
  BY <1>2, <1>6, <1>7, <1>8, <1>9 DEF Logged
<1> QED
  BY <1>1, <1>5, <1>7, <1>8, <1>10 DEF SomeLogged, EventTypes

\* The kinds of steps.
LEMMA Effects ==
    ASSUME AffinityInv, [Next]_vars
    PROVE  \/ Same \/ Archived \/ SomeLogged
           \/ \E s \in Sessions : Opened(s) \/ Reset(s)
           \/ \E s \in Sessions, a \in Int : Summed(s, a) \/ Outdated(s, a)
<1>0. row \in [Sessions -> AffinityRows \cup {NoRow}] /\ heard \in [Sessions -> Int]
  BY DEF AffinityInv, TypeOK
<1>1. ASSUME UNCHANGED <<now, live, row, log, journal, heard>> PROVE Same
  BY <1>1 DEF Same
<1>2. ASSUME NEW t \in Turns, Load(t) PROVE Same \/ \E s \in Sessions : Opened(s)
  <2> DEFINE s == turn[t].s
  <2>1. s \in Sessions
    BY Entries
  <2>2. CASE row[s] = NoRow
    BY <1>2, <2>1, <2>2 DEF Load, Opened
  <2>3. CASE row[s] # NoRow
    <3>1. row' = row
      BY <1>0, <1>2, <2>1, <2>3 DEF Load
    <3> QED
      BY <1>1, <1>2, <3>1 DEF Load
  <2> QED
    BY <2>2, <2>3
<1>3. ASSUME NEW t \in Turns, LoadIfLive(t) PROVE Same \/ \E s \in Sessions : Opened(s)
  <2> DEFINE s == turn[t].s
  <2>1. s \in Sessions
    BY Entries
  <2>2. CASE row' = row
    BY <1>1, <1>3, <2>2 DEF LoadIfLive
  <2>3. CASE s \in live /\ row' = [row EXCEPT ![s] = IF row[s] = NoRow THEN NewRow(1) ELSE row[s]]
    <3>1. CASE row[s] = NoRow
      BY <1>3, <2>1, <2>3, <3>1 DEF LoadIfLive, Opened
    <3>2. CASE row[s] # NoRow
      <4>1. row' = row
        BY <1>0, <2>1, <2>3, <3>2
      <4> QED
        BY <2>2, <4>1
    <3> QED
      BY <3>1, <3>2
  <2> QED
    BY <1>3, <2>2, <2>3 DEF LoadIfLive
<1>4. ASSUME NEW t \in Turns, ResetStreak(t) PROVE Same \/ \E s \in Sessions : Reset(s)
  <2> DEFINE s == turn[t].s
  <2>1. s \in Sessions
    BY Entries
  <2>2. CASE row' = row
    BY <1>1, <1>4, <2>2 DEF ResetStreak
  <2>3. CASE row' # row
    <3>1. row[s] # NoRow /\ row' = [row EXCEPT ![s] = [row[s] EXCEPT !.streak = 0, !.at = now]]
      BY <1>0, <1>4, <2>1, <2>3 DEF ResetStreak
    <3> QED
      BY <1>4, <2>1, <3>1 DEF ResetStreak, Reset
  <2> QED
    BY <2>2, <2>3
<1>5. ASSUME NEW t \in Turns, SetFeelingClause(t)
      PROVE  Same \/ \E s \in Sessions, a \in Int : Summed(s, a) \/ Outdated(s, a)
  <2> DEFINE s == turn[t].s
             a == turn[t].asOf
  <2>1. s \in Sessions /\ a \in Int
    BY Entries DEF TurnRows
  <2>2. CASE UNCHANGED <<row, heard>>
    BY <1>1, <1>5, <2>2 DEF SetFeelingClause
  <2>3. CASE /\ row' = IF row[s] # NoRow /\ NotOlder(row[s], a)
                       THEN [row EXCEPT ![s].clauseAt = a] ELSE row
             /\ heard' = IF row[s] = NoRow THEN heard
                         ELSE [heard EXCEPT ![s] = IF a > @ THEN a ELSE @]
    <3>1. CASE row[s] = NoRow
      BY <2>2, <2>3, <3>1
    <3>2. CASE row[s] # NoRow
      BY <1>5, <2>1, <2>3, <3>2 DEF SetFeelingClause, Summed, Outdated
    <3> QED
      BY <3>1, <3>2
  <2> QED
    BY <1>5, <2>2, <2>3 DEF SetFeelingClause
<1>6. ASSUME NEW t \in Turns,
             \/ \E s \in Sessions : Admit(t, s) \/ Answer(t, s)
             \/ DecideGhost(t) \/ Reply(t) \/ Begin(t) \/ GiveUp(t) \/ ReadFeeling(t)
      PROVE  Same
  BY <1>1, <1>6 DEF Admit, Answer, DecideGhost, Reply, Begin, GiveUp, ReadFeeling
<1>7. ASSUME Tick PROVE Same
  BY <1>7 DEF Tick, Same
<1>8. ASSUME ArchiveRelationship PROVE Archived
  BY <1>8 DEF ArchiveRelationship, Archived
<1>9. ASSUME NEW t \in Turns, RecordGhost(t) \/ PersistWithEvent(t) \/ PersistLifeChoiceDrop(t)
      PROVE  SomeLogged
  BY <1>9, GhostEffect, VerdictEffect, ChoiceEffect
<1> QED
  BY <1>1, <1>2, <1>3, <1>4, <1>5, <1>6, <1>7, <1>8, <1>9 DEF Next, vars

-----------------------------------------------------------------------------
(***************************************************************************)
(* Type correctness                                                        *)
(***************************************************************************)

LEMMA NewRowType ==
    ASSUME NEW id \in {1, 2}, now \in Nat
    PROVE  /\ NewRow(id) \in AffinityRows
           /\ NewRow(id).id = id /\ NewRow(id).at = now /\ NewRow(id).clauseAt = Never
           /\ NewRow(id).score = 0 /\ NewRow(id).total = 0 /\ NewRow(id).pending = 0
<1>1. /\ NewRow(id).id = id /\ NewRow(id).at = now /\ NewRow(id).clauseAt = Never
      /\ NewRow(id).score = 0 /\ NewRow(id).total = 0 /\ NewRow(id).pending = 0
  BY DEF NewRow
<1>2. 0 \in 0..Top /\ 0 \in Int /\ 0 \in Nat /\ Never \in Int /\ now \in Int
  BY Constants
<1>3. NewRow(id) \in AffinityRows
  BY <1>2 DEF NewRow, AffinityRows
<1> QED
  BY <1>1, <1>3

\* What a step that logs nothing leaves of a session's row.
Untouched(z) ==
    /\ row'[z] # NoRow => /\ row'[z] \in AffinityRows /\ row'[z].at <= now'
                          /\ row'[z].id = IF z \in live THEN 1 ELSE 2
    /\ row[z] # NoRow => /\ row'[z] # NoRow /\ row'[z].at >= row[z].at
                         /\ row'[z].score = row[z].score /\ row'[z].total = row[z].total
                         /\ row'[z].pending = row[z].pending
    /\ row[z] = NoRow /\ row'[z] # NoRow =>
         /\ row'[z].score = 0 /\ row'[z].total = 0 /\ row'[z].pending = 0
    /\ row'[z] = NoRow => row[z] = NoRow /\ heard'[z] = heard[z]

Quiet ==
    /\ UNCHANGED <<live, log, journal>>
    /\ row' \in [Sessions -> AffinityRows \cup {NoRow}]
    /\ heard' \in [Sessions -> Int]
    /\ \A z \in Sessions : Untouched(z)

LEMMA QuietSteps ==
    ASSUME AffinityInv,
           \/ Same
           \/ \E s \in Sessions : Opened(s) \/ Reset(s)
           \/ \E s \in Sessions, a \in Int : Summed(s, a) \/ Outdated(s, a)
    PROVE  Quiet
<1>0. /\ row \in [Sessions -> AffinityRows \cup {NoRow}] /\ heard \in [Sessions -> Int]
      /\ now \in Nat
      /\ \A s \in Sessions : row[s] # NoRow => /\ row[s] \in AffinityRows /\ row[s].at <= now
                                               /\ row[s].at \in Int
                                               /\ row[s].id = IF s \in live THEN 1 ELSE 2
  BY Entries DEF AffinityInv, TypeOK, AffinityRows
<1>1. ASSUME NEW z \in Sessions, row'[z] = row[z], heard'[z] = heard[z], now' \in {now, now + 1}
      PROVE  Untouched(z)
  BY <1>0, <1>1 DEF Untouched
<1>2. CASE Same
  <2>1. row' = row /\ heard' = heard /\ now' \in {now, now + 1} /\ UNCHANGED <<live, log, journal>>
    BY <1>2 DEF Same
  <2> QED
    BY <1>0, <1>1, <2>1 DEF Quiet
<1>3. ASSUME NEW s \in Sessions, Opened(s) PROVE Quiet
  <2> DEFINE id == IF s \in live THEN 1 ELSE 2
             r == NewRow(id)
  <2>1. id \in {1, 2}
    OBVIOUS
  <2>2. row' = [row EXCEPT ![s] = r] /\ row[s] = NoRow /\ UNCHANGED <<now, live, log, journal, heard>>
    BY <1>3 DEF Opened
  <2> HIDE DEF id
  <2>3. /\ r \in AffinityRows /\ r.id = id /\ r.at = now
        /\ r.score = 0 /\ r.total = 0 /\ r.pending = 0
    BY <1>0, <2>1, NewRowType
  <2> HIDE DEF r
  <2>4. r # NoRow
    BY <2>3, NoRowIsNone
  <2>5. Untouched(s)
    BY <1>0, <2>2, <2>3, <2>4 DEF Untouched, id
  <2>6. \A z \in Sessions : z # s => row'[z] = row[z]
    BY <1>0, <2>2
  <2>7. \A z \in Sessions : Untouched(z)
    BY <1>1, <2>2, <2>5, <2>6
  <2> QED
    BY <1>0, <2>2, <2>3, <2>7 DEF Quiet
<1>4. ASSUME NEW s \in Sessions, Reset(s) PROVE Quiet
  <2> DEFINE old == row[s]
             streak == 0
             r == [old EXCEPT !.streak = streak, !.at = now]
  <2>1. row' = [row EXCEPT ![s] = r] /\ row[s] # NoRow /\ UNCHANGED <<now, live, log, journal, heard>>
    BY <1>4 DEF Reset
  <2>2. old \in AffinityRows /\ row[s] = old /\ streak \in Nat /\ now \in Int
    BY <1>0, <2>1
  <2> HIDE DEF old, streak
  <2>3. /\ r \in AffinityRows /\ r.id = old.id /\ r.at = now
        /\ r.score = old.score /\ r.total = old.total /\ r.pending = old.pending
    BY <2>2 DEF AffinityRows
  <2> HIDE DEF r
  <2>4. r # NoRow
    BY <2>3, NoRowIsNone
  <2>5. Untouched(s)
    BY <1>0, <2>1, <2>2, <2>3, <2>4 DEF Untouched
  <2>6. \A z \in Sessions : z # s => row'[z] = row[z]
    BY <1>0, <2>1
  <2>7. \A z \in Sessions : Untouched(z)
    BY <1>1, <2>1, <2>5, <2>6
  <2> QED
    BY <1>0, <2>1, <2>3, <2>7 DEF Quiet
<1>5. ASSUME NEW s \in Sessions, NEW a \in Int, Summed(s, a) PROVE Quiet
  <2> DEFINE old == row[s]
             r == [old EXCEPT !.clauseAt = a]
             newest == IF a > heard[s] THEN a ELSE heard[s]
  <2>1. /\ row' = [row EXCEPT ![s] = r] /\ row[s] # NoRow /\ UNCHANGED <<now, live, log, journal>>
        /\ heard' = [heard EXCEPT ![s] = newest] /\ newest \in Int
    BY <1>0, <1>5 DEF Summed
  <2>2. old \in AffinityRows /\ row[s] = old
    BY <1>0, <2>1
  <2> HIDE DEF old, newest
  <2>3. /\ r \in AffinityRows /\ r.id = old.id /\ r.at = old.at
        /\ r.score = old.score /\ r.total = old.total /\ r.pending = old.pending
    BY <2>2 DEF AffinityRows
  <2> HIDE DEF r
  <2>4. r # NoRow
    BY <2>3, NoRowIsNone
  <2>5. Untouched(s)
    BY <1>0, <2>1, <2>2, <2>3, <2>4 DEF Untouched
  <2>6. \A z \in Sessions : z # s => row'[z] = row[z] /\ heard'[z] = heard[z]
    BY <1>0, <2>1
  <2>7. \A z \in Sessions : Untouched(z)
    BY <1>1, <2>1, <2>5, <2>6
  <2> QED
    BY <1>0, <2>1, <2>3, <2>7 DEF Quiet
<1>6. ASSUME NEW s \in Sessions, NEW a \in Int, Outdated(s, a) PROVE Quiet
  <2> DEFINE newest == IF a > heard[s] THEN a ELSE heard[s]
  <2>1. /\ row' = row /\ row[s] # NoRow /\ UNCHANGED <<now, live, log, journal>>
        /\ heard' = [heard EXCEPT ![s] = newest] /\ newest \in Int
    BY <1>0, <1>6 DEF Outdated
  <2> HIDE DEF newest
  <2>2. Untouched(s)
    BY <1>0, <2>1 DEF Untouched
  <2>3. \A z \in Sessions : z # s => heard'[z] = heard[z]
    BY <1>0, <2>1
  <2>4. \A z \in Sessions : Untouched(z)
    BY <1>1, <2>1, <2>2, <2>3
  <2> QED
    BY <1>0, <2>1, <2>4 DEF Quiet
<1> QED
  BY <1>2, <1>3, <1>4, <1>5, <1>6

LEMMA Kinds ==
    ASSUME AffinityInv, [Next]_vars PROVE Quiet \/ Archived \/ SomeLogged
  BY Effects, QuietSteps

LEMMA EventType ==
    ASSUME now \in Nat, NEW type \in EventTypes,
           NEW before \in AffinityRows, NEW after \in AffinityRows,
           NEW rho \in Int, NEW committed \in Int, NEW drop \in BOOLEAN
    PROVE  LET e == Event(type, before, after, rho, committed, drop)
           IN  /\ e \in EventRows /\ e.type = type /\ e.seen = now
               /\ e.before.score = before.score /\ e.before.total = before.total
               /\ e.after.score = after.score /\ e.after.total = after.total
               /\ e.after.at = after.at
               /\ e.rho = rho /\ e.committed = committed /\ e.drop = drop
<1> DEFINE was == Snapshot(before)
           is == Snapshot(after)
           e == Event(type, before, after, rho, committed, drop)
<1>1. was \in Snapshots /\ was.score = before.score /\ was.total = before.total
  BY DEF Snapshot, Snapshots, AffinityRows
<1>2. /\ is \in Snapshots /\ is.score = after.score /\ is.total = after.total
      /\ is.at = after.at
  BY DEF Snapshot, Snapshots, AffinityRows
<1>3. e = [type |-> type, before |-> was, after |-> is, rho |-> rho,
           committed |-> committed, drop |-> drop, seen |-> now]
  BY DEF Event
<1> HIDE DEF was, is, e
<1>4. e \in EventRows
  BY <1>1, <1>2, <1>3 DEF EventRows, EventTypes
<1>5. /\ e.type = type /\ e.seen = now /\ e.before = was /\ e.after = is
      /\ e.rho = rho /\ e.committed = committed
  BY <1>3
<1>6. e.drop = drop
  BY <1>3
<1> QED
  BY <1>1, <1>2, <1>4, <1>5, <1>6 DEF e

\* What a logged write leaves of every session.
LEMMA LoggedRows ==
    ASSUME AffinityInv, NEW s \in Sessions, NEW at \in Nat,
           NEW before \in AffinityRows, NEW after \in AffinityRows, NEW type \in EventTypes,
           NEW rho \in Int, NEW committed \in Int, NEW drop \in BOOLEAN,
           Logged(s, at, before, after, type, rho, committed, drop)
    PROVE  LET e == Event(type, before, after, rho, committed, drop)
           IN  /\ row'[s] = after /\ after # NoRow
               /\ log'[s] \in Seq(EventRows) /\ Len(log'[s]) = Len(log[s]) + 1
               /\ Len(log[s]) \in Nat
               /\ log'[s][Len(log[s]) + 1] = e
               /\ \A i \in 1..Len(log[s]) : log'[s][i] = log[s][i]
               /\ \A z \in Sessions : z # s => row'[z] = row[z] /\ log'[z] = log[z]
               /\ row' \in [Sessions -> AffinityRows \cup {NoRow}]
               /\ log' \in [Sessions -> Seq(EventRows)]
<1> DEFINE e == Event(type, before, after, rho, committed, drop)
<1>0. /\ row \in [Sessions -> AffinityRows \cup {NoRow}] /\ log \in [Sessions -> Seq(EventRows)]
      /\ log[s] \in Seq(EventRows) /\ now \in Nat /\ Len(log[s]) \in Nat
  BY Entries DEF AffinityInv, TypeOK
<1>1. e \in EventRows
  BY <1>0, EventType
<1>2. row' = [row EXCEPT ![s] = after] /\ log' = [log EXCEPT ![s] = Append(log[s], e)]
  BY DEF Logged
<1> HIDE DEF e
<1>3. /\ Append(log[s], e) \in Seq(EventRows)
      /\ Len(Append(log[s], e)) = Len(log[s]) + 1
      /\ \A i \in 1..Len(log[s]) : Append(log[s], e)[i] = log[s][i]
      /\ Append(log[s], e)[Len(log[s]) + 1] = e
  BY <1>0, <1>1, AppendProperties
<1> DEFINE l == Append(log[s], e)
<1>4. log' = [log EXCEPT ![s] = l] /\ l \in Seq(EventRows)
  BY <1>2, <1>3
<1>5. log'[s] = l
  BY <1>0, <1>2
<1> HIDE DEF l
<1>6. log' \in [Sessions -> Seq(EventRows)] /\ \A z \in Sessions : z # s => log'[z] = log[z]
  BY <1>0, <1>4
<1>7. /\ row' \in [Sessions -> AffinityRows \cup {NoRow}] /\ row'[s] = after /\ after # NoRow
      /\ \A z \in Sessions : z # s => row'[z] = row[z]
  BY <1>0, <1>2, NoRowIsNone
<1> QED
  BY <1>0, <1>3, <1>5, <1>6, <1>7 DEF l, e

\* The journal is typed, and every new entry is of the write that made it.
LEMMA MovesType ==
    ASSUME AffinityInv, NEW s \in Sessions, NEW at \in Nat,
           NEW before \in 0..Top, NEW after \in 0..Top,
           RecordLabelMoves(s, before, after, at)
    PROVE  /\ journal' \in [2..Tiers -> JournalRows \cup {NoEntry}]
           /\ \A k \in 2..Tiers :
                \/ journal'[k] = NoEntry
                \/ /\ journal'[k] = journal[k]
                   /\ ~ (Tier(after) < Tier(before) /\ TakenBack(k, after, at))
                \/ /\ Tier(after) > Tier(before) /\ journal'[k] # NoEntry
                   /\ journal'[k].at = at /\ journal'[k].by = s
                   /\ journal'[k].pos = Len(log[s]) + 1
<1> DEFINE pos == Len(log[s]) + 1
           new == [at |-> at, by |-> s, pos |-> pos]
<1>0. journal \in [2..Tiers -> JournalRows \cup {NoEntry}] /\ pos \in Nat
  BY Entries DEF AffinityInv, TypeOK
<1> HIDE DEF pos
<1>1. new \in JournalRows /\ new.at = at /\ new.by = s /\ new.pos = pos
  BY <1>0 DEF JournalRows
<1>2. journal' = [k \in 2..Tiers |->
        CASE /\ Tier(after) > Tier(before)
             /\ k = Tier(after) /\ journal[k] = NoEntry -> new
          [] Tier(after) < Tier(before) /\ TakenBack(k, after, at) -> NoEntry
          [] OTHER -> journal[k]]
  BY DEF RecordLabelMoves, pos
<1> HIDE DEF new
<1>3. new # NoEntry
  BY <1>1 DEF JournalRows, NoEntry
<1>4. Tier(after) \in Int /\ Tier(before) \in Int
  BY Constants, DivType DEF Tier
<1>5. ASSUME NEW k \in 2..Tiers
      PROVE  \/ journal'[k] = NoEntry
             \/ /\ journal'[k] = journal[k]
                /\ ~ (Tier(after) < Tier(before) /\ TakenBack(k, after, at))
             \/ Tier(after) > Tier(before) /\ journal'[k] = new
  BY <1>2, <1>4
<1>6. journal' \in [2..Tiers -> JournalRows \cup {NoEntry}]
  BY <1>0, <1>1, <1>2, <1>5
<1> QED
  BY <1>1, <1>3, <1>5, <1>6 DEF pos

LEMMA JournalType ==
    ASSUME AffinityInv, NEW s \in Sessions, NEW at \in Nat,
           NEW before \in AffinityRows, NEW after \in AffinityRows, NEW type \in EventTypes,
           NEW rho \in Int, NEW committed \in Int, NEW drop \in BOOLEAN,
           Logged(s, at, before, after, type, rho, committed, drop)
    PROVE  journal' \in [2..Tiers -> JournalRows \cup {NoEntry}]
<1>1. before.score \in 0..Top /\ after.score \in 0..Top
  BY DEF AffinityRows
<1>2. journal' = journal \/ RecordLabelMoves(s, before.score, after.score, at)
  BY DEF Logged
<1>3. journal \in [2..Tiers -> JournalRows \cup {NoEntry}]
  BY DEF AffinityInv, TypeOK
<1>4. CASE RecordLabelMoves(s, before.score, after.score, at)
  BY <1>1, <1>4, MovesType
<1> QED
  BY <1>2, <1>3, <1>4

\* A start: every row was left so by its one event, and the journal by them.
LEMMA OpeningRow ==
    ASSUME NEW r \in AffinityRows
    PROVE  /\ Opening(r) \in Seq(EventRows) /\ Len(Opening(r)) = 1
           /\ Opening(r)[1].type \in {"ghost", "message"}
           /\ Opening(r)[1].after.score = r.score /\ Opening(r)[1].after.total = r.total
           /\ Opening(r)[1].after.at = r.at
           /\ Opening(r)[1].rho = r.pending /\ Opening(r)[1].committed = 0
           /\ Opening(r)[1].drop = FALSE
<1> DEFINE is == Snapshot(r)
           type == IF r.streak > 0 THEN "ghost" ELSE "message"
           pending == r.pending
           e == [type |-> type, before |-> is, after |-> is, rho |-> pending,
                 committed |-> 0, drop |-> FALSE, seen |-> 0]
<1>1. is \in Snapshots /\ is.score = r.score /\ is.total = r.total /\ is.at = r.at
  BY DEF Snapshot, Snapshots, AffinityRows
<1>2. type \in {"ghost", "message"} /\ pending \in Int
  BY DEF AffinityRows
<1>3. Opening(r) = <<e>> /\ pending = r.pending
  BY DEF Opening
<1> HIDE DEF is, type, pending
<1>4. e \in EventRows
  BY <1>1, <1>2 DEF EventRows
<1>5. /\ e.type = type /\ e.after = is /\ e.rho = pending /\ e.committed = 0 /\ e.drop = FALSE
  OBVIOUS
<1> HIDE DEF e
<1>6. <<e>> \in Seq(EventRows) /\ Len(<<e>>) = 1 /\ <<e>>[1] = e
  BY <1>4
<1> QED
  BY <1>1, <1>2, <1>3, <1>5, <1>6

LEMMA AffinityInit == Init => AffinityInv
<1> SUFFICES ASSUME Init PROVE AffinityInv
  OBVIOUS
<1>0. /\ now = 0 /\ faults = 0 /\ live = Sessions /\ row \in [Sessions -> Rows]
      /\ log = [s \in Sessions |-> IF row[s] = NoRow THEN <<>> ELSE Opening(row[s])]
      /\ heard = [s \in Sessions |-> IF row[s] = NoRow THEN Never ELSE row[s].clauseAt]
      /\ turn = [t \in Turns |-> Fresh]
  BY DEF Init
<1>1. \A s \in Sessions :
        row[s] # NoRow => row[s] \in AffinityRows /\ row[s].id = 1 /\ row[s].at <= 0
  BY <1>0, RowsAssumption
<1>2. row \in [Sessions -> AffinityRows \cup {NoRow}]
  BY <1>0, <1>1
<1>3. log \in [Sessions -> Seq(EventRows)]
  <2>1. ASSUME NEW s \in Sessions
        PROVE  (IF row[s] = NoRow THEN <<>> ELSE Opening(row[s])) \in Seq(EventRows)
    <3>1. <<>> \in Seq(EventRows)
      OBVIOUS
    <3> QED
      BY <1>1, <3>1, OpeningRow
  <2> QED
    BY <1>0, <2>1
<1>4. heard \in [Sessions -> Int]
  <2>1. ASSUME NEW s \in Sessions
        PROVE  (IF row[s] = NoRow THEN Never ELSE row[s].clauseAt) \in Int
    BY <1>1, Constants DEF AffinityRows
  <2> QED
    BY <1>0, <2>1
<1>5. journal \in [2..Tiers -> JournalRows \cup {NoEntry}]
  <2> DEFINE There(k) == {s \in Sessions : row[s] # NoRow /\ Tier(row[s].score) >= k}
             By(k) == CHOOSE s \in There(k) : TRUE
             at == -Day
             Entry(k) == [at |-> at, by |-> By(k), pos |-> 1]
  <2>1. journal = [k \in 2..Tiers |-> IF There(k) = {} THEN NoEntry ELSE Entry(k)]
    BY DEF Init
  <2>2. ASSUME NEW k \in 2..Tiers, There(k) # {} PROVE Entry(k) \in JournalRows
    <3>1. By(k) \in Sessions
      BY <2>2
    <3>2. at \in Int
      BY Constants
    <3> HIDE DEF By, at
    <3> QED
      BY <3>1, <3>2 DEF JournalRows
  <2> HIDE DEF There, Entry
  <2> QED
    BY <2>1, <2>2
<1>6. Fresh \in TurnRows /\ Knows(Fresh)
  <2> DEFINE s0 == CHOOSE s \in Sessions : TRUE
  <2>1. s0 \in Sessions
    BY SessionsAssumption
  <2>2. Fresh = [pc |-> "idle", s |-> s0, id |-> 0, streak |-> 0, ghostAt |-> Never,
                 kind |-> "none", began |-> 0, asOf |-> Never]
    BY DEF Fresh
  <2> HIDE DEF s0
  <2> QED
    BY <2>1, <2>2, Constants DEF TurnRows, Knows
<1>7. turn \in [Turns -> TurnRows] /\ \A t \in Turns : Knows(turn[t])
  BY <1>0, <1>6
<1>8. \A s \in Sessions : RowHolds(s)
  BY <1>0, <1>1 DEF RowHolds
<1>9. now \in 0..MaxTime /\ faults \in 0..MaxFaults /\ live \subseteq Sessions
  BY <1>0, Constants
<1> QED
  BY <1>2, <1>3, <1>4, <1>5, <1>7, <1>8, <1>9 DEF AffinityInv, TypeOK

LEMMA AffinityStep == AffinityInv /\ [Next]_vars => AffinityInv'
<1> SUFFICES ASSUME AffinityInv, [Next]_vars PROVE AffinityInv'
  OBVIOUS
<1>0. /\ live \subseteq Sessions /\ log \in [Sessions -> Seq(EventRows)]
      /\ journal \in [2..Tiers -> JournalRows \cup {NoEntry}]
      /\ heard \in [Sessions -> Int] /\ \A s \in Sessions : RowHolds(s)
  BY DEF AffinityInv, TypeOK
<1>1. /\ turn' \in [Turns -> TurnRows] /\ \A t \in Turns : Knows(turn[t])'
      /\ now' \in 0..MaxTime /\ now' >= now /\ faults' \in 0..MaxFaults
  BY TurnsStep
<1> DEFINE Typed == /\ live' \subseteq Sessions
                    /\ row' \in [Sessions -> AffinityRows \cup {NoRow}]
                    /\ log' \in [Sessions -> Seq(EventRows)]
                    /\ journal' \in [2..Tiers -> JournalRows \cup {NoEntry}]
                    /\ heard' \in [Sessions -> Int]
<1>2. CASE Quiet
  <2>1. Typed
    BY <1>0, <1>2 DEF Quiet
  <2>2. ASSUME NEW s \in Sessions PROVE RowHolds(s)'
    <3>1. Untouched(s) /\ log' = log /\ live' = live /\ RowHolds(s)
      BY <1>0, <1>2 DEF Quiet
    <3> QED
      BY <3>1 DEF Untouched, RowHolds
  <2> QED
    BY <1>1, <2>1, <2>2 DEF AffinityInv, TypeOK
<1>3. CASE Archived
  <2>1. Typed
    BY <1>3, Constants DEF Archived
  <2>2. ASSUME NEW s \in Sessions PROVE RowHolds(s)'
    BY <1>3 DEF Archived, RowHolds
  <2> QED
    BY <1>1, <2>1, <2>2 DEF AffinityInv, TypeOK
<1>4. CASE SomeLogged
  <2>1. PICK s \in Sessions, at \in Nat, before \in AffinityRows, after \in AffinityRows,
             type \in EventTypes, rho \in Int, committed \in Int, drop \in BOOLEAN :
               Logged(s, at, before, after, type, rho, committed, drop)
    BY <1>4 DEF SomeLogged
  <2>2. /\ row'[s] = after /\ after # NoRow
        /\ \A z \in Sessions : z # s => row'[z] = row[z] /\ log'[z] = log[z]
        /\ row' \in [Sessions -> AffinityRows \cup {NoRow}]
        /\ log' \in [Sessions -> Seq(EventRows)]
    BY <2>1, LoggedRows
  <2>3. UNCHANGED <<now, live, heard>> /\ Follows(s, at, before, after, type, rho, committed, drop)
    BY <2>1 DEF Logged
  <2>4. journal' \in [2..Tiers -> JournalRows \cup {NoEntry}]
    BY <2>1, JournalType
  <2>5. Typed
    BY <1>0, <2>2, <2>3, <2>4
  <2>6. ASSUME NEW z \in Sessions PROVE RowHolds(z)'
    <3>1. CASE z = s
      <4>1. row[s] # NoRow /\ RowHolds(s) /\ after.id = row[s].id /\ after.at <= now
        BY <1>0, <2>3 DEF Follows
      <4> QED
        BY <2>2, <2>3, <3>1, <4>1 DEF RowHolds
    <3>2. CASE z # s
      BY <1>0, <2>2, <2>3, <3>2 DEF RowHolds
    <3> QED
      BY <3>1, <3>2
  <2> QED
    BY <1>1, <2>5, <2>6 DEF AffinityInv, TypeOK
<1> QED
  BY <1>2, <1>3, <1>4, Kinds

\* Scores stay on the ladder, balances and counts stay whole, and every row,
\* event, moment and turn has its type.
THEOREM TypeCorrectness == Spec => []TypeOK
<1>1. AffinityInv => TypeOK
  BY DEF AffinityInv
<1> QED
  BY <1>1, AffinityInit, AffinityStep, PTL DEF Spec

-----------------------------------------------------------------------------
(***************************************************************************)
(* The clause that stands                                                  *)
(***************************************************************************)

ClauseInv == AffinityInv /\ NewestClauseStands

LEMMA ClauseStep ==
    ASSUME ClauseInv, [Next]_vars PROVE NewestClauseStands'
<1>0. /\ row \in [Sessions -> AffinityRows \cup {NoRow}] /\ heard \in [Sessions -> Int]
      /\ now \in Nat
      /\ \A s \in Sessions :
           /\ row[s] # NoRow => row[s].clauseAt = heard[s] /\ row[s] \in AffinityRows
           /\ row[s] = NoRow => heard[s] = Never
  BY Entries DEF ClauseInv, AffinityInv, TypeOK, RowHolds, NewestClauseStands
<1> DEFINE Stands(s) == row'[s] # NoRow => row'[s].clauseAt = heard'[s]
<1>1. ASSUME row' = row, heard' = heard PROVE NewestClauseStands'
  BY <1>1 DEF ClauseInv, NewestClauseStands
<1>2. CASE Same
  BY <1>1, <1>2 DEF Same
<1>3. CASE Archived
  BY <1>3 DEF Archived, NewestClauseStands
<1>4. ASSUME NEW s \in Sessions, Stands(s),
             \A z \in Sessions : z # s => row'[z] = row[z] /\ heard'[z] = heard[z]
      PROVE  NewestClauseStands'
  <2>1. \A z \in Sessions : row'[z] # NoRow => row'[z].clauseAt = heard'[z]
    BY <1>0, <1>4
  <2> QED
    BY <2>1 DEF NewestClauseStands
<1>5. ASSUME NEW s \in Sessions, Opened(s) PROVE NewestClauseStands'
  <2>1. /\ row'[s] = NewRow(IF s \in live THEN 1 ELSE 2) /\ row[s] = NoRow /\ heard' = heard
        /\ \A z \in Sessions : z # s => row'[z] = row[z]
    BY <1>0, <1>5 DEF Opened
  <2>2. row'[s].clauseAt = Never
    BY <2>1 DEF NewRow
  <2> QED
    BY <1>0, <1>4, <2>1, <2>2
<1>6. ASSUME NEW s \in Sessions, Reset(s) PROVE NewestClauseStands'
  <2> DEFINE old == row[s]
  <2>1. /\ row'[s] = [old EXCEPT !.streak = 0, !.at = now] /\ row[s] # NoRow /\ heard' = heard
        /\ \A z \in Sessions : z # s => row'[z] = row[z]
    BY <1>0, <1>6 DEF Reset
  <2>2. old \in AffinityRows /\ old.clauseAt = heard[s]
    BY <1>0, <2>1
  <2> HIDE DEF old
  <2>3. row'[s].clauseAt = old.clauseAt
    BY <2>1, <2>2 DEF AffinityRows
  <2> QED
    BY <1>4, <2>1, <2>2, <2>3
<1>7. ASSUME NEW s \in Sessions, NEW a \in Int, Summed(s, a) PROVE NewestClauseStands'
  <2> DEFINE old == row[s]
             newest == IF a > heard[s] THEN a ELSE heard[s]
  <2>1. /\ row'[s] = [old EXCEPT !.clauseAt = a] /\ row[s] # NoRow
        /\ old.clauseAt <= a
        /\ heard'[s] = newest
        /\ \A z \in Sessions : z # s => row'[z] = row[z] /\ heard'[z] = heard[z]
    BY <1>0, <1>7 DEF Summed, NotOlder
  <2>2. old \in AffinityRows /\ old.clauseAt = heard[s] /\ heard[s] \in Int
    BY <1>0, <2>1
  <2>3. newest = a
    BY <2>1, <2>2
  <2> HIDE DEF old, newest
  <2>4. row'[s].clauseAt = a
    BY <2>1, <2>2 DEF AffinityRows
  <2> QED
    BY <1>4, <2>1, <2>3, <2>4
<1>8. ASSUME NEW s \in Sessions, NEW a \in Int, Outdated(s, a) PROVE NewestClauseStands'
  <2> DEFINE newest == IF a > heard[s] THEN a ELSE heard[s]
  <2>1. /\ row' = row /\ row[s] # NoRow /\ ~(row[s].clauseAt <= a)
        /\ heard'[s] = newest
        /\ \A z \in Sessions : z # s => heard'[z] = heard[z]
    BY <1>0, <1>8 DEF Outdated, NotOlder
  <2>2. row[s].clauseAt = heard[s] /\ heard[s] \in Int
    BY <1>0, <2>1
  <2>3. newest = heard[s]
    BY <2>1, <2>2
  <2> HIDE DEF newest
  <2> QED
    BY <1>4, <2>1, <2>2, <2>3
<1>9. CASE SomeLogged
  <2>1. PICK s \in Sessions, at \in Nat, before \in AffinityRows, after \in AffinityRows,
             type \in EventTypes, rho \in Int, committed \in Int, drop \in BOOLEAN :
               Logged(s, at, before, after, type, rho, committed, drop)
    BY <1>9 DEF SomeLogged
  <2>2. AffinityInv
    BY DEF ClauseInv
  <2>3. row'[s] = after /\ \A z \in Sessions : z # s => row'[z] = row[z]
    BY <2>1, <2>2, LoggedRows
  <2>4. row[s] # NoRow /\ after.clauseAt = row[s].clauseAt /\ heard' = heard
    BY <2>1 DEF Logged, Follows
  <2> QED
    BY <1>0, <1>4, <2>3, <2>4
<1> QED
  BY <1>2, <1>3, <1>5, <1>6, <1>7, <1>8, <1>9, Effects DEF ClauseInv

\* Whatever order the summaries of overlapping turns finish in, the clause
\* that stands is the one of the newest state time. (set_feeling_clause)
THEOREM NewestClause == Spec => []NewestClauseStands
<1>1. Init => ClauseInv
  <2> SUFFICES ASSUME Init PROVE NewestClauseStands
    BY AffinityInit DEF ClauseInv
  <2> QED
    BY DEF Init, NewestClauseStands
<1>2. ClauseInv /\ [Next]_vars => ClauseInv'
  BY AffinityStep, ClauseStep DEF ClauseInv
<1>3. ClauseInv => NewestClauseStands
  BY DEF ClauseInv
<1> QED
  BY <1>1, <1>2, <1>3, PTL DEF Spec

-----------------------------------------------------------------------------
(***************************************************************************)
(* The journal                                                             *)
(***************************************************************************)

\* What a step that logs makes of one tier's moment.
LEMMA Moments ==
    ASSUME AffinityInv, NEW s \in Sessions, NEW at \in Nat,
           NEW before \in AffinityRows, NEW after \in AffinityRows, NEW type \in EventTypes,
           NEW rho \in Int, NEW committed \in Int, NEW drop \in BOOLEAN,
           Logged(s, at, before, after, type, rho, committed, drop),
           NEW k \in 2..Tiers
    PROVE  \/ journal'[k] = NoEntry
           \/ /\ journal'[k] = journal[k]
              /\ ~ (Tier(after.score) < Tier(before.score) /\ TakenBack(k, after.score, at))
           \/ /\ type = "message" /\ journal'[k] # NoEntry
              /\ journal'[k].at = at /\ journal'[k].by = s
              /\ journal'[k].pos = Len(log[s]) + 1
<1>1. before.score \in 0..Top /\ after.score \in 0..Top
  BY DEF AffinityRows
<1>2. Tier(after.score) \in Int /\ Tier(before.score) \in Int
  BY <1>1, Constants, DivType DEF Tier
<1>3. CASE journal' = journal /\ after.score = before.score
  BY <1>2, <1>3
<1>4. CASE /\ RecordLabelMoves(s, before.score, after.score, at)
           /\ type # "message" => Tier(after.score) <= Tier(before.score)
  <2>1. \/ journal'[k] = NoEntry
        \/ /\ journal'[k] = journal[k]
           /\ ~ (Tier(after.score) < Tier(before.score) /\ TakenBack(k, after.score, at))
        \/ /\ Tier(after.score) > Tier(before.score) /\ journal'[k] # NoEntry
           /\ journal'[k].at = at /\ journal'[k].by = s
           /\ journal'[k].pos = Len(log[s]) + 1
    BY <1>1, <1>4, MovesType
  <2>2. Tier(after.score) > Tier(before.score) => type = "message"
    BY <1>2, <1>4
  <2> QED
    BY <2>1, <2>2
<1> QED
  BY <1>3, <1>4 DEF Logged

JournalInv == AffinityInv /\ JournalHonest

\* The end of JournalHonest, of one entry and one event after it.
Lost(k, e) == Tier(e.after.score) < Tier(e.before.score) /\ Tier(e.after.score) < k
Faithful(k, entry, l) ==
    entry # NoEntry =>
      \A i \in entry.pos + 1..Len(l) : Lost(k, l[i]) => entry.at <= l[i].after.at - Day

LEMMA HonestIsFaithful ==
    JournalHonest <=> \A k \in 2..Tiers : Faithful(k, journal[k], log[journal[k].by])
  BY DEF JournalHonest, Faithful, Lost

LEMMA HonestStep ==
    ASSUME JournalInv, [Next]_vars PROVE JournalHonest'
<1>0. /\ journal \in [2..Tiers -> JournalRows \cup {NoEntry}] /\ AffinityInv
      /\ \A k \in 2..Tiers : Faithful(k, journal[k], log[journal[k].by])
      /\ \A s \in Sessions : Len(log[s]) \in Nat
      /\ now \in Nat
  BY Entries, HonestIsFaithful DEF JournalInv, AffinityInv, TypeOK
<1>1. CASE Quiet
  BY <1>1 DEF Quiet, JournalInv, JournalHonest
<1>2. CASE Archived
  BY <1>2 DEF Archived, JournalHonest
<1>3. CASE SomeLogged
  <2>1. PICK s \in Sessions, at \in Nat, before \in AffinityRows, after \in AffinityRows,
             type \in EventTypes, rho \in Int, committed \in Int, drop \in BOOLEAN :
               Logged(s, at, before, after, type, rho, committed, drop)
    BY <1>3 DEF SomeLogged
  <2> DEFINE e == Event(type, before, after, rho, committed, drop)
             n == Len(log[s])
  <2>2. /\ n \in Nat /\ Len(log'[s]) = n + 1 /\ log'[s][n + 1] = e
        /\ \A i \in 1..n : log'[s][i] = log[s][i]
        /\ \A z \in Sessions : z # s => log'[z] = log[z]
    BY <1>0, <2>1, LoggedRows
  <2>3. /\ e.before.score = before.score /\ e.after.score = after.score
        /\ e.after.at = after.at /\ after.at = at /\ at \in Int
    <3>1. after.at = at
      BY <2>1 DEF Logged, Follows
    <3>2. e.before.score = before.score /\ e.after.score = after.score /\ e.after.at = after.at
      BY DEF Event, Snapshot
    <3> QED
      BY <3>1, <3>2
  <2> HIDE DEF e
  <2>4. ASSUME NEW k \in 2..Tiers
        PROVE  Faithful(k, journal'[k], log'[journal'[k].by])
    <3> DEFINE entry == journal[k]
    <3>1. \/ journal'[k] = NoEntry
          \/ /\ journal'[k] = entry
             /\ ~ (Tier(after.score) < Tier(before.score) /\ TakenBack(k, after.score, at))
          \/ /\ journal'[k] # NoEntry /\ journal'[k].by = s
             /\ journal'[k].pos = n + 1
      BY <1>0, <2>1, Moments
    <3>2. CASE journal'[k] = NoEntry
      BY <3>2 DEF Faithful
    <3>3. CASE journal'[k] # NoEntry /\ journal'[k].by = s /\ journal'[k].pos = n + 1
      BY <2>2, <3>3 DEF Faithful
    <3>4. CASE /\ journal'[k] = entry /\ entry # NoEntry
               /\ ~ (Tier(after.score) < Tier(before.score) /\ TakenBack(k, after.score, at))
      <4>1. entry \in JournalRows /\ Faithful(k, entry, log[entry.by])
        BY <1>0, <3>4
      <4>2. entry.at \in Int /\ entry.pos \in Nat /\ entry.by \in Sessions
        BY <4>1 DEF JournalRows
      <4>3. Lost(k, e) => entry.at <= e.after.at - Day
        <5>1. Tier(after.score) \in Int
          BY Constants, DivType DEF Tier, AffinityRows
        <5> QED
          BY <2>3, <3>4, <4>2, <5>1, Constants DEF Lost, TakenBack
      <4> HIDE DEF entry, n
      <4>4. CASE entry.by = s
        <5>1. ASSUME NEW i \in entry.pos + 1..Len(log'[s]), Lost(k, log'[s][i])
              PROVE  entry.at <= log'[s][i].after.at - Day
          <6>1. CASE i = n + 1
            BY <2>2, <4>3, <5>1, <6>1
          <6>2. CASE i # n + 1
            <7>1. i \in 1..n /\ i \in entry.pos + 1..n
              BY <2>2, <4>2, <6>2
            <7>2. log'[s][i] = log[s][i]
              BY <2>2, <7>1
            <7>3. \A j \in entry.pos + 1..n : Lost(k, log[s][j]) => entry.at <= log[s][j].after.at - Day
              BY <3>4, <4>1, <4>4 DEF Faithful, n
            <7> QED
              BY <5>1, <7>1, <7>2, <7>3
          <6> QED
            BY <6>1, <6>2
        <5> QED
          BY <3>4, <4>4, <5>1 DEF Faithful
      <4>5. CASE entry.by # s
        BY <2>2, <3>4, <4>1, <4>2, <4>5
      <4> QED
        BY <4>4, <4>5
    <3> QED
      BY <3>1, <3>2, <3>3, <3>4
  <2>5. JournalHonest'
    BY <2>4 DEF JournalHonest, Faithful, Lost
  <2> QED
    BY <2>5
<1> QED
  BY <1>0, <1>1, <1>2, <1>3, Kinds

\* No moment of a tier that was lost within a day of reaching it stays in the
\* journal. (record_label_moves)
THEOREM HonestJournal == Spec => []JournalHonest
<1>1. Init => JournalInv
  <2> SUFFICES ASSUME Init PROVE JournalHonest
    BY AffinityInit DEF JournalInv
  <2>1. /\ log = [s \in Sessions |-> IF row[s] = NoRow THEN <<>> ELSE Opening(row[s])]
        /\ row \in [Sessions -> Rows]
    BY DEF Init
  <2> DEFINE There(k) == {s \in Sessions : row[s] # NoRow /\ Tier(row[s].score) >= k}
             By(k) == CHOOSE s \in There(k) : TRUE
             Entry(k) == [at |-> -Day, by |-> By(k), pos |-> 1]
  <2>2. journal = [k \in 2..Tiers |-> IF There(k) = {} THEN NoEntry ELSE Entry(k)]
    BY DEF Init
  <2>3. ASSUME NEW k \in 2..Tiers, There(k) # {}
        PROVE  Entry(k).pos = 1 /\ Len(log[Entry(k).by]) = 1
    <3>1. By(k) \in There(k)
      BY <2>3
    <3> HIDE DEF By
    <3>2. By(k) \in Sessions /\ row[By(k)] # NoRow /\ row[By(k)] \in Rows
      BY <2>1, <3>1
    <3>3. row[By(k)] \in AffinityRows
      BY <3>2, RowsAssumption
    <3>4. log[By(k)] = Opening(row[By(k)])
      BY <2>1, <3>2
    <3> QED
      BY <3>3, <3>4, OpeningRow
  <2>4. ASSUME NEW k \in 2..Tiers, journal[k] # NoEntry
        PROVE  journal[k].pos = 1 /\ Len(log[journal[k].by]) = 1
    <3> HIDE DEF There, Entry
    <3> QED
      BY <2>2, <2>3, <2>4
  <2> QED
    BY <2>4 DEF JournalHonest
<1>2. JournalInv /\ [Next]_vars => JournalInv'
  BY AffinityStep, HonestStep DEF JournalInv
<1>3. JournalInv => JournalHonest
  BY DEF JournalInv
<1> QED
  BY <1>1, <1>2, <1>3, PTL DEF Spec

-----------------------------------------------------------------------------
(***************************************************************************)
(* What an archive took                                                    *)
(***************************************************************************)

ForgottenInv == AffinityInv /\ ArchivedStaysForgotten

LEMMA ForgottenStep ==
    ASSUME ForgottenInv, [Next]_vars PROVE ArchivedStaysForgotten'
<1>0. /\ AffinityInv /\ journal \in [2..Tiers -> JournalRows \cup {NoEntry}]
      /\ \A s \in Sessions \ live :
           /\ \A k \in 2..Tiers : journal[k] # NoEntry => journal[k].by # s
           /\ \A i \in 1..Len(log[s]) : log[s][i].type # "message"
  BY DEF ForgottenInv, AffinityInv, TypeOK, ArchivedStaysForgotten
<1>1. CASE Quiet
  BY <1>0, <1>1 DEF Quiet, ArchivedStaysForgotten
<1>2. CASE Archived
  BY <1>2 DEF Archived, ArchivedStaysForgotten
<1>3. CASE SomeLogged
  <2>1. PICK s \in Sessions, at \in Nat, before \in AffinityRows, after \in AffinityRows,
             type \in EventTypes, rho \in Int, committed \in Int, drop \in BOOLEAN :
               Logged(s, at, before, after, type, rho, committed, drop)
    BY <1>3 DEF SomeLogged
  <2> DEFINE e == Event(type, before, after, rho, committed, drop)
             n == Len(log[s])
  <2>2. /\ n \in Nat /\ Len(log'[s]) = n + 1 /\ log'[s][n + 1] = e
        /\ \A i \in 1..n : log'[s][i] = log[s][i]
        /\ \A z \in Sessions : z # s => log'[z] = log[z]
    BY <1>0, <2>1, LoggedRows
  <2>3. /\ live' = live
        /\ type = "message" => s \in live
    BY <2>1 DEF Logged, Follows
  <2>4. e.type = type
    BY DEF Event
  <2> HIDE DEF e, n
  <2>5. ASSUME NEW z \in Sessions \ live, NEW k \in 2..Tiers, journal'[k] # NoEntry
        PROVE  journal'[k].by # z
    <3>1. \/ journal'[k] = journal[k]
          \/ type = "message" /\ journal'[k].by = s
      BY <1>0, <2>1, <2>5, Moments
    <3> QED
      BY <1>0, <2>3, <2>5, <3>1
  <2>6. ASSUME NEW z \in Sessions \ live, NEW i \in 1..Len(log'[z])
        PROVE  log'[z][i].type # "message"
    <3>1. CASE z # s
      <4>1. log'[z] = log[z]
        BY <2>2, <3>1
      <4> QED
        BY <1>0, <4>1
    <3>2. CASE z = s
      <4>1. CASE i = n + 1
        BY <2>2, <2>3, <2>4, <3>2, <4>1
      <4>2. CASE i # n + 1
        <5>1. i \in 1..n /\ i \in 1..Len(log[s])
          BY <2>2, <3>2, <4>2 DEF n
        <5>2. log'[s][i] = log[s][i]
          BY <2>2, <5>1
        <5> QED
          BY <1>0, <3>2, <5>1, <5>2
      <4> QED
        BY <4>1, <4>2
    <3> QED
      BY <3>1, <3>2
  <2> QED
    BY <2>3, <2>5, <2>6 DEF ArchivedStaysForgotten
<1> QED
  BY <1>0, <1>1, <1>2, <1>3, Kinds

\* No moment and no judged turn of an archived session is written by a task
\* that outlived it. (load_or_create_if_live)
THEOREM StaysForgotten == Spec => []ArchivedStaysForgotten
<1>1. Init => ForgottenInv
  BY AffinityInit DEF ForgottenInv, Init, ArchivedStaysForgotten
<1>2. ForgottenInv /\ [Next]_vars => ForgottenInv'
  BY AffinityStep, ForgottenStep DEF ForgottenInv
<1>3. ForgottenInv => ArchivedStaysForgotten
  BY DEF ForgottenInv
<1> QED
  BY <1>1, <1>2, <1>3, PTL DEF Spec

-----------------------------------------------------------------------------
(***************************************************************************)
(* The log accounts for the row                                            *)
(***************************************************************************)

\* An event follows the one before it.
Continues(e, f) ==
    /\ f.before.score <= e.after.score
    /\ f.before.score >= e.after.score - (f.seen - e.after.at) \div Day
    /\ f.before.total = e.after.total
    /\ f.after.total = e.after.total + (IF f.type = "ghost" THEN 1 ELSE 0)

\* The row is as its last event left it, and no older.
Accounts(s) ==
    LET l == log[s]
        e == l[Len(l)]
    IN  /\ \A i \in 1..Len(l) - 1 : Continues(l[i], l[i + 1])
        /\ Len(l) > 0 => /\ row[s] # NoRow
                         /\ row[s].score = e.after.score /\ row[s].total = e.after.total
                         /\ e.after.at \in Int /\ e.after.at <= row[s].at

LogInv == AffinityInv /\ \A s \in Sessions : Accounts(s)

\* The score a logged write starts from has lost no more than its log says.
LEMMA StartsFrom ==
    ASSUME AffinityInv, NEW s \in Sessions, NEW before \in AffinityRows,
           row[s] # NoRow, before.score \in {row[s].score, Drifted(row[s])},
           NEW at \in Int, at <= row[s].at
    PROVE  /\ before.score <= row[s].score
           /\ before.score >= row[s].score - (now - at) \div Day
<1> DEFINE r == row[s]
<1>0. r \in AffinityRows /\ r.at <= now /\ now \in Nat
  BY Entries
<1> HIDE DEF r
<1>1. r \in AffinityRows /\ r.at <= now /\ now \in Nat /\ r.at \in Int
      /\ r.score \in Nat /\ Day \in Nat \ {0}
  BY <1>0, Constants DEF AffinityRows
<1>2. /\ Drift(r) \in Nat
      /\ Drifted(r) \in 0..Top /\ Drifted(r) <= r.score /\ Drifted(r) >= r.score - Drift(r)
  BY <1>1, DriftType
<1>3. Drift(r) = (now - r.at) \div Day
  BY DEF Drift
<1>4. now - r.at \in Nat /\ now - at \in Nat /\ now - r.at <= now - at
  BY <1>1 DEF r
<1>5. (now - r.at) \div Day <= (now - at) \div Day /\ (now - at) \div Day \in Nat
  BY <1>1, <1>4, DivGrows, DivType
<1>6. before.score \in {r.score, Drifted(r)}
  BY DEF r
<1>7. before.score <= r.score /\ before.score >= r.score - (now - at) \div Day
  BY <1>1, <1>2, <1>3, <1>5, <1>6
<1> QED
  BY <1>7 DEF r

LEMMA LogStep ==
    ASSUME LogInv, [Next]_vars PROVE \A s \in Sessions : Accounts(s)'
<1>0. /\ AffinityInv /\ now \in Nat
      /\ \A s \in Sessions : Accounts(s) /\ Len(log[s]) \in Nat
      /\ \A s \in Sessions : row[s] # NoRow => row[s].at \in Int /\ row[s].at <= now
  BY Entries DEF LogInv, AffinityRows
<1>1. ASSUME Quiet, NEW s \in Sessions PROVE Accounts(s)'
  <2>1. log' = log /\ Untouched(s) /\ Accounts(s)
    BY <1>0, <1>1 DEF Quiet
  <2>2. row[s] # NoRow => /\ row'[s] # NoRow /\ row'[s].at >= row[s].at
                          /\ row'[s].at \in Int /\ row[s].at \in Int
                          /\ row'[s].score = row[s].score /\ row'[s].total = row[s].total
    BY <1>0, <2>1 DEF Untouched, AffinityRows
  <2> QED
    BY <2>1, <2>2 DEF Accounts
<1>2. ASSUME Archived, NEW s \in Sessions PROVE Accounts(s)'
  BY <1>2 DEF Archived, Accounts
<1>3. CASE SomeLogged
  <2>1. PICK s \in Sessions, at \in Nat, before \in AffinityRows, after \in AffinityRows,
             type \in EventTypes, rho \in Int, committed \in Int, drop \in BOOLEAN :
               Logged(s, at, before, after, type, rho, committed, drop)
    BY <1>3 DEF SomeLogged
  <2> DEFINE e == Event(type, before, after, rho, committed, drop)
             n == Len(log[s])
  <2>2. /\ n \in Nat /\ Len(log'[s]) = n + 1 /\ log'[s][n + 1] = e
        /\ row'[s] = after /\ after # NoRow
        /\ \A i \in 1..n : log'[s][i] = log[s][i]
        /\ \A z \in Sessions : z # s => log'[z] = log[z] /\ row'[z] = row[z]
    BY <1>0, <2>1, LoggedRows
  <2>3. /\ row[s] # NoRow /\ at <= now
        /\ before.total = row[s].total /\ before.score \in {row[s].score, Drifted(row[s])}
        /\ after.at = at
        /\ after.total = row[s].total + (IF type = "ghost" THEN 1 ELSE 0)
    BY <2>1 DEF Logged, Follows
  <2>4. /\ e.type = type /\ e.seen = now
        /\ e.before.score = before.score /\ e.before.total = before.total
        /\ e.after.score = after.score /\ e.after.total = after.total /\ e.after.at = after.at
    <3>1. now \in Nat
      BY <1>0
    <3> QED
      BY <3>1, EventType
  <2> HIDE DEF e
  <2>5. ASSUME NEW i \in 1..n PROVE Continues(log'[s][i], log'[s][i + 1])
    <3>1. CASE i = n
      <4> DEFINE last == log[s][n]
      <4>1. /\ row[s].score = last.after.score /\ row[s].total = last.after.total
            /\ last.after.at \in Int /\ last.after.at <= row[s].at
        BY <1>0, <2>2, <3>1 DEF Accounts
      <4>2. /\ before.score <= row[s].score
            /\ before.score >= row[s].score - (now - last.after.at) \div Day
        BY <1>0, <2>3, <4>1, StartsFrom
      <4>3. log'[s][i] = last /\ log'[s][i + 1] = e
        BY <2>2, <3>1
      <4> HIDE DEF last
      <4>4. Continues(last, e)
        BY <2>3, <2>4, <4>1, <4>2 DEF Continues
      <4> QED
        BY <4>3, <4>4
    <3>2. CASE i # n
      <4>1. i \in 1..Len(log[s]) - 1 /\ i + 1 \in 1..n
        BY <2>2, <3>2
      <4>2. Continues(log[s][i], log[s][i + 1])
        BY <1>0, <4>1 DEF Accounts
      <4>3. log'[s][i] = log[s][i] /\ log'[s][i + 1] = log[s][i + 1]
        BY <2>2, <4>1
      <4> QED
        BY <4>2, <4>3
    <3> QED
      BY <3>1, <3>2
  <2>6. Accounts(s)'
    <3>1. \A i \in 1..Len(log'[s]) - 1 : Continues(log'[s][i], log'[s][i + 1])
      BY <2>2, <2>5
    <3>2. /\ row'[s] # NoRow /\ log'[s][Len(log'[s])] = e
          /\ row'[s].score = e.after.score /\ row'[s].total = e.after.total
          /\ e.after.at \in Int /\ e.after.at <= row'[s].at
      BY <2>2, <2>3, <2>4
    <3> QED
      BY <3>1, <3>2 DEF Accounts
  <2>7. ASSUME NEW z \in Sessions, z # s PROVE Accounts(z)'
    <3>1. log'[z] = log[z] /\ row'[z] = row[z] /\ Accounts(z)
      BY <1>0, <2>2, <2>7
    <3> QED
      BY <3>1 DEF Accounts
  <2> QED
    BY <2>6, <2>7
<1> QED
  BY <1>0, <1>1, <1>2, <1>3, Kinds

LEMMA LogInit == Init => LogInv
<1> SUFFICES ASSUME Init, NEW s \in Sessions PROVE Accounts(s)
  BY AffinityInit DEF LogInv
<1>1. /\ log[s] = IF row[s] = NoRow THEN <<>> ELSE Opening(row[s])
      /\ row[s] # NoRow => row[s] \in AffinityRows
  BY RowsAssumption DEF Init
<1>2. CASE row[s] = NoRow
  BY <1>1, <1>2 DEF Accounts
<1>3. CASE row[s] # NoRow
  <2>1. /\ Len(log[s]) = 1
        /\ log[s][1].after.score = row[s].score /\ log[s][1].after.total = row[s].total
        /\ log[s][1].after.at = row[s].at
    BY <1>1, <1>3, OpeningRow
  <2>2. row[s].at \in Int
    BY <1>1, <1>3 DEF AffinityRows
  <2> QED
    BY <1>3, <2>1, <2>2 DEF Accounts
<1> QED
  BY <1>2, <1>3

\* Between two events of a session nothing but absence moves its score, and
\* only down; every ghost its row counts is an event; the row is as the last
\* event left it. (persist_with_event, record_ghost)
THEOREM LogIsTheRow == Spec => []LogAccounts
<1>1. LogInv /\ [Next]_vars => LogInv'
  BY AffinityStep, LogStep DEF LogInv
<1>2. LogInv => LogAccounts
  <2> SUFFICES ASSUME LogInv, NEW s \in Sessions
               PROVE  /\ \A i \in 1..Len(log[s]) - 1 : Continues(log[s][i], log[s][i + 1])
                      /\ log[s] # <<>> => /\ row[s].score = log[s][Len(log[s])].after.score
                                          /\ row[s].total = log[s][Len(log[s])].after.total
    BY DEF LogAccounts, Continues
  <2>1. Accounts(s) /\ Len(log[s]) \in Nat /\ log[s] \in Seq(EventRows)
    BY Entries DEF LogInv
  <2>2. log[s] # <<>> => Len(log[s]) > 0
    BY <2>1, EmptySeq
  <2> QED
    BY <2>1, <2>2 DEF Accounts
<1> QED
  BY <1>1, <1>2, LogInit, PTL DEF Spec

-----------------------------------------------------------------------------
(***************************************************************************)
(* What the gate owes                                                      *)
(***************************************************************************)

LEMMA LeastExists ==
    ASSUME NEW S \in SUBSET Nat, S # {}
    PROVE  \E x \in S : \A y \in S : x <= y
<1> DEFINE less == OpToRel(<, Nat)
<1>1. PICK x \in S : \A y \in S : <<y, x>> \notin less
  <2>1. IsWellFoundedOn(less, Nat)
    BY NatLessThanWellFounded
  <2> HIDE DEF less
  <2> QED
    BY <2>1, WFMin
<1>2. \A y \in S : ~(y < x)
  BY <1>1 DEF OpToRel
<1> QED
  BY <1>2

\* A log's balance after every number of its events.
Balances(b, l) ==
    /\ b \in [0..Len(l) -> Int]
    /\ b[0] = 0
    /\ \A n \in 1..Len(l) :
         b[n] = IF l[n].drop THEN 0 ELSE b[n - 1] + l[n].rho - l[n].committed

Balanced(s) ==
    \E b : /\ Balances(b, log[s])
           /\ row[s] # NoRow => row[s].pending = b[Len(log[s])]

GateInv == AffinityInv /\ \A s \in Sessions : Balanced(s)

\* What Owed makes of a balance up to one event less.
Recount(l, f) ==
    [n \in 0..Len(l) |-> IF n = 0 \/ l[n].drop THEN 0
                         ELSE f[n - 1] + l[n].rho - l[n].committed]

\* There is one balance of a log, and Owed is where it ends.
LEMMA OwedIsTheBalance ==
    ASSUME NEW l \in Seq(EventRows), NEW b, Balances(b, l)
    PROVE  Owed(l) = b[Len(l)]
<1> DEFINE F == CHOOSE f : f = Recount(l, f)
<1>0. Len(l) \in Nat
  BY LenProperties
<1>1. ASSUME NEW n \in 0..Len(l) PROVE b[n] = Recount(l, b)[n]
  <2>1. CASE n = 0
    BY <1>0, <2>1 DEF Balances, Recount
  <2>2. CASE n # 0
    BY <1>0, <2>2 DEF Balances, Recount
  <2> QED
    BY <2>1, <2>2
<1>2. b = Recount(l, b)
  <2>1. b \in [0..Len(l) -> Int]
    BY DEF Balances
  <2> QED
    BY <1>1, <2>1 DEF Recount
<1>3. F = Recount(l, F)
  BY <1>2
<1>4. Owed(l) = F[Len(l)]
  BY DEF Owed, Recount
<1> HIDE DEF F
<1> DEFINE Apart == {n \in 0..Len(l) : F[n] # b[n]}
<1>5. Apart = {}
  <2> SUFFICES ASSUME Apart # {} PROVE FALSE
    OBVIOUS
  <2>1. PICK n \in Apart : \A m \in Apart : n <= m
    <3>1. Apart \in SUBSET Nat
      BY <1>0
    <3> HIDE DEF Apart
    <3> QED
      BY <3>1, LeastExists
  <2>2. n \in 0..Len(l) /\ F[n] # b[n]
    BY <2>1
  <2>3. /\ F[n] = IF n = 0 \/ l[n].drop THEN 0 ELSE F[n - 1] + l[n].rho - l[n].committed
        /\ b[n] = IF n = 0 \/ l[n].drop THEN 0 ELSE b[n - 1] + l[n].rho - l[n].committed
    BY <1>2, <1>3, <2>2 DEF Recount
  <2>4. ASSUME n # 0 PROVE F[n - 1] = b[n - 1]
    <3>1. n - 1 \in 0..Len(l) /\ ~ (n <= n - 1)
      BY <1>0, <2>2, <2>4
    <3> QED
      BY <2>1, <3>1
  <2> QED
    BY <2>2, <2>3, <2>4
<1> QED
  BY <1>0, <1>4, <1>5

\* An event leaves the balance its row is left with.
LEMMA BalanceGrows ==
    ASSUME NEW l \in Seq(EventRows), NEW m \in Seq(EventRows), NEW b, Balances(b, l),
           Len(m) = Len(l) + 1, \A i \in 1..Len(l) : m[i] = l[i],
           NEW pending \in Int,
           pending = IF m[Len(l) + 1].drop THEN 0
                     ELSE b[Len(l)] + m[Len(l) + 1].rho - m[Len(l) + 1].committed
    PROVE  \E c : Balances(c, m) /\ c[Len(m)] = pending
<1> DEFINE n == Len(l)
           c == [i \in 0..n + 1 |-> IF i = n + 1 THEN pending ELSE b[i]]
<1>0. n \in Nat /\ Len(m) = n + 1
  BY LenProperties
<1>1. /\ b \in [0..n -> Int] /\ b[0] = 0
      /\ \A i \in 1..n : b[i] = IF l[i].drop THEN 0 ELSE b[i - 1] + l[i].rho - l[i].committed
      /\ \A i \in 1..n : m[i] = l[i]
      /\ pending = IF m[n + 1].drop THEN 0 ELSE b[n] + m[n + 1].rho - m[n + 1].committed
  BY DEF Balances
<1> HIDE DEF n
<1>2. /\ c \in [0..n + 1 -> Int] /\ c[n + 1] = pending
      /\ \A i \in 0..n : c[i] = b[i]
  BY <1>0, <1>1
<1> HIDE DEF c
<1>3. c[0] = 0
  BY <1>0, <1>1, <1>2
<1>4. ASSUME NEW i \in 1..n + 1
      PROVE  c[i] = IF m[i].drop THEN 0 ELSE c[i - 1] + m[i].rho - m[i].committed
  <2>1. i - 1 \in 0..n /\ c[i - 1] = b[i - 1]
    BY <1>0, <1>2
  <2>2. CASE i = n + 1
    <3>1. i - 1 = n
      BY <1>0, <2>2
    <3> QED
      BY <1>1, <1>2, <2>1, <2>2, <3>1
  <2>3. CASE i # n + 1
    <3>1. i \in 1..n /\ i \in 0..n
      BY <1>0, <2>3
    <3> QED
      BY <1>1, <1>2, <2>1, <3>1
  <2> QED
    BY <2>2, <2>3
<1>5. Balances(c, m)
  BY <1>0, <1>2, <1>3, <1>4 DEF Balances
<1> QED
  BY <1>0, <1>2, <1>5

LEMMA NothingIsOwed ==
    \E b : Balances(b, <<>>) /\ b[0] = 0
<1> DEFINE b == [i \in 0..0 |-> 0]
<1>1. Len(<<>>) = 0 /\ b \in [0..0 -> Int] /\ b[0] = 0
  OBVIOUS
<1> HIDE DEF b
<1>2. Balances(b, <<>>)
  BY <1>1 DEF Balances
<1> QED
  BY <1>1, <1>2

LEMMA GateInit == Init => GateInv
<1> SUFFICES ASSUME Init, NEW s \in Sessions PROVE Balanced(s)
  BY AffinityInit DEF GateInv
<1> DEFINE r == row[s]
<1>1. /\ log[s] = IF r = NoRow THEN <<>> ELSE Opening(r)
      /\ r # NoRow => r \in AffinityRows
  BY RowsAssumption DEF Init
<1>2. CASE r = NoRow
  BY <1>1, <1>2, NothingIsOwed DEF Balanced
<1>3. CASE r # NoRow
  <2> DEFINE l == Opening(r)
  <2>1. /\ l \in Seq(EventRows) /\ Len(l) = 1
        /\ l[1].rho = r.pending /\ l[1].committed = 0 /\ l[1].drop = FALSE
        /\ r.pending \in Int
    BY <1>1, <1>3, OpeningRow DEF AffinityRows
  <2>2. log[s] = l
    BY <1>1, <1>3
  <2> HIDE DEF l, r
  <2>3. PICK b : Balances(b, <<>>) /\ b[0] = 0
    BY NothingIsOwed
  <2> DEFINE none == <<>>
  <2>4. none \in Seq(EventRows) /\ Len(none) = 0
    OBVIOUS
  <2>5. Balances(b, none)
    BY <2>3
  <2> HIDE DEF none
  <2> DEFINE pending == r.pending
  <2>6. pending = IF l[1].drop THEN 0 ELSE b[0] + l[1].rho - l[1].committed
    BY <2>1, <2>3
  <2>7. \E c : Balances(c, l) /\ c[Len(l)] = pending
    <3>1. /\ Len(l) = Len(none) + 1 /\ \A i \in 1..Len(none) : l[i] = none[i]
          /\ Len(none) + 1 = 1
      BY <2>1, <2>4
    <3>2. pending = IF l[Len(none) + 1].drop THEN 0
                    ELSE b[Len(none)] + l[Len(none) + 1].rho - l[Len(none) + 1].committed
      BY <2>4, <2>6, <3>1
    <3>3. pending \in Int /\ l \in Seq(EventRows)
      BY <2>1
    <3> HIDE DEF pending
    <3> QED
      BY <2>4, <2>5, <3>1, <3>2, <3>3, BalanceGrows
  <2> QED
    BY <2>2, <2>7 DEF Balanced, r
<1> QED
  BY <1>2, <1>3

LEMMA GateStep ==
    ASSUME GateInv, [Next]_vars PROVE \A s \in Sessions : Balanced(s)'
<1>0. /\ AffinityInv
      /\ \A s \in Sessions : /\ Balanced(s) /\ Len(log[s]) \in Nat /\ log[s] \in Seq(EventRows)
                             /\ row[s] = NoRow => log[s] = <<>>
  BY Entries DEF GateInv, AffinityInv, RowHolds
<1>1. ASSUME Quiet, NEW s \in Sessions PROVE Balanced(s)'
  <2>1. log' = log /\ Untouched(s)
    BY <1>1 DEF Quiet
  <2>2. PICK b : Balances(b, log[s]) /\ (row[s] # NoRow => row[s].pending = b[Len(log[s])])
    BY <1>0 DEF Balanced
  <2>3. row'[s] # NoRow => row'[s].pending = b[Len(log[s])]
    <3>1. CASE row[s] # NoRow
      BY <2>1, <2>2, <3>1 DEF Untouched
    <3>2. CASE row[s] = NoRow
      <4>1. Len(log[s]) = 0 /\ b[0] = 0
        BY <1>0, <2>2, <3>2 DEF Balances
      <4> QED
        BY <2>1, <3>2, <4>1 DEF Untouched
    <3> QED
      BY <3>1, <3>2
  <2>4. Balances(b, log'[s]) /\ (row'[s] # NoRow => row'[s].pending = b[Len(log'[s])])
    BY <2>1, <2>2, <2>3
  <2> QED
    BY <2>4 DEF Balanced, Balances
<1>2. ASSUME Archived, NEW s \in Sessions PROVE Balanced(s)'
  <2>1. log'[s] = <<>> /\ row'[s] = NoRow
    BY <1>2 DEF Archived
  <2>2. \E b : Balances(b, log'[s])
    BY <2>1, NothingIsOwed
  <2> QED
    BY <2>1, <2>2 DEF Balanced, Balances
<1>3. CASE SomeLogged
  <2>1. PICK s \in Sessions, at \in Nat, before \in AffinityRows, after \in AffinityRows,
             type \in EventTypes, rho \in Int, committed \in Int, drop \in BOOLEAN :
               Logged(s, at, before, after, type, rho, committed, drop)
    BY <1>3 DEF SomeLogged
  <2> DEFINE e == Event(type, before, after, rho, committed, drop)
             l == log[s]
             m == log'[s]
  <2>2. /\ Len(l) \in Nat /\ Len(m) = Len(l) + 1 /\ m[Len(l) + 1] = e
        /\ m \in Seq(EventRows) /\ row'[s] = after
        /\ \A i \in 1..Len(l) : m[i] = l[i]
    BY <1>0, <2>1, LoggedRows
  <2>3. \A z \in Sessions : z # s => log'[z] = log[z] /\ row'[z] = row[z]
    BY <1>0, <2>1, LoggedRows
  <2>4. /\ row[s] # NoRow
        /\ after.pending = IF drop THEN 0 ELSE row[s].pending + rho - committed
    BY <2>1 DEF Logged, Follows
  <2>5. e.rho = rho /\ e.committed = committed /\ e.drop = drop
    BY DEF Event
  <2>6. PICK b : Balances(b, l) /\ row[s].pending = b[Len(l)]
    BY <1>0, <2>4 DEF Balanced
  <2> DEFINE pending == after.pending
  <2>7. pending \in Int /\ l \in Seq(EventRows)
    BY <1>0 DEF AffinityRows
  <2>8. pending = IF m[Len(l) + 1].drop THEN 0
                  ELSE b[Len(l)] + m[Len(l) + 1].rho - m[Len(l) + 1].committed
    BY <2>2, <2>4, <2>5, <2>6
  <2> HIDE DEF e, pending
  <2>9. \E c : Balances(c, m) /\ c[Len(m)] = pending
    <3> HIDE DEF l, m
    <3> QED
      BY <2>2, <2>6, <2>7, <2>8, BalanceGrows
  <2>10. Balanced(s)'
    BY <2>2, <2>9 DEF Balanced, Balances, pending
  <2>11. ASSUME NEW z \in Sessions, z # s PROVE Balanced(z)'
    <3>1. log'[z] = log[z] /\ row'[z] = row[z] /\ Balanced(z)
      BY <1>0, <2>3, <2>11
    <3> QED
      BY <3>1 DEF Balanced, Balances
  <2> QED
    BY <2>10, <2>11
<1> QED
  BY <1>0, <1>1, <1>2, <1>3, Kinds

\* The gate re-times what it commits and rescales nothing: what it holds back
\* is what was earned since a drop and not committed yet, whatever turns
\* overlapped. (grade_turn, clear_line)
THEOREM GateHoldsWhatItOwes == Spec => []GateOwes
<1>1. GateInv /\ [Next]_vars => GateInv'
  BY AffinityStep, GateStep DEF GateInv
<1>2. GateInv => GateOwes
  <2> SUFFICES ASSUME GateInv, NEW s \in Sessions, row[s] # NoRow
               PROVE  row[s].pending = Owed(log[s])
    BY DEF GateOwes
  <2>1. log[s] \in Seq(EventRows) /\ Balanced(s)
    BY Entries DEF GateInv
  <2>2. PICK b : Balances(b, log[s]) /\ row[s].pending = b[Len(log[s])]
    BY <2>1 DEF Balanced
  <2> QED
    BY <2>1, <2>2, OwedIsTheBalance
<1> QED
  BY <1>1, <1>2, GateInit, PTL DEF Spec

=============================================================================
