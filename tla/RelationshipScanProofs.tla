------------------------ MODULE RelationshipScanProofs ------------------------
(***************************************************************************)
(* Theorems about RelationshipScan for any turns, scanners, knobs and      *)
(* bounds.                                                                 *)
(*                                                                         *)
(* Every step makes one of nine things of the state row (RowWrites); what  *)
(* a step makes of the claim and of the cursor follows from it.            *)
(***************************************************************************)
EXTENDS RelationshipScan, FiniteSetTheorems, WellFoundedInduction, TLAPS

\* A set of naturals that is not empty has a least element.
LEMMA LeastExists ==
    ASSUME NEW S \in SUBSET Nat, S # {}
    PROVE  \E x \in S : \A y \in S : x <= y
<1> DEFINE less == OpToRel(<, Nat)
<1>1. PICK x \in S : \A y \in S : <<y, x>> \notin less
  <2>1. IsWellFoundedOn(less, Nat)
    BY NatLessThanWellFounded
  <2> HIDE DEF less
  <2> QED
    BY <2>1, WFMin
<1>2. \A y \in S : ~(y < x)
  BY <1>1 DEF OpToRel
<1> QED
  BY <1>2

\* The largest of some turns is one of them.
LEMMA MaxIsLast ==
    ASSUME NEW S \in SUBSET Turns, S # {}
    PROVE  Max(S) \in S /\ \A t \in S : t <= Max(S)
<1> DEFINE mirrored == {MaxTurns - t : t \in S}
<1>1. mirrored \in SUBSET Nat /\ mirrored # {}
  <2>1. \A t \in S : MaxTurns - t \in Nat
    BY TurnsAssumption DEF Turns
  <2> QED
    BY <2>1
<1>2. PICK m \in mirrored : \A n \in mirrored : m <= n
  BY <1>1, LeastExists
<1>3. PICK t \in S : m = MaxTurns - t
  BY <1>2
<1>4. ASSUME NEW u \in S PROVE t >= u
  <2>1. MaxTurns - u \in mirrored
    OBVIOUS
  <2>2. MaxTurns - t <= MaxTurns - u
    BY <1>2, <1>3, <2>1
  <2>3. t \in Int /\ u \in Int /\ MaxTurns \in Int
    BY TurnsAssumption DEF Turns
  <2> QED
    BY <2>2, <2>3
<1>5. \E x \in S : \A y \in S : x >= y
  BY <1>3, <1>4
<1>6. Max(S) = CHOOSE x \in S : \A y \in S : x >= y
  BY DEF Max
<1>7. Max(S) \in S /\ \A u \in S : Max(S) >= u
  BY <1>5, <1>6, Zenon
<1> QED
  BY <1>7, TurnsAssumption DEF Turns

\* Turns are counted by a number no larger than theirs.
LEMMA TurnsCardinality ==
    ASSUME NEW S \in SUBSET Turns
    PROVE  IsFiniteSet(S) /\ Cardinality(S) \in 0..MaxTurns
<1>1. IsFiniteSet(Turns) /\ Cardinality(Turns) = MaxTurns
  BY FS_Interval, TurnsAssumption DEF Turns
<1>2. IsFiniteSet(S) /\ Cardinality(S) <= MaxTurns
  BY <1>1, FS_Subset
<1> QED
  BY <1>2, FS_CardinalityType, TurnsAssumption

LEMMA NewestType == Newest \in 0..MaxTurns
  BY TurnsCardinality DEF Newest, Landed

LEMMA NoSegmentType == NoSegment \in Segments
  BY TurnsAssumption DEF NoSegment, Segments

-----------------------------------------------------------------------------
(***************************************************************************)
(* What the statements of scan_state.rs make of a row is a row.            *)
(***************************************************************************)
LEMMA SettledType ==
    ASSUME row \in ScanState, NEW to \in 0..MaxTurns, NEW covered \in Nat
    PROVE  Settled(to, covered) \in ScanState
<1>1. row.cursor \in 0..MaxTurns /\ row.pending \in 0..MaxTurns
  BY DEF ScanState
<1>2. AtLeast(row.cursor, to) \in 0..MaxTurns
  BY <1>1 DEF AtLeast
<1>3. AtLeast(row.pending - covered, 0) \in 0..MaxTurns
  BY <1>1, TurnsAssumption DEF AtLeast
<1>4. 0 \in 0..(MaxScanFailures - 1)
  BY KnobAssumption
<1> QED
  BY <1>2, <1>3, <1>4 DEF Settled, ScanState

LEMMA ClaimType ==
    ASSUME row \in ScanState
    PROVE  /\ [row EXCEPT !.claim = 0] \in ScanState
           /\ [row EXCEPT !.claim = Unclaimed] \in ScanState
  BY KnobAssumption DEF ScanState

LEMMA BumpedType ==
    ASSUME row \in ScanState
    PROVE  [row EXCEPT !.pending = AtMost(@ + 1, MaxTurns), !.idle = 0] \in ScanState
<1>1. row.pending \in 0..MaxTurns
  BY DEF ScanState
<1>2. AtMost(row.pending + 1, MaxTurns) \in 0..MaxTurns
  BY <1>1, TurnsAssumption DEF AtMost
<1>3. 0 \in 0..(Idle + 1)
  BY KnobAssumption
<1> QED
  BY <1>2, <1>3 DEF ScanState

LEMMA OpenedType ==
    ASSUME NEW t \in Turns
    PROVE  Opened(t) \in ScanState
  BY KnobAssumption, TurnsAssumption DEF Opened, ScanState, Turns

LEMMA FailedType ==
    ASSUME row \in ScanState, ~StrikesOut
    PROVE  [row EXCEPT !.failures = @ + 1, !.idle = 0, !.claim = Unclaimed] \in ScanState
<1>1. row.failures \in 0..(MaxScanFailures - 1)
  BY DEF ScanState
<1>2. row.failures + 1 \in 0..(MaxScanFailures - 1) /\ 0 \in 0..(Idle + 1)
  BY <1>1, KnobAssumption DEF StrikesOut
<1> QED
  BY <1>2 DEF ScanState

LEMMA TickedType ==
    ASSUME row \in ScanState
    PROVE  [row EXCEPT !.claim = IF @ = Unclaimed THEN @ ELSE AtMost(@ + 1, Stale + 1),
                       !.idle = AtMost(@ + 1, Idle + 1)] \in ScanState
<1> DEFINE claim == IF row.claim = Unclaimed THEN row.claim ELSE AtMost(row.claim + 1, Stale + 1)
<1>1. /\ row.claim \in {Unclaimed} \cup 0..(Stale + 1)
      /\ row.idle \in 0..(Idle + 1)
  BY DEF ScanState
<1>2. claim \in {Unclaimed} \cup 0..(Stale + 1)
  BY <1>1, KnobAssumption DEF AtMost
<1>3. AtMost(row.idle + 1, Idle + 1) \in 0..(Idle + 1)
  BY <1>1, KnobAssumption DEF AtMost
<1> HIDE DEF claim
<1>4. [row EXCEPT !.claim = claim, !.idle = AtMost(row.idle + 1, Idle + 1)] \in ScanState
  BY <1>2, <1>3 DEF ScanState
<1> QED
  BY <1>4 DEF claim

\* The segment read from the turns past a cursor.
LEMMA SegmentTurns ==
    ASSUME NEW g \in Segments
    PROVE  Segment(g) \in SUBSET Turns
<1>1. Segment(g) \subseteq Between(g.after, g.bound)
  <2> DEFINE rows == {t \in Between(g.after, g.bound) : Live(t)}
  <2>1. rows \subseteq Between(g.after, g.bound)
    OBVIOUS
  <2>2. Segment(g) \subseteq rows
    BY DEF Segment
  <2> QED
    BY <2>1, <2>2
<1> QED
  BY <1>1 DEF Between

-----------------------------------------------------------------------------
LEMMA ScanTypeInit == Init => TypeOK
<1> SUFFICES ASSUME Init PROVE TypeOK
  OBVIOUS
<1>1. 0 \in Epochs /\ 0 \in Nat /\ 0 \in 0..MaxFaults /\ 0 \in 0..MaxCrashes
  BY BoundAssumption DEF Epochs
<1>2. /\ turn \in [Turns -> TurnStates] /\ epochOf \in [Turns -> Epochs]
      /\ told \in [Turns -> Nat] /\ stage \in [Scanners -> Stages]
      /\ lost \subseteq Scanners /\ strays \in Nat
  BY <1>1 DEF Init, TurnStates, Stages
<1>3. seg \in [Scanners -> Segments]
  BY NoSegmentType DEF Init
<1> QED
  BY <1>1, <1>2, <1>3 DEF Init, TypeOK

LEMMA StrayType ==
    ASSUME TypeOK, NEW robbed, Stray(robbed)
    PROVE  strays' \in Nat
  BY DEF TypeOK, Stray

\* A scanner begins, goes on or is done.
LEMMA ScannerType ==
    ASSUME TypeOK, NEW s \in Scanners, NEW to \in Stages,
           \/ GoTo(s, to) /\ claimedIn' = claimedIn
           \/ (Done(s) \/ LetGo(s)) /\ claimedIn' = claimedIn
           \/ \E bound \in 0..MaxTurns : Begin(s, to, bound)
    PROVE  /\ stage' \in [Scanners -> Stages]
           /\ seg' \in [Scanners -> Segments]
           /\ lost' \subseteq Scanners /\ strays' \in Nat
           /\ claimedIn' \subseteq Epochs
<1>1. CASE GoTo(s, to) /\ claimedIn' = claimedIn
  BY <1>1 DEF GoTo, TypeOK
<1>2. CASE (Done(s) \/ LetGo(s)) /\ claimedIn' = claimedIn
  <2>1. strays' \in Nat
    BY <1>2, StrayType DEF Done, LetGo, TypeOK
  <2> QED
    BY <1>2, <2>1, NoSegmentType DEF Done, LetGo, Leave, TypeOK, Stages, AtWork
<1>3. ASSUME NEW bound \in 0..MaxTurns, Begin(s, to, bound)
      PROVE  /\ stage' \in [Scanners -> Stages]
             /\ seg' \in [Scanners -> Segments]
             /\ lost' \subseteq Scanners /\ strays' \in Nat
             /\ claimedIn' \subseteq Epochs
  <2>1. [NoSegment EXCEPT !.bound = bound] \in Segments
    BY NoSegmentType DEF Segments
  <2>2. strays' \in Nat
    BY <1>3, StrayType DEF Begin
  <2> QED
    BY <1>3, <2>1, <2>2 DEF Begin, TypeOK, AtWork
<1> QED
  BY <1>1, <1>2, <1>3

LEMMA FaultType ==
    ASSUME TypeOK, NoFault \/ Fault
    PROVE  faults' \in 0..MaxFaults /\ crashes' \in 0..MaxCrashes
  BY BoundAssumption DEF TypeOK, NoFault, Fault, bounds

\* Every step of one scan keeps the types.
LEMMA StepType ==
    ASSUME TypeOK, NEW s \in Scanners, Step(s)
    PROVE  TypeOK'
<1> USE DEF turnVars, scanVars, ledger
<1> DEFINE Scan == /\ stage' \in [Scanners -> Stages]
                   /\ seg' \in [Scanners -> Segments]
                   /\ lost' \subseteq Scanners /\ strays' \in Nat
                   /\ claimedIn' \subseteq Epochs
<1>0. /\ row \in ScanState \cup {NoRow}
      /\ seg \in [Scanners -> Segments] /\ stage \in [Scanners -> Stages]
      /\ lost \subseteq Scanners /\ strays \in Nat /\ claimedIn \subseteq Epochs
      /\ seg[s] \in Segments
      /\ read \subseteq Turns /\ struckOut \subseteq Turns /\ missed \in Nat
  BY DEF TypeOK
<1>1. Exists => row \in ScanState
  BY <1>0 DEF Exists
<1>2. Claimed => row \in ScanState
  BY <1>1 DEF Claimed
<1>3. /\ seg[s].turns \in SUBSET Turns
      /\ seg[s].last \in 0..MaxTurns /\ seg[s].pending \in 0..MaxTurns
      /\ seg[s].after \in 0..MaxTurns /\ seg[s].bound \in 0..MaxTurns
  BY <1>0 DEF Segments
<1>4. /\ Cardinality(seg[s].turns) \in Nat
      /\ Cardinality(Again(s)) \in Nat
  <2>1. Again(s) \in SUBSET Turns
    BY <1>3 DEF Again
  <2> QED
    BY <1>3, <2>1, TurnsCardinality
<1>5. NoFault \/ Fault => faults' \in 0..MaxFaults /\ crashes' \in 0..MaxCrashes
  BY FaultType
<1>6. ASSUME NEW to \in Stages, GoTo(s, to) \/ Done(s) \/ LetGo(s), claimedIn' = claimedIn
      PROVE  Scan
  BY <1>6, ScannerType
<1> HIDE DEF Scan
<1>7. CASE Load(s)
  <2>1. Scan
    <3>1. ASSUME Exists,
                 seg' = [seg EXCEPT ![s].after = row.cursor, ![s].pending = row.pending],
                 stage' \in [Scanners -> Stages],
                 UNCHANGED <<lost, strays, claimedIn>>
          PROVE  Scan
      <4>1. row.cursor \in 0..MaxTurns /\ row.pending \in 0..MaxTurns
        BY <1>1, <3>1 DEF ScanState
      <4>2. [seg[s] EXCEPT !.after = row.cursor, !.pending = row.pending] \in Segments
        BY <1>0, <4>1 DEF Segments
      <4>3. seg' \in [Scanners -> Segments]
        BY <1>0, <3>1, <4>2
      <4> QED
        BY <1>0, <3>1, <4>3 DEF Scan
    <3>2. ASSUME NEW to \in {"release", "read"}, stage' = [stage EXCEPT ![s] = to]
          PROVE  stage' \in [Scanners -> Stages]
      BY <1>0, <3>2 DEF Stages
    <3>3. CASE Done(s)
      BY <1>6, <1>7, <3>3 DEF Load, Stages
    <3> QED
      BY <1>0, <1>7, <3>1, <3>2, <3>3 DEF Load
  <2>2. NoFault \/ Fault
    BY <1>7 DEF Load
  <2> QED
    BY <1>5, <1>7, <2>1, <2>2 DEF Load, TypeOK, Scan
<1>8. CASE ReleaseClaim(s)
  <2>1. Scan
    BY <1>6, <1>8 DEF ReleaseClaim, Stages
  <2>2. NoFault \/ Fault
    BY <1>8 DEF ReleaseClaim
  <2>3. row' \in ScanState \cup {NoRow}
    BY <1>0, <1>1, <1>8, ClaimType DEF ReleaseClaim
  <2> QED
    BY <1>5, <1>8, <2>1, <2>2, <2>3 DEF ReleaseClaim, TypeOK, Scan
<1>9. CASE Read(s)
  <2> DEFINE rows == Segment(seg[s])
             last == IF rows = {} THEN seg[s].bound ELSE Max(rows)
  <2>1. rows \in SUBSET Turns
    BY <1>0, SegmentTurns
  <2>2. last \in 0..MaxTurns
    <3>1. rows # {} => Max(rows) \in Turns
      BY <2>1, MaxIsLast
    <3> QED
      BY <1>3, <3>1 DEF Turns
  <2>3. [seg[s] EXCEPT !.turns = rows, !.last = last] \in Segments
    BY <1>0, <2>1, <2>2 DEF Segments
  <2>4. [seg[s] EXCEPT !.last = seg[s].after] \in Segments
    BY <1>0, <1>3 DEF Segments
  <2>5. \/ seg' = [seg EXCEPT ![s] = [seg[s] EXCEPT !.turns = rows, !.last = last]]
        \/ seg' = [seg EXCEPT ![s] = [seg[s] EXCEPT !.last = seg[s].after]]
    BY <1>0, <1>9 DEF Read
  <2>6. seg' \in [Scanners -> Segments]
    BY <1>0, <2>3, <2>4, <2>5
  <2>7. stage' \in [Scanners -> Stages]
    BY <1>0, <1>9 DEF Read, Stages
  <2>8. NoFault \/ Fault
    BY <1>9 DEF Read
  <2> QED
    BY <1>5, <1>9, <2>6, <2>7, <2>8 DEF Read, TypeOK
<1>10. CASE Call(s)
  <2>1. Scan
    BY <1>6, <1>10 DEF Call, Stages
  <2> QED
    BY <1>10, <2>1 DEF Call, TypeOK, Scan, bounds
<1>11. CASE Check(s)
  <2>1. Scan
    BY <1>6, <1>11 DEF Check, Stages
  <2>2. NoFault \/ Fault
    BY <1>11 DEF Check
  <2>3. row' \in ScanState \cup {NoRow}
    BY <1>0, <1>2, <1>11, ClaimType DEF Check
  <2> QED
    BY <1>5, <1>11, <2>1, <2>2, <2>3 DEF Check, TypeOK, Scan
<1>12. CASE WriteEpisode(s)
  <2>1. Scan
    <3>1. CASE stage' = [stage EXCEPT ![s] = "settle"] /\ UNCHANGED <<seg, lost, claimedIn>>
               /\ strays' = IF s \in lost THEN strays + 1 ELSE strays
      <4>1. stage' \in [Scanners -> Stages]
        BY <1>0, <3>1 DEF Stages
      <4> QED
        BY <1>0, <3>1, <4>1 DEF Scan
    <3> QED
      BY <1>6, <1>12, <3>1 DEF WriteEpisode, Stages
  <2>2. NoFault \/ Fault
    BY <1>12 DEF WriteEpisode
  <2>3. told' \in [Turns -> Nat]
    <3>1. told \in [Turns -> Nat]
      BY DEF TypeOK
    <3> QED
      BY <1>12, <3>1 DEF WriteEpisode
  <2> QED
    BY <1>5, <1>12, <2>1, <2>2, <2>3 DEF WriteEpisode, TypeOK, Scan
<1>13. CASE Settle(s)
  <2>1. Scan
    BY <1>6, <1>13 DEF Settle, Stages
  <2>2. NoFault \/ Fault
    BY <1>13 DEF Settle
  <2>3. row' \in ScanState \cup {NoRow} /\ read' \subseteq Turns
    BY <1>0, <1>2, <1>3, <1>4, <1>13, SettledType DEF Settle
  <2>4. missed' \in Nat
    BY <1>0, <1>4, <1>13 DEF Settle
  <2> QED
    BY <1>5, <1>13, <2>1, <2>2, <2>3, <2>4 DEF Settle, TypeOK, Scan
<1>14. CASE SettleEmpty(s)
  <2>1. Scan
    BY <1>6, <1>14 DEF SettleEmpty, Stages
  <2>2. NoFault \/ Fault
    BY <1>14 DEF SettleEmpty
  <2>3. EmptyCount(seg[s]) \in Nat
    BY <1>3 DEF EmptyCount
  <2>4. row' \in ScanState \cup {NoRow} /\ read' \subseteq Turns
    BY <1>0, <1>2, <1>3, <1>14, <2>3, SettledType DEF SettleEmpty
  <2>5. missed' \in Nat
    BY <1>0, <1>4, <1>14, <2>3 DEF SettleEmpty, AtLeast
  <2> QED
    BY <1>5, <1>14, <2>1, <2>2, <2>4, <2>5 DEF SettleEmpty, TypeOK, Scan
<1>15. CASE Fail(s)
  <2>1. Scan
    BY <1>6, <1>15 DEF Fail, Stages
  <2>2. NoFault \/ Fault
    BY <1>15 DEF Fail
  <2>3. row' \in ScanState \cup {NoRow} /\ struckOut' \subseteq Turns
    BY <1>0, <1>2, <1>3, <1>4, <1>15, SettledType, FailedType DEF Fail
  <2>4. missed' \in Nat
    BY <1>0, <1>4, <1>15 DEF Fail
  <2> QED
    BY <1>5, <1>15, <2>1, <2>2, <2>3, <2>4 DEF Fail, TypeOK, Scan
<1> QED
  BY <1>7, <1>8, <1>9, <1>10, <1>11, <1>12, <1>13, <1>14, <1>15 DEF Step

LEMMA TypeStep == TypeOK /\ [Next]_vars => TypeOK'
<1> SUFFICES ASSUME TypeOK, [Next]_vars PROVE TypeOK'
  OBVIOUS
<1> USE DEF turnVars, scanVars, ledger
<1>0. /\ row \in ScanState \cup {NoRow} /\ turn \in [Turns -> TurnStates]
      /\ epochOf \in [Turns -> Epochs] /\ epoch \in Epochs
      /\ Sweeper \in Scanners /\ InlineScans \subseteq Scanners
      /\ seg \in [Scanners -> Segments] /\ stage \in [Scanners -> Stages]
      /\ lost \subseteq Scanners /\ strays \in Nat /\ claimedIn \subseteq Epochs
  BY DEF TypeOK, Scanners
<1>1. Exists => row \in ScanState
  BY <1>0 DEF Exists
<1>2. NoFault \/ Fault => faults' \in 0..MaxFaults /\ crashes' \in 0..MaxCrashes
  BY FaultType
<1>3. ASSUME NEW t \in Turns, Land(t) \/ SeeTurn(t) PROVE TypeOK'
  BY <1>0, <1>3 DEF Land, SeeTurn, TypeOK, TurnStates, bounds
<1>4. ASSUME NEW t \in Turns, Bump(t) PROVE TypeOK'
  <2>1. row' \in ScanState
    BY <1>1, <1>4, BumpedType, OpenedType DEF Bump
  <2>2. turn' \in [Turns -> TurnStates] /\ due' \subseteq Turns
    BY <1>0, <1>4 DEF Bump, TurnStates, TypeOK
  <2> QED
    BY <1>4, <2>1, <2>2 DEF Bump, TypeOK, bounds
<1>5. ASSUME NEW t \in Turns, BumpLost(t) PROVE TypeOK'
  <2>1. turn' \in [Turns -> TurnStates]
    BY <1>0, <1>5 DEF BumpLost, TurnStates
  <2> QED
    BY <1>2, <1>5, <2>1 DEF BumpLost, TypeOK
<1>6. ASSUME NEW s \in InlineScans, NEW t \in Turns, ClaimInline(s, t) PROVE TypeOK'
  <2>1. row' \in ScanState \cup {NoRow}
    BY <1>0, <1>1, <1>6, ClaimType DEF ClaimInline
  <2>2. NoFault \/ Fault
    BY <1>6 DEF ClaimInline
  <2>3. /\ stage' \in [Scanners -> Stages] /\ seg' \in [Scanners -> Segments]
        /\ lost' \subseteq Scanners /\ strays' \in Nat /\ claimedIn' \subseteq Epochs
    <3>1. CASE Begin(s, "load", t)
      BY <1>0, <3>1, ScannerType DEF Turns, Stages
    <3>2. CASE UNCHANGED <<stage, seg, lost, strays, claimedIn>>
      BY <1>0, <3>2
    <3> QED
      BY <1>6, <3>1, <3>2 DEF ClaimInline
  <2>4. due' \subseteq Turns
    BY <1>6 DEF ClaimInline, TypeOK
  <2> QED
    BY <1>2, <1>6, <2>1, <2>2, <2>3, <2>4 DEF ClaimInline, TypeOK
<1>7. CASE ClaimDue
  <2>1. row' \in ScanState \cup {NoRow}
    BY <1>1, <1>7, ClaimType DEF ClaimDue
  <2>2. /\ stage' \in [Scanners -> Stages] /\ seg' \in [Scanners -> Segments]
        /\ lost' \subseteq Scanners /\ strays' \in Nat /\ claimedIn' \subseteq Epochs
    <3>1. 0 \in 0..MaxTurns
      BY TurnsAssumption
    <3> QED
      BY <1>0, <1>7, <3>1, ScannerType DEF ClaimDue, Stages
  <2> QED
    BY <1>7, <2>1, <2>2 DEF ClaimDue, TypeOK, bounds
<1>8. CASE StartOfBatch
  <2>1. row' \in ScanState \cup {NoRow}
    BY <1>0, <1>1, <1>8, ClaimType DEF StartOfBatch, Claimed
  <2>2. NoFault \/ Fault
    BY <1>8 DEF StartOfBatch
  <2>3. CASE Done(Sweeper)
    BY <1>0, <1>2, <1>8, <2>1, <2>2, <2>3, ScannerType DEF StartOfBatch, TypeOK, Stages, Done
  <2>4. CASE ~Done(Sweeper)
    <3>1. [seg[Sweeper] EXCEPT !.bound = Newest] \in Segments
      BY <1>0, NewestType DEF Segments
    <3>2. seg' = [seg EXCEPT ![Sweeper] = [seg[Sweeper] EXCEPT !.bound = Newest]]
      BY <1>8, <2>4 DEF StartOfBatch
    <3>3. seg' \in [Scanners -> Segments]
      BY <1>0, <3>1, <3>2
    <3>4. stage' \in [Scanners -> Stages] /\ UNCHANGED <<lost, strays>>
      BY <1>0, <1>8, <2>4 DEF StartOfBatch, Stages
    <3> QED
      BY <1>2, <1>8, <2>1, <2>2, <3>3, <3>4 DEF StartOfBatch, TypeOK
  <2> QED
    BY <2>3, <2>4
<1>9. ASSUME NEW s \in Scanners, Step(s) PROVE TypeOK'
  BY <1>9, StepType
<1>10. CASE Archive
  <2>1. epoch' \in Epochs
    BY <1>0, <1>10, BoundAssumption DEF Archive, Epochs
  <2>2. lost' \subseteq Scanners /\ strays' \in Nat
    BY <1>10, StrayType DEF Archive, TypeOK, AtWork
  <2>3. told' \in [Turns -> Nat]
    BY <1>10 DEF Archive
  <2> QED
    BY <1>10, <2>1, <2>2, <2>3 DEF Archive, TypeOK, bounds
<1>11. CASE Crash
  <2>1. turn' \in [Turns -> TurnStates]
    BY <1>0, <1>11 DEF Crash, TurnStates
  <2>2. /\ stage' \in [Scanners -> Stages] /\ seg' \in [Scanners -> Segments]
        /\ lost' \subseteq Scanners /\ strays' \in Nat
    BY <1>0, <1>11, NoSegmentType DEF Crash, Stages
  <2>3. crashes' \in 0..MaxCrashes
    BY <1>11, BoundAssumption DEF Crash, TypeOK
  <2> QED
    BY <1>11, <2>1, <2>2, <2>3 DEF Crash, TypeOK
<1>12. CASE Tick
  <2>1. row' \in ScanState
    BY <1>1, <1>12, TickedType DEF Tick
  <2> QED
    BY <1>12, <2>1 DEF Tick, TypeOK, bounds
<1>13. CASE UNCHANGED vars
  BY <1>13 DEF vars, TypeOK, bounds
<1> QED
  BY <1>3, <1>4, <1>5, <1>6, <1>7, <1>8, <1>9, <1>10, <1>11, <1>12, <1>13 DEF Next

\* Every reachable state of a relationship's scan is well typed, for any number
\* of turns, scanners, archives, faults and crashes.
THEOREM TypeCorrectness == Spec => []TypeOK
  BY ScanTypeInit, TypeStep, PTL DEF Spec

-----------------------------------------------------------------------------
(***************************************************************************)
(* What a step makes of the row.                                           *)
(***************************************************************************)

\* The row keeps its claim and its cursor; a turn opens one; it is claimed; it
\* settles; it is released or settles a failure; it is deleted.
RowWrite ==
    \/ UNCHANGED row
    \/ Exists /\ \E pending \in 0..MaxTurns :
                     row' = [row EXCEPT !.pending = pending, !.idle = 0]
    \/ ~Exists /\ \E t \in Landed : row' = Opened(t)
    \/ Exists /\ row' = [row EXCEPT !.claim = 0] /\ (Claimed \/ epoch \in claimedIn')
    \/ Exists /\ row' = [row EXCEPT !.claim = Unclaimed]
    \/ /\ Exists /\ ~StrikesOut
       /\ row' = [row EXCEPT !.failures = @ + 1, !.idle = 0, !.claim = Unclaimed]
    \/ Claimed /\ \E s \in Scanners, covered \in Nat :
                      /\ stage[s] \in {"settle", "settle_empty", "fail"}
                      /\ row' = Settled(seg[s].last, covered)
                      /\ seg[s].turns \subseteq read' \cup struckOut'
    \/ Exists /\ row' = [row EXCEPT
                    !.claim = IF @ = Unclaimed THEN @ ELSE AtMost(@ + 1, Stale + 1),
                    !.idle = AtMost(@ + 1, Idle + 1)]
    \/ Archive

LEMMA RowWrites ==
    ASSUME TypeOK, [Next]_vars
    PROVE  RowWrite
<1>0. /\ Sweeper \in Scanners /\ InlineScans \subseteq Scanners
      /\ Exists => row \in ScanState
      /\ turn \in [Turns -> TurnStates]
  BY DEF Scanners, TypeOK, Exists
<1>1. CASE UNCHANGED row
  BY <1>1 DEF RowWrite
<1>2. ASSUME NEW t \in Turns, Bump(t) PROVE RowWrite
  <2>1. CASE Exists
    <3>1. AtMost(row.pending + 1, MaxTurns) \in 0..MaxTurns
      BY <1>0, <2>1, TurnsAssumption DEF ScanState, AtMost
    <3>2. row' = [row EXCEPT !.pending = AtMost(row.pending + 1, MaxTurns), !.idle = 0]
      BY <1>2, <2>1 DEF Bump
    <3> QED
      BY <2>1, <3>1, <3>2 DEF RowWrite
  <2>2. CASE ~Exists
    BY <1>2, <2>2 DEF Bump, RowWrite, Landed
  <2> QED
    BY <2>1, <2>2
<1>3. ASSUME NEW s \in InlineScans, NEW t \in Turns, ClaimInline(s, t) PROVE RowWrite
  BY <1>1, <1>3 DEF ClaimInline, Begin, RowWrite
<1>4. CASE ClaimDue
  BY <1>4 DEF ClaimDue, Begin, RowWrite
<1>5. CASE StartOfBatch
  BY <1>1, <1>5 DEF StartOfBatch, RowWrite, Claimed
<1>6. ASSUME NEW s \in Scanners, Step(s) PROVE RowWrite
  <2>0. seg[s].turns \in SUBSET Turns /\ seg[s].pending \in Nat
    BY DEF TypeOK, Segments
  <2>1. Cardinality(seg[s].turns) \in Nat /\ EmptyCount(seg[s]) \in Nat
    BY <2>0, TurnsCardinality DEF EmptyCount
  <2>2. CASE ReleaseClaim(s)
    BY <1>1, <2>2 DEF ReleaseClaim, RowWrite
  <2>3. CASE Check(s)
    BY <1>1, <2>3 DEF Check, RowWrite, Claimed
  <2>4. CASE Settle(s)
    BY <1>1, <2>1, <2>4 DEF Settle, RowWrite
  <2>5. CASE SettleEmpty(s)
    BY <1>1, <2>1, <2>5 DEF SettleEmpty, RowWrite
  <2>6. CASE Fail(s)
    BY <1>1, <2>1, <2>6 DEF Fail, RowWrite, Claimed
  <2>7. CASE Load(s) \/ Read(s) \/ Call(s) \/ WriteEpisode(s)
    BY <1>1, <2>7 DEF Load, Read, Call, WriteEpisode
  <2> QED
    BY <1>6, <2>2, <2>3, <2>4, <2>5, <2>6, <2>7 DEF Step
<1>7. CASE Tick
  BY <1>7 DEF Tick, RowWrite
<1>8. CASE Archive
  BY <1>8 DEF RowWrite
<1> QED
  BY <1>1, <1>2, <1>3, <1>4, <1>5, <1>6, <1>7, <1>8
  DEF Next, vars, Land, SeeTurn, BumpLost, Crash

\* What a step makes of the claim.
LEMMA ClaimWrites ==
    ASSUME TypeOK, [Next]_vars, ~Archive
    PROVE  \/ row' # NoRow /\ Exists /\ row'.claim = row.claim
           \/ row' = row
           \/ row'.claim = Unclaimed
           \/ row'.claim = 0 /\ (Claimed \/ epoch \in claimedIn')
           \/ Claimed
<1>0. Exists => row \in ScanState
  BY DEF TypeOK, Exists
<1>1. ASSUME Exists, NEW pending \in 0..MaxTurns,
             row' = [row EXCEPT !.pending = pending, !.idle = 0]
      PROVE  row' # NoRow /\ row'.claim = row.claim
  <2>1. row' \in ScanState /\ row'.claim = row.claim
    <3>1. 0 \in 0..(Idle + 1)
      BY KnobAssumption
    <3> QED
      BY <1>0, <1>1, <3>1 DEF ScanState
  <2> QED
    BY <2>1, NoRowAssumption
<1>2. ASSUME NEW t \in Turns, row' = Opened(t) PROVE row'.claim = Unclaimed
  BY <1>2 DEF Opened
<1>3. ASSUME Exists, row' = [row EXCEPT !.claim = 0] PROVE row'.claim = 0
  BY <1>0, <1>3 DEF ScanState
<1>4. ASSUME Exists, \/ row' = [row EXCEPT !.claim = Unclaimed]
                     \/ row' = [row EXCEPT !.failures = @ + 1, !.idle = 0, !.claim = Unclaimed]
      PROVE  row'.claim = Unclaimed
  BY <1>0, <1>4 DEF ScanState
<1>5. ASSUME Exists, row.claim = Unclaimed,
             row' = [row EXCEPT
                    !.claim = IF @ = Unclaimed THEN @ ELSE AtMost(@ + 1, Stale + 1),
                    !.idle = AtMost(@ + 1, Idle + 1)]
      PROVE  row'.claim = Unclaimed
  BY <1>0, <1>5 DEF ScanState
<1> QED
  BY <1>1, <1>2, <1>3, <1>4, <1>5, RowWrites DEF RowWrite, Landed, Claimed

LEMMA CursorStep ==
    ASSUME TypeOK, [Next]_vars, Exists, row' # NoRow
    PROVE  row'.cursor >= row.cursor
<1>0. row \in ScanState /\ row.cursor \in 0..MaxTurns
  BY DEF TypeOK, Exists, ScanState
<1>1. ASSUME NEW to \in 0..MaxTurns, NEW covered \in Nat, row' = Settled(to, covered)
      PROVE  row'.cursor >= row.cursor
  <2>1. row'.cursor = AtLeast(row.cursor, to)
    BY <1>0, <1>1 DEF Settled, ScanState
  <2> QED
    BY <1>0, <2>1 DEF AtLeast
<1>2. \A s \in Scanners : seg[s].last \in 0..MaxTurns
  BY DEF TypeOK, Segments
<1>3. ~Archive
  BY DEF Archive
<1>4. row'.cursor = row.cursor \/ row'.cursor >= row.cursor
  BY <1>0, <1>1, <1>2, <1>3, RowWrites DEF RowWrite, ScanState
<1> QED
  BY <1>0, <1>4

\* A relationship's cursor never moves back, whatever old scan settles late.
THEOREM CursorNeverBack == Spec => CursorMonotonic
  <1>1. TypeOK /\ [Next]_vars => [Exists /\ row' # NoRow => row'.cursor >= row.cursor]_vars
    BY CursorStep
  <1> QED
    BY <1>1, TypeCorrectness, PTL DEF Spec, CursorMonotonic

-----------------------------------------------------------------------------
(***************************************************************************)
(* The turns: they land in order, in the epoch of their landing.           *)
(***************************************************************************)
TurnsInv ==
    /\ TypeOK
    /\ \A t \in Turns : turn[t] # "absent" <=> t <= Newest
    /\ \A t \in Turns : epochOf[t] <= epoch

\* Only landing changes which turns have landed; it adds the next.
LEMMA LandedStep ==
    ASSUME TypeOK, [Next]_vars
    PROVE  \/ UNCHANGED <<Landed, Newest, epochOf>>
           \/ \E t \in Turns : Land(t)
<1>1. ASSUME Landed' = Landed, epochOf' = epochOf PROVE UNCHANGED <<Landed, Newest, epochOf>>
  BY <1>1 DEF Newest
<1>2. CASE UNCHANGED <<turn, epochOf>>
  BY <1>1, <1>2 DEF Landed
<1>3. ASSUME NEW t \in Turns, SeeTurn(t) \/ Bump(t) \/ BumpLost(t)
      PROVE  Landed' = Landed /\ epochOf' = epochOf
  BY <1>3 DEF SeeTurn, Bump, BumpLost, Landed, TypeOK
<1>4. CASE Crash
  BY <1>1, <1>4 DEF Crash, Landed, TypeOK
<1> QED
  BY <1>1, <1>2, <1>3, <1>4
  DEF Next, vars, turnVars, ClaimInline, ClaimDue, StartOfBatch, Step, Load, ReleaseClaim,
      Read, Call, Check, WriteEpisode, Settle, SettleEmpty, Fail, Archive, Tick

\* The next turn lands: it is one more.
LEMMA LandAddsOne ==
    ASSUME TurnsInv, NEW t \in Turns, Land(t)
    PROVE  /\ Landed' = Landed \cup {t}
           /\ Newest' = Newest + 1 /\ t = Newest'
           /\ epochOf' = [epochOf EXCEPT ![t] = epoch] /\ epoch' = epoch
           /\ UNCHANGED <<row, scanVars, read, struckOut>>
<1>1. t = Newest + 1 /\ Newest \in Nat
  BY NewestType DEF Land
<1>2. t \notin Landed
  BY <1>1 DEF TurnsInv, Landed
<1>3. Landed' = Landed \cup {t}
  BY DEF Land, Landed, TurnsInv, TypeOK
<1>4. IsFiniteSet(Landed)
  BY TurnsCardinality DEF Landed
<1>5. Newest' = Newest + 1
  BY <1>2, <1>3, <1>4, FS_AddElement DEF Newest
<1> QED
  BY <1>1, <1>3, <1>5 DEF Land, scanVars, ledger

LEMMA TurnsStep == TurnsInv /\ [Next]_vars => TurnsInv'
<1> SUFFICES ASSUME TurnsInv, [Next]_vars PROVE TurnsInv'
  OBVIOUS
<1>0. TypeOK /\ TypeOK'
  BY TypeStep DEF TurnsInv
<1>1. epoch' >= epoch /\ epoch \in Int /\ \A t \in Turns : epochOf[t] \in Int
  <2>1. epoch \in Int /\ \A t \in Turns : epochOf[t] \in Int
    BY <1>0, BoundAssumption DEF TypeOK, Epochs
  <2>2. epoch' = epoch \/ epoch' = epoch + 1
    BY DEF Next, vars, Land, SeeTurn, Bump, BumpLost, ClaimInline, ClaimDue,
           StartOfBatch, Step, Load, ReleaseClaim, Read, Call, Check, WriteEpisode, Settle,
           SettleEmpty, Fail, Archive, Crash, Tick
  <2> QED
    BY <2>1, <2>2
<1>2. CASE UNCHANGED <<Landed, Newest, epochOf>>
  <2>1. \A t \in Turns : turn'[t] # "absent" <=> turn[t] # "absent"
    BY <1>2 DEF Landed
  <2>2. \A t \in Turns : turn'[t] # "absent" <=> t <= Newest'
    BY <1>2, <2>1 DEF TurnsInv
  <2>3. \A t \in Turns : epochOf'[t] <= epoch'
    <3>1. epoch' \in Int
      BY <1>0, BoundAssumption DEF TypeOK, Epochs
    <3> QED
      BY <1>1, <1>2, <3>1 DEF TurnsInv
  <2> QED
    BY <1>0, <2>2, <2>3 DEF TurnsInv
<1>3. ASSUME NEW t \in Turns, Land(t) PROVE TurnsInv'
  <2>1. \A u \in Turns : turn'[u] # "absent" <=> u \in Landed \/ u = t
    BY <1>3, LandAddsOne DEF Landed
  <2>2. \A u \in Turns : u \in Landed \/ u = t <=> u <= Newest'
    BY <1>3, LandAddsOne, NewestType, TurnsAssumption DEF TurnsInv, Landed, Turns
  <2>3. \A u \in Turns : epochOf'[u] <= epoch'
    BY <1>1, <1>3, LandAddsOne DEF TurnsInv, TypeOK
  <2> QED
    BY <1>0, <2>1, <2>2, <2>3 DEF TurnsInv
<1> QED
  BY <1>0, <1>2, <1>3, LandedStep

LEMMA TurnsInvariant == Spec => []TurnsInv
  <1>1. Init => TurnsInv
    <2>1. Init => Landed = {}
      BY DEF Init, Landed
    <2>2. Init => Newest = 0
      BY <2>1, FS_EmptySet DEF Newest
    <2> QED
      BY <2>2, ScanTypeInit DEF Init, TurnsInv, Turns
  <1> QED
    BY <1>1, TurnsStep, PTL DEF Spec

\* A turn of the present epoch stays one until the relationship is archived,
\* which leaves none; only a turn that lands becomes one.
LEMMA LiveStays ==
    ASSUME TurnsInv, [Next]_vars, NEW t \in Turns
    PROVE  /\ ~Archive => (Live(t) => Live(t)')
           /\ Live(t)' => Live(t) \/ t = Newest'
           /\ Archive => ~Live(t)'
<1>0. TypeOK /\ epoch \in Int /\ epochOf[t] \in Int /\ epochOf[t] <= epoch
  BY BoundAssumption DEF TurnsInv, TypeOK, Epochs
<1>1. CASE Archive
  BY <1>0, <1>1 DEF Archive, Live, Landed, turnVars
<1>2. CASE ~Archive
  <2>1. epoch' = epoch
    BY <1>2
    DEF Next, vars, Land, SeeTurn, Bump, BumpLost, ClaimInline, ClaimDue,
        StartOfBatch, Step, Load, ReleaseClaim, Read, Call, Check, WriteEpisode, Settle,
        SettleEmpty, Fail, Crash, Tick
  <2>2. CASE UNCHANGED <<Landed, Newest, epochOf>>
    BY <1>2, <2>1, <2>2 DEF Live
  <2>3. ASSUME NEW u \in Turns, Land(u)
        PROVE  (Live(t) => Live(t)') /\ (Live(t)' => Live(t) \/ t = Newest')
    <3>1. CASE t = u
      <4>1. epochOf'[t] = epoch /\ t \in Landed' /\ t = Newest'
        BY <1>0, <2>3, <3>1, LandAddsOne DEF TypeOK
      <4> QED
        BY <2>1, <4>1 DEF Live
    <3>2. CASE t # u
      BY <1>0, <2>1, <2>3, <3>2, LandAddsOne DEF TypeOK, Live
    <3> QED
      BY <3>1, <3>2
  <2> QED
    BY <1>0, <1>2, <2>2, <2>3, LandedStep
<1> QED
  BY <1>1, <1>2

-----------------------------------------------------------------------------
(***************************************************************************)
(* What an archive leaves behind: a claim on the row of a new epoch was    *)
(* taken in it, and only under a claim is a turn told.                     *)
(***************************************************************************)
ArchivedInv ==
    /\ Claimed => epoch \in claimedIn
    /\ ArchivedStaysGone

LEMMA ArchivedStep ==
    ASSUME TurnsInv, ArchivedInv, [Next]_vars
    PROVE  ArchivedInv'
<1>0. TypeOK
  BY DEF TurnsInv
<1>1. CASE Archive
  <2>1. ~Claimed'
    BY <1>1 DEF Archive, Claimed, Exists
  <2>2. \A t \in Turns : told'[t] = 0
    BY <1>1 DEF Archive
  <2> QED
    BY <2>1, <2>2 DEF ArchivedInv, ArchivedStaysGone
<1>2. CASE ~Archive
  <2>1. epoch' = epoch /\ claimedIn \subseteq claimedIn'
    BY <1>2
    DEF Next, vars, Land, SeeTurn, Bump, BumpLost, ClaimInline, ClaimDue, Begin,
        StartOfBatch, Step, Load, ReleaseClaim, Read, Call, Check, WriteEpisode, Settle,
        SettleEmpty, Fail, Crash, Tick
  <2>2. Claimed' => epoch' \in claimedIn'
    <3>1. Claimed => epoch' \in claimedIn'
      BY <2>1 DEF ArchivedInv
    <3> QED
      BY <1>0, <1>2, <2>1, <3>1, ClaimWrites DEF Claimed, Exists
  <2>3. ASSUME NEW t \in Turns, told'[t] > 0 PROVE Live(t)' \/ epoch' \in claimedIn'
    <3>1. told'[t] = told[t] \/ Claimed
      BY <1>2
      DEF Next, vars, Land, SeeTurn, Bump, BumpLost, ClaimInline, ClaimDue,
          StartOfBatch, Step, Load, ReleaseClaim, Read, Call, Check, WriteEpisode, MayInsert,
          Settle, SettleEmpty, Fail, Crash, Tick
    <3>2. told'[t] = told[t] => Live(t) \/ epoch \in claimedIn
      BY <2>3 DEF ArchivedInv, ArchivedStaysGone
    <3> QED
      BY <1>2, <2>1, <3>1, <3>2, LiveStays DEF ArchivedInv
  <2> QED
    BY <2>2, <2>3 DEF ArchivedInv, ArchivedStaysGone
<1> QED
  BY <1>1, <1>2

\* A scan that outlived an archive writes nothing of the archived conversation,
\* until the new one is claimed for a scan of its own.
THEOREM ArchivedIsForgotten == Spec => []ArchivedStaysGone
  <1>1. Init => ArchivedInv
    BY DEF Init, ArchivedInv, ArchivedStaysGone, Claimed, Exists
  <1>2. ArchivedInv => ArchivedStaysGone
    BY DEF ArchivedInv
  <1> QED
    BY <1>1, <1>2, TurnsInvariant, ArchivedStep, PTL DEF Spec

-----------------------------------------------------------------------------
(***************************************************************************)
(* One scanner: a scanner at work that lost no claim holds the row's, and  *)
(* no other does.                                                          *)
(***************************************************************************)
Holder(s) == Working(s) /\ s \notin lost

HoldInv ==
    \A s \in Scanners : Holder(s) =>
        /\ Claimed
        /\ \A z \in Scanners : Holder(z) => z = s

\* Where nobody becomes a holder and the claim stands, the invariant does.
LEMMA HoldStays ==
    ASSUME HoldInv, \A s \in Scanners : Holder(s)' => Holder(s), Claimed => Claimed'
    PROVE  HoldInv'
  BY DEF HoldInv

\* A scanner that lets go leaves no holder: its own claim was the only one, or
\* it lets go of the other's.
LEMMA NoHolderAfter ==
    ASSUME TypeOK, HoldInv, NEW s \in Scanners, Working(s), LetGo(s), NEW z \in Scanners
    PROVE  ~Holder(z)'
<1>1. CASE z = s
  BY <1>1 DEF LetGo, Leave, Holder, Working, TypeOK
<1>2. CASE z # s
  <2>1. Working(z)' => Working(z)
    BY <1>2 DEF LetGo, Leave, Working, TypeOK
  <2>2. CASE s \in lost
    BY <1>2, <2>1, <2>2 DEF LetGo, AtWork, Holder
  <2>3. CASE s \notin lost
    <3>1. ~Holder(z)
      BY <1>2, <2>3 DEF HoldInv, Holder
    <3>2. z \in lost => z \in lost'
      BY <1>2 DEF LetGo
    <3> QED
      BY <2>1, <3>1, <3>2 DEF Holder
  <2> QED
    BY <2>2, <2>3
<1> QED
  BY <1>1, <1>2

\* A scanner that takes the claim is its only holder: a claim that was free had
\* none, one that went stale is lost to whoever worked under it.
LEMMA OneHolderAfter ==
    ASSUME TypeOK, HoldInv, NEW s \in Scanners, NEW to, NEW bound,
           Exists, Free, Begin(s, to, bound), NEW z \in Scanners, Holder(z)'
    PROVE  z = s
<1> SUFFICES ASSUME z # s PROVE FALSE
  OBVIOUS
<1>1. Working(z)
  BY DEF Begin, Holder, Working, TypeOK
<1>2. CASE row.claim > Stale
  BY <1>1, <1>2 DEF Begin, Holder, AtWork
<1>3. CASE row.claim = Unclaimed
  <2>1. z \notin lost
    BY DEF Begin, Holder
  <2> QED
    BY <1>1, <1>3, <2>1 DEF HoldInv, Holder, Claimed
<1> QED
  BY <1>2, <1>3 DEF Free

LEMMA HoldStep ==
    ASSUME TypeOK, HoldInv, [Next]_vars
    PROVE  HoldInv'
<1>0. /\ Sweeper \in Scanners /\ InlineScans \subseteq Scanners
      /\ stage \in [Scanners -> Stages]
      /\ Exists => row \in ScanState
  BY DEF Scanners, TypeOK, Exists
<1>1. ASSUME UNCHANGED <<stage, lost>>, Claimed => Claimed' PROVE HoldInv'
  BY <1>1, HoldStays DEF Holder, Working
<1>2. ASSUME NEW t \in Turns, Land(t) \/ SeeTurn(t) \/ BumpLost(t) PROVE HoldInv'
  BY <1>1, <1>2 DEF Land, SeeTurn, BumpLost, scanVars, Claimed, Exists
<1>3. ASSUME NEW t \in Turns, Bump(t) PROVE HoldInv'
  <2>1. UNCHANGED <<stage, lost>>
    BY <1>3 DEF Bump, scanVars
  <2>2. ASSUME Claimed PROVE Claimed'
    <3>1. Exists /\ row' = [row EXCEPT !.pending = AtMost(@ + 1, MaxTurns), !.idle = 0]
      BY <1>3, <2>2 DEF Bump, Claimed
    <3>2. row' \in ScanState
      BY <1>0, <3>1, BumpedType
    <3>3. row'.claim = row.claim
      BY <1>0, <3>1 DEF ScanState
    <3> QED
      BY <2>2, <3>2, <3>3, NoRowAssumption DEF Claimed, Exists
  <2> QED
    BY <1>1, <2>1, <2>2
<1>4. ASSUME Exists, row' = [row EXCEPT !.claim = 0] PROVE Claimed'
  <2>1. row' \in ScanState /\ row'.claim = 0
    BY <1>0, <1>4, ClaimType DEF ScanState
  <2> QED
    BY <2>1, NoRowAssumption DEF Claimed, Exists, Unclaimed
<1>5. ASSUME NEW s \in Scanners, NEW to, NEW bound,
             Exists, Free, row' = [row EXCEPT !.claim = 0], Begin(s, to, bound)
      PROVE  HoldInv'
  <2>1. Claimed'
    BY <1>4, <1>5
  <2>2. \A z \in Scanners : Holder(z)' => z = s
    BY <1>5, OneHolderAfter
  <2> QED
    BY <2>1, <2>2 DEF HoldInv
\* A step of a scanner's own under the claim, or the last of them.
<1>6. ASSUME NEW s \in Scanners, Working(s),
             \/ lost' = lost /\ \E to : stage' = [stage EXCEPT ![s] = to]
             \/ Done(s),
             row' = row \/ (Exists /\ row' = [row EXCEPT !.claim = 0])
      PROVE  HoldInv'
  <2>1. ASSUME NEW z \in Scanners, Holder(z)' PROVE Holder(z)
    <3>1. CASE z = s
      BY <1>0, <1>6, <2>1, <3>1 DEF Done, Leave, Holder, Working
    <3>2. CASE z # s
      BY <1>0, <1>6, <2>1, <3>2 DEF Done, Leave, Holder, Working
    <3> QED
      BY <3>1, <3>2
  <2>2. Claimed => Claimed'
    BY <1>4, <1>6 DEF Claimed, Exists
  <2> QED
    BY <2>1, <2>2, HoldStays
<1>7. ASSUME NEW s \in Scanners, Working(s), LetGo(s) PROVE HoldInv'
  BY <1>7, NoHolderAfter DEF HoldInv
<1>8. ASSUME NEW s \in InlineScans, NEW t \in Turns, ClaimInline(s, t) PROVE HoldInv'
  <2>1. CASE Begin(s, "load", t) /\ Exists /\ Free /\ row' = [row EXCEPT !.claim = 0]
    BY <1>0, <1>5, <2>1
  <2>2. CASE UNCHANGED <<row, stage, lost>>
    BY <1>1, <2>2 DEF Claimed, Exists
  <2> QED
    BY <1>8, <2>1, <2>2 DEF ClaimInline, scanVars
<1>9. CASE ClaimDue
  BY <1>0, <1>5, <1>9 DEF ClaimDue
<1>10. CASE StartOfBatch
  <2>1. Working(Sweeper)
    BY <1>10 DEF StartOfBatch, Working
  <2>2. \/ lost' = lost /\ \E to : stage' = [stage EXCEPT ![Sweeper] = to]
        \/ Done(Sweeper)
    BY <1>10 DEF StartOfBatch
  <2>3. row' = row \/ (Exists /\ row' = [row EXCEPT !.claim = 0])
    BY <1>10 DEF StartOfBatch, Claimed
  <2> QED
    BY <1>0, <1>6, <2>1, <2>2, <2>3
<1>11. ASSUME NEW s \in Scanners, Step(s) PROVE HoldInv'
  <2>1. Working(s)
    BY <1>11 DEF Step, Load, ReleaseClaim, Read, Call, Check, WriteEpisode, Settle,
       SettleEmpty, Fail, Working
  <2>2. CASE Load(s) \/ Read(s) \/ Call(s) \/ WriteEpisode(s)
    <3>1. row' = row
      BY <2>2 DEF Load, Read, Call, WriteEpisode
    <3>2. \/ lost' = lost /\ \E to : stage' = [stage EXCEPT ![s] = to]
          \/ Done(s)
      BY <2>2 DEF Load, Read, Call, WriteEpisode, GoTo
    <3> QED
      BY <1>6, <2>1, <3>1, <3>2
  <2>3. CASE Check(s)
    <3>1. /\ \/ lost' = lost /\ \E to : stage' = [stage EXCEPT ![s] = to]
             \/ Done(s)
          /\ row' = row \/ (Exists /\ row' = [row EXCEPT !.claim = 0])
      BY <2>3 DEF Check, GoTo, Claimed
    <3> QED
      BY <1>6, <2>1, <3>1
  <2>4. CASE ReleaseClaim(s) \/ Settle(s) \/ SettleEmpty(s) \/ Fail(s)
    <3>1. LetGo(s) \/ (Done(s) /\ row' = row)
      BY <2>4 DEF ReleaseClaim, Settle, SettleEmpty, Fail
    <3> QED
      BY <1>6, <1>7, <2>1, <3>1
  <2> QED
    BY <1>11, <2>2, <2>3, <2>4 DEF Step
<1>12. CASE Archive
  BY <1>12 DEF Archive, HoldInv, Holder, Working, AtWork
<1>13. CASE Crash
  BY <1>13 DEF Crash, HoldInv, Holder, Working
<1>14. CASE Tick
  <2>1. UNCHANGED <<stage, lost>> /\ Exists
    BY <1>14 DEF Tick, scanVars
  <2>2. ASSUME Claimed PROVE Claimed'
    <3>1. row' \in ScanState
      BY <1>0, <1>14, <2>1, TickedType DEF Tick
    <3>2. row'.claim = IF row.claim = Unclaimed THEN row.claim
                       ELSE AtMost(row.claim + 1, Stale + 1)
      BY <1>0, <1>14, <2>1 DEF Tick, ScanState
    <3>3. row.claim \in 0..(Stale + 1) /\ row.claim # Unclaimed
      BY <1>0, <2>1, <2>2 DEF Claimed, ScanState
    <3>4. row'.claim # Unclaimed
      BY <3>2, <3>3, KnobAssumption DEF AtMost, Unclaimed
    <3> QED
      BY <3>1, <3>4, NoRowAssumption DEF Claimed, Exists
  <2> QED
    BY <1>1, <2>1, <2>2
<1>15. CASE UNCHANGED vars
  BY <1>1, <1>15 DEF vars, scanVars, Claimed, Exists
<1> QED
  BY <1>2, <1>3, <1>8, <1>9, <1>10, <1>11, <1>12, <1>13, <1>14, <1>15 DEF Next

\* Of two scanners at work on the relationship, one has lost its claim, however
\* slow the scanners are, and whatever is archived, fails or dies.
THEOREM ScannersApart == Spec => []OneScanner
  <1>1. Init => HoldInv
    BY DEF Init, HoldInv, Holder, Working
  <1>2. TypeOK /\ HoldInv /\ [Next]_vars => HoldInv'
    BY HoldStep
  <1>3. HoldInv => OneScanner
    BY DEF HoldInv, OneScanner, Holding, Holder, Working
  <1> QED
    BY <1>1, <1>2, <1>3, TypeCorrectness, PTL DEF Spec
-----------------------------------------------------------------------------
(***************************************************************************)
(* What the cursor passed was read or given up.  The cursor moves to the   *)
(* end of a segment some scan read, and a scan's segment, however old,     *)
(* holds every live turn between its ends; the turns below its beginning   *)
(* the cursor has passed already, the turns that land later lie above its  *)
(* end.                                                                    *)
(***************************************************************************)
SegmentInv(s) ==
    /\ seg[s].bound <= Newest /\ seg[s].after <= Newest /\ seg[s].last <= Newest
    /\ stage[s] \in {"batched", "load"} => seg[s].last = 0
    /\ \A t \in Turns : Live(t) /\ t <= seg[s].after => Exists /\ t <= row.cursor
    /\ \A t \in Between(seg[s].after, seg[s].last) : Live(t) => t \in seg[s].turns

CoverInv ==
    /\ TurnsInv
    /\ due \subseteq Landed
    /\ Exists => row.cursor <= Newest
    /\ CursorCoversRead
    /\ \A s \in Scanners : SegmentInv(s)

\* A segment holds every live turn up to its last, and is empty only where no
\* live turn is.
LEMMA SegmentIsPrefix ==
    ASSUME NEW g \in Segments
    PROVE  /\ Segment(g) = {} => \A t \in Between(g.after, g.bound) : ~Live(t)
           /\ Segment(g) # {} => /\ Max(Segment(g)) <= g.bound
                                 /\ \A t \in Between(g.after, Max(Segment(g))) :
                                        Live(t) => t \in Segment(g)
<1> DEFINE rows == {t \in Between(g.after, g.bound) : Live(t)}
           upTo(t) == {u \in rows : u <= t}
<1>0. /\ rows \in SUBSET Turns /\ rows \in SUBSET Nat
      /\ Turns \subseteq Nat /\ g.after \in Nat /\ g.bound \in Nat
  BY TurnsAssumption DEF Between, Turns, Segments
<1>1. Segment(g) = {t \in rows : Cardinality(upTo(t)) <= MaxRowsPerScan}
  BY DEF Segment
<1>2. \A t \in rows : IsFiniteSet(upTo(t)) /\ Cardinality(upTo(t)) \in Nat
  <2>1. \A t \in rows : upTo(t) \in SUBSET Turns
    BY <1>0
  <2> QED
    BY <2>1, TurnsCardinality
<1> HIDE DEF rows, upTo
<1>3. ASSUME Segment(g) = {} PROVE rows = {}
  <2> SUFFICES ASSUME rows # {} PROVE FALSE
    OBVIOUS
  <2>1. PICK t \in rows : \A u \in rows : t <= u
    BY <1>0, LeastExists
  <2>2. \A u \in rows : u \in Nat
    BY <1>0
  <2>3. \A u \in rows : u <= t <=> u = t
    BY <2>1, <2>2
  <2>4. upTo(t) = {t}
    BY <2>1, <2>3 DEF upTo
  <2>5. Cardinality(upTo(t)) = 1
    BY <2>4, FS_Singleton
  <2>6. t \in Segment(g)
    BY <1>1, <2>1, <2>5, KnobAssumption
  <2> QED
    BY <1>3, <2>6
<1>4. ASSUME Segment(g) # {}
      PROVE  /\ Max(Segment(g)) <= g.bound
             /\ \A t \in Between(g.after, Max(Segment(g))) : Live(t) => t \in Segment(g)
  <2> DEFINE m == Max(Segment(g))
  <2>1. m \in Segment(g)
    BY <1>4, MaxIsLast, SegmentTurns
  <2>2. m \in rows /\ Cardinality(upTo(m)) <= MaxRowsPerScan
    BY <1>1, <2>1
  <2> HIDE DEF m
  <2>3. m \in Nat /\ m <= g.bound
    BY <1>0, <2>2 DEF rows, Between
  <2>4. ASSUME NEW t \in Between(g.after, m), Live(t) PROVE t \in Segment(g)
    <3>1. t \in rows /\ t <= m
      BY <1>0, <2>3, <2>4 DEF rows, Between
    <3>2. upTo(t) \subseteq upTo(m)
      <4>1. t \in Nat /\ m \in Nat /\ \A u \in rows : u \in Nat
        BY <1>0, <2>3, <3>1
      <4>2. \A u \in rows : u <= t => u <= m
        BY <3>1, <4>1
      <4> QED
        BY <4>2 DEF upTo
    <3>3. Cardinality(upTo(t)) <= Cardinality(upTo(m))
      BY <1>2, <2>2, <3>2, FS_Subset
    <3>4. Cardinality(upTo(t)) <= MaxRowsPerScan
      BY <1>2, <2>2, <3>1, <3>3, KnobAssumption
    <3> QED
      BY <1>1, <3>1, <3>4
  <2> QED
    BY <2>3, <2>4 DEF m
<1> QED
  BY <1>3, <1>4 DEF rows

\* Only a turn that lands becomes live, above every turn there was.
LEMMA LiveIsNew ==
    ASSUME TurnsInv, [Next]_vars, NEW t \in Turns, Live(t)'
    PROVE  ~Archive /\ (Live(t) \/ t > Newest) /\ Newest' >= Newest
<1>0. Newest \in Nat /\ ~Archive
  BY NewestType, TurnsAssumption, LiveStays
<1>1. CASE UNCHANGED <<Landed, Newest, epochOf>>
  <2>1. epoch' = epoch
    BY <1>0
    DEF Next, vars, Land, SeeTurn, Bump, BumpLost, ClaimInline, ClaimDue,
        StartOfBatch, Step, Load, ReleaseClaim, Read, Call, Check, WriteEpisode, Settle,
        SettleEmpty, Fail, Crash, Tick
  <2> QED
    BY <1>0, <1>1, <2>1 DEF Live
<1>2. ASSUME NEW u \in Turns, Land(u) PROVE (Live(t) \/ t > Newest) /\ Newest' >= Newest
  BY <1>0, <1>2, LandAddsOne, LiveStays
<1> QED
  BY <1>0, <1>1, <1>2, LandedStep DEF TurnsInv

\* The turns that landed only grow in number.
LEMMA NewestGrows ==
    ASSUME TurnsInv, [Next]_vars
    PROVE  Newest' >= Newest /\ Newest \in Nat /\ Newest' \in Nat /\ Landed \subseteq Landed'
<1>0. Newest \in Nat
  BY NewestType, TurnsAssumption
<1>1. ASSUME NEW u \in Turns, Land(u)
      PROVE  Newest' >= Newest /\ Newest' \in Nat /\ Landed \subseteq Landed'
  BY <1>0, <1>1, LandAddsOne
<1>2. CASE UNCHANGED <<Landed, Newest, epochOf>>
  BY <1>0, <1>2
<1> QED
  BY <1>0, <1>1, <1>2, LandedStep DEF TurnsInv

\* What a step makes of the cursor.
LEMMA CursorWrites ==
    ASSUME TypeOK, [Next]_vars, ~Archive
    PROVE  \/ row' = row
           \/ /\ Exists /\ row' # NoRow
              /\ row'.liveFrom = row.liveFrom /\ row'.cursor = row.cursor
           \/ ~Exists /\ row' # NoRow /\ \E t \in Landed : row' = Opened(t)
           \/ /\ Exists /\ row' # NoRow
              /\ row'.liveFrom = row.liveFrom
              /\ \E s \in Scanners : /\ row'.cursor = AtLeast(row.cursor, seg[s].last)
                                     /\ seg[s].turns \subseteq read' \cup struckOut'
<1>0. /\ Exists => row \in ScanState
      /\ \A s \in Scanners : seg[s].last \in 0..MaxTurns
  BY DEF TypeOK, Exists, Segments
<1> DEFINE Kept == row'.liveFrom = row.liveFrom /\ row'.cursor = row.cursor
<1>1. ASSUME Exists, NEW pending \in 0..MaxTurns,
             row' = [row EXCEPT !.pending = pending, !.idle = 0]
      PROVE  row' # NoRow /\ Kept
  <2>1. row' \in ScanState
    <3>1. 0 \in 0..(Idle + 1)
      BY KnobAssumption
    <3> QED
      BY <1>0, <1>1, <3>1 DEF ScanState
  <2>2. Kept
    BY <1>0, <1>1 DEF ScanState
  <2> QED
    BY <2>1, <2>2, NoRowAssumption
<1>2. ASSUME NEW t \in Landed, row' = Opened(t) PROVE row' # NoRow
  BY <1>2, OpenedType, NoRowAssumption DEF Landed
<1>3. ASSUME Exists, \/ row' = [row EXCEPT !.claim = 0]
                     \/ row' = [row EXCEPT !.claim = Unclaimed]
      PROVE  row' # NoRow /\ Kept
  <2>1. row' \in ScanState
    BY <1>0, <1>3, ClaimType
  <2>2. Kept
    BY <1>0, <1>3 DEF ScanState
  <2> QED
    BY <2>1, <2>2, NoRowAssumption
<1>4. ASSUME Exists, ~StrikesOut,
             row' = [row EXCEPT !.failures = @ + 1, !.idle = 0, !.claim = Unclaimed]
      PROVE  row' # NoRow /\ Kept
  <2>1. row' \in ScanState
    BY <1>0, <1>4, FailedType
  <2>2. Kept
    BY <1>0, <1>4 DEF ScanState
  <2> QED
    BY <2>1, <2>2, NoRowAssumption
<1>5. ASSUME NEW to \in 0..MaxTurns, NEW covered \in Nat, Exists, row' = Settled(to, covered)
      PROVE  /\ row' # NoRow /\ row'.liveFrom = row.liveFrom
             /\ row'.cursor = AtLeast(row.cursor, to)
  <2>1. row' \in ScanState
    BY <1>0, <1>5, SettledType
  <2>2. row'.liveFrom = row.liveFrom /\ row'.cursor = AtLeast(row.cursor, to)
    BY <1>0, <1>5 DEF Settled, ScanState
  <2> QED
    BY <2>1, <2>2, NoRowAssumption
<1>6. ASSUME Exists, row' = [row EXCEPT
                    !.claim = IF @ = Unclaimed THEN @ ELSE AtMost(@ + 1, Stale + 1),
                    !.idle = AtMost(@ + 1, Idle + 1)]
      PROVE  row' # NoRow /\ Kept
  <2>1. row' \in ScanState
    BY <1>0, <1>6, TickedType
  <2>2. Kept
    BY <1>0, <1>6 DEF ScanState
  <2> QED
    BY <2>1, <2>2, NoRowAssumption
<1> QED
  BY <1>0, <1>1, <1>2, <1>3, <1>4, <1>5, <1>6, RowWrites DEF RowWrite, Claimed

\* Where a scan has read no turns yet.
Early == {"none", "batched", "load", "release", "read"}

\* What a step makes of a scanner's segment.
SegmentWrite(s) ==
    \/ /\ seg'[s] = seg[s]
       /\ stage'[s] \in {"batched", "load"} => stage[s] \in {"batched", "load"}
       /\ stage'[s] \in Early => stage[s] \in Early
    \/ \E bound \in due \cup {0} : seg'[s] = [NoSegment EXCEPT !.bound = bound]
    \/ stage[s] = "batched" /\ seg'[s] = [seg[s] EXCEPT !.bound = Newest]
    \/ /\ Exists /\ UNCHANGED <<row, Landed, epochOf, epoch>>
       /\ stage[s] = "load" /\ stage'[s] \notin {"batched", "load"}
       /\ \E pending \in 0..MaxTurns :
             seg'[s] = [seg[s] EXCEPT !.after = row.cursor, !.pending = pending]
    \/ /\ UNCHANGED <<row, Landed, epochOf, epoch>>
       /\ stage[s] = "read" /\ stage'[s] \notin Early
       /\ \/ seg'[s] = [seg[s] EXCEPT !.turns = Segment(seg[s]),
                                       !.last = IF Segment(seg[s]) = {} THEN seg[s].bound
                                                ELSE Max(Segment(seg[s]))]
          \/ seg'[s] = [seg[s] EXCEPT !.last = seg[s].after]

\* A scan's own step.
LEMMA OwnSegment ==
    ASSUME TypeOK, NEW s \in Scanners, Step(s)
    PROVE  SegmentWrite(s)
<1> USE DEF turnVars, scanVars
<1>0. seg \in [Scanners -> Segments] /\ stage \in [Scanners -> Stages]
  BY DEF TypeOK
<1>1. CASE Leave(s)
  <2>1. seg'[s] = [NoSegment EXCEPT !.bound = 0]
    BY <1>0, <1>1 DEF Leave, NoSegment
  <2> QED
    BY <2>1 DEF SegmentWrite
<1>2. ASSUME NEW to \in Stages \ Early, stage' = [stage EXCEPT ![s] = to], seg' = seg
      PROVE  SegmentWrite(s)
  BY <1>0, <1>2 DEF Early, SegmentWrite
<1>3. CASE Load(s)
  <2>1. CASE ~Leave(s)
    <3>1. /\ Exists /\ UNCHANGED <<row, turn, epochOf, epoch>>
          /\ stage[s] = "load" /\ stage'[s] \in {"release", "read"}
          /\ seg'[s] = [seg[s] EXCEPT !.after = row.cursor, !.pending = row.pending]
      BY <1>0, <1>3, <2>1 DEF Load, Done
    <3>2. row.pending \in 0..MaxTurns
      BY <3>1 DEF TypeOK, Exists, ScanState
    <3>3. Landed' = Landed
      BY <3>1 DEF Landed
    <3> QED
      BY <3>1, <3>2, <3>3 DEF SegmentWrite
  <2> QED
    BY <1>1, <2>1
<1>4. CASE Read(s)
  <2>1. /\ UNCHANGED <<row, turn, epochOf, epoch>> /\ stage[s] = "read"
        /\ stage'[s] \in {"settle_empty", "call", "fail"}
        /\ \/ seg'[s] = [seg[s] EXCEPT !.turns = Segment(seg[s]),
                                        !.last = IF Segment(seg[s]) = {} THEN seg[s].bound
                                                 ELSE Max(Segment(seg[s]))]
           \/ seg'[s] = [seg[s] EXCEPT !.last = seg[s].after]
    BY <1>0, <1>4 DEF Read
  <2>2. Landed' = Landed
    BY <2>1 DEF Landed
  <2> QED
    BY <2>1, <2>2 DEF SegmentWrite, Early
<1>5. CASE Call(s)
  BY <1>2, <1>5 DEF Call, GoTo, Stages, Early
<1>6. CASE Check(s)
  BY <1>1, <1>2, <1>6 DEF Check, GoTo, Done, Stages, Early
<1>7. CASE WriteEpisode(s)
  BY <1>1, <1>2, <1>7 DEF WriteEpisode, GoTo, Done, Stages, Early
<1>8. CASE ReleaseClaim(s) \/ Settle(s) \/ SettleEmpty(s) \/ Fail(s)
  BY <1>1, <1>8 DEF ReleaseClaim, Settle, SettleEmpty, Fail, Done, LetGo
<1> QED
  BY <1>3, <1>4, <1>5, <1>6, <1>7, <1>8 DEF Step

\* A step changes the segment of the scanner that takes it, unless the process
\* dies.
LEMMA SegmentWrites ==
    ASSUME TypeOK, [Next]_vars, NEW s \in Scanners
    PROVE  SegmentWrite(s)
<1> USE DEF turnVars, scanVars
<1>0. /\ seg \in [Scanners -> Segments] /\ stage \in [Scanners -> Stages]
      /\ Sweeper \in Scanners /\ InlineScans \subseteq Scanners
  BY DEF TypeOK, Scanners
<1>1. CASE seg'[s] = seg[s] /\ stage'[s] = stage[s]
  BY <1>1 DEF SegmentWrite
<1>2. ASSUME NEW z \in InlineScans, NEW t \in Turns, ClaimInline(z, t)
      PROVE  SegmentWrite(s)
  <2>1. t \in due
    BY <1>2 DEF ClaimInline
  <2>2. CASE z = s /\ Begin(z, "load", t)
    <3>1. seg'[s] = [NoSegment EXCEPT !.bound = t]
      BY <1>0, <2>2 DEF Begin
    <3> QED
      BY <2>1, <3>1 DEF SegmentWrite
  <2>3. CASE z # s \/ ~Begin(z, "load", t)
    <3>1. seg'[s] = seg[s] /\ stage'[s] = stage[s]
      BY <1>0, <1>2, <2>3 DEF ClaimInline, Begin
    <3> QED
      BY <1>1, <3>1
  <2> QED
    BY <2>2, <2>3
<1>3. CASE ClaimDue
  <2>1. s # Sweeper => seg'[s] = seg[s] /\ stage'[s] = stage[s]
    BY <1>0, <1>3 DEF ClaimDue, Begin
  <2>2. s = Sweeper => seg'[s] = [NoSegment EXCEPT !.bound = 0]
    BY <1>0, <1>3 DEF ClaimDue, Begin
  <2> QED
    BY <1>1, <2>1, <2>2 DEF SegmentWrite
<1>4. CASE StartOfBatch
  <2>1. CASE s # Sweeper
    <3>1. seg'[s] = seg[s] /\ stage'[s] = stage[s]
      BY <1>0, <1>4, <2>1 DEF StartOfBatch, Done, LetGo, Leave
    <3> QED
      BY <1>1, <3>1
  <2>2. CASE s = Sweeper /\ Done(Sweeper)
    <3>1. seg'[s] = [NoSegment EXCEPT !.bound = 0]
      BY <1>0, <2>2 DEF Done, LetGo, Leave, NoSegment
    <3> QED
      BY <3>1 DEF SegmentWrite
  <2>3. CASE s = Sweeper /\ ~Done(Sweeper)
    <3>1. stage[s] = "batched" /\ seg'[s] = [seg[s] EXCEPT !.bound = Newest]
      BY <1>0, <1>4, <2>3 DEF StartOfBatch
    <3> QED
      BY <3>1 DEF SegmentWrite
  <2> QED
    BY <2>1, <2>2, <2>3
<1>5. ASSUME NEW z \in Scanners, Step(z) PROVE SegmentWrite(s)
  <2>1. CASE z # s
    <3>1. seg'[s] = seg[s] /\ stage'[s] = stage[s]
      BY <1>0, <1>5, <2>1 DEF Step, Load, ReleaseClaim, Read, Call, Check, WriteEpisode,
         Settle, SettleEmpty, Fail, Done, LetGo, Leave, GoTo
    <3> QED
      BY <1>1, <3>1
  <2> QED
    BY <1>5, <2>1, OwnSegment
<1>6. CASE Crash
  <2>1. seg'[s] = [NoSegment EXCEPT !.bound = 0]
    BY <1>6 DEF Crash, NoSegment
  <2> QED
    BY <2>1 DEF SegmentWrite
<1> QED
  BY <1>1, <1>2, <1>3, <1>4, <1>5, <1>6
  DEF Next, vars, Land, SeeTurn, Bump, BumpLost, Archive, Tick

\* Every step keeps what is known of the segments.
LEMMA SegmentStep ==
    ASSUME CoverInv, [Next]_vars, NEW s \in Scanners
    PROVE  SegmentInv(s)'
<1>0. /\ TurnsInv /\ TypeOK /\ SegmentInv(s) /\ seg[s] \in Segments
      /\ Newest' >= Newest /\ Newest \in Nat /\ Newest' \in Nat
      /\ due \subseteq Landed
      /\ Exists => row.cursor <= Newest
  BY NewestGrows DEF CoverInv, TurnsInv, TypeOK
<1>1. /\ seg[s].bound \in 0..MaxTurns /\ seg[s].after \in 0..MaxTurns
      /\ seg[s].last \in 0..MaxTurns /\ Turns \subseteq Nat
      /\ Exists => row.cursor \in 0..MaxTurns
      /\ 0..MaxTurns \subseteq Nat
  BY <1>0, TurnsAssumption DEF Segments, Turns, TypeOK, Exists, ScanState
\* The turns below the segment: passed by the cursor, as before.
<1>2. ASSUME NEW t \in Turns, Live(t)', t <= seg[s].after
      PROVE  Exists' /\ t <= row'.cursor
  <2>1. ~Archive /\ (Live(t) \/ t > Newest)
    BY <1>0, <1>2, LiveIsNew
  <2>2. Live(t)
    BY <1>0, <1>1, <1>2, <2>1 DEF SegmentInv
  <2>3. Exists /\ t <= row.cursor
    BY <1>0, <1>2, <2>2 DEF SegmentInv
  <2>4. row' # NoRow
    BY <1>0, <2>1, <2>3, CursorWrites DEF Exists
  <2>5. row'.cursor >= row.cursor /\ row'.cursor \in Nat
    <3>1. row' \in ScanState
      BY <1>0, <2>4, TypeStep DEF TypeOK
    <3> QED
      BY <1>0, <1>1, <2>3, <2>4, <3>1, CursorStep DEF ScanState
  <2> QED
    BY <1>1, <2>3, <2>4, <2>5 DEF Exists
\* The turns in it: those it holds.
<1>3. ASSUME NEW t \in Between(seg[s].after, seg[s].last), Live(t)'
      PROVE  t \in seg[s].turns
  <2>1. t \in Turns /\ t <= seg[s].last
    BY DEF Between
  <2>2. Live(t) \/ t > Newest
    BY <1>0, <1>3, <2>1, LiveIsNew
  <2>3. t \in Nat /\ seg[s].last <= Newest /\ seg[s].last \in Nat
    BY <1>0, <1>1, <2>1 DEF SegmentInv
  <2>4. Live(t)
    BY <1>0, <2>1, <2>2, <2>3
  <2> QED
    BY <1>0, <2>4 DEF SegmentInv
<1>4. CASE /\ seg'[s] = seg[s]
           /\ stage'[s] \in {"batched", "load"} => stage[s] \in {"batched", "load"}
  BY <1>0, <1>1, <1>2, <1>3, <1>4 DEF SegmentInv, Between
<1>5. ASSUME NEW bound \in due \cup {0}, seg'[s] = [NoSegment EXCEPT !.bound = bound]
      PROVE  SegmentInv(s)'
  <2>1. /\ seg'[s].bound = bound /\ seg'[s].after = 0 /\ seg'[s].last = 0
    BY <1>5 DEF NoSegment
  <2>2. bound <= Newest /\ bound \in Nat
    <3>1. CASE bound = 0
      BY <1>0, <3>1
    <3>2. CASE bound \in due
      <4>1. bound \in Landed
        BY <1>0, <3>2
      <4>2. bound \in Turns /\ turn[bound] # "absent"
        BY <4>1 DEF Landed
      <4>3. bound <= Newest
        BY <1>0, <4>2 DEF TurnsInv
      <4>4. bound \in Nat
        BY <1>1, <4>2
      <4> QED
        BY <4>3, <4>4
    <3> QED
      BY <1>5, <3>1, <3>2
  <2>3. \A t \in Turns : ~(t <= 0)
    BY TurnsAssumption DEF Turns
  <2>4. /\ seg'[s].bound <= Newest' /\ seg'[s].after <= Newest' /\ seg'[s].last <= Newest'
    BY <1>0, <2>1, <2>2
  <2>5. \A t \in Between(seg'[s].after, seg'[s].last) : FALSE
    BY <2>1, <2>3 DEF Between
  <2> QED
    BY <2>1, <2>3, <2>4, <2>5 DEF SegmentInv, Between
<1>6. CASE stage[s] = "batched" /\ seg'[s] = [seg[s] EXCEPT !.bound = Newest]
  <2>1. /\ seg'[s].bound = Newest /\ seg'[s].after = seg[s].after
        /\ seg'[s].last = seg[s].last /\ seg'[s].turns = seg[s].turns
    BY <1>0, <1>6 DEF Segments
  <2>2. seg[s].last = 0 /\ seg[s].after <= Newest
    BY <1>0, <1>6 DEF SegmentInv
  <2>3. /\ seg'[s].bound <= Newest' /\ seg'[s].after <= Newest' /\ seg'[s].last <= Newest'
    <3>1. seg[s].after \in Nat
      BY <1>1
    <3> QED
      BY <1>0, <2>1, <2>2, <3>1
  <2>4. \A t \in Turns : Live(t)' /\ t <= seg'[s].after => Exists' /\ t <= row'.cursor
    BY <1>2, <2>1
  <2>5. \A t \in Between(seg'[s].after, seg'[s].last) : Live(t)' => t \in seg'[s].turns
    BY <1>3, <2>1
  <2> QED
    BY <2>1, <2>2, <2>3, <2>4, <2>5 DEF SegmentInv, Between
<1>7. ASSUME NEW pending \in 0..MaxTurns,
             Exists, UNCHANGED <<row, Landed, epochOf, epoch>>, stage[s] = "load",
             stage'[s] \notin {"batched", "load"},
             seg'[s] = [seg[s] EXCEPT !.after = row.cursor, !.pending = pending]
      PROVE  SegmentInv(s)'
  <2>1. /\ seg'[s].bound = seg[s].bound /\ seg'[s].after = row.cursor
        /\ seg'[s].last = seg[s].last
    BY <1>0, <1>7 DEF Segments
  <2>2. seg[s].last = 0
    BY <1>0, <1>7 DEF SegmentInv
  <2>3. Exists' /\ row' = row
    BY <1>7 DEF Exists
  <2>4. \A t \in Turns : ~(t <= 0)
    BY TurnsAssumption DEF Turns
  <2>5. /\ seg'[s].bound <= Newest' /\ seg'[s].after <= Newest' /\ seg'[s].last <= Newest'
    BY <1>0, <1>1, <1>7, <2>1, <2>2 DEF SegmentInv
  <2>6. \A t \in Turns : Live(t)' /\ t <= seg'[s].after => Exists' /\ t <= row'.cursor
    BY <2>1, <2>3
  <2>7. \A t \in Between(seg'[s].after, seg'[s].last) : FALSE
    BY <2>1, <2>2, <2>4 DEF Between
  <2> QED
    BY <1>7, <2>5, <2>6, <2>7 DEF SegmentInv, Between
<1>8. ASSUME UNCHANGED <<row, Landed, epochOf, epoch>>,
             stage'[s] \notin Early,
             seg'[s] = [seg[s] EXCEPT !.turns = Segment(seg[s]),
                                      !.last = IF Segment(seg[s]) = {} THEN seg[s].bound
                                               ELSE Max(Segment(seg[s]))]
      PROVE  SegmentInv(s)'
  <2> DEFINE rows == Segment(seg[s])
             last == IF rows = {} THEN seg[s].bound ELSE Max(rows)
  <2>1. rows \in SUBSET Turns /\ (rows # {} => Max(rows) \in Turns)
    BY <1>0, SegmentTurns, MaxIsLast
  <2>2. last <= seg[s].bound /\ last \in Nat
    <3>1. CASE rows = {}
      BY <1>1, <3>1
    <3>2. CASE rows # {}
      <4>1. Max(rows) \in Nat
        BY <1>1, <2>1, <3>2
      <4>2. Max(rows) <= seg[s].bound
        BY <1>0, <3>2, SegmentIsPrefix
      <4> QED
        BY <3>2, <4>1, <4>2
    <3> QED
      BY <3>1, <3>2
  <2>3. \A t \in Between(seg[s].after, last) : Live(t) => t \in rows
    BY <1>0, SegmentIsPrefix
  <2> HIDE DEF rows, last
  <2>4. /\ seg'[s].bound = seg[s].bound /\ seg'[s].after = seg[s].after
        /\ seg'[s].last = last /\ seg'[s].turns = rows
    BY <1>0, <1>8 DEF Segments, rows, last
  <2>5. \A t \in Turns : Live(t)' <=> Live(t)
    BY <1>8 DEF Live
  <2>6. \A t \in Between(seg[s].after, last) : Live(t)' => t \in rows
    BY <2>3, <2>5 DEF Between
  <2>7. /\ seg'[s].bound <= Newest' /\ seg'[s].after <= Newest' /\ seg'[s].last <= Newest'
    BY <1>0, <1>1, <2>2, <2>4 DEF SegmentInv
  <2>8. \A t \in Turns : Live(t)' /\ t <= seg'[s].after => Exists' /\ t <= row'.cursor
    BY <1>2, <2>4
  <2>9. \A t \in Between(seg'[s].after, seg'[s].last) : Live(t)' => t \in seg'[s].turns
    BY <2>4, <2>6
  <2> QED
    BY <1>8, <2>7, <2>8, <2>9 DEF SegmentInv, Between, Early
<1>9. ASSUME stage'[s] \notin Early,
             seg'[s] = [seg[s] EXCEPT !.last = seg[s].after]
      PROVE  SegmentInv(s)'
  <2>1. /\ seg'[s].bound = seg[s].bound /\ seg'[s].after = seg[s].after
        /\ seg'[s].last = seg[s].after
    BY <1>0, <1>9 DEF Segments
  <2>2. \A t \in Turns : ~(seg[s].after < t /\ t <= seg[s].after)
    BY <1>1
  <2>3. /\ seg'[s].bound <= Newest' /\ seg'[s].after <= Newest' /\ seg'[s].last <= Newest'
    BY <1>0, <1>1, <2>1 DEF SegmentInv
  <2>4. \A t \in Turns : Live(t)' /\ t <= seg'[s].after => Exists' /\ t <= row'.cursor
    BY <1>2, <2>1
  <2>5. \A t \in Between(seg'[s].after, seg'[s].last) : FALSE
    BY <2>1, <2>2 DEF Between
  <2> QED
    BY <1>9, <2>3, <2>4, <2>5 DEF SegmentInv, Between, Early
<1> QED
  BY <1>0, <1>4, <1>5, <1>6, <1>7, <1>8, <1>9, SegmentWrites DEF SegmentWrite

\* What was read or given up stays so, and a turn asks for a scan once it landed.
LEMMA LedgerGrows ==
    ASSUME CoverInv, [Next]_vars
    PROVE  read \subseteq read' /\ struckOut \subseteq struckOut' /\ due' \subseteq Landed'
<1> USE DEF ledger
<1>0. TurnsInv /\ TypeOK /\ due \subseteq Landed
  BY DEF CoverInv, TurnsInv
<1>1. read \subseteq read' /\ struckOut \subseteq struckOut'
  BY DEF Next, vars, Land, SeeTurn, Bump, BumpLost, ClaimInline, ClaimDue, StartOfBatch,
     Step, Load, ReleaseClaim, Read, Call, Check, WriteEpisode, Settle, SettleEmpty, Fail,
     Archive, Crash, Tick
<1>2. due' \subseteq due \/ \E t \in Turns : Bump(t)
  BY DEF Next, vars, Land, SeeTurn, BumpLost, ClaimInline, ClaimDue, StartOfBatch,
     Step, Load, ReleaseClaim, Read, Call, Check, WriteEpisode, Settle, SettleEmpty, Fail,
     Archive, Crash, Tick
<1>3. ASSUME NEW t \in Turns, Bump(t) PROVE due' \subseteq Landed
  BY <1>0, <1>3 DEF Bump, Landed
<1> QED
  BY <1>0, <1>1, <1>2, <1>3, NewestGrows

\* Every step keeps the cover.
LEMMA CoverStep == CoverInv /\ [Next]_vars => CoverInv'
<1> SUFFICES ASSUME CoverInv, [Next]_vars PROVE CoverInv'
  OBVIOUS
<1>0. /\ TurnsInv /\ TurnsInv' /\ TypeOK /\ TypeOK'
      /\ Newest' >= Newest /\ Newest \in Nat /\ Newest' \in Nat
      /\ Turns \subseteq Nat
  BY TurnsStep, NewestGrows, TurnsAssumption DEF CoverInv, TurnsInv, Turns
<1>1. /\ Exists => row \in ScanState /\ row.cursor \in Nat /\ row.cursor <= Newest
      /\ \A s \in Scanners : /\ seg[s].last \in Nat /\ seg[s].last <= Newest
                             /\ SegmentInv(s)
  BY <1>0, TurnsAssumption DEF CoverInv, TypeOK, Exists, ScanState, Segments, SegmentInv
<1>2. CASE ~Exists'
  BY <1>0, <1>2, SegmentStep, LedgerGrows DEF CoverInv, CursorCoversRead
<1>3. CASE Exists'
  <2>1. ~Archive
    BY <1>3 DEF Archive, Exists
  <2>2. ASSUME NEW s \in Scanners, Exists,
               row'.liveFrom = row.liveFrom,
               row'.cursor = AtLeast(row.cursor, seg[s].last),
               seg[s].turns \subseteq read' \cup struckOut'
        PROVE  row'.cursor <= Newest' /\ CursorCoversRead'
    <3>1. row'.cursor <= Newest'
      BY <1>0, <1>1, <2>2 DEF AtLeast
    <3>2. ASSUME NEW t \in Between(row'.liveFrom, row'.cursor), Live(t)'
          PROVE  t \in read' \cup struckOut'
      <4>1. t \in Turns /\ row.liveFrom < t /\ t <= row'.cursor /\ t \in Nat
        BY <1>0, <2>2 DEF Between
      <4>2. Live(t)
        <5>1. t <= Newest
          <6>1. /\ row.cursor \in Nat /\ row.cursor <= Newest
                /\ seg[s].last \in Nat /\ seg[s].last <= Newest
            BY <1>1, <2>2
          <6>2. AtLeast(row.cursor, seg[s].last) <= Newest
            BY <6>1 DEF AtLeast
          <6> QED
            BY <1>0, <2>2, <4>1, <6>1, <6>2 DEF AtLeast
        <5> QED
          BY <1>0, <3>2, <4>1, <5>1, LiveIsNew
      <4>3. CASE t <= row.cursor
        BY <2>2, <4>1, <4>2, <4>3, LedgerGrows DEF CoverInv, CursorCoversRead, Between
      <4>4. CASE ~(t <= row.cursor)
        <5>1. t <= seg[s].last
          BY <1>1, <2>2, <4>1, <4>4 DEF AtLeast
        <5>2. seg[s].after < t
          <6>1. seg[s].after \in Nat
            BY <1>0, TurnsAssumption DEF TypeOK, Segments
          <6> QED
            BY <1>1, <4>1, <4>2, <4>4, <6>1 DEF SegmentInv
        <5> QED
          BY <1>1, <2>2, <4>1, <4>2, <5>1, <5>2 DEF SegmentInv, Between
      <4> QED
        BY <4>3, <4>4
    <3> QED
      BY <3>1, <3>2 DEF CursorCoversRead
  <2>3. ASSUME NEW t \in Landed, row' = Opened(t)
        PROVE  row'.cursor <= Newest' /\ CursorCoversRead'
    <3>1. row'.cursor = t - 1 /\ row'.liveFrom = t - 1
      BY <2>3 DEF Opened
    <3>2. t \in Nat /\ t <= Newest
      BY <1>0 DEF TurnsInv, Landed
    <3>3. \A u \in Turns : ~(t - 1 < u /\ u <= t - 1)
      BY <1>0, <3>2
    <3> QED
      BY <1>0, <3>1, <3>2, <3>3 DEF CursorCoversRead, Between
  <2>4. ASSUME Exists, row'.liveFrom = row.liveFrom, row'.cursor = row.cursor
        PROVE  row'.cursor <= Newest' /\ CursorCoversRead'
    <3>1. row'.cursor <= Newest'
      BY <1>0, <1>1, <2>4
    <3>2. ASSUME NEW t \in Between(row.liveFrom, row.cursor), Live(t)'
          PROVE  t \in read' \cup struckOut'
      <4>1. t \in Turns /\ t <= Newest /\ t \in Nat
        <5>1. t \in Turns /\ t <= row.cursor
          BY DEF Between
        <5>2. t \in Nat /\ row.cursor \in Nat /\ row.cursor <= Newest
          BY <1>0, <1>1, <2>4, <5>1
        <5> QED
          BY <1>0, <5>1, <5>2
      <4>2. Live(t)
        BY <1>0, <3>2, <4>1, LiveIsNew
      <4> QED
        BY <2>4, <4>2, LedgerGrows DEF CoverInv, CursorCoversRead
    <3> QED
      BY <2>4, <3>1, <3>2 DEF CursorCoversRead
  <2>5. row'.cursor <= Newest' /\ CursorCoversRead'
    BY <1>0, <1>3, <2>1, <2>2, <2>3, <2>4, CursorWrites DEF Exists
  <2> QED
    BY <1>0, <2>5, SegmentStep, LedgerGrows DEF CoverInv
<1> QED
  BY <1>2, <1>3

\* Initially nothing landed and nothing was read.
LEMMA CoverInit == Init => CoverInv
<1> SUFFICES ASSUME Init PROVE CoverInv
  OBVIOUS
<1>1. Landed = {} /\ Newest = 0
  <2>1. Landed = {}
    BY DEF Init, Landed
  <2> QED
    BY <2>1, FS_EmptySet DEF Newest
<1>2. TurnsInv
  BY <1>1, ScanTypeInit DEF Init, TurnsInv, Turns
<1>3. ASSUME NEW s \in Scanners PROVE SegmentInv(s)
  <2>1. seg[s] = NoSegment
    BY DEF Init
  <2>2. \A t \in Turns : ~Live(t)
    BY <1>1 DEF Live
  <2> QED
    BY <1>1, <2>1, <2>2 DEF SegmentInv, NoSegment, Between
<1> QED
  BY <1>1, <1>2, <1>3 DEF Init, CoverInv, CursorCoversRead, Exists

\* The cursor never passes a turn no scan read or gave up, whatever scans
\* overlap, outlive an archive, fail or die.
THEOREM NothingSkipped == Spec => []CursorCoversRead
  <1>1. CoverInv => CursorCoversRead
    BY DEF CoverInv
  <1> QED
    BY <1>1, CoverInit, CoverStep, PTL DEF Spec


-----------------------------------------------------------------------------
(***************************************************************************)
(* The turns a scan holds: none before it reads, none past its end.  Those *)
(* of the holder of the claim are still to be read, and the cursor is      *)
(* where it loaded it.                                                     *)
(***************************************************************************)
SegmentEnds(s) ==
    /\ stage[s] \in Early => seg[s].turns = {}
    /\ \A t \in seg[s].turns : t <= seg[s].last

SegmentHeld(s) ==
    /\ stage[s] = "read" => seg[s].after = row.cursor
    /\ \A t \in seg[s].turns : Live(t) /\ row.cursor < t

HeldInv ==
    /\ TurnsInv
    /\ HoldInv
    /\ \A s \in Scanners : SegmentEnds(s) /\ (s \notin lost => SegmentHeld(s))

\* The turns a scan reads are live ones past its cursor, the last of them last.
LEMMA SegmentHolds ==
    ASSUME NEW g \in Segments, NEW t \in Segment(g)
    PROVE  Live(t) /\ g.after < t /\ t <= Max(Segment(g)) /\ Segment(g) # {}
<1>1. Segment(g) \in SUBSET Turns /\ Segment(g) # {}
  BY SegmentTurns
<1>2. t <= Max(Segment(g))
  BY <1>1, MaxIsLast
<1>3. t \in Between(g.after, g.bound) /\ Live(t)
  <2> DEFINE rows == {u \in Between(g.after, g.bound) : Live(u)}
  <2>1. Segment(g) \subseteq rows
    BY DEF Segment
  <2> QED
    BY <2>1
<1> QED
  BY <1>1, <1>2, <1>3 DEF Between

\* No step lets a segment hold a turn past its end.
LEMMA EndsStep ==
    ASSUME TypeOK, [Next]_vars, NEW s \in Scanners, SegmentEnds(s)
    PROVE  SegmentEnds(s)'
<1>0. seg[s] \in Segments
  BY DEF TypeOK
<1>1. CASE /\ seg'[s] = seg[s]
           /\ stage'[s] \in Early => stage[s] \in Early
  BY <1>1 DEF SegmentEnds
<1>2. ASSUME NEW bound, seg'[s] = [NoSegment EXCEPT !.bound = bound] PROVE SegmentEnds(s)'
  <2>1. seg'[s].turns = {}
    BY <1>2 DEF NoSegment
  <2> QED
    BY <2>1 DEF SegmentEnds
<1>3. CASE stage[s] = "batched" /\ seg'[s] = [seg[s] EXCEPT !.bound = Newest]
  <2>1. seg'[s].turns = {}
    BY <1>0, <1>3 DEF SegmentEnds, Segments, Early
  <2> QED
    BY <2>1 DEF SegmentEnds
<1>4. ASSUME NEW pending, stage[s] = "load",
             seg'[s] = [seg[s] EXCEPT !.after = row.cursor, !.pending = pending]
      PROVE  SegmentEnds(s)'
  <2>1. seg'[s].turns = {}
    BY <1>0, <1>4 DEF SegmentEnds, Segments, Early
  <2> QED
    BY <2>1 DEF SegmentEnds
<1>5. ASSUME stage'[s] \notin Early,
             seg'[s] = [seg[s] EXCEPT !.turns = Segment(seg[s]),
                                      !.last = IF Segment(seg[s]) = {} THEN seg[s].bound
                                               ELSE Max(Segment(seg[s]))]
      PROVE  SegmentEnds(s)'
  <2> DEFINE rows == Segment(seg[s])
             last == IF rows = {} THEN seg[s].bound ELSE Max(rows)
  <2>1. \A t \in rows : t <= last
    BY <1>0, SegmentHolds
  <2> HIDE DEF rows, last
  <2>2. seg'[s].turns = rows /\ seg'[s].last = last
    BY <1>0, <1>5 DEF Segments, rows, last
  <2> QED
    BY <1>5, <2>1, <2>2 DEF SegmentEnds
<1>6. CASE stage[s] = "read" /\ seg'[s] = [seg[s] EXCEPT !.last = seg[s].after]
  <2>1. seg'[s].turns = {}
    BY <1>0, <1>6 DEF SegmentEnds, Segments, Early
  <2> QED
    BY <2>1 DEF SegmentEnds
<1> QED
  BY <1>1, <1>2, <1>3, <1>4, <1>5, <1>6, SegmentWrites DEF SegmentWrite

\* A holder no step of its own moves holds what it held.
LEMMA HeldStays ==
    ASSUME HeldInv, [Next]_vars, ~Archive, NEW s \in Scanners, s \notin lost,
           stage'[s] = stage[s], seg'[s] = seg[s],
           Exists => row' # NoRow /\ row'.cursor = row.cursor
    PROVE  SegmentHeld(s)'
<1>1. SegmentHeld(s) /\ SegmentEnds(s) /\ TurnsInv /\ seg[s].turns \subseteq Turns
  BY DEF HeldInv, TurnsInv, TypeOK, Segments
<1>2. CASE ~Working(s)
  BY <1>1, <1>2 DEF SegmentHeld, SegmentEnds, Early, Working
<1>3. CASE Working(s)
  <2>1. Exists
    BY <1>3 DEF HeldInv, HoldInv, Holder, Claimed
  <2>2. \A t \in seg[s].turns : Live(t)'
    BY <1>1, LiveStays DEF SegmentHeld
  <2> QED
    BY <1>1, <2>1, <2>2 DEF SegmentHeld
<1> QED
  BY <1>2, <1>3

\* A scanner with no turns yet holds them.
LEMMA HeldEmpty ==
    ASSUME NEW s \in Scanners, seg'[s].turns = {}, stage'[s] # "read"
    PROVE  SegmentHeld(s)'
  BY DEF SegmentHeld

\* A scanner that is done holds none.
LEMMA HeldNone ==
    ASSUME TypeOK, NEW s \in Scanners, Leave(s)
    PROVE  SegmentHeld(s)'
<1>1. seg'[s] = NoSegment /\ stage'[s] = "none"
  BY DEF Leave, TypeOK
<1> QED
  BY <1>1, HeldEmpty DEF NoSegment

\* The scanner's own step.
LEMMA HeldOwn ==
    ASSUME HeldInv, [Next]_vars, NEW s \in Scanners, Step(s), s \notin lost'
    PROVE  SegmentHeld(s)'
<1> USE DEF turnVars
<1>0. /\ SegmentEnds(s) /\ TurnsInv /\ HoldInv /\ TypeOK
      /\ seg \in [Scanners -> Segments] /\ stage \in [Scanners -> Stages]
      /\ seg[s] \in Segments
      /\ s \notin lost => SegmentHeld(s)
  BY DEF HeldInv, TurnsInv, TypeOK
<1>1. CASE Leave(s)
  BY <1>0, <1>1, HeldNone
<1>2. ASSUME NEW to \in {"check", "fail", "episode", "settle"},
             stage[s] \in {"call", "check", "episode"},
             stage' = [stage EXCEPT ![s] = to], UNCHANGED <<seg, lost>>,
             row' = row \/ (Exists /\ row' = [row EXCEPT !.claim = 0])
      PROVE  SegmentHeld(s)'
  <2>1. seg'[s] = seg[s] /\ stage'[s] = to /\ SegmentHeld(s)
    BY <1>0, <1>2
  <2>2. Exists => row'.cursor = row.cursor
    BY <1>0, <1>2 DEF TypeOK, Exists, ScanState
  <2>3. Exists
    BY <1>0, <1>2 DEF HoldInv, Holder, Claimed, Working
  <2>4. ~Archive
    <3>1. row' \in ScanState
      BY <1>0, <1>2, <2>3, ClaimType DEF TypeOK, Exists
    <3> QED
      BY <3>1, NoRowAssumption DEF Archive
  <2>5. \A t \in seg[s].turns : Live(t)'
    <3>1. seg[s].turns \subseteq Turns
      BY <1>0 DEF Segments
    <3> QED
      BY <1>0, <2>1, <2>4, <3>1, LiveStays DEF SegmentHeld
  <2> QED
    BY <1>2, <2>1, <2>2, <2>3, <2>5 DEF SegmentHeld
<1>3. CASE Load(s) /\ ~Leave(s)
  <2>1. /\ Exists /\ UNCHANGED row /\ stage[s] = "load" /\ stage'[s] \in {"release", "read"}
        /\ seg'[s] = [seg[s] EXCEPT !.after = row.cursor, !.pending = row.pending]
    BY <1>0, <1>3 DEF Load, Done
  <2>2. seg'[s].turns = {} /\ seg'[s].after = row.cursor
    BY <1>0, <2>1 DEF Segments, SegmentEnds, Early
  <2> QED
    BY <1>0, <2>1, <2>2 DEF SegmentHeld
<1>4. CASE Read(s)
  <2> DEFINE rows == Segment(seg[s])
             last == IF rows = {} THEN seg[s].bound ELSE Max(rows)
  <2>1. /\ UNCHANGED <<row, turn, epochOf, epoch, lost>> /\ stage[s] = "read"
        /\ stage'[s] \in {"settle_empty", "call", "fail"}
        /\ \/ seg'[s] = [seg[s] EXCEPT !.turns = rows, !.last = last]
           \/ seg'[s] = [seg[s] EXCEPT !.last = seg[s].after]
    BY <1>0, <1>4 DEF Read
  <2>2. \A t \in rows : Live(t) /\ row.cursor < t
    BY <1>0, <2>1, SegmentHolds DEF SegmentHeld
  <2>3. \A t : Live(t)' <=> Live(t)
    BY <2>1 DEF Live, Landed
  <2> HIDE DEF rows, last
  <2>4. CASE seg'[s] = [seg[s] EXCEPT !.turns = rows, !.last = last]
    <3>1. seg'[s].turns = rows
      BY <1>0, <2>4 DEF Segments
    <3> QED
      BY <2>1, <2>2, <2>3, <3>1 DEF SegmentHeld
  <2>5. CASE seg'[s] = [seg[s] EXCEPT !.last = seg[s].after]
    <3>1. seg'[s].turns = {}
      BY <1>0, <2>1, <2>5 DEF Segments, SegmentEnds, Early
    <3> QED
      BY <2>1, <3>1, HeldEmpty
  <2> QED
    BY <2>1, <2>4, <2>5
<1>5. CASE Call(s)
  BY <1>2, <1>5 DEF Call, GoTo
<1>6. CASE Check(s)
  BY <1>1, <1>2, <1>6 DEF Check, Claimed, GoTo, Done
<1>7. CASE WriteEpisode(s)
  BY <1>1, <1>2, <1>7 DEF WriteEpisode, GoTo, Done
<1>8. CASE ReleaseClaim(s) \/ Settle(s) \/ SettleEmpty(s) \/ Fail(s)
  BY <1>1, <1>8 DEF ReleaseClaim, Settle, SettleEmpty, Fail, Done, LetGo
<1> QED
  BY <1>1, <1>3, <1>4, <1>5, <1>6, <1>7, <1>8 DEF Step

\* Another scanner's step: it leaves the row and the claim, or lets go of it,
\* and then no scanner holds the claim.
LEMMA HeldOther ==
    ASSUME HeldInv, [Next]_vars, ~Archive, NEW s \in Scanners, s \notin lost, s \notin lost',
           NEW z \in Scanners, z # s, Step(z)
    PROVE  SegmentHeld(s)'
<1>0. TypeOK /\ HoldInv /\ SegmentEnds(s)
  BY DEF HeldInv, TurnsInv
<1>1. Working(z)
  BY DEF Step, Load, ReleaseClaim, Read, Call, Check, WriteEpisode, Settle, SettleEmpty, Fail,
     Working
<1>2. stage'[s] = stage[s] /\ seg'[s] = seg[s]
  BY <1>0 DEF TypeOK, Step, Load, ReleaseClaim, Read, Call, Check, WriteEpisode,
     Settle, SettleEmpty, Fail, Done, LetGo, Leave, GoTo
<1>3. LetGo(z) \/ row' = row \/ (Exists /\ row' = [row EXCEPT !.claim = 0])
  BY DEF Step, Load, ReleaseClaim, Read, Call, Check, WriteEpisode, Settle, SettleEmpty, Fail,
     Claimed
<1>4. CASE LetGo(z)
  <2>1. stage'[s] = "none"
    BY <1>0, <1>1, <1>4, NoHolderAfter DEF Holder, Working
  <2> QED
    BY <1>0, <1>2, <2>1, HeldEmpty DEF SegmentEnds, Early
<1>5. CASE row' = row \/ (Exists /\ row' = [row EXCEPT !.claim = 0])
  <2>1. ASSUME Exists PROVE row' # NoRow /\ row'.cursor = row.cursor
    <3>1. row \in ScanState
      BY <1>0, <2>1 DEF TypeOK, Exists
    <3>2. row' \in ScanState /\ row'.cursor = row.cursor
      BY <1>5, <3>1, ClaimType DEF ScanState
    <3> QED
      BY <3>2, NoRowAssumption
  <2> QED
    BY <1>2, <2>1, HeldStays
<1> QED
  BY <1>3, <1>4, <1>5

\* Every step keeps it.
LEMMA HeldStep ==
    ASSUME HeldInv, [Next]_vars
    PROVE  HeldInv'
<1>0. /\ TurnsInv' /\ HoldInv' /\ TurnsInv /\ HoldInv /\ TypeOK
      /\ Sweeper \in Scanners /\ InlineScans \subseteq Scanners
      /\ seg \in [Scanners -> Segments] /\ stage \in [Scanners -> Stages]
      /\ Exists => row \in ScanState
      /\ epoch \in Nat
  BY TurnsStep, HoldStep, BoundAssumption DEF HeldInv, TurnsInv, TypeOK, Scanners, Exists, Epochs
<1>1. \A s \in Scanners : SegmentEnds(s) /\ SegmentEnds(s)'
  BY <1>0, EndsStep DEF HeldInv
<1> SUFFICES ASSUME NEW s \in Scanners, s \notin lost' PROVE SegmentHeld(s)'
  BY <1>0, <1>1 DEF HeldInv
<1>2. CASE Archive
  <2>1. stage'[s] = "none" /\ seg'[s].turns = {}
    BY <1>1, <1>2 DEF Archive, AtWork, Working, SegmentEnds, Early
  <2> QED
    BY <2>1, HeldEmpty
<1>3. ASSUME ~Archive, UNCHANGED <<stage, seg, lost>>,
             Exists => row' # NoRow /\ row'.cursor = row.cursor
      PROVE  SegmentHeld(s)'
  BY <1>3, HeldStays
<1>4. ASSUME Exists, row' = [row EXCEPT !.claim = 0] PROVE row' # NoRow /\ row'.cursor = row.cursor
  <2>1. row' \in ScanState
    BY <1>0, <1>4, ClaimType
  <2>2. row'.cursor = row.cursor
    BY <1>0, <1>4 DEF ScanState
  <2> QED
    BY <2>1, <2>2, NoRowAssumption
<1>5. ASSUME NEW z \in Scanners, NEW to \in {"load", "batched"}, NEW bound, Begin(z, to, bound),
             ~Archive, Exists, row' = [row EXCEPT !.claim = 0]
      PROVE  SegmentHeld(s)'
  <2>1. CASE z = s
    <3>1. stage'[s] = to /\ seg'[s] = [NoSegment EXCEPT !.bound = bound]
      BY <1>0, <1>5, <2>1 DEF Begin
    <3>2. seg'[s].turns = {}
      BY <3>1 DEF NoSegment
    <3> QED
      BY <3>1, <3>2, HeldEmpty
  <2>2. CASE z # s
    <3>1. stage'[s] = stage[s] /\ seg'[s] = seg[s] /\ s \notin lost
      BY <1>0, <1>5, <2>2 DEF Begin
    <3> QED
      BY <1>4, <1>5, <3>1, HeldStays
  <2> QED
    BY <2>1, <2>2
<1>6. ASSUME NEW t \in Turns, Land(t) \/ SeeTurn(t) \/ BumpLost(t) PROVE SegmentHeld(s)'
  <2>1. UNCHANGED <<stage, seg, lost, row, epoch>>
    BY <1>6 DEF Land, SeeTurn, BumpLost, scanVars
  <2> QED
    BY <1>0, <1>3, <2>1 DEF Archive, Exists
<1>7. ASSUME NEW t \in Turns, Bump(t) PROVE SegmentHeld(s)'
  <2>1. UNCHANGED <<stage, seg, lost, epoch>>
    BY <1>7 DEF Bump, scanVars
  <2>2. ASSUME Exists PROVE row' # NoRow /\ row'.cursor = row.cursor
    <3>1. row' = [row EXCEPT !.pending = AtMost(@ + 1, MaxTurns), !.idle = 0]
      BY <1>7, <2>2 DEF Bump
    <3>2. row' \in ScanState
      BY <1>0, <2>2, <3>1, BumpedType
    <3>3. row'.cursor = row.cursor
      BY <1>0, <2>2, <3>1 DEF ScanState
    <3> QED
      BY <3>2, <3>3, NoRowAssumption
  <2> QED
    BY <1>0, <1>3, <2>1, <2>2 DEF Archive
<1>8. ASSUME NEW z \in InlineScans, NEW t \in Turns, ClaimInline(z, t) PROVE SegmentHeld(s)'
  <2>1. ~Archive
    BY <1>0, <1>8 DEF Archive, ClaimInline
  <2>2. CASE UNCHANGED <<row, stage, seg, lost>>
    BY <1>3, <2>1, <2>2 DEF Exists
  <2>3. CASE ~UNCHANGED <<row, stage, seg, lost>>
    <3>1. Begin(z, "load", t) /\ Exists /\ row' = [row EXCEPT !.claim = 0]
      BY <1>8, <2>3 DEF ClaimInline, scanVars
    <3> QED
      BY <1>0, <1>5, <2>1, <3>1
  <2> QED
    BY <2>2, <2>3
<1>9. CASE ClaimDue
  <2>1. ~Archive
    BY <1>0, <1>9 DEF Archive, ClaimDue
  <2> QED
    BY <1>0, <1>5, <1>9, <2>1 DEF ClaimDue
<1>10. CASE StartOfBatch
  <2>1. ~Archive
    BY <1>0, <1>10 DEF Archive, StartOfBatch
  <2>2. row' = row \/ (Exists /\ row' = [row EXCEPT !.claim = 0])
    BY <1>10 DEF StartOfBatch, Claimed
  <2>3. CASE s = Sweeper
    <3>1. stage'[s] \in {"none", "load"}
      BY <1>0, <1>10, <2>3 DEF StartOfBatch, Done, Leave
    <3>2. seg'[s].turns = {}
      BY <1>1, <3>1 DEF SegmentEnds, Early
    <3> QED
      BY <3>1, <3>2, HeldEmpty
  <2>4. CASE s # Sweeper
    <3>1. stage'[s] = stage[s] /\ seg'[s] = seg[s] /\ s \notin lost
      BY <1>0, <1>10, <2>4 DEF StartOfBatch, Done, Leave
    <3> QED
      BY <1>4, <2>1, <2>2, <3>1, HeldStays DEF Exists
  <2> QED
    BY <2>3, <2>4
<1>11. ASSUME NEW z \in Scanners, Step(z) PROVE SegmentHeld(s)'
  <2>1. CASE z = s
    BY <1>11, <2>1, HeldOwn
  <2>2. CASE z # s
    <3>1. epoch' = epoch
      BY <1>11 DEF Step, Load, ReleaseClaim, Read, Call, Check, WriteEpisode, Settle,
         SettleEmpty, Fail
    <3>2. s \notin lost
      BY <1>11, <2>2 DEF Step, Load, ReleaseClaim, Read, Call, Check, WriteEpisode, Settle,
         SettleEmpty, Fail, Done, LetGo, GoTo
    <3> QED
      BY <1>0, <1>11, <2>2, <3>1, <3>2, HeldOther DEF Archive
  <2> QED
    BY <2>1, <2>2
<1>12. CASE Crash
  <2>1. stage'[s] = "none" /\ seg'[s] = NoSegment
    BY <1>12 DEF Crash
  <2> QED
    BY <2>1, HeldEmpty DEF NoSegment
<1>13. CASE Tick
  <2>1. UNCHANGED <<stage, seg, lost, epoch>> /\ Exists
    BY <1>13 DEF Tick, scanVars
  <2>2. row' \in ScanState
    BY <1>0, <1>13, <2>1, TickedType DEF Tick
  <2>3. row'.cursor = row.cursor
    BY <1>0, <1>13, <2>1 DEF Tick, ScanState
  <2> QED
    BY <1>0, <1>3, <2>1, <2>2, <2>3, NoRowAssumption DEF Archive
<1>14. CASE UNCHANGED vars
  <2>1. UNCHANGED <<stage, seg, lost, row, epoch>>
    BY <1>14 DEF vars, scanVars
  <2> QED
    BY <1>0, <1>3, <2>1 DEF Archive, Exists
<1> QED
  BY <1>2, <1>6, <1>7, <1>8, <1>9, <1>10, <1>11, <1>12, <1>13, <1>14 DEF Next

LEMMA HeldInit == Init => HeldInv
<1> SUFFICES ASSUME Init PROVE HeldInv
  OBVIOUS
<1>1. TurnsInv
  <2>1. Landed = {}
    BY DEF Init, Landed
  <2>2. Newest = 0
    BY <2>1, FS_EmptySet DEF Newest
  <2> QED
    BY <2>2, ScanTypeInit DEF Init, TurnsInv, Turns
<1>2. \A s \in Scanners : stage[s] = "none" /\ seg[s].turns = {}
  BY DEF Init, NoSegment
<1> QED
  BY <1>1, <1>2 DEF HeldInv, HoldInv, Holder, Working, SegmentEnds, SegmentHeld

-----------------------------------------------------------------------------
(***************************************************************************)
(* The count on the row never falls behind the turns to be read: a         *)
(* settlement takes off no more than the turns it puts behind the cursor,  *)
(* or remembers as missed what it took too much.                           *)
(***************************************************************************)
Unread == {t \in Turns : t > row.cursor /\ Live(t)}
Uncounted == {t \in Turns : Live(t) /\ turn[t] # "counted"}

CountInv ==
    /\ HeldInv
    /\ CountKeepsUp
    /\ \A t \in Turns : Live(t) /\ turn[t] = "counted" => Exists

LEMMA UnreadType ==
    /\ IsFiniteSet(Unread) /\ Cardinality(Unread) \in 0..MaxTurns
    /\ IsFiniteSet(Uncounted) /\ Cardinality(Uncounted) \in 0..MaxTurns
  BY TurnsCardinality DEF Unread, Uncounted

LEMMA UnreadTypeNext ==
    /\ IsFiniteSet(Unread') /\ Cardinality(Unread') \in 0..MaxTurns
    /\ IsFiniteSet(Uncounted') /\ Cardinality(Uncounted') \in 0..MaxTurns
<1>1. Unread' \in SUBSET Turns /\ Uncounted' \in SUBSET Turns
  BY DEF Unread, Uncounted
<1> QED
  BY <1>1, TurnsCardinality

\* What the count is worth.
LEMMA CountBalance ==
    CountKeepsUp <=>
        (Exists =>
            row.pending + Cardinality(Uncounted) + missed >= Cardinality(Unread))
  BY DEF CountKeepsUp, Unread, Uncounted

\* A step that neither reads nor counts a turn keeps the balance.
LEMMA CountStays ==
    ASSUME CountInv, Exists,
           Unread' \subseteq Unread, Uncounted \subseteq Uncounted',
           row'.pending = row.pending, missed' = missed,
           TypeOK
    PROVE  CountKeepsUp'
<1>1. Cardinality(Unread') <= Cardinality(Unread)
  BY UnreadType, FS_Subset
<1>2. Cardinality(Uncounted) <= Cardinality(Uncounted')
  BY UnreadTypeNext, FS_Subset
<1>3. /\ Cardinality(Unread) \in Int /\ Cardinality(Unread') \in Int
      /\ Cardinality(Uncounted) \in Int /\ Cardinality(Uncounted') \in Int
      /\ row.pending \in Int /\ missed \in Int
  BY UnreadType, UnreadTypeNext, TurnsAssumption DEF TypeOK, Exists, ScanState
<1>4. row'.pending + Cardinality(Uncounted') + missed' >= Cardinality(Unread')
  BY <1>1, <1>2, <1>3, CountBalance DEF CountInv
<1> QED
  BY <1>4 DEF CountKeepsUp, Unread, Uncounted

\* Of the turns a scan holds, those still to be read, and those it covers again.
Fresh(s) == {t \in seg[s].turns : Live(t) /\ row.cursor < t}

LEMMA FreshOrAgain ==
    ASSUME TypeOK, HeldInv, Exists, NEW s \in Scanners
    PROVE  /\ Cardinality(seg[s].turns) \in Nat
           /\ Cardinality(Fresh(s)) \in Nat /\ Cardinality(Again(s)) \in Nat
           /\ Cardinality(seg[s].turns) = Cardinality(Fresh(s)) + Cardinality(Again(s))
<1> DEFINE held == seg[s].turns
<1>1. held \in SUBSET Turns /\ Fresh(s) \subseteq held /\ Again(s) \subseteq held
  BY DEF TypeOK, Segments, Fresh, Again
<1>2. /\ IsFiniteSet(held) /\ Cardinality(held) \in Nat
      /\ Cardinality(Fresh(s)) \in Nat /\ Cardinality(Again(s)) \in Nat
  <2>1. Fresh(s) \in SUBSET Turns /\ Again(s) \in SUBSET Turns
    BY <1>1
  <2> QED
    BY <1>1, <2>1, TurnsCardinality
<1>3. Fresh(s) = held \ Again(s)
  <2>1. CASE s \notin lost
    BY <2>1 DEF HeldInv, SegmentHeld, Fresh, Again
  <2>2. CASE s \in lost
    <3>1. row.cursor \in Int /\ \A t \in held : t \in Int
      BY <1>1, TurnsAssumption DEF TypeOK, Exists, ScanState, Turns
    <3>2. \A t \in held : row.cursor < t <=> ~(t <= row.cursor)
      BY <3>1
    <3> QED
      BY <2>2, <3>2 DEF Fresh, Again
  <2> QED
    BY <2>1, <2>2
<1>4. held \cap Again(s) = Again(s)
  BY <1>1
<1>5. Cardinality(held \ Again(s)) = Cardinality(held) - Cardinality(held \cap Again(s))
  BY <1>2, FS_Difference
<1>6. Cardinality(Fresh(s)) = Cardinality(held) - Cardinality(Again(s))
  BY <1>3, <1>4, <1>5
<1> HIDE DEF held
<1>7. Cardinality(held) = Cardinality(Fresh(s)) + Cardinality(Again(s))
  BY <1>2, <1>6
<1> QED
  BY <1>2, <1>7 DEF held

\* A settlement that moves the cursor over the turns its scan holds.
LEMMA CountSettles ==
    ASSUME CountInv, TypeOK, NEW s \in Scanners, NEW covered \in Nat,
           Claimed, row' = Settled(seg[s].last, covered),
           missed' \in Nat, UNCHANGED <<turn, epochOf, epoch>>,
           missed' - missed >= covered - Cardinality(Fresh(s))
    PROVE  CountKeepsUp'
<1>0. /\ row \in ScanState /\ Exists
      /\ seg[s].last \in 0..MaxTurns /\ seg[s].turns \in SUBSET Turns
      /\ SegmentEnds(s) /\ missed \in Nat /\ Turns \subseteq Nat
  BY TurnsAssumption DEF TypeOK, Claimed, Exists, Segments, CountInv, HeldInv, Turns
<1>1. /\ row'.cursor = AtLeast(row.cursor, seg[s].last)
      /\ row'.pending = AtLeast(row.pending - covered, 0)
  BY <1>0 DEF Settled, ScanState
<1>2. row.cursor \in Nat /\ row.pending \in Nat /\ seg[s].last \in Nat
  BY <1>0, TurnsAssumption DEF ScanState
<1>3. \A t : Live(t)' <=> Live(t)
  BY DEF Live, Landed
<1>4. Uncounted' = Uncounted
  BY <1>3 DEF Uncounted
<1> DEFINE fresh == Fresh(s)
<1>5. fresh \subseteq Unread /\ Unread' \subseteq Unread \ fresh
  <2>1. ASSUME NEW t \in Turns, t > row'.cursor PROVE t > row.cursor /\ ~(t <= seg[s].last)
    BY <1>0, <1>1, <1>2, <2>1 DEF AtLeast
  <2>2. fresh \subseteq Unread
    BY <1>0, <1>2 DEF Unread, Fresh
  <2>3. Unread' \subseteq Unread
    BY <1>3, <2>1 DEF Unread
  <2>4. \A t \in Unread' : t \notin fresh
    BY <1>0, <2>1 DEF Unread, Fresh, SegmentEnds
  <2> QED
    BY <2>2, <2>3, <2>4
<1>6. Cardinality(Unread') <= Cardinality(Unread) - Cardinality(fresh)
  <2>1. IsFiniteSet(Unread \ fresh) /\ IsFiniteSet(fresh)
    BY UnreadType, FS_Subset, <1>5, FS_Difference
  <2>2. Cardinality(Unread \ fresh) = Cardinality(Unread) - Cardinality(Unread \cap fresh)
    BY UnreadType, <2>1, FS_Difference
  <2>3. Unread \cap fresh = fresh
    BY <1>5
  <2>4. Cardinality(Unread') <= Cardinality(Unread \ fresh)
    BY <1>5, <2>1, FS_Subset
  <2> QED
    BY <2>2, <2>3, <2>4
<1>7. /\ Cardinality(fresh) \in Int /\ Cardinality(Unread) \in Int
      /\ Cardinality(Unread') \in Int /\ Cardinality(Uncounted) \in Int
  BY <1>0, UnreadType, UnreadTypeNext, FreshOrAgain DEF CountInv
<1>8. row.pending + Cardinality(Uncounted) + missed >= Cardinality(Unread)
  BY <1>0, CountBalance DEF CountInv
<1> HIDE DEF fresh
<1>9. row'.pending >= row.pending - covered
  BY <1>1, <1>2 DEF AtLeast
<1>10. missed' - missed >= covered - Cardinality(fresh)
  BY DEF fresh
<1>11. row'.pending \in Int
  BY <1>1, <1>2 DEF AtLeast
<1>12. row'.pending + Cardinality(Uncounted') + missed' >= Cardinality(Unread')
  BY <1>0, <1>2, <1>4, <1>6, <1>7, <1>8, <1>9, <1>10, <1>11
<1> QED
  BY <1>12 DEF CountKeepsUp, Unread, Uncounted

\* Every step keeps the count.
LEMMA CountStep ==
    ASSUME CountInv, [Next]_vars
    PROVE  CountInv'
<1>0. /\ TurnsInv /\ TurnsInv' /\ HeldInv /\ HeldInv' /\ TypeOK /\ TypeOK'
      /\ Sweeper \in Scanners /\ InlineScans \subseteq Scanners
      /\ Exists => row \in ScanState
      /\ missed \in Nat /\ missed' \in Nat
  BY TurnsStep, HeldStep DEF CountInv, HeldInv, TurnsInv, TypeOK, Scanners, Exists
<1>1. ASSUME UNCHANGED <<turn, epochOf, epoch>>, Exists => row' # NoRow,
             Exists' => CountKeepsUp'
      PROVE  CountInv'
  <2>1. \A t : Live(t)' <=> Live(t)
    BY <1>1 DEF Live, Landed
  <2>2. CountKeepsUp'
    BY <1>1 DEF CountKeepsUp
  <2>3. ASSUME NEW t \in Turns, Live(t)', turn'[t] = "counted" PROVE Exists'
    <3>1. Live(t) /\ turn[t] = "counted"
      BY <1>1, <2>1, <2>3
    <3> QED
      BY <1>1, <3>1 DEF CountInv, Exists
  <2> QED
    BY <1>0, <2>2, <2>3 DEF CountInv
<1>2. ASSUME UNCHANGED <<turn, epochOf, epoch, missed>>,
             \/ row' = row
             \/ /\ Exists /\ row' # NoRow
                /\ row'.cursor = row.cursor /\ row'.pending = row.pending
      PROVE  CountInv'
  <2>1. ASSUME Exists' PROVE CountKeepsUp'
    <3>1. Exists /\ row'.cursor = row.cursor /\ row'.pending = row.pending
      BY <1>2, <2>1 DEF Exists
    <3>2. \A t : Live(t)' <=> Live(t)
      BY <1>2 DEF Live, Landed
    <3>3. Unread' \subseteq Unread /\ Uncounted \subseteq Uncounted'
      BY <1>2, <3>1, <3>2 DEF Unread, Uncounted
    <3> QED
      BY <1>0, <1>2, <3>1, <3>3, CountStays
  <2> QED
    BY <1>1, <1>2, <2>1 DEF Exists
<1>3. ASSUME Exists, \/ row' = [row EXCEPT !.claim = 0]
                     \/ row' = [row EXCEPT !.claim = Unclaimed]
      PROVE  row' # NoRow /\ row'.cursor = row.cursor /\ row'.pending = row.pending
  <2>1. row' \in ScanState
    BY <1>0, <1>3, ClaimType
  <2>2. row'.cursor = row.cursor /\ row'.pending = row.pending
    BY <1>0, <1>3 DEF ScanState
  <2> QED
    BY <2>1, <2>2, NoRowAssumption
<1>4. ASSUME Exists, ~StrikesOut,
             row' = [row EXCEPT !.failures = @ + 1, !.idle = 0, !.claim = Unclaimed]
      PROVE  row' # NoRow /\ row'.cursor = row.cursor /\ row'.pending = row.pending
  <2>1. row' \in ScanState
    BY <1>0, <1>4, FailedType
  <2>2. row'.cursor = row.cursor /\ row'.pending = row.pending
    BY <1>0, <1>4 DEF ScanState
  <2> QED
    BY <2>1, <2>2, NoRowAssumption
<1>5. ASSUME NEW s \in Scanners, NEW covered \in Nat,
             Claimed, row' = Settled(seg[s].last, covered),
             UNCHANGED <<turn, epochOf, epoch>>,
             missed' - missed >= covered - Cardinality(Fresh(s))
      PROVE  CountInv'
  <2>1. row' # NoRow
    <3>1. row \in ScanState /\ seg[s].last \in 0..MaxTurns
      BY <1>0, <1>5 DEF Claimed, TypeOK, Segments
    <3>2. row' \in ScanState
      BY <1>5, <3>1, SettledType
    <3> QED
      BY <3>2, NoRowAssumption
  <2>2. CountKeepsUp'
    BY <1>0, <1>5, CountSettles
  <2> QED
    BY <1>1, <1>5, <2>1, <2>2
<1>6. ASSUME NEW t \in Turns, Land(t) PROVE CountInv'
  <2>1. /\ Landed' = Landed \cup {t} /\ t \notin Landed
        /\ epochOf' = [epochOf EXCEPT ![t] = epoch]
        /\ UNCHANGED <<epoch, row, missed>>
    <3>1. t \notin Landed
      <4>1. t = Newest + 1 /\ Newest \in Nat
        BY <1>6, NewestType DEF Land
      <4> QED
        BY <1>0, <4>1 DEF TurnsInv, Landed
    <3> QED
      BY <1>0, <1>6, <3>1, LandAddsOne DEF Land, ledger
  <2>2. \A u \in Turns : Live(u)' <=> Live(u) \/ u = t
    BY <1>0, <2>1 DEF Live, TypeOK
  <2>3. turn' = [turn EXCEPT ![t] = "landed"] /\ turn \in [Turns -> TurnStates]
    BY <1>0, <1>6 DEF Land, TypeOK
  <2>4. ASSUME Exists' PROVE CountKeepsUp'
    <3>1. Exists
      BY <2>1, <2>4 DEF Exists
    <3>2. Uncounted' = Uncounted \cup {t} /\ t \notin Uncounted
      BY <2>1, <2>2, <2>3 DEF Uncounted, Live
    <3>3. Unread' \subseteq Unread \cup {t} /\ t \notin Unread
      BY <2>1, <2>2 DEF Unread, Live
    <3>4. Cardinality(Uncounted') = Cardinality(Uncounted) + 1
      BY <3>2, UnreadType, FS_AddElement
    <3>5. Cardinality(Unread') <= Cardinality(Unread) + 1
      <4>1. IsFiniteSet(Unread \cup {t}) /\ Cardinality(Unread \cup {t}) = Cardinality(Unread) + 1
        BY <3>3, UnreadType, FS_AddElement
      <4> QED
        BY <3>3, <4>1, FS_Subset
    <3>6. /\ Cardinality(Unread) \in Int /\ Cardinality(Unread') \in Int
          /\ Cardinality(Uncounted) \in Int /\ row.pending \in Int
      BY <1>0, <3>1, UnreadType, UnreadTypeNext, TurnsAssumption DEF ScanState
    <3>7. row.pending + Cardinality(Uncounted) + missed >= Cardinality(Unread)
      BY <3>1, CountBalance DEF CountInv
    <3>8. row'.pending + Cardinality(Uncounted') + missed' >= Cardinality(Unread')
      BY <1>0, <2>1, <3>4, <3>5, <3>6, <3>7
    <3> QED
      BY <3>8 DEF CountKeepsUp, Unread, Uncounted
  <2>5. ASSUME NEW u \in Turns, Live(u)', turn'[u] = "counted" PROVE Exists'
    <3>1. u # t
      BY <2>3, <2>5
    <3>2. Live(u) /\ turn[u] = "counted"
      BY <2>2, <2>3, <2>5, <3>1
    <3> QED
      BY <2>1, <3>2 DEF CountInv, Exists
  <2>6. CountKeepsUp'
    BY <2>4 DEF CountKeepsUp
  <2> QED
    BY <1>0, <2>5, <2>6 DEF CountInv
\* A turn that is seen, or whose count is lost, is uncounted as before.
<1>7. ASSUME UNCHANGED <<epochOf, epoch, row, missed>>,
             turn' \in [Turns -> TurnStates], Landed' = Landed,
             \A t \in Turns : turn'[t] = "counted" <=> turn[t] = "counted"
      PROVE  CountInv'
  <2>1. \A t : Live(t)' <=> Live(t)
    BY <1>7 DEF Live
  <2>2. ASSUME Exists' PROVE CountKeepsUp'
    <3>1. Exists
      BY <1>7, <2>2 DEF Exists
    <3>2. Unread' \subseteq Unread /\ Uncounted \subseteq Uncounted'
      BY <1>7, <2>1 DEF Unread, Uncounted
    <3> QED
      BY <1>0, <1>7, <3>1, <3>2, CountStays
  <2>3. ASSUME NEW t \in Turns, Live(t)', turn'[t] = "counted" PROVE Exists'
    <3>1. Live(t) /\ turn[t] = "counted"
      BY <1>7, <2>1, <2>3
    <3> QED
      BY <1>7, <3>1 DEF CountInv, Exists
  <2>4. CountKeepsUp'
    BY <2>2 DEF CountKeepsUp
  <2> QED
    BY <1>0, <2>3, <2>4 DEF CountInv
<1>8. ASSUME NEW t \in Turns, SeeTurn(t) \/ BumpLost(t) PROVE CountInv'
  <2>1. UNCHANGED <<epochOf, epoch, row, missed>>
    BY <1>8 DEF SeeTurn, BumpLost, ledger
  <2>2. /\ turn' \in [Turns -> TurnStates] /\ Landed' = Landed
        /\ \A u \in Turns : turn'[u] = "counted" <=> turn[u] = "counted"
    BY <1>0, <1>8 DEF SeeTurn, BumpLost, Landed, TypeOK
  <2> QED
    BY <1>7, <2>1, <2>2
<1>9. CASE Crash
  <2>1. UNCHANGED <<epochOf, epoch, row, missed>>
    BY <1>9 DEF Crash, ledger
  <2>2. /\ turn' \in [Turns -> TurnStates] /\ Landed' = Landed
        /\ \A u \in Turns : turn'[u] = "counted" <=> turn[u] = "counted"
    BY <1>0, <1>9 DEF Crash, Landed, TypeOK
  <2> QED
    BY <1>7, <2>1, <2>2
<1>10. ASSUME NEW t \in Turns, Bump(t) PROVE CountInv'
  <2>1. /\ UNCHANGED <<epochOf, epoch, missed>>
        /\ turn[t] = "seen" /\ turn' = [turn EXCEPT ![t] = "counted"]
    BY <1>10 DEF Bump, ledger
  <2>2. Landed' = Landed
    BY <1>0, <2>1 DEF Landed, TypeOK
  <2>3. \A u : Live(u)' <=> Live(u)
    BY <2>1, <2>2 DEF Live
  <2>4. /\ Uncounted' = Uncounted \ {t}
        /\ IsFiniteSet(Uncounted') /\ Cardinality(Uncounted') >= Cardinality(Uncounted) - 1
        /\ Cardinality(Uncounted) \in Int /\ Cardinality(Uncounted') \in Int
    <3>1. Uncounted' = Uncounted \ {t}
      BY <1>0, <2>1, <2>3 DEF Uncounted, TypeOK
    <3>2. Cardinality(Uncounted \ {t}) >= Cardinality(Uncounted) - 1
      <4>1. Cardinality(Uncounted \ {t}) = IF t \in Uncounted THEN Cardinality(Uncounted) - 1
                                           ELSE Cardinality(Uncounted)
        BY UnreadType, FS_RemoveElement
      <4> QED
        BY <4>1, UnreadType
    <3> QED
      BY <3>1, <3>2, UnreadType, UnreadTypeNext
  <2>5. row' # NoRow
    <3>1. row' \in ScanState
      BY <1>0, <1>10, BumpedType, OpenedType DEF Bump
    <3> QED
      BY <3>1, NoRowAssumption
  <2>6. ASSUME Exists PROVE CountKeepsUp'
    <3>1. row' = [row EXCEPT !.pending = AtMost(@ + 1, MaxTurns), !.idle = 0]
      BY <1>10, <2>6 DEF Bump
    <3>2. row'.cursor = row.cursor /\ row'.pending = AtMost(row.pending + 1, MaxTurns)
      BY <1>0, <2>6, <3>1 DEF ScanState
    <3>3. Unread' = Unread
      BY <2>3, <3>2 DEF Unread
    <3>4. /\ Cardinality(Unread) \in 0..MaxTurns /\ row.pending \in 0..MaxTurns
      BY <1>0, <2>6, UnreadType DEF ScanState
    <3>5. row.pending + Cardinality(Uncounted) + missed >= Cardinality(Unread)
      BY <2>6, CountBalance DEF CountInv
    <3>6. row'.pending + Cardinality(Uncounted') + missed' >= Cardinality(Unread')
      <4>1. Cardinality(Uncounted') >= 0 /\ MaxTurns \in Nat
        BY UnreadTypeNext, TurnsAssumption
      <4>2. CASE row.pending + 1 < MaxTurns
        <5>1. row'.pending = row.pending + 1
          BY <3>2, <4>2 DEF AtMost
        <5>2. Cardinality(Uncounted') >= Cardinality(Uncounted) - 1 /\ missed' = missed
          BY <2>1, <2>4
        <5>3. /\ row.pending \in Int /\ Cardinality(Unread) \in Int
              /\ Cardinality(Uncounted) \in Int /\ Cardinality(Uncounted') \in Int
          BY <2>4, <3>4
        <5> QED
          BY <1>0, <3>3, <3>5, <5>1, <5>2, <5>3
      <4>3. CASE ~(row.pending + 1 < MaxTurns)
        BY <1>0, <2>1, <2>4, <3>2, <3>3, <3>4, <4>1, <4>3 DEF AtMost
      <4> QED
        BY <4>2, <4>3
    <3> QED
      BY <3>6 DEF CountKeepsUp, Unread, Uncounted
  <2>7. ASSUME ~Exists PROVE CountKeepsUp'
    <3>1. row'.pending = 1
      BY <1>10, <2>7 DEF Bump, Opened
    <3>2. Unread' \subseteq Uncounted
      <4>1. \A u \in Turns : Live(u) => turn[u] # "counted"
        BY <2>7 DEF CountInv
      <4>2. \A u \in Unread' : u \in Turns /\ Live(u)'
        BY DEF Unread
      <4> QED
        BY <2>3, <4>1, <4>2 DEF Uncounted
    <3>3. Cardinality(Unread') <= Cardinality(Uncounted)
      BY <3>2, UnreadType, FS_Subset
    <3>4. row'.pending + Cardinality(Uncounted') + missed' >= Cardinality(Unread')
      BY <1>0, <2>4, <3>1, <3>3, UnreadTypeNext
    <3> QED
      BY <3>4 DEF CountKeepsUp, Unread, Uncounted
  <2> QED
    BY <1>0, <2>5, <2>6, <2>7 DEF CountInv, Exists
<1>11. ASSUME NEW s \in InlineScans, NEW t \in Turns, ClaimInline(s, t) PROVE CountInv'
  <2>1. UNCHANGED <<turn, epochOf, epoch, missed>>
    BY <1>11 DEF ClaimInline, turnVars, ledger
  <2>2. row' = row \/ (Exists /\ row' = [row EXCEPT !.claim = 0])
    BY <1>11 DEF ClaimInline
  <2> QED
    BY <1>2, <1>3, <2>1, <2>2
<1>12. CASE ClaimDue
  <2>1. UNCHANGED <<turn, epochOf, epoch, missed>>
    BY <1>12 DEF ClaimDue, turnVars, ledger
  <2>2. Exists /\ row' = [row EXCEPT !.claim = 0]
    BY <1>12 DEF ClaimDue
  <2> QED
    BY <1>2, <1>3, <2>1, <2>2
<1>13. CASE StartOfBatch
  <2>1. UNCHANGED <<turn, epochOf, epoch, missed>>
    BY <1>13 DEF StartOfBatch, turnVars, ledger
  <2>2. row' = row \/ (Exists /\ row' = [row EXCEPT !.claim = 0])
    BY <1>13 DEF StartOfBatch, Claimed
  <2> QED
    BY <1>2, <1>3, <2>1, <2>2
<1>14. ASSUME NEW s \in Scanners, Step(s) PROVE CountInv'
  <2>0. /\ seg[s].pending \in Nat
        /\ Exists => /\ Cardinality(seg[s].turns) \in Nat
                     /\ Cardinality(Fresh(s)) \in Nat /\ Cardinality(Again(s)) \in Nat
                     /\ Cardinality(seg[s].turns) = Cardinality(Fresh(s)) + Cardinality(Again(s))
    BY <1>0, FreshOrAgain, TurnsAssumption DEF TypeOK, Segments
  <2>1. CASE Load(s) \/ Read(s) \/ Call(s) \/ WriteEpisode(s)
    <3>1. UNCHANGED <<turn, epochOf, epoch, missed, row>>
      BY <2>1 DEF Load, Read, Call, WriteEpisode, turnVars, ledger
    <3> QED
      BY <1>2, <3>1
  <2>2. CASE ReleaseClaim(s)
    <3>1. UNCHANGED <<turn, epochOf, epoch, missed>>
      BY <2>2 DEF ReleaseClaim, turnVars, ledger
    <3>2. row' = row \/ (Exists /\ row' = [row EXCEPT !.claim = Unclaimed])
      BY <2>2 DEF ReleaseClaim
    <3> QED
      BY <1>2, <1>3, <3>1, <3>2
  <2>3. CASE Check(s)
    <3>1. UNCHANGED <<turn, epochOf, epoch, missed>>
      BY <2>3 DEF Check, turnVars, ledger
    <3>2. row' = row \/ (Exists /\ row' = [row EXCEPT !.claim = 0])
      BY <2>3 DEF Check, Claimed
    <3> QED
      BY <1>2, <1>3, <3>1, <3>2
  <2>4. CASE Settle(s) \/ Fail(s)
    <3>1. UNCHANGED <<turn, epochOf, epoch>>
      BY <2>4 DEF Settle, Fail, turnVars
    <3>2. \/ UNCHANGED <<row, missed>>
          \/ /\ Claimed /\ row' = Settled(seg[s].last, Cardinality(seg[s].turns))
             /\ missed' = missed + Cardinality(Again(s))
          \/ /\ Claimed /\ ~StrikesOut /\ UNCHANGED missed
             /\ row' = [row EXCEPT !.failures = @ + 1, !.idle = 0, !.claim = Unclaimed]
      BY <2>4 DEF Settle, Fail
    <3>3. Exists /\ missed' = missed + Cardinality(Again(s)) =>
            missed' - missed >= Cardinality(seg[s].turns) - Cardinality(Fresh(s))
      BY <1>0, <2>0
    <3> QED
      BY <1>2, <1>4, <1>5, <2>0, <3>1, <3>2, <3>3 DEF Claimed
  <2>5. CASE SettleEmpty(s)
    <3>1. UNCHANGED <<turn, epochOf, epoch>>
      BY <2>5 DEF SettleEmpty, turnVars
    <3>2. \/ UNCHANGED <<row, missed>>
          \/ /\ Claimed /\ row' = Settled(seg[s].last, seg[s].pending)
             /\ missed' = missed + Cardinality(Again(s))
                             + AtLeast(seg[s].pending - Cardinality(seg[s].turns), 0)
      BY <2>5 DEF SettleEmpty, EmptyCount
    <3>3. ASSUME Exists,
                 missed' = missed + Cardinality(Again(s))
                             + AtLeast(seg[s].pending - Cardinality(seg[s].turns), 0)
          PROVE  missed' - missed >= seg[s].pending - Cardinality(Fresh(s))
      <4>1. AtLeast(seg[s].pending - Cardinality(seg[s].turns), 0) \in Int
        BY <2>0, <3>3 DEF AtLeast
      <4>2. AtLeast(seg[s].pending - Cardinality(seg[s].turns), 0)
              >= seg[s].pending - Cardinality(seg[s].turns)
        BY <2>0, <3>3 DEF AtLeast
      <4> QED
        BY <1>0, <2>0, <3>3, <4>1, <4>2
    <3> QED
      BY <1>2, <1>5, <2>0, <3>1, <3>2, <3>3 DEF Claimed
  <2> QED
    BY <1>14, <2>1, <2>2, <2>3, <2>4, <2>5 DEF Step
<1>15. CASE Archive
  <2>1. ~Exists' /\ \A t \in Turns : ~Live(t)'
    BY <1>0, <1>15, LiveStays DEF Archive, Exists
  <2> QED
    BY <1>0, <2>1 DEF CountInv, CountKeepsUp
<1>16. CASE Tick
  <2>1. UNCHANGED <<turn, epochOf, epoch, missed>> /\ Exists
    BY <1>16 DEF Tick, turnVars, ledger
  <2>2. row' \in ScanState
    BY <1>0, <1>16, <2>1, TickedType DEF Tick
  <2>3. row'.cursor = row.cursor /\ row'.pending = row.pending
    BY <1>0, <1>16, <2>1 DEF Tick, ScanState
  <2> QED
    BY <1>2, <2>1, <2>2, <2>3, NoRowAssumption
<1>17. CASE UNCHANGED vars
  BY <1>2, <1>17 DEF vars, turnVars, ledger
<1> QED
  BY <1>6, <1>8, <1>9, <1>10, <1>11, <1>12, <1>13, <1>14, <1>15, <1>16, <1>17 DEF Next

\* The count never falls behind the turns still to be read, whatever bumps,
\* settlements and archives interleave, fail or die and however slow the scanners
\* are, but for what is remembered as missed.
THEOREM CountNeverBehind == Spec => []CountKeepsUp
<1>1. Init => CountInv
  BY HeldInit DEF Init, CountInv, CountKeepsUp, Exists, Live, Landed
<1>2. CountInv /\ [Next]_vars => CountInv'
  BY CountStep
<1>3. CountInv => CountKeepsUp
  BY DEF CountInv
<1> QED
  BY <1>1, <1>2, <1>3, PTL DEF Spec

-----------------------------------------------------------------------------
(***************************************************************************)
(* What was told: a turn told once more than things went wrong is behind   *)
(* the cursor, or its scan has only to settle and holds the claim.         *)
(***************************************************************************)
\* How often a database call failed, the process died, or an episode was told or
\* left to be settled by a scanner that had lost its claim.
Mishaps == faults + crashes + strays

Settling(s) == s \notin lost /\ stage[s] = "settle"

ToldOf(t) ==
    \/ told[t] <= Mishaps
    \/ /\ told[t] <= Mishaps + 1 /\ Exists
       /\ \/ t <= row.cursor
          \/ \E s \in Scanners : Settling(s) /\ t \in seg[s].turns

ToldInv ==
    /\ HeldInv
    /\ \A t \in Turns : ToldOf(t)

\* A step that goes wrong, and one in which all goes right: whoever has only to
\* settle stays there.
GoesWrong == Mishaps' = Mishaps + 1
GoesRight ==
    /\ Mishaps' = Mishaps
    /\ \A s \in Scanners : Settling(s) => Settling(s)' /\ seg'[s] = seg[s]

LEMMA MishapsType ==
    ASSUME TypeOK
    PROVE  faults \in Nat /\ crashes \in Nat /\ strays \in Nat /\ Mishaps \in Nat
<1>1. faults \in Nat /\ crashes \in Nat /\ strays \in Nat
  BY BoundAssumption DEF TypeOK
<1> QED
  BY <1>1 DEF Mishaps

\* A claim that is taken, or let go by a scanner that had none to let go, may be
\* that of a scanner with only the settlement left.
LEMMA RobberyTells ==
    ASSUME TypeOK, UNCHANGED bounds, NEW robbed \in SUBSET Scanners, NEW s \in Scanners,
           Stray(robbed), lost' \subseteq lost \cup robbed, ~Settling(s),
           \A z \in Scanners : z # s => stage'[z] = stage[z] /\ seg'[z] = seg[z]
    PROVE  GoesWrong \/ GoesRight
<1>0. faults \in Nat /\ crashes \in Nat /\ strays \in Nat
  BY MishapsType
<1>1. CASE \E z \in robbed \ lost : stage[z] = "settle"
  <2>1. strays' = strays + 1 /\ faults' = faults /\ crashes' = crashes
    BY <1>1 DEF Stray, bounds
  <2> QED
    BY <1>0, <2>1 DEF GoesWrong, Mishaps
<1>2. CASE ~\E z \in robbed \ lost : stage[z] = "settle"
  <2>1. strays' = strays /\ faults' = faults /\ crashes' = crashes
    BY <1>2 DEF Stray, bounds
  <2>2. ASSUME NEW z \in Scanners, Settling(z) PROVE Settling(z)' /\ seg'[z] = seg[z]
    <3>1. z # s /\ z \notin robbed
      BY <1>2, <2>2 DEF Settling
    <3> QED
      BY <2>2, <3>1 DEF Settling
  <2> QED
    BY <2>1, <2>2 DEF GoesRight, Mishaps
<1> QED
  BY <1>1, <1>2

\* A scanner that takes the claim, or that is done.
LEMMA BeginTells ==
    ASSUME TypeOK, UNCHANGED bounds, NEW s \in Scanners, NEW to, NEW bound,
           Begin(s, to, bound), ~Working(s)
    PROVE  GoesWrong \/ GoesRight
<1> DEFINE robbed == IF row.claim > Stale THEN AtWork ELSE {}
<1>1. robbed \in SUBSET Scanners /\ Stray(robbed) /\ lost' = lost \cup robbed
  BY DEF Begin, AtWork
<1>2. ~Settling(s)
  BY DEF Settling, Working
<1>3. \A z \in Scanners : z # s => stage'[z] = stage[z] /\ seg'[z] = seg[z]
  BY DEF Begin, TypeOK
<1> HIDE DEF robbed
<1> QED
  BY <1>1, <1>2, <1>3, RobberyTells

LEMMA LetGoTells ==
    ASSUME TypeOK, UNCHANGED bounds, NEW s \in Scanners, LetGo(s), ~Settling(s)
    PROVE  GoesWrong \/ GoesRight
<1> DEFINE robbed == IF s \in lost THEN AtWork \ {s} ELSE {}
<1>1. robbed \in SUBSET Scanners /\ Stray(robbed) /\ lost' = (lost \cup robbed) \ {s}
  BY DEF LetGo, AtWork
<1>2. \A z \in Scanners : z # s => stage'[z] = stage[z] /\ seg'[z] = seg[z]
  BY DEF LetGo, Leave, TypeOK
<1> HIDE DEF robbed
<1> QED
  BY <1>1, <1>2, RobberyTells

\* Any other step of a scanner that is not settling.
LEMMA OwnStepTells ==
    ASSUME TypeOK, UNCHANGED bounds, UNCHANGED strays, NEW s \in Scanners, ~Settling(s),
           lost' \subseteq lost,
           \A z \in Scanners : z # s => stage'[z] = stage[z] /\ seg'[z] = seg[z]
    PROVE  GoesRight
<1>1. Mishaps' = Mishaps
  BY DEF Mishaps, bounds
<1> QED
  BY <1>1 DEF GoesRight, Settling

LEMMA DoneTells ==
    ASSUME TypeOK, UNCHANGED bounds, NEW s \in Scanners, Done(s), ~Settling(s)
    PROVE  GoesRight
<1>1. UNCHANGED strays /\ lost' \subseteq lost
  BY DEF Done
<1>2. \A z \in Scanners : z # s => stage'[z] = stage[z] /\ seg'[z] = seg[z]
  BY DEF Done, Leave, TypeOK
<1> QED
  BY <1>1, <1>2, OwnStepTells

\* What a step tells, and what goes wrong in it.
ToldWrite ==
    \/ Archive
    \/ UNCHANGED told /\ ~Archive /\ (Mishaps' > Mishaps \/ GoesRight)
    \/ \E s \in Scanners :
          /\ Settling(s) /\ ~Archive /\ Claimed
          /\ row' = Settled(seg[s].last, Cardinality(seg[s].turns))
          /\ UNCHANGED told /\ Mishaps' = Mishaps
    \/ \E s \in Scanners :
          /\ stage[s] = "episode" /\ stage' = [stage EXCEPT ![s] = "settle"]
          /\ UNCHANGED <<seg, row, lost, bounds>> /\ Claimed
          /\ strays' = IF s \in lost THEN strays + 1 ELSE strays
          /\ told' = [t \in Turns |-> IF t \in seg[s].turns THEN told[t] + 1 ELSE told[t]]

\* A step never takes back what went astray.
LEMMA StraysGrow ==
    ASSUME TypeOK, [Next]_vars
    PROVE  strays' = strays \/ strays' = strays + 1
<1>1. ASSUME NEW robbed, Stray(robbed) PROVE strays' = strays \/ strays' = strays + 1
  BY <1>1 DEF Stray
<1>2. ASSUME NEW s \in Scanners, Done(s) \/ UNCHANGED scanVars PROVE strays' = strays
  BY <1>2 DEF Done, scanVars
<1>3. ASSUME NEW s \in Scanners, NEW to, NEW bound, Begin(s, to, bound)
      PROVE  strays' = strays \/ strays' = strays + 1
  BY <1>1, <1>3 DEF Begin
<1>4. ASSUME NEW s \in Scanners, LetGo(s) PROVE strays' = strays \/ strays' = strays + 1
  BY <1>1, <1>4 DEF LetGo
<1>5. ASSUME NEW s \in InlineScans, NEW t \in Turns, ClaimInline(s, t)
      PROVE  strays' = strays \/ strays' = strays + 1
  BY <1>2, <1>3, <1>5 DEF ClaimInline, Scanners
<1>6. CASE ClaimDue \/ StartOfBatch
  BY <1>2, <1>3, <1>6 DEF ClaimDue, StartOfBatch, Scanners
<1>7. ASSUME NEW s \in Scanners, Step(s) PROVE strays' = strays \/ strays' = strays + 1
  <2>1. CASE Load(s) \/ Read(s) \/ Call(s) \/ Check(s) \/ WriteEpisode(s)
    BY <1>2, <2>1 DEF Load, Read, Call, Check, WriteEpisode, GoTo
  <2>2. CASE ReleaseClaim(s) \/ Settle(s) \/ SettleEmpty(s) \/ Fail(s)
    BY <1>2, <1>4, <2>2 DEF ReleaseClaim, Settle, SettleEmpty, Fail
  <2> QED
    BY <1>7, <2>1, <2>2 DEF Step
<1>8. CASE Archive
  BY <1>1, <1>8 DEF Archive
<1> QED
  BY <1>5, <1>6, <1>7, <1>8
  DEF Next, vars, Land, SeeTurn, Bump, BumpLost, Crash, Tick, scanVars

LEMMA ToldWrites ==
    ASSUME TypeOK, HoldInv, [Next]_vars
    PROVE  ToldWrite
<1> USE DEF bounds
<1>0. /\ faults \in Nat /\ crashes \in Nat /\ strays \in Nat /\ epoch \in Nat
      /\ Sweeper \in Scanners /\ InlineScans \subseteq Scanners
      /\ strays' = strays \/ strays' = strays + 1
  BY MishapsType, BoundAssumption, StraysGrow DEF TypeOK, Epochs, Scanners
<1>1. CASE Archive
  BY <1>1 DEF ToldWrite
<1>2. CASE Fault \/ Crash
  <2>1. ~Archive
    BY <1>0, <1>2 DEF Archive, Fault, Crash
  <2>2. Mishaps' > Mishaps
    BY <1>0, <1>2 DEF Fault, Crash, Mishaps
  <2>3. UNCHANGED told
    <3>1. ~UNCHANGED bounds
      BY <1>0, <1>2 DEF Fault, Crash
    <3> QED
      BY <2>1, <3>1
      DEF Next, vars, Land, SeeTurn, Bump, BumpLost, ClaimInline, ClaimDue, StartOfBatch, Tick,
          Step, Load, ReleaseClaim, Read, Call, Check, WriteEpisode, Settle, SettleEmpty, Fail,
          Crash, NoFault
  <2> QED
    BY <2>1, <2>2, <2>3 DEF ToldWrite
<1>3. CASE ~Archive /\ ~Fault /\ ~Crash
  <2>1. ASSUME UNCHANGED told, GoesWrong \/ GoesRight PROVE ToldWrite
    <3>1. GoesWrong => Mishaps' > Mishaps
      BY MishapsType DEF GoesWrong
    <3> QED
      BY <1>3, <2>1, <3>1 DEF ToldWrite
  <2>2. CASE UNCHANGED <<told, scanVars, bounds>>
    <3>1. GoesRight
      BY <2>2 DEF GoesRight, Mishaps, Settling, scanVars
    <3> QED
      BY <2>1, <2>2, <3>1
  <2>3. ASSUME NEW s \in InlineScans, NEW t \in Turns, ClaimInline(s, t) PROVE ToldWrite
    <3>1. UNCHANGED told /\ UNCHANGED bounds /\ ~Working(s)
      BY <1>3, <2>3 DEF ClaimInline, NoFault, Working
    <3>2. Begin(s, "load", t) \/ UNCHANGED scanVars
      BY <2>3 DEF ClaimInline
    <3> QED
      BY <1>0, <2>1, <2>2, <3>1, <3>2, BeginTells
  <2>4. CASE ClaimDue
    <3>1. UNCHANGED told /\ UNCHANGED bounds /\ ~Working(Sweeper) /\ Begin(Sweeper, "batched", 0)
      BY <2>4 DEF ClaimDue, Working
    <3> QED
      BY <1>0, <2>1, <3>1, BeginTells
  <2>5. CASE StartOfBatch
    <3>1. UNCHANGED told /\ UNCHANGED bounds /\ ~Settling(Sweeper)
      BY <1>3, <2>5 DEF StartOfBatch, NoFault, Settling
    <3>2. CASE Done(Sweeper)
      BY <1>0, <2>1, <3>1, <3>2, DoneTells
    <3>3. CASE ~Done(Sweeper)
      <4>1. /\ UNCHANGED <<lost, strays>>
            /\ \A z \in Scanners : z # Sweeper => stage'[z] = stage[z] /\ seg'[z] = seg[z]
        BY <2>5, <3>3 DEF StartOfBatch, TypeOK
      <4> QED
        BY <1>0, <2>1, <3>1, <4>1, OwnStepTells
    <3> QED
      BY <3>2, <3>3
  <2>6. ASSUME NEW s \in Scanners, Load(s) \/ Read(s) \/ Call(s) \/ Check(s) PROVE ToldWrite
    <3>1. UNCHANGED told /\ UNCHANGED bounds /\ ~Settling(s)
      BY <1>3, <2>6 DEF Load, Read, Call, Check, NoFault, Settling
    <3>2. CASE Done(s)
      BY <2>1, <3>1, <3>2, DoneTells
    <3>3. CASE ~Done(s)
      <4>1. /\ UNCHANGED <<lost, strays>>
            /\ \A z \in Scanners : z # s => stage'[z] = stage[z] /\ seg'[z] = seg[z]
        BY <2>6, <3>3 DEF Load, Read, Call, Check, GoTo, TypeOK
      <4> QED
        BY <2>1, <3>1, <4>1, OwnStepTells
    <3> QED
      BY <3>2, <3>3
  <2>7. ASSUME NEW s \in Scanners, ReleaseClaim(s) \/ SettleEmpty(s) \/ Fail(s) PROVE ToldWrite
    <3>1. UNCHANGED told /\ UNCHANGED bounds /\ ~Settling(s)
      BY <1>3, <2>7 DEF ReleaseClaim, SettleEmpty, Fail, NoFault, Settling
    <3>2. Done(s) \/ LetGo(s)
      BY <2>7 DEF ReleaseClaim, SettleEmpty, Fail
    <3> QED
      BY <2>1, <3>1, <3>2, DoneTells, LetGoTells
  <2>8. ASSUME NEW s \in Scanners, WriteEpisode(s) PROVE ToldWrite
    <3>1. UNCHANGED bounds /\ UNCHANGED row /\ ~Settling(s)
      BY <1>3, <2>8 DEF WriteEpisode, NoFault, Settling
    <3>2. CASE Done(s) /\ UNCHANGED told
      BY <2>1, <3>1, <3>2, DoneTells
    <3>3. CASE ~(Done(s) /\ UNCHANGED told)
      BY <1>3, <2>8, <3>1, <3>3 DEF WriteEpisode, MayInsert, ToldWrite
    <3> QED
      BY <3>2, <3>3
  <2>9. ASSUME NEW s \in Scanners, Settle(s) PROVE ToldWrite
    <3>1. UNCHANGED told /\ UNCHANGED bounds /\ (Done(s) \/ LetGo(s)) /\ Working(s)
      BY <1>3, <2>9 DEF Settle, NoFault, Working
    <3>2. CASE ~Settling(s)
      BY <2>1, <3>1, <3>2, DoneTells, LetGoTells
    <3>3. CASE Settling(s)
      <4>1. Claimed
        BY <3>1, <3>3 DEF HoldInv, Holder, Settling
      <4>2. row' = Settled(seg[s].last, Cardinality(seg[s].turns)) /\ LetGo(s)
        BY <1>3, <2>9, <4>1 DEF Settle
      <4>3. strays' = strays
        BY <3>3, <4>2 DEF LetGo, Stray, Settling
      <4>4. Mishaps' = Mishaps
        BY <3>1, <4>3 DEF Mishaps
      <4> QED
        BY <1>3, <3>1, <3>3, <4>1, <4>2, <4>4 DEF ToldWrite
    <3> QED
      BY <3>2, <3>3
  <2>10. ASSUME NEW s \in Scanners, Step(s) PROVE ToldWrite
    BY <2>6, <2>7, <2>8, <2>9, <2>10 DEF Step
  <2>11. ASSUME NEW t \in Turns, Land(t) \/ SeeTurn(t) \/ Bump(t) \/ BumpLost(t)
         PROVE  UNCHANGED <<told, scanVars, bounds>>
    BY <1>3, <2>11 DEF Land, SeeTurn, Bump, BumpLost
  <2>12. CASE Tick \/ UNCHANGED vars
    <3>1. UNCHANGED <<told, scanVars, bounds>>
      BY <2>12 DEF Tick, vars, scanVars
    <3> QED
      BY <2>2, <3>1
  <2> QED
    BY <1>3, <2>2, <2>3, <2>4, <2>5, <2>10, <2>11, <2>12 DEF Next
<1> QED
  BY <1>1, <1>2, <1>3

\* Every step keeps what is known of the telling.
LEMMA ToldStep ==
    ASSUME ToldInv, [Next]_vars
    PROVE  ToldInv'
<1>0. /\ HeldInv /\ HeldInv' /\ TypeOK /\ TypeOK' /\ HoldInv
      /\ told \in [Turns -> Nat] /\ Mishaps \in Nat /\ Mishaps' \in Nat
      /\ stage \in [Scanners -> Stages]
      /\ Turns \subseteq Nat
  <2>1. HeldInv /\ HeldInv' /\ TypeOK /\ TypeOK' /\ HoldInv
    BY HeldStep DEF ToldInv, HeldInv, TurnsInv
  <2>2. Mishaps \in Nat
    BY <2>1, MishapsType
  <2>3. Mishaps' \in Nat
    <3>1. faults' \in Nat /\ crashes' \in Nat /\ strays' \in Nat
      BY <2>1, BoundAssumption DEF TypeOK
    <3>2. \A a, b, c \in Nat : a + b + c \in Nat
      OBVIOUS
    <3> QED
      BY <3>1, <3>2, Zenon DEF Mishaps
  <2>4. told \in [Turns -> Nat] /\ stage \in [Scanners -> Stages]
    BY <2>1 DEF TypeOK
  <2>5. Turns \subseteq Nat
    BY TurnsAssumption DEF Turns
  <2> QED
    BY <2>1, <2>2, <2>3, <2>4, <2>5
<1> SUFFICES ASSUME NEW t \in Turns PROVE ToldOf(t)'
  BY <1>0 DEF ToldInv
<1>1. ToldOf(t) /\ told[t] \in Nat /\ told[t] <= Mishaps + 1
  <2>1. ToldOf(t) /\ told[t] \in Nat
    BY <1>0 DEF ToldInv
  <2> QED
    BY <1>0, <2>1 DEF ToldOf
<1>2. ASSUME ~Archive, Exists
      PROVE  row' # NoRow /\ row'.cursor >= row.cursor /\ row.cursor \in Nat /\ row'.cursor \in Nat
  <2>1. row' # NoRow
    BY <1>0, <1>2, CursorWrites DEF Exists
  <2>2. row \in ScanState /\ row' \in ScanState
    BY <1>0, <1>2, <2>1 DEF TypeOK, Exists
  <2> QED
    BY <1>0, <1>2, <2>1, <2>2, CursorStep, TurnsAssumption DEF ScanState
<1>3. CASE Archive
  <2>1. told'[t] = 0
    BY <1>3 DEF Archive
  <2>2. told'[t] <= Mishaps'
    BY <1>0, <2>1
  <2> QED
    BY <2>2 DEF ToldOf
<1>4. CASE UNCHANGED told /\ Mishaps' > Mishaps
  <2>1. told'[t] <= Mishaps'
    BY <1>0, <1>1, <1>4
  <2> QED
    BY <2>1 DEF ToldOf
\* A turn told once too often stays behind the cursor.
<1>5. ASSUME ~Archive, Exists, told'[t] <= Mishaps' + 1, t <= row.cursor
      PROVE  ToldOf(t)'
  <2>1. t <= row'.cursor
    BY <1>0, <1>2, <1>5
  <2> QED
    BY <1>2, <1>5, <2>1 DEF ToldOf, Exists
<1>6. CASE UNCHANGED told /\ ~Archive /\ GoesRight
  <2>1. told'[t] = told[t] /\ Mishaps' = Mishaps
    BY <1>6 DEF GoesRight
  <2>2. told'[t] <= Mishaps' + 1
    BY <1>1, <2>1
  <2>3. ASSUME NEW s \in Scanners, Settling(s), t \in seg[s].turns, Exists PROVE ToldOf(t)'
    <3>1. Settling(s)' /\ t \in seg'[s].turns
      BY <1>6, <2>3 DEF GoesRight
    <3> QED
      BY <1>2, <1>6, <2>2, <2>3, <3>1 DEF ToldOf, Exists
  <2>4. told[t] <= Mishaps => ToldOf(t)'
    BY <2>1 DEF ToldOf
  <2> QED
    BY <1>1, <1>5, <1>6, <2>2, <2>3, <2>4 DEF ToldOf
<1>7. ASSUME NEW s \in Scanners, Settling(s), ~Archive, Claimed,
             row' = Settled(seg[s].last, Cardinality(seg[s].turns)),
             UNCHANGED told, Mishaps' = Mishaps
      PROVE  ToldOf(t)'
  <2>1. told'[t] = told[t] /\ told'[t] <= Mishaps' + 1
    BY <1>1, <1>7
  <2>2. ASSUME NEW z \in Scanners, Settling(z), t \in seg[z].turns PROVE ToldOf(t)'
    <3>1. z = s
      BY <1>0, <1>7, <2>2 DEF HoldInv, Holder, Working, Settling
    <3>2. t <= seg[s].last
      BY <1>0, <2>2, <3>1 DEF HeldInv, SegmentEnds
    <3>3. row'.cursor = AtLeast(row.cursor, seg[s].last)
      BY <1>0, <1>7 DEF TypeOK, Claimed, Exists, Settled, ScanState
    <3>4. row.cursor \in Nat /\ seg[s].last \in Nat
      BY <1>0, <1>7, TurnsAssumption DEF TypeOK, Claimed, Exists, ScanState, Segments
    <3>5. t <= row'.cursor
      BY <1>0, <3>2, <3>3, <3>4 DEF AtLeast
    <3> QED
      BY <1>2, <1>7, <2>1, <3>5 DEF ToldOf, Exists, Claimed
  <2>3. told[t] <= Mishaps => ToldOf(t)'
    BY <1>7, <2>1 DEF ToldOf
  <2> QED
    BY <1>1, <1>5, <1>7, <2>1, <2>2, <2>3 DEF ToldOf
<1>8. ASSUME NEW s \in Scanners, stage[s] = "episode", stage' = [stage EXCEPT ![s] = "settle"],
             UNCHANGED <<seg, row, lost, bounds>>, Claimed,
             strays' = IF s \in lost THEN strays + 1 ELSE strays,
             told' = [u \in Turns |-> IF u \in seg[s].turns THEN told[u] + 1 ELSE told[u]]
      PROVE  ToldOf(t)'
  <2>0. /\ faults' = faults /\ crashes' = crashes
        /\ faults \in Nat /\ crashes \in Nat /\ strays \in Nat
    BY <1>0, <1>8, MishapsType DEF bounds
  <2>1. Exists' /\ Exists /\ row' = row
    BY <1>8 DEF Claimed, Exists
  <2>2. \A z \in Scanners : Settling(z) => Settling(z)' /\ seg'[z] = seg[z]
    BY <1>0, <1>8 DEF Settling
  <2>3. told'[t] <= told[t] + 1 /\ (t \notin seg[s].turns => told'[t] = told[t])
    BY <1>1, <1>8
  <2>4. told'[t] \in Nat
    BY <1>1, <1>8
  <2>5. ASSUME told'[t] <= Mishaps' + 1, ~(told[t] <= Mishaps) PROVE ToldOf(t)'
    BY <1>1, <2>1, <2>2, <2>5 DEF ToldOf
  <2>6. CASE s \in lost
    <3>1. Mishaps' = Mishaps + 1
      BY <1>8, <2>0, <2>6 DEF Mishaps
    <3>2. told[t] <= Mishaps => told'[t] <= Mishaps'
      BY <1>0, <1>1, <2>3, <2>4, <3>1
    <3>3. told'[t] <= Mishaps' + 1
      BY <1>0, <1>1, <2>3, <2>4, <3>1
    <3> QED
      BY <2>5, <3>2, <3>3 DEF ToldOf
  <2>7. CASE s \notin lost
    <3>1. Mishaps' = Mishaps
      BY <1>8, <2>0, <2>7 DEF Mishaps
    <3>2. CASE t \notin seg[s].turns
      <4>1. told'[t] = told[t] /\ told'[t] <= Mishaps' + 1
        BY <1>1, <2>3, <3>1, <3>2
      <4>2. told[t] <= Mishaps => ToldOf(t)'
        BY <3>1, <4>1 DEF ToldOf
      <4> QED
        BY <2>5, <4>1, <4>2
    <3>3. CASE t \in seg[s].turns
      <4>1. \A z \in Scanners : ~Settling(z)
        BY <1>0, <1>8, <2>7 DEF HoldInv, Holder, Working, Settling
      <4>2. row.cursor < t /\ row.cursor \in Nat
        BY <1>0, <2>1, <2>7, <3>3, TurnsAssumption
        DEF HeldInv, SegmentHeld, TypeOK, Exists, ScanState
      <4>3. ~(t <= row.cursor)
        BY <1>0, <4>2
      <4>4. told[t] <= Mishaps
        BY <1>1, <4>1, <4>3 DEF ToldOf
      <4>5. told'[t] <= Mishaps' + 1
        BY <1>0, <1>1, <2>3, <2>4, <3>1, <4>4
      <4>6. Settling(s)' /\ t \in seg'[s].turns
        BY <1>0, <1>8, <2>7, <3>3 DEF Settling
      <4> QED
        BY <2>1, <4>5, <4>6 DEF ToldOf
    <3> QED
      BY <3>2, <3>3
  <2> QED
    BY <2>6, <2>7
<1> QED
  BY <1>0, <1>3, <1>4, <1>6, <1>7, <1>8, ToldWrites DEF ToldWrite

\* A turn is told again only when a database call failed, the process died, or
\* the scanner that told it had lost its claim or lost it before it settled,
\* however slow the scanners are and whatever is archived.
THEOREM ToldAgainAfterFailure == Spec => []ToldOnce
<1>1. Init => ToldInv
  BY HeldInit DEF Init, ToldInv, ToldOf, Mishaps
<1>2. ToldInv /\ [Next]_vars => ToldInv'
  BY ToldStep
<1>3. ToldInv => ToldOnce
  <2> SUFFICES ASSUME ToldInv, NEW t \in Turns
               PROVE  told[t] <= 1 + faults + crashes + strays
    BY DEF ToldOnce
  <2>1. told[t] \in Nat /\ faults \in Nat /\ crashes \in Nat /\ strays \in Nat
    BY BoundAssumption DEF ToldInv, HeldInv, TurnsInv, TypeOK
  <2> QED
    BY <2>1 DEF ToldInv, ToldOf, Mishaps
<1> QED
  BY <1>1, <1>2, <1>3, PTL DEF Spec
=============================================================================
