------------------------ MODULE ProfileRebuildProofs ------------------------
(***************************************************************************)
(* Theorems about ProfileRebuild for any users, turns, sweepers, knobs and *)
(* bounds.                                                                 *)
(*                                                                         *)
(* The state row is what every write of a profile goes by, and nothing but *)
(* the erasure removes it (EraseInv).  A worker holds the users it claimed *)
(* and has not left; every step keeps who holds whom, or takes users whose *)
(* claim is not fresh for one worker (WorkStep), and a fresh claim is not  *)
(* released but by its holder (FreshStep), so the holder is the only one   *)
(* (SoleInv).  Then what the holder read covers the profile it replaces    *)
(* (ViewInv).  Losing a claim under its worker voids the last two.         *)
(***************************************************************************)
EXTENDS ProfileRebuild, FiniteSetTheorems, SequenceTheorems, TLAPS

\* Each table has one entry per user.
PerUser ==
    /\ row \in [Users -> ProfileState \cup {NoRow}]
    /\ profile = [u \in Users |-> profile[u]]

EraseInv == PerUser /\ ErasedStaysErased

LEMMA EraseInit == Init => EraseInv
  BY DEF Init, EraseInv, PerUser, ErasedStaysErased, Exists

-----------------------------------------------------------------------------
\* What the statements of profile_state.rs make of a row is a row.
LEMMA RowsOfStatements ==
    ASSUME NEW r \in ProfileState
    PROVE  /\ [r EXCEPT !.pending = @ + 1, !.quiet = FALSE] \in ProfileState
           /\ [r EXCEPT !.claim = "fresh"] \in ProfileState
           /\ [r EXCEPT !.claim = "stale"] \in ProfileState
           /\ [r EXCEPT !.quiet = TRUE] \in ProfileState
           /\ FinishedOk(r) \in ProfileState /\ FinishedFailed(r) \in ProfileState
<1>1. [r EXCEPT !.pending = @ + 1, !.quiet = FALSE] \in ProfileState
  <2> DEFINE count == r.pending + 1
  <2>1. count \in Nat
    BY DEF ProfileState
  <2> HIDE DEF count
  <2>2. [r EXCEPT !.pending = count, !.quiet = FALSE] \in ProfileState
    BY <2>1 DEF ProfileState
  <2> QED
    BY <2>2 DEF count, ProfileState
<1>2. [r EXCEPT !.claim = "fresh"] \in ProfileState
  BY DEF ProfileState
<1>3. [r EXCEPT !.claim = "stale"] \in ProfileState
  BY DEF ProfileState
<1>4. [r EXCEPT !.quiet = TRUE] \in ProfileState
  BY DEF ProfileState
<1>5. FinishedOk(r) \in ProfileState
  <2>1. 0 \in 0..(MaxFailures - 1)
    BY KnobAssumption
  <2> QED
    BY <2>1 DEF FinishedOk, ProfileState
<1>6. FinishedFailed(r) \in ProfileState
  <2> DEFINE count == IF StrikesOut(r) THEN 0 ELSE r.pending
             streak == IF StrikesOut(r) THEN 0 ELSE r.failures + 1
  <2>1. count \in Nat /\ streak \in 0..(MaxFailures - 1)
    BY KnobAssumption DEF StrikesOut, ProfileState
  <2>2. FinishedFailed(r) = [r EXCEPT !.pending = count, !.failures = streak,
                                      !.quiet = FALSE, !.claim = "none"]
    BY DEF FinishedFailed, ProfileState
  <2> HIDE DEF count, streak
  <2> QED
    BY <2>1, <2>2 DEF ProfileState
<1> QED
  BY <1>1, <1>2, <1>3, <1>4, <1>5, <1>6

LEMMA FirstRow ==
    [pending |-> 1, failures |-> 0, claim |-> "none", quiet |-> FALSE] \in ProfileState
  BY KnobAssumption DEF ProfileState

\* A step leaves a user's row a row, and takes it away only as an erasure.
LEMMA RowStep ==
    ASSUME PerUser, [Next]_vars
    PROVE  /\ row' \in [Users -> ProfileState \cup {NoRow}]
           /\ \A u \in Users : Exists(u) => Exists(u)' \/ Erase(u)
<1> USE DEF tables, work, ghosts, bounds
<1>0. row \in [Users -> ProfileState \cup {NoRow}] /\ NoRow \notin ProfileState
  BY RowAssumption DEF PerUser
<1>1. CASE UNCHANGED row
  BY <1>0, <1>1 DEF Exists
<1>2. ASSUME NEW u, NEW r, row' = [row EXCEPT ![u] = r], u \in Users => r \in ProfileState
      PROVE  /\ row' \in [Users -> ProfileState \cup {NoRow}]
             /\ \A v \in Users : Exists(v) => Exists(v)' \/ Erase(v)
  BY <1>0, <1>2 DEF Exists
<1>3. ASSUME NEW u \in Users, Exists(u) PROVE row[u] \in ProfileState
  BY <1>0, <1>3 DEF Exists
<1>4. ASSUME NEW u, NEW c, row' = [row EXCEPT ![u].claim = c], c \in {"fresh", "stale"},
             Exists(u)
      PROVE  /\ row' \in [Users -> ProfileState \cup {NoRow}]
             /\ \A v \in Users : Exists(v) => Exists(v)' \/ Erase(v)
  <2>1. u \in Users => [row[u] EXCEPT !.claim = c] \in ProfileState
    BY <1>3, <1>4, RowsOfStatements
  <2> QED
    BY <1>2, <1>4, <2>1
<1>5. ASSUME NEW t \in Turns, Bump(t)
      PROVE  /\ row' \in [Users -> ProfileState \cup {NoRow}]
             /\ \A v \in Users : Exists(v) => Exists(v)' \/ Erase(v)
  <2>1. UserOf[t] \in Users => BumpedRow(UserOf[t]) \in ProfileState
    BY <1>3, RowsOfStatements, FirstRow DEF BumpedRow
  <2> QED
    BY <1>1, <1>2, <1>5, <2>1 DEF Bump
<1>6. ASSUME NEW t \in Turns, Claim(t)
      PROVE  /\ row' \in [Users -> ProfileState \cup {NoRow}]
             /\ \A v \in Users : Exists(v) => Exists(v)' \/ Erase(v)
  BY <1>1, <1>4, <1>6 DEF Claim, MayClaim, Pending
<1>7. ASSUME NEW w \in Sweepers, ClaimDue(w)
      PROVE  /\ row' \in [Users -> ProfileState \cup {NoRow}]
             /\ \A v \in Users : Exists(v) => Exists(v)' \/ Erase(v)
  <2>1. PICK us \in SUBSET Due :
          row' = [u \in Users |->
                    IF u \in us THEN [row[u] EXCEPT !.claim = "fresh"] ELSE row[u]]
    BY <1>7 DEF ClaimDue
  <2>2. ASSUME NEW u \in us PROVE u \in Users /\ [row[u] EXCEPT !.claim = "fresh"] \in ProfileState
    BY <1>3, RowsOfStatements DEF Due, MayClaim, Pending
  <2> QED
    BY <1>0, <2>1, <2>2 DEF Exists
<1>8. ASSUME NEW w \in Sweepers, Refresh(w)
      PROVE  /\ row' \in [Users -> ProfileState \cup {NoRow}]
             /\ \A v \in Users : Exists(v) => Exists(v)' \/ Erase(v)
  BY <1>1, <1>4, <1>8 DEF Refresh, Claimed
<1>9. ASSUME NEW w \in Workers, Settle(w)
      PROVE  /\ row' \in [Users -> ProfileState \cup {NoRow}]
             /\ \A v \in Users : Exists(v) => Exists(v)' \/ Erase(v)
  <2> DEFINE u == UserAt(w)
  <2>1. CASE UNCHANGED row
    BY <1>1, <2>1
  <2>2. CASE u \notin Users /\ ~UNCHANGED row
    BY <1>0, <1>9, <2>2 DEF Settle
  <2>3. CASE u \in Users /\ ~Exists(u) /\ ~UNCHANGED row
    BY <1>0, <1>9, <2>3 DEF Settle, Exists
  <2>4. CASE u \in Users /\ Exists(u) /\ ~UNCHANGED row
    <3>1. FinishedOk(row[u]) \in ProfileState /\ FinishedFailed(row[u]) \in ProfileState
      BY <1>3, <2>4, RowsOfStatements
    <3>2. \/ row' = [row EXCEPT ![u] = FinishedOk(row[u])]
          \/ row' = [row EXCEPT ![u] = FinishedFailed(row[u])]
      BY <1>0, <1>9, <2>4 DEF Settle, Exists
    <3> QED
      BY <1>2, <3>1, <3>2
  <2> QED
    BY <2>1, <2>2, <2>3, <2>4
<1>10. ASSUME NEW u \in Users, Erase(u)
       PROVE  /\ row' \in [Users -> ProfileState \cup {NoRow}]
              /\ \A v \in Users : Exists(v) => Exists(v)' \/ Erase(v)
  BY <1>0, <1>10 DEF Erase, Exists
<1>11. ASSUME NEW u \in Users, Lapse(u)
       PROVE  /\ row' \in [Users -> ProfileState \cup {NoRow}]
              /\ \A v \in Users : Exists(v) => Exists(v)' \/ Erase(v)
  BY <1>4, <1>11 DEF Lapse
<1>12. ASSUME NEW u \in Users, GoQuiet(u)
       PROVE  /\ row' \in [Users -> ProfileState \cup {NoRow}]
              /\ \A v \in Users : Exists(v) => Exists(v)' \/ Erase(v)
  <2>1. [row[u] EXCEPT !.quiet = TRUE] \in ProfileState
    BY <1>3, <1>12, RowsOfStatements DEF GoQuiet
  <2> QED
    BY <1>2, <1>12, <2>1 DEF GoQuiet
<1>13. ASSUME NEW w \in Workers, Read(w) \/ Call(w) \/ Write(w) \/ Note(w)
       PROVE  UNCHANGED row
  BY <1>13 DEF Read, Call, Write, Note
<1>14. ASSUME NEW t \in Turns, Begin(t) \/ Extract(t) \/ Record(t)
       PROVE  UNCHANGED row
  BY <1>14 DEF Begin, Extract, Record
<1> QED
  BY <1>1, <1>5, <1>6, <1>7, <1>8, <1>9, <1>10, <1>11, <1>12, <1>13, <1>14
  DEF Next, vars, Rebuild, Crash

\* A profile is written for a user who has a row, or erased with it.
LEMMA ProfileStep ==
    ASSUME PerUser, [Next]_vars
    PROVE  /\ profile' = [u \in Users |-> profile'[u]]
           /\ \A u \in Users :
                \/ profile'[u] = profile[u] /\ ~Erase(u)
                \/ Exists(u) /\ Exists(u)'
                \/ profile'[u] = {}
<1> USE DEF tables, work, ghosts, bounds
<1>0. profile = [u \in Users |-> profile[u]]
  BY DEF PerUser
<1>1. ASSUME NEW w \in Workers, Write(w), ~UNCHANGED profile
      PROVE  /\ profile' = [profile EXCEPT ![UserAt(w)] = view[w]]
             /\ Exists(UserAt(w)) /\ UNCHANGED row
  BY <1>1 DEF Write, MayWrite, Claimed
<1>2. ASSUME NEW v \in Users, Erase(v) PROVE profile' = [profile EXCEPT ![v] = {}]
  BY <1>2 DEF Erase
<1>3. \/ UNCHANGED profile
      \/ \E v \in Users : Erase(v)
      \/ \E w \in Workers : Write(w) /\ ~UNCHANGED profile
  BY DEF Next, vars, Begin, Extract, Record, Bump, Claim, ClaimDue, Refresh, Rebuild, Read,
         Call, Note, Settle, Lapse, GoQuiet, Crash
<1>4. profile' = [u \in Users |-> profile'[u]]
  BY <1>0, <1>1, <1>2, <1>3
<1>5. ASSUME NEW u \in Users
      PROVE  \/ profile'[u] = profile[u] /\ ~Erase(u)
             \/ Exists(u) /\ Exists(u)'
             \/ profile'[u] = {}
  <2>1. CASE Erase(u)
    BY <1>0, <1>2, <2>1
  <2>2. ASSUME ~Erase(u), NEW w \in Workers, Write(w), ~UNCHANGED profile
        PROVE  profile'[u] = profile[u] \/ (Exists(u) /\ Exists(u)')
    BY <1>0, <1>1, <2>2 DEF Exists
  <2>3. ASSUME ~Erase(u), NEW v \in Users, Erase(v) PROVE profile'[u] = profile[u]
    BY <1>0, <1>2, <2>3
  <2> QED
    BY <1>3, <2>1, <2>2, <2>3
<1> QED
  BY <1>4, <1>5

LEMMA EraseStep == EraseInv /\ [Next]_vars => EraseInv'
<1> SUFFICES ASSUME EraseInv, [Next]_vars PROVE EraseInv'
  OBVIOUS
<1>1. PerUser'
  BY RowStep, ProfileStep DEF EraseInv, PerUser
<1>2. ASSUME NEW u \in Users, ~Exists(u)' PROVE profile'[u] = {}
  <2>1. ~Exists(u) => profile[u] = {}
    BY DEF EraseInv, ErasedStaysErased
  <2>2. ~Exists(u) \/ Erase(u)
    BY <1>2, RowStep DEF EraseInv
  <2> QED
    BY <1>2, <2>1, <2>2, ProfileStep DEF EraseInv
<1> QED
  BY <1>1, <1>2 DEF EraseInv, ErasedStaysErased, Exists

\* No rebuild in flight, stale, superseded or of another process, brings back the
\* profile of an erased user: the write is under the state row, whose absence
\* refuses it.
THEOREM EraseIsFinal == Spec => []ErasedStaysErased
<1>1. Spec => []EraseInv
  BY EraseInit, EraseStep, PTL DEF Spec
<1>2. EraseInv => ErasedStaysErased
  BY DEF EraseInv
<1> QED
  BY <1>1, <1>2, PTL

-----------------------------------------------------------------------------
(***************************************************************************)
(* Who works for whom.                                                     *)
(***************************************************************************)

\* A sweeper is idle with nothing in its batch, and a user is in it once.
Queued(w) ==
    /\ at[w] \in {"idle", "due"} \cup Rebuilding
    /\ at[w] = "idle" <=> batch[w] = <<>>
    /\ \A i, j \in 1..Len(batch[w]) : batch[w][i] = batch[w][j] => i = j

WorkInv ==
    /\ at \in [Workers -> Stages]
    /\ batch \in [Sweepers -> Seq(Users)]
    /\ \A w \in Sweepers : Queued(w)

\* The worker rebuilds the user, or has it in its batch.
Holds(w, u) ==
    IF w \in Turns THEN at[w] \in Rebuilding /\ UserOf[w] = u
    ELSE \E i \in 1..Len(batch[w]) : batch[w][i] = u

LEMMA TurnOrSweeper ==
    ASSUME NEW w \in Workers
    PROVE  (w \in Turns /\ w \notin Sweepers) \/ (w \in Sweepers /\ w \notin Turns)
  BY WorkersAssumption DEF Workers

\* A worker that is at work is at work for a user, whom it holds.
LEMMA HoldsItsUser ==
    ASSUME WorkInv, NEW w \in Workers, at[w] \in Rebuilding \/ at[w] = "due",
           w \in Turns => at[w] # "due"
    PROVE  UserAt(w) \in Users /\ Holds(w, UserAt(w))
<1>1. CASE w \in Turns
  BY <1>1, UserOfAssumption DEF UserAt, Holds
<1>2. CASE w \in Sweepers /\ w \notin Turns
  <2>1. batch[w] \in Seq(Users) /\ batch[w] # <<>>
    BY <1>2 DEF WorkInv, Queued, Rebuilding
  <2>2. Len(batch[w]) \in Nat \ {0} /\ Head(batch[w]) = batch[w][1] /\ batch[w][1] \in Users
    BY <2>1
  <2> QED
    BY <1>2, <2>2 DEF UserAt, Holds
<1> QED
  BY <1>1, <1>2, TurnOrSweeper

LEMMA BusyIsHeld ==
    ASSUME WorkInv, NEW u \in Users, NEW w \in Workers, Holds(w, u)
    PROVE  Busy(u)
<1>1. CASE w \in Turns
  BY <1>1 DEF Holds, Busy, Rebuilders, UserAt
<1>2. CASE w \in Sweepers /\ w \notin Turns
  <2>1. batch[w] \in Seq(Users)
    BY <1>2 DEF WorkInv
  <2>2. DOMAIN batch[w] = 1..Len(batch[w])
    BY <2>1
  <2> QED
    BY <1>2, <2>2 DEF Holds, Busy, Queueing
<1> QED
  BY <1>1, <1>2, TurnOrSweeper

\* A worker that leaves drops the user it was at, and only that one.
LEMMA LeaveDrops ==
    ASSUME WorkInv, NEW w \in Workers, Leave(w),
           at[w] \in Rebuilding \/ (at[w] = "due" /\ w \in Sweepers)
    PROVE  /\ at' \in [Workers -> Stages] /\ batch' \in [Sweepers -> Seq(Users)]
           /\ w \in Sweepers => Queued(w)'
           /\ \A v \in Workers \ {w} : at'[v] = at[v] /\ (v \in Sweepers => batch'[v] = batch[v])
           /\ \A u \in Users : Holds(w, u)' => Holds(w, u) /\ u # UserAt(w)
<1>0. at \in [Workers -> Stages] /\ batch \in [Sweepers -> Seq(Users)]
  BY DEF WorkInv
<1>1. CASE w \in Turns /\ w \notin Sweepers
  <2>1. batch' = batch /\ at' = [at EXCEPT ![w] = "done"]
    BY <1>1 DEF Leave
  <2> QED
    BY <1>0, <1>1, <2>1 DEF Stages, Holds, Rebuilding
<1>2. CASE w \in Sweepers /\ w \notin Turns
  <2> DEFINE s == batch[w]
             stage == IF Tail(s) = <<>> THEN "idle" ELSE "due"
  <2>1. s \in Seq(Users) /\ s # <<>> /\ Queued(w)
    BY <1>2 DEF WorkInv, Queued, Rebuilding
  <2>2. batch' = [batch EXCEPT ![w] = Tail(s)] /\ batch'[w] = Tail(s)
    BY <1>0, <1>2 DEF Leave
  <2>3. at' = [at EXCEPT ![w] = stage]
    BY <1>2, <2>2 DEF Leave
  <2>4. /\ Tail(s) \in Seq(Users) /\ Len(Tail(s)) = Len(s) - 1 /\ Len(s) \in Nat
        /\ \A i \in 1..Len(Tail(s)) : Tail(s)[i] = s[i + 1]
    BY <2>1, HeadTailProperties
  <2>5. \A i, j \in 1..Len(Tail(s)) : Tail(s)[i] = Tail(s)[j] => i = j
    BY <2>1, <2>4 DEF Queued
  <2>6. at'[w] = stage /\ stage \in {"idle", "due"} /\ (stage = "idle" <=> Tail(s) = <<>>)
    BY <1>0, <2>3
  <2>7. Queued(w)'
    BY <2>2, <2>5, <2>6 DEF Queued
  <2>8. ASSUME NEW u \in Users, Holds(w, u)' PROVE Holds(w, u) /\ u # UserAt(w)
    <3>1. PICK i \in 1..Len(Tail(s)) : Tail(s)[i] = u
      BY <1>2, <2>2, <2>8 DEF Holds
    <3>2. i + 1 \in 1..Len(s) /\ 1 \in 1..Len(s) /\ s[i + 1] = u /\ i + 1 # 1
      BY <2>4, <3>1
    <3>3. s[1] # u
      BY <2>1, <3>2 DEF Queued
    <3>4. UserAt(w) = s[1]
      BY <1>2, <2>1 DEF UserAt
    <3> QED
      BY <1>2, <3>2, <3>3, <3>4 DEF Holds
  <2>9. at' \in [Workers -> Stages]
    BY <1>0, <2>3, <2>6 DEF Stages
  <2>10. batch' \in [Sweepers -> Seq(Users)]
    BY <1>0, <2>2, <2>4
  <2>11. \A v \in Workers \ {w} :
            at'[v] = at[v] /\ (v \in Sweepers => batch'[v] = batch[v])
    BY <1>0, <2>2, <2>3
  <2> QED
    BY <2>7, <2>8, <2>9, <2>10, <2>11
<1> QED
  BY <1>1, <1>2, TurnOrSweeper

\* A sweep stamps users nobody holds a fresh claim of, each once.
LEMMA SweepTakes ==
    ASSUME WorkInv, NEW w \in Sweepers, ClaimDue(w)
    PROVE  /\ batch' \in [Sweepers -> Seq(Users)] /\ Queued(w)'
           /\ \A v \in Sweepers \ {w} : batch'[v] = batch[v]
           /\ \A u \in Users : (\E i \in 1..Len(batch'[w]) : batch'[w][i] = u)
                => MayClaim(u) /\ row'[u] = [row[u] EXCEPT !.claim = "fresh"]
<1>1. PICK us \in SUBSET Due :
        /\ us # {}
        /\ row' = [u \in Users |->
                     IF u \in us THEN [row[u] EXCEPT !.claim = "fresh"] ELSE row[u]]
        /\ \E queue \in SetToSeqs(us) : batch' = [batch EXCEPT ![w] = queue]
  BY DEF ClaimDue
<1>2. PICK queue \in SetToSeqs(us) : batch' = [batch EXCEPT ![w] = queue]
  BY <1>1
<1>3. us \subseteq Users /\ IsFiniteSet(us)
  BY UsersAssumption, FS_Subset DEF Due
<1>4. Cardinality(us) \in Nat /\ Cardinality(us) # 0
  BY <1>1, <1>3, FS_CardinalityType, FS_EmptySet
<1>5. /\ queue \in [1..Cardinality(us) -> us]
      /\ \A i, j \in 1..Cardinality(us) : i # j => queue[i] # queue[j]
  BY <1>2 DEF SetToSeqs
<1>6. queue \in Seq(Users) /\ Len(queue) = Cardinality(us) /\ queue # <<>>
  <2>1. queue \in Seq(us) /\ Len(queue) = Cardinality(us)
    BY <1>4, <1>5
  <2>2. queue \in Seq(Users)
    BY <1>3, <1>4, <1>5
  <2> QED
    BY <1>4, <2>1, <2>2
<1>7. batch' \in [Sweepers -> Seq(Users)] /\ batch'[w] = queue
      /\ \A v \in Sweepers \ {w} : batch'[v] = batch[v]
  BY <1>2, <1>6 DEF WorkInv
<1>8. at'[w] = "due"
  BY DEF ClaimDue, GoTo, WorkInv, Workers
<1>9. Queued(w)'
  BY <1>5, <1>6, <1>7, <1>8 DEF Queued
<1>10. ASSUME NEW u \in Users, \E i \in 1..Len(batch'[w]) : batch'[w][i] = u
       PROVE  MayClaim(u) /\ row'[u] = [row[u] EXCEPT !.claim = "fresh"]
  <2>1. u \in us
    BY <1>5, <1>6, <1>7, <1>10
  <2> QED
    BY <1>1, <2>1 DEF Due
<1> QED
  BY <1>7, <1>9, <1>10

\* A step that leaves the workers' own state sound and takes no user.
Kept ==
    /\ WorkInv'
    /\ \A w \in Workers, u \in Users : Holds(w, u)' => Holds(w, u)

LEMMA MoveKeeps ==
    ASSUME WorkInv, NEW w \in Workers, NEW stage \in Stages,
           at' = [at EXCEPT ![w] = stage], UNCHANGED batch,
           w \in Turns /\ stage \in Rebuilding => at[w] \in Rebuilding,
           w \in Sweepers => stage \in Rebuilding /\ at[w] # "idle"
    PROVE  Kept
<1>1. at' \in [Workers -> Stages] /\ batch' \in [Sweepers -> Seq(Users)]
      /\ at'[w] = stage /\ \A v \in Workers \ {w} : at'[v] = at[v]
  BY DEF WorkInv
<1>2. ASSUME NEW v \in Sweepers PROVE Queued(v)'
  <2>1. CASE v = w
    BY <1>1, <2>1 DEF WorkInv, Queued, Rebuilding
  <2>2. CASE v # w
    BY <1>1, <2>2 DEF WorkInv, Queued, Workers
  <2> QED
    BY <2>1, <2>2
<1>3. ASSUME NEW v \in Workers, NEW u \in Users, Holds(v, u)' PROVE Holds(v, u)
  <2>1. CASE v \in Turns
    BY <1>1, <1>3, <2>1 DEF Holds
  <2>2. CASE v \notin Turns
    BY <1>3, <2>2 DEF Holds
  <2> QED
    BY <2>1, <2>2
<1> QED
  BY <1>1, <1>2, <1>3 DEF Kept, WorkInv

LEMMA LeaveKeeps ==
    ASSUME WorkInv, NEW w \in Workers, Leave(w),
           at[w] \in Rebuilding \/ (at[w] = "due" /\ w \in Sweepers)
    PROVE  Kept /\ \A u \in Users : Holds(w, u)' => u # UserAt(w)
<1>1. ASSUME NEW v \in Sweepers PROVE Queued(v)'
  <2>1. CASE v = w
    BY <2>1, LeaveDrops
  <2>2. CASE v # w
    <3>1. at'[v] = at[v] /\ batch'[v] = batch[v]
      BY <2>2, LeaveDrops DEF Workers
    <3> QED
      BY <3>1 DEF WorkInv, Queued
  <2> QED
    BY <2>1, <2>2
<1>2. ASSUME NEW v \in Workers, NEW u \in Users, Holds(v, u)', v # w PROVE Holds(v, u)
  <2>1. at'[v] = at[v] /\ (v \in Sweepers => batch'[v] = batch[v])
    BY <1>2, LeaveDrops
  <2> QED
    BY <1>2, <2>1, TurnOrSweeper DEF Holds
<1> QED
  BY <1>1, <1>2, LeaveDrops DEF Kept, WorkInv

LEMMA SameWorkKeeps ==
    ASSUME WorkInv, UNCHANGED <<at, batch>> PROVE Kept
  BY DEF Kept, WorkInv, Queued, Holds

LEMMA CrashKeeps ==
    ASSUME WorkInv, Crash PROVE Kept
<1>1. /\ \A t \in Turns : at'[t] \in {"idle", "done"}
      /\ \A w \in Sweepers : at'[w] = "idle" /\ batch'[w] = <<>>
      /\ at' \in [Workers -> Stages] /\ batch' \in [Sweepers -> Seq(Users)]
  BY WorkersAssumption DEF Crash, Workers, Stages
<1>2. \A w \in Sweepers : Queued(w)'
  BY <1>1 DEF Queued
<1>3. ASSUME NEW w \in Workers, NEW u \in Users, Holds(w, u)' PROVE FALSE
  <2>1. CASE w \in Turns
    BY <1>1, <1>3, <2>1 DEF Holds, Rebuilding
  <2>2. CASE w \in Sweepers /\ w \notin Turns
    BY <1>1, <1>3, <2>2 DEF Holds
  <2> QED
    BY <2>1, <2>2, TurnOrSweeper
<1> QED
  BY <1>1, <1>2, <1>3 DEF Kept, WorkInv

\* A worker that takes a user, in a step of its own, while nobody's claim on the
\* user is fresh, and stamps it.
Takes(w) ==
    /\ WorkInv'
    /\ \A v \in Workers \ {w}, u \in Users : Holds(v, u)' => Holds(v, u)
    /\ \A u \in Users : Holds(w, u)' =>
         MayClaim(u) /\ row'[u] = [row[u] EXCEPT !.claim = "fresh"]

LEMMA ClaimTakes ==
    ASSUME WorkInv, PerUser, NEW t \in Turns, Claim(t) PROVE Kept \/ Takes(t)
<1>0. at \in [Workers -> Stages] /\ t \in Workers /\ t \notin Sweepers /\ at[t] = "claim"
      /\ UserOf[t] \in Users /\ UNCHANGED batch
  BY WorkersAssumption, UserOfAssumption DEF WorkInv, Claim, Workers
<1>1. CASE at' = [at EXCEPT ![t] = "done"]
  BY <1>0, <1>1, MoveKeeps DEF Stages, Rebuilding
<1>2. CASE MayClaim(UserOf[t]) /\ row' = [row EXCEPT ![UserOf[t]].claim = "fresh"]
           /\ at' = [at EXCEPT ![t] = "read"]
  <2>1. /\ at' \in [Workers -> Stages] /\ at'[t] = "read"
        /\ \A v \in Workers \ {t} : at'[v] = at[v]
    BY <1>0, <1>2 DEF Stages, Rebuilding
  <2>2. \A w \in Sweepers : Queued(w)'
    BY <1>0, <2>1 DEF WorkInv, Queued, Workers
  <2>3. \A v \in Workers \ {t}, u \in Users : Holds(v, u)' => Holds(v, u)
    BY <1>0, <2>1 DEF Holds
  <2>4. row'[UserOf[t]] = [row[UserOf[t]] EXCEPT !.claim = "fresh"]
    BY <1>0, <1>2 DEF PerUser
  <2>5. \A u \in Users : Holds(t, u)' => u = UserOf[t]
    BY DEF Holds
  <2> QED
    BY <1>0, <1>2, <2>1, <2>2, <2>3, <2>4, <2>5 DEF Takes, WorkInv
<1> QED
  BY <1>1, <1>2 DEF Claim, GoTo

LEMMA ClaimDueTakes ==
    ASSUME WorkInv, NEW w \in Sweepers, ClaimDue(w) PROVE Takes(w)
<1>0. /\ at \in [Workers -> Stages] /\ w \in Workers /\ w \notin Turns
      /\ at' = [at EXCEPT ![w] = "due"]
  BY WorkersAssumption DEF WorkInv, ClaimDue, GoTo, Workers
<1>1. at' \in [Workers -> Stages] /\ \A v \in Workers \ {w} : at'[v] = at[v]
  BY <1>0 DEF Stages
<1>2. ASSUME NEW v \in Sweepers PROVE Queued(v)'
  <2>1. CASE v = w
    BY <2>1, SweepTakes
  <2>2. CASE v # w
    <3>1. at'[v] = at[v] /\ batch'[v] = batch[v]
      BY <1>1, <2>2, SweepTakes DEF Workers
    <3> QED
      BY <3>1 DEF WorkInv, Queued
  <2> QED
    BY <2>1, <2>2
<1>3. ASSUME NEW v \in Workers \ {w}, NEW u \in Users, Holds(v, u)' PROVE Holds(v, u)
  BY <1>1, <1>3, SweepTakes, TurnOrSweeper DEF Holds
<1>4. ASSUME NEW u \in Users, Holds(w, u)'
      PROVE  MayClaim(u) /\ row'[u] = [row[u] EXCEPT !.claim = "fresh"]
  BY <1>0, <1>4, SweepTakes DEF Holds
<1> QED
  BY <1>1, <1>2, <1>3, <1>4, SweepTakes DEF Takes, WorkInv

\* Every step keeps who holds whom, or takes for one worker.
LEMMA WorkStep ==
    ASSUME WorkInv, PerUser, [Next]_vars
    PROVE  /\ Kept \/ \E w \in Workers : Takes(w)
           /\ \A w \in Workers : Settle(w) =>
                /\ UserAt(w) \in Users /\ Holds(w, UserAt(w))
                /\ Kept /\ \A u \in Users : Holds(w, u)' => u # UserAt(w)
<1> USE DEF tables, work, ghosts, bounds
<1>0. at \in [Workers -> Stages]
  BY DEF WorkInv
<1>1. ASSUME UNCHANGED <<at, batch>> PROVE Kept
  BY <1>1, SameWorkKeeps
<1>2. ASSUME NEW t \in Turns, Begin(t) \/ Extract(t) \/ Record(t) \/ Bump(t) PROVE Kept
  <2>1. t \in Workers /\ t \notin Sweepers /\ UNCHANGED batch
    BY <1>2, WorkersAssumption DEF Workers, Begin, Extract, Record, Bump
  <2>2. \E stage \in Stages \ Rebuilding : at' = [at EXCEPT ![t] = stage]
    BY <1>2 DEF Begin, Extract, Record, Bump, GoTo, Stages, Rebuilding
  <2> QED
    BY <2>1, <2>2, MoveKeeps
<1>3. ASSUME NEW w \in Sweepers, Refresh(w) PROVE Kept
  <2>1. w \in Workers /\ w \notin Turns /\ at[w] = "due"
    BY <1>3, WorkersAssumption DEF Workers, Refresh
  <2>2. CASE Leave(w)
    BY <2>1, <2>2, LeaveKeeps
  <2>3. CASE at' = [at EXCEPT ![w] = "read"] /\ UNCHANGED batch
    BY <2>1, <2>3, MoveKeeps DEF Stages, Rebuilding
  <2> QED
    BY <1>3, <2>2, <2>3 DEF Refresh, GoTo
<1>4. ASSUME NEW w \in Workers, Read(w) \/ Call(w) \/ Write(w) \/ Note(w) PROVE Kept
  <2>1. at[w] \in Rebuilding
    BY <1>4 DEF Read, Call, Write, Note, Rebuilding
  <2>2. CASE Leave(w)
    BY <2>1, <2>2, LeaveKeeps
  <2>3. CASE ~Leave(w)
    <3>1. UNCHANGED batch /\ \E stage \in Rebuilding : at' = [at EXCEPT ![w] = stage]
      BY <1>4, <2>3 DEF Read, Call, Write, Note, GoTo, SettleAs, Rebuilding
    <3> QED
      BY <2>1, <3>1, MoveKeeps DEF Stages, Rebuilding
  <2> QED
    BY <2>2, <2>3
<1>5. ASSUME NEW w \in Workers, Settle(w)
      PROVE  /\ UserAt(w) \in Users /\ Holds(w, UserAt(w))
             /\ Kept /\ \A u \in Users : Holds(w, u)' => u # UserAt(w)
  <2>1. at[w] \in Rebuilding /\ at[w] # "due" /\ Leave(w)
    BY <1>5 DEF Settle, Rebuilding
  <2>2. UserAt(w) \in Users /\ Holds(w, UserAt(w))
    BY <2>1, HoldsItsUser
  <2> QED
    BY <2>1, <2>2, LeaveKeeps
<1>6. Kept \/ \E w \in Workers : Takes(w)
  <2>1. Turns \subseteq Workers /\ Sweepers \subseteq Workers
    BY DEF Workers
  <2> QED
    BY <1>1, <1>2, <1>3, <1>4, <1>5, <2>1, ClaimTakes, ClaimDueTakes, CrashKeeps
    DEF Next, vars, Rebuild, Erase, Lapse, GoQuiet
<1> QED
  BY <1>5, <1>6

-----------------------------------------------------------------------------
(***************************************************************************)
(* One rebuilder.                                                          *)
(***************************************************************************)

\* Until its claim is lost under a worker, whoever holds a user does so under a
\* fresh claim, and alone.
SoleInv(u) ==
    u \notin spoiled =>
      /\ \A w \in Workers : Holds(w, u) => Exists(u) /\ row[u].claim = "fresh"
      /\ \A v, w \in Workers : Holds(v, u) /\ Holds(w, u) => v = w

RebuildInv == PerUser /\ WorkInv /\ \A u \in Users : SoleInv(u)

LEMMA SpoiledGrows == [Next]_vars => spoiled \subseteq spoiled'
  BY DEF Next, vars, tables, work, ghosts, bounds, Begin, Extract, Record, Bump, Claim,
         ClaimDue, Refresh, Rebuild, Read, Call, Write, Note, Settle, Erase, Lapse, GoQuiet,
         Crash

\* A fresh claim whose holder goes on holding stays fresh, or the user is spoiled.
LEMMA FreshStep ==
    ASSUME RebuildInv, [Next]_vars, NEW u \in Users, u \notin spoiled',
           NEW w \in Workers, Holds(w, u), Holds(w, u)'
    PROVE  Exists(u)' /\ row'[u].claim = "fresh"
<1> USE DEF tables, work, ghosts, bounds
<1>0. /\ row \in [Users -> ProfileState \cup {NoRow}] /\ row[u] \in ProfileState
      /\ row[u].claim = "fresh" /\ Exists(u) /\ Busy(u) /\ WorkInv /\ PerUser
      /\ \A v \in Workers : Holds(v, u) => v = w
  BY SpoiledGrows, BusyIsHeld DEF RebuildInv, SoleInv, PerUser, Exists
<1>1. ~Erase(u) /\ ~Lapse(u)
  BY <1>0 DEF Erase, Lapse
<1>2. Exists(u)'
  BY <1>0, <1>1, RowStep
<1>3. CASE row'[u] = row[u]
  BY <1>0, <1>2, <1>3
<1>4. CASE row'[u] = [row[u] EXCEPT !.claim = "fresh"]
  BY <1>0, <1>2, <1>4 DEF ProfileState
<1>5. ASSUME NEW t \in Turns, Bump(t) PROVE row'[u].claim = "fresh"
  <2>1. CASE UserOf[t] = u
    <3>1. BumpedRow(u).claim = "fresh"
      BY <1>0 DEF BumpedRow, ProfileState
    <3> QED
      BY <1>0, <1>5, <2>1, <3>1 DEF Bump
  <2>2. CASE UserOf[t] # u
    BY <1>0, <1>5, <2>2 DEF Bump
  <2> QED
    BY <2>1, <2>2
<1>6. ASSUME NEW t \in Turns, Claim(t)
      PROVE  row'[u] = row[u] \/ row'[u] = [row[u] EXCEPT !.claim = "fresh"]
  BY <1>0, <1>6 DEF Claim
<1>7. ASSUME NEW v \in Sweepers, ClaimDue(v) \/ Refresh(v)
      PROVE  row'[u] = row[u] \/ row'[u] = [row[u] EXCEPT !.claim = "fresh"]
  BY <1>0, <1>7 DEF ClaimDue, Refresh
<1>8. ASSUME NEW v \in Workers, Settle(v) PROVE row'[u] = row[u]
  <2>1. UserAt(v) # u
    BY <1>0, <1>8, WorkStep
  <2> QED
    BY <1>0, <1>8, <2>1 DEF Settle
<1>9. ASSUME NEW v \in Users, Erase(v) \/ Lapse(v) PROVE row'[u] = row[u]
  <2>1. v # u
    BY <1>1, <1>9
  <2> QED
    BY <1>0, <1>9, <2>1 DEF Erase, Lapse
<1>10. ASSUME NEW v \in Users, GoQuiet(v) PROVE row'[u].claim = "fresh"
  BY <1>0, <1>10 DEF GoQuiet, ProfileState
<1>11. ASSUME NEW v \in Workers, Read(v) \/ Call(v) \/ Write(v) \/ Note(v)
       PROVE  row' = row
  BY <1>11 DEF Read, Call, Write, Note
<1>12. ASSUME NEW t \in Turns, Begin(t) \/ Extract(t) \/ Record(t) PROVE row' = row
  BY <1>12 DEF Begin, Extract, Record
<1> QED
  BY <1>0, <1>2, <1>3, <1>4, <1>5, <1>6, <1>7, <1>8, <1>9, <1>10, <1>11, <1>12
  DEF Next, vars, Rebuild, Crash

LEMMA SoleStep ==
    ASSUME RebuildInv, [Next]_vars, NEW u \in Users PROVE SoleInv(u)'
<1> SUFFICES ASSUME u \notin spoiled'
             PROVE  /\ \A w \in Workers : Holds(w, u)' => Exists(u)' /\ row'[u].claim = "fresh"
                    /\ \A v, w \in Workers : Holds(v, u)' /\ Holds(w, u)' => v = w
  BY DEF SoleInv
<1>0. WorkInv /\ PerUser /\ SoleInv(u) /\ u \notin spoiled
  BY SpoiledGrows DEF RebuildInv
<1>1. CASE Kept
  <2>1. \A w \in Workers : Holds(w, u)' => Holds(w, u)
    BY <1>1 DEF Kept
  <2> QED
    BY <1>0, <2>1, FreshStep DEF SoleInv
<1>2. ASSUME NEW x \in Workers, Takes(x)
      PROVE  /\ \A w \in Workers : Holds(w, u)' => Exists(u)' /\ row'[u].claim = "fresh"
             /\ \A v, w \in Workers : Holds(v, u)' /\ Holds(w, u)' => v = w
  <2>1. \A v \in Workers \ {x} : Holds(v, u)' => Holds(v, u)
    BY <1>2 DEF Takes
  <2>2. ASSUME Holds(x, u)'
        PROVE  Exists(u)' /\ row'[u].claim = "fresh" /\ \A v \in Workers : ~Holds(v, u)
    <3>1. MayClaim(u) /\ row'[u] = [row[u] EXCEPT !.claim = "fresh"]
      BY <1>2, <2>2 DEF Takes
    <3>2. row[u] \in ProfileState /\ row[u].claim # "fresh"
      BY <1>0, <3>1 DEF MayClaim, Pending, Exists, PerUser
    <3>3. row'[u] \in ProfileState /\ row'[u].claim = "fresh"
      BY <3>1, <3>2 DEF ProfileState
    <3>4. \A v \in Workers : ~Holds(v, u)
      BY <1>0, <3>2 DEF SoleInv
    <3> QED
      BY <3>3, <3>4, RowAssumption DEF Exists
  <2> QED
    BY <1>0, <2>1, <2>2, FreshStep DEF SoleInv
<1> QED
  BY <1>0, <1>1, <1>2, WorkStep

LEMMA RebuildInit == Init => RebuildInv
<1> SUFFICES ASSUME Init PROVE RebuildInv
  OBVIOUS
<1>1. PerUser
  BY EraseInit DEF EraseInv
<1>2. /\ at = [w \in Workers |-> "idle"] /\ batch = [w \in Sweepers |-> <<>>]
  BY DEF Init
<1>3. WorkInv
  BY <1>2 DEF WorkInv, Queued, Stages, Workers
<1>4. \A u \in Users, w \in Workers : ~Holds(w, u)
  BY <1>2, TurnOrSweeper DEF Holds, Rebuilding
<1> QED
  BY <1>1, <1>3, <1>4 DEF RebuildInv, SoleInv

LEMMA RebuildStep == RebuildInv /\ [Next]_vars => RebuildInv'
<1> SUFFICES ASSUME RebuildInv, [Next]_vars PROVE RebuildInv'
  OBVIOUS
<1>1. PerUser'
  BY RowStep, ProfileStep DEF RebuildInv, PerUser
<1>2. WorkInv'
  BY WorkStep DEF RebuildInv, Kept, Takes
<1> QED
  BY <1>1, <1>2, SoleStep DEF RebuildInv

\* Every reachable state has its rows and its workers well formed: a sweeper's
\* batch holds each user once and is used up when it is idle.
LEMMA RebuildInvariant == Spec => []RebuildInv
  BY RebuildInit, RebuildStep, PTL DEF Spec

\* The claim keeps two workers off one user, turns and sweepers of any number,
\* until it goes stale or is erased under the worker that holds it.
THEOREM ClaimKeepsApart == Spec => []OneRebuilder
<1>1. RebuildInv => OneRebuilder
  <2> SUFFICES ASSUME RebuildInv, NEW u \in Users, u \notin spoiled
               PROVE  Cardinality(Rebuilders(u)) <= 1
    BY DEF OneRebuilder
  <2>1. \A w \in Rebuilders(u) : w \in Workers /\ Holds(w, u)
    BY HoldsItsUser DEF Rebuilders, Rebuilding, RebuildInv
  <2>2. \A v, w \in Rebuilders(u) : v = w
    BY <2>1 DEF RebuildInv, SoleInv
  <2>3. CASE Rebuilders(u) = {}
    BY <2>3, FS_EmptySet
  <2>4. CASE Rebuilders(u) # {}
    <3>1. PICK w \in Rebuilders(u) : Rebuilders(u) = {w}
      BY <2>2, <2>4
    <3> QED
      BY <3>1, FS_Singleton
  <2> QED
    BY <2>3, <2>4
<1> QED
  BY <1>1, RebuildInvariant, PTL

-----------------------------------------------------------------------------
(***************************************************************************)
(* Profiles keep up.                                                       *)
(***************************************************************************)

InView == {"call", "write"}

\* Until a claim is lost, what a user's rebuild has in view is of the ledger, and
\* no less than the profile it will replace.
ViewInv(u) ==
    u \notin spoiled =>
      /\ profile[u] \subseteq ledger[u]
      /\ \A w \in Workers :
           at[w] \in InView /\ UserAt(w) = u => profile[u] \subseteq view[w]
                                                /\ view[w] \subseteq ledger[u]

ProfileInv ==
    /\ RebuildInv
    /\ ledger = [u \in Users |-> ledger[u]] /\ view = [w \in Workers |-> view[w]]
    /\ erasures \in Nat
    /\ \A u \in Users : ViewInv(u)

\* A worker has in view what it had, or what it has just read.
LEMMA ViewStep ==
    ASSUME ProfileInv, [Next]_vars, NEW w \in Workers, at'[w] \in InView
    PROVE  /\ UserAt(w)' = UserAt(w) /\ at[w] \in Rebuilding
           /\ \/ at[w] \in InView /\ view'[w] = view[w]
              \/ view'[w] = ledger[UserAt(w)] /\ UNCHANGED <<ledger, profile>>
<1> USE DEF tables, work, ghosts, bounds
<1>0. /\ at \in [Workers -> Stages] /\ batch \in [Sweepers -> Seq(Users)]
      /\ view = [v \in Workers |-> view[v]] /\ WorkInv
  BY DEF ProfileInv, RebuildInv, WorkInv
<1>1. ASSUME at'[w] = at[w], view'[w] = view[w], w \in Sweepers => batch'[w] = batch[w]
      PROVE  /\ UserAt(w)' = UserAt(w) /\ at[w] \in Rebuilding
             /\ at[w] \in InView /\ view'[w] = view[w]
  BY <1>1, TurnOrSweeper DEF UserAt, InView, Rebuilding
<1>2. CASE UNCHANGED <<at, view, batch>>
  BY <1>1, <1>2
<1>3. ASSUME NEW x \in Workers, Leave(x),
             at[x] \in Rebuilding \/ (at[x] = "due" /\ x \in Sweepers)
      PROVE  /\ UserAt(w)' = UserAt(w) /\ at[w] \in Rebuilding
             /\ at[w] \in InView /\ view'[w] = view[w]
  <2>1. w # x
    <3>1. CASE x \in Turns /\ x \notin Sweepers
      BY <1>0, <1>3, <3>1 DEF Leave, InView
    <3>2. CASE x \in Sweepers /\ x \notin Turns
      BY <1>0, <1>3, <3>2 DEF Leave, InView
    <3> QED
      BY <3>1, <3>2, TurnOrSweeper
  <2>2. at'[w] = at[w] /\ (w \in Sweepers => batch'[w] = batch[w])
    BY <1>0, <1>3, <2>1, LeaveDrops
  <2>3. view'[w] = view[w]
    BY <1>0, <1>3, <2>1 DEF Leave
  <2> QED
    BY <1>1, <2>2, <2>3
<1>4. ASSUME NEW x \in Workers, UNCHANGED <<view, batch>>,
             NEW stage, at' = [at EXCEPT ![x] = stage], stage \notin InView
      PROVE  /\ UserAt(w)' = UserAt(w) /\ at[w] \in Rebuilding
             /\ at[w] \in InView /\ view'[w] = view[w]
  BY <1>0, <1>1, <1>4
<1>5. ASSUME NEW t \in Turns, Begin(t) \/ Extract(t) \/ Record(t) \/ Bump(t) \/ Claim(t)
      PROVE  /\ UserAt(w)' = UserAt(w) /\ at[w] \in Rebuilding
             /\ at[w] \in InView /\ view'[w] = view[w]
  <2>1. t \in Workers /\ UNCHANGED <<view, batch>>
    BY <1>5 DEF Workers, Begin, Extract, Record, Bump, Claim
  <2>2. \E stage \in Stages \ InView : at' = [at EXCEPT ![t] = stage]
    BY <1>5 DEF Begin, Extract, Record, Bump, Claim, GoTo, Stages, Rebuilding, InView
  <2> QED
    BY <1>4, <2>1, <2>2
<1>6. ASSUME NEW x \in Sweepers, ClaimDue(x)
      PROVE  /\ UserAt(w)' = UserAt(w) /\ at[w] \in Rebuilding
             /\ at[w] \in InView /\ view'[w] = view[w]
  <2>1. x \in Workers /\ at' = [at EXCEPT ![x] = "due"] /\ UNCHANGED view
    BY <1>6 DEF Workers, ClaimDue, GoTo
  <2>2. w # x
    BY <1>0, <2>1 DEF InView
  <2>3. at'[w] = at[w] /\ (w \in Sweepers => batch'[w] = batch[w])
    BY <1>0, <1>6, <2>1, <2>2, SweepTakes
  <2> QED
    BY <1>1, <2>1, <2>3
<1>7. ASSUME NEW x \in Sweepers, Refresh(x)
      PROVE  /\ UserAt(w)' = UserAt(w) /\ at[w] \in Rebuilding
             /\ at[w] \in InView /\ view'[w] = view[w]
  <2>1. x \in Workers /\ at[x] = "due"
    BY <1>7 DEF Workers, Refresh
  <2>2. CASE Leave(x)
    BY <1>3, <1>7, <2>1, <2>2
  <2>3. CASE at' = [at EXCEPT ![x] = "read"] /\ UNCHANGED <<view, batch>>
    BY <1>4, <2>1, <2>3 DEF InView
  <2> QED
    BY <1>7, <2>2, <2>3 DEF Refresh, GoTo
<1>8. ASSUME NEW x \in Workers, Write(x) \/ Note(x) \/ Settle(x)
      PROVE  /\ UserAt(w)' = UserAt(w) /\ at[w] \in Rebuilding
             /\ at[w] \in InView /\ view'[w] = view[w]
  <2>1. at[x] \in Rebuilding
    BY <1>8 DEF Write, Note, Settle, Rebuilding
  <2>2. CASE Leave(x)
    BY <1>3, <2>1, <2>2
  <2>3. CASE ~Leave(x)
    <3>1. UNCHANGED <<view, batch>>
          /\ \E stage \in {"note", "settle"} : at' = [at EXCEPT ![x] = stage]
      BY <1>8, <2>3 DEF Write, Note, Settle, GoTo, SettleAs
    <3> QED
      BY <1>4, <3>1 DEF InView
  <2> QED
    BY <2>2, <2>3
<1>9. ASSUME NEW x \in Workers, Call(x)
      PROVE  /\ UserAt(w)' = UserAt(w) /\ at[w] \in Rebuilding
             /\ at[w] \in InView /\ view'[w] = view[w]
  <2>1. /\ UNCHANGED <<view, batch>> /\ at[x] = "call"
        /\ \E stage \in {"write", "note", "settle"} : at' = [at EXCEPT ![x] = stage]
    BY <1>9 DEF Call, GoTo, SettleAs
  <2> QED
    BY <1>0, <1>1, <2>1, TurnOrSweeper DEF UserAt, InView, Rebuilding
<1>10. ASSUME NEW x \in Workers, Read(x)
       PROVE  /\ UserAt(w)' = UserAt(w) /\ at[w] \in Rebuilding
              /\ \/ at[w] \in InView /\ view'[w] = view[w]
                 \/ view'[w] = ledger[UserAt(w)] /\ UNCHANGED <<ledger, profile>>
  <2>1. CASE x = w
    <3>1. UNCHANGED <<batch, ledger, profile>> /\ at[w] = "read"
      BY <1>10, <2>1 DEF Read
    <3>2. view' = [view EXCEPT ![w] = ledger[UserAt(w)]]
      BY <1>0, <1>10, <2>1 DEF Read, SettleAs, GoTo, InView
    <3> QED
      BY <1>0, <3>1, <3>2 DEF UserAt, Rebuilding
  <2>2. CASE x # w
    <3>1. at'[w] = at[w] /\ view'[w] = view[w] /\ UNCHANGED batch
      BY <1>0, <1>10, <2>2 DEF Read, SettleAs, GoTo
    <3> QED
      BY <1>1, <3>1
  <2> QED
    BY <2>1, <2>2
<1>11. ~Crash
  BY DEF Crash, InView, Workers
<1> QED
  BY <1>2, <1>5, <1>6, <1>7, <1>8, <1>9, <1>10, <1>11
  DEF Next, vars, Rebuild, Erase, Lapse, GoQuiet

\* Ledgers grow until they are erased; a profile is erased with its ledger, or
\* becomes what its writer had in view.
LEMMA LedgerStep ==
    ASSUME ProfileInv, [Next]_vars
    PROVE  /\ ledger' = [u \in Users |-> ledger'[u]]
           /\ view' = [w \in Workers |-> view'[w]]
           /\ erasures' \in Nat
           /\ \A u \in Users :
                \/ ledger[u] \subseteq ledger'[u]
                \/ Erase(u) /\ ledger'[u] = {} /\ profile'[u] = {}
           /\ \A u \in Users :
                \/ profile'[u] = profile[u]
                \/ Erase(u) /\ erasures' > erasures
                \/ \E w \in Workers :
                     /\ at[w] = "write" /\ UserAt(w) = u /\ at'[w] = "note"
                     /\ profile'[u] = view[w] /\ UNCHANGED <<ledger, view, batch>>
<1> USE DEF tables, work, ghosts, bounds
<1>0. /\ ledger = [u \in Users |-> ledger[u]] /\ view = [w \in Workers |-> view[w]]
      /\ profile = [u \in Users |-> profile[u]] /\ erasures \in Nat
      /\ at \in [Workers -> Stages]
  BY DEF ProfileInv, RebuildInv, PerUser, WorkInv
<1>1. ASSUME NEW t \in Turns, Record(t)
      PROVE  /\ ledger' = [u \in Users |-> ledger'[u]]
             /\ \A u \in Users : ledger[u] \subseteq ledger'[u]
  BY <1>0, <1>1 DEF Record
<1>2. ASSUME NEW v \in Users, Erase(v)
      PROVE  /\ ledger' = [u \in Users |-> ledger'[u]] /\ erasures' = erasures + 1
             /\ \A u \in Users : u # v => ledger'[u] = ledger[u] /\ profile'[u] = profile[u]
             /\ ledger'[v] = {} /\ profile'[v] = {}
  BY <1>0, <1>2 DEF Erase
<1>3. \/ UNCHANGED ledger
      \/ \E t \in Turns : Record(t)
      \/ \E v \in Users : Erase(v)
  BY DEF Next, vars, Begin, Extract, Bump, Claim, ClaimDue, Refresh, Rebuild, Read, Call,
         Write, Note, Settle, Lapse, GoQuiet, Crash
<1>4. \/ UNCHANGED profile
      \/ \E v \in Users : Erase(v)
      \/ \E w \in Workers : Write(w) /\ ~UNCHANGED profile
  BY DEF Next, vars, Begin, Extract, Record, Bump, Claim, ClaimDue, Refresh, Rebuild, Read,
         Call, Note, Settle, Lapse, GoQuiet, Crash
<1>5. ASSUME NEW w \in Workers, Write(w), ~UNCHANGED profile
      PROVE  /\ profile' = [profile EXCEPT ![UserAt(w)] = view[w]]
             /\ at[w] = "write" /\ at'[w] = "note" /\ UNCHANGED <<ledger, view, batch>>
  BY <1>0, <1>5 DEF Write, GoTo
<1>6. UNCHANGED erasures \/ \E v \in Users : Erase(v)
  BY DEF Next, vars, Begin, Extract, Record, Bump, Claim, ClaimDue, Refresh, Rebuild, Read, Call,
      Write, Note, Settle, Lapse, GoQuiet, Crash
<1>7. view' = [w \in Workers |-> view'[w]]
  BY <1>0
  DEF Next, vars, Begin, Extract, Record, Bump, Claim, ClaimDue, Refresh, Rebuild, Read, Call,
      Write, Note, Settle, Erase, Lapse, GoQuiet, Crash, Leave, SettleAs
<1>8. ASSUME NEW u \in Users
      PROVE  \/ ledger[u] \subseteq ledger'[u]
             \/ Erase(u) /\ ledger'[u] = {} /\ profile'[u] = {}
  BY <1>1, <1>2, <1>3
<1>9. ASSUME NEW u \in Users
      PROVE  \/ profile'[u] = profile[u]
             \/ Erase(u) /\ erasures' > erasures
             \/ \E w \in Workers :
                  /\ at[w] = "write" /\ UserAt(w) = u /\ at'[w] = "note"
                  /\ profile'[u] = view[w] /\ UNCHANGED <<ledger, view, batch>>
  <2>1. ASSUME NEW v \in Users, Erase(v)
        PROVE  profile'[u] = profile[u] \/ (Erase(u) /\ erasures' > erasures)
    BY <1>0, <1>2, <2>1
  <2>2. ASSUME NEW w \in Workers, Write(w), ~UNCHANGED profile
        PROVE  \/ profile'[u] = profile[u]
               \/ UserAt(w) = u /\ profile'[u] = view[w]
    BY <1>0, <1>5, <2>2
  <2> QED
    BY <1>4, <1>5, <2>1, <2>2
<1>10. ledger' = [u \in Users |-> ledger'[u]]
  BY <1>0, <1>1, <1>2, <1>3
<1>11. erasures' \in Nat
  BY <1>0, <1>2, <1>6
<1> QED
  BY <1>7, <1>8, <1>9, <1>10, <1>11

LEMMA ViewInvStep ==
    ASSUME ProfileInv, [Next]_vars, NEW u \in Users PROVE ViewInv(u)'
<1> SUFFICES ASSUME u \notin spoiled'
             PROVE  /\ profile'[u] \subseteq ledger'[u]
                    /\ \A w \in Workers :
                         at'[w] \in InView /\ UserAt(w)' = u
                         => profile'[u] \subseteq view'[w] /\ view'[w] \subseteq ledger'[u]
  BY DEF ViewInv
<1>0. /\ RebuildInv /\ WorkInv /\ u \notin spoiled
      /\ profile[u] \subseteq ledger[u]
      /\ \A w \in Workers :
           at[w] \in InView /\ UserAt(w) = u => profile[u] \subseteq view[w]
                                                /\ view[w] \subseteq ledger[u]
      /\ \A v, w \in Workers : Holds(v, u) /\ Holds(w, u) => v = w
  BY SpoiledGrows DEF ProfileInv, RebuildInv, SoleInv, ViewInv
<1>1. ASSUME NEW w \in Workers, at[w] \in Rebuilding, UserAt(w) = u PROVE Holds(w, u)
  BY <1>0, <1>1, HoldsItsUser DEF Rebuilding
<1>2. CASE Erase(u)
  <2>1. \A w \in Workers : ~Holds(w, u)
    BY <1>0, <1>2, BusyIsHeld DEF Erase
  <2>2. \A w \in Workers : ~(at'[w] \in InView /\ UserAt(w)' = u)
    BY <1>1, <2>1, ViewStep
  <2>3. profile'[u] = {}
    BY <1>2 DEF Erase, ProfileInv, RebuildInv, PerUser
  <2> QED
    BY <2>2, <2>3
<1>3. ASSUME ~Erase(u), NEW w \in Workers, at[w] = "write", UserAt(w) = u, at'[w] = "note",
             profile'[u] = view[w], UNCHANGED <<ledger, view, batch>>
      PROVE  /\ profile'[u] \subseteq ledger'[u]
             /\ \A v \in Workers :
                  at'[v] \in InView /\ UserAt(v)' = u
                  => profile'[u] \subseteq view'[v] /\ view'[v] \subseteq ledger'[u]
  <2>1. profile'[u] \subseteq ledger'[u]
    BY <1>0, <1>3 DEF InView
  <2>2. ASSUME NEW v \in Workers, at'[v] \in InView, UserAt(v)' = u PROVE FALSE
    <3>1. at[v] \in Rebuilding /\ UserAt(v) = u
      BY <2>2, ViewStep
    <3>2. v = w
      BY <1>0, <1>1, <1>3, <3>1 DEF Rebuilding
    <3> QED
      BY <1>3, <2>2, <3>2 DEF InView
  <2> QED
    BY <2>1, <2>2
<1>4. ASSUME ~Erase(u), profile'[u] = profile[u]
      PROVE  /\ profile'[u] \subseteq ledger'[u]
             /\ \A v \in Workers :
                  at'[v] \in InView /\ UserAt(v)' = u
                  => profile'[u] \subseteq view'[v] /\ view'[v] \subseteq ledger'[u]
  <2>1. ledger[u] \subseteq ledger'[u]
    BY <1>4, LedgerStep
  <2>2. ASSUME NEW v \in Workers, at'[v] \in InView, UserAt(v)' = u
        PROVE  profile'[u] \subseteq view'[v] /\ view'[v] \subseteq ledger'[u]
    <3>1. /\ UserAt(v) = u
          /\ \/ at[v] \in InView /\ view'[v] = view[v]
             \/ view'[v] = ledger[u]
      BY <2>2, ViewStep
    <3> QED
      BY <1>0, <1>4, <2>1, <3>1
  <2> QED
    BY <1>0, <1>4, <2>1, <2>2
<1> QED
  BY <1>2, <1>3, <1>4, LedgerStep

LEMMA ProfileInvariant == Spec => []ProfileInv
<1>1. Init => ProfileInv
  <2> SUFFICES ASSUME Init PROVE ProfileInv
    OBVIOUS
  <2>1. RebuildInv
    BY RebuildInit
  <2> QED
    BY <2>1 DEF Init, ProfileInv, ViewInv, InView
<1>2. ProfileInv /\ [Next]_vars => ProfileInv'
  <2> SUFFICES ASSUME ProfileInv, [Next]_vars PROVE ProfileInv'
    OBVIOUS
  <2>1. RebuildInv'
    BY RebuildStep DEF ProfileInv
  <2> QED
    BY <2>1, LedgerStep, ViewInvStep DEF ProfileInv
<1> QED
  BY <1>1, <1>2, PTL DEF Spec

\* A profile is replaced only by one drawn from at least the facts behind it, for
\* any number of workers, until a claim is lost or the user is erased.
THEOREM ProfilesGrow == Spec => ProfileKeepsUp
<1>1. ProfileInv /\ [Next]_vars
      => [\A u \in Users :
            profile[u] \subseteq profile'[u] \/ u \in spoiled' \/ erasures' > erasures]_vars
  <2> SUFFICES ASSUME ProfileInv, [Next]_vars, NEW u \in Users, u \notin spoiled',
                      ~(erasures' > erasures)
               PROVE  profile[u] \subseteq profile'[u]
    OBVIOUS
  <2>1. ViewInv(u) /\ u \notin spoiled
    BY SpoiledGrows DEF ProfileInv
  <2> QED
    BY <2>1, LedgerStep DEF ViewInv, InView
<1> QED
  BY <1>1, ProfileInvariant, PTL DEF Spec, ProfileKeepsUp

-----------------------------------------------------------------------------
(***************************************************************************)
(* Types.                                                                  *)
(***************************************************************************)

LEMMA TableTypes ==
    ASSUME TypeOK, WorkInv, [Next]_vars
    PROVE  /\ ledger' \in [Users -> SUBSET Turns] /\ profile' \in [Users -> SUBSET Turns]
           /\ noted' \in [Users -> SUBSET Turns] /\ erased' \subseteq Turns
<1> USE DEF tables, work, ghosts, bounds
<1>0. /\ ledger \in [Users -> SUBSET Turns] /\ profile \in [Users -> SUBSET Turns]
      /\ noted \in [Users -> SUBSET Turns] /\ view \in [Workers -> SUBSET Turns]
      /\ erased \subseteq Turns
  BY DEF TypeOK
<1>1. CASE UNCHANGED <<ledger, profile, noted, erased>>
  BY <1>0, <1>1
<1>2. ASSUME NEW t \in Turns, Record(t)
      PROVE  ledger' \in [Users -> SUBSET Turns] /\ UNCHANGED <<profile, noted, erased>>
  BY <1>0, <1>2 DEF Record
<1>3. ASSUME NEW w \in Workers, Write(w)
      PROVE  profile' \in [Users -> SUBSET Turns] /\ UNCHANGED <<ledger, noted, erased>>
  BY <1>0, <1>3 DEF Write
<1>4. ASSUME NEW w \in Workers, Note(w)
      PROVE  noted' \in [Users -> SUBSET Turns] /\ UNCHANGED <<ledger, profile, erased>>
  BY <1>0, <1>4 DEF Note
<1>5. ASSUME NEW u \in Users, Erase(u)
      PROVE  /\ ledger' \in [Users -> SUBSET Turns] /\ profile' \in [Users -> SUBSET Turns]
             /\ noted' \in [Users -> SUBSET Turns] /\ erased' \subseteq Turns
  BY <1>0, <1>5 DEF Erase
<1>6. ASSUME NEW w \in Workers, Read(w) \/ Call(w) \/ Settle(w)
      PROVE  UNCHANGED <<ledger, profile, noted, erased>>
  BY <1>6 DEF Read, Call, Settle
<1>7. ASSUME NEW t \in Turns, Begin(t) \/ Extract(t) \/ Bump(t) \/ Claim(t)
      PROVE  UNCHANGED <<ledger, profile, noted, erased>>
  BY <1>7 DEF Begin, Extract, Bump, Claim
<1> QED
  BY <1>0, <1>1, <1>2, <1>3, <1>4, <1>5, <1>6, <1>7
  DEF Next, vars, ClaimDue, Refresh, Rebuild, Lapse, GoQuiet, Crash

LEMMA WorkTypes ==
    ASSUME TypeOK, WorkInv, [Next]_vars
    PROVE  /\ view' \in [Workers -> SUBSET Turns] /\ outcome' \in [Workers -> Outcomes]
           /\ spoiled' \subseteq Users
<1> USE DEF tables, work, ghosts, bounds
<1>0. /\ ledger \in [Users -> SUBSET Turns] /\ view \in [Workers -> SUBSET Turns]
      /\ outcome \in [Workers -> Outcomes] /\ spoiled \subseteq Users
  BY DEF TypeOK
<1>1. CASE UNCHANGED <<view, outcome, spoiled>>
  BY <1>0, <1>1
<1>2. ASSUME NEW w \in Workers, Leave(w)
      PROVE  view' \in [Workers -> SUBSET Turns] /\ outcome' \in [Workers -> Outcomes]
  BY <1>0, <1>2 DEF Leave, Outcomes
<1>3. ASSUME NEW w \in Workers, Read(w)
      PROVE  /\ view' \in [Workers -> SUBSET Turns] /\ outcome' \in [Workers -> Outcomes]
             /\ spoiled' = spoiled
  <2>1. UserAt(w) \in Users
    BY <1>3, HoldsItsUser DEF Read, Rebuilding
  <2>2. ledger[UserAt(w)] \subseteq Turns
    BY <1>0, <2>1
  <2> QED
    BY <1>0, <1>3, <2>2 DEF Read, SettleAs, Outcomes
<1>4. ASSUME NEW w \in Workers, Call(w)
      PROVE  /\ view' \in [Workers -> SUBSET Turns] /\ outcome' \in [Workers -> Outcomes]
             /\ spoiled' = spoiled
  <2>1. \E o \in Outcomes : outcome' = [outcome EXCEPT ![w] = o]
    BY <1>4 DEF Call, SettleAs, Outcomes
  <2> QED
    BY <1>0, <1>4, <2>1 DEF Call
<1>5. ASSUME NEW w \in Workers, Write(w) \/ Note(w) \/ Settle(w)
      PROVE  /\ view' \in [Workers -> SUBSET Turns] /\ outcome' \in [Workers -> Outcomes]
             /\ spoiled' = spoiled
  BY <1>0, <1>2, <1>5 DEF Write, Note, Settle, SettleAs, Outcomes
<1>6. ASSUME NEW w \in Sweepers, ClaimDue(w) \/ Refresh(w)
      PROVE  /\ view' \in [Workers -> SUBSET Turns] /\ outcome' \in [Workers -> Outcomes]
             /\ spoiled' = spoiled
  BY <1>0, <1>2, <1>6 DEF ClaimDue, Refresh, Workers
<1>7. ASSUME NEW u \in Users, Erase(u) \/ Lapse(u)
      PROVE  UNCHANGED <<view, outcome>> /\ spoiled' \subseteq Users
  BY <1>0, <1>7 DEF Erase, Lapse
<1>8. CASE Crash
  BY <1>0, <1>8 DEF Crash, Outcomes
<1>9. ASSUME NEW t \in Turns, Begin(t) \/ Extract(t) \/ Record(t) \/ Bump(t) \/ Claim(t)
      PROVE  UNCHANGED <<view, outcome, spoiled>>
  BY <1>9 DEF Begin, Extract, Record, Bump, Claim
<1> QED
  BY <1>0, <1>1, <1>3, <1>4, <1>5, <1>6, <1>7, <1>8, <1>9 DEF Next, vars, Rebuild, GoQuiet

LEMMA CounterTypes ==
    ASSUME TypeOK, [Next]_vars
    PROVE  /\ erasures' \in 0..MaxErasures /\ slow' \in 0..MaxSlow
           /\ faults' \in 0..MaxFaults
<1> USE DEF tables, work, ghosts, bounds
<1>0. erasures \in 0..MaxErasures /\ slow \in 0..MaxSlow /\ faults \in 0..MaxFaults
  BY DEF TypeOK
<1>1. UNCHANGED faults \/ Fault
  BY DEF Next, vars, Begin, Extract, Record, Bump, Claim, ClaimDue, Refresh, Rebuild, Read,
         Call, Write, Note, Settle, Erase, Lapse, GoQuiet, Crash
<1>2. faults' \in 0..MaxFaults
  BY <1>0, <1>1, BoundAssumption DEF Fault
<1>3. UNCHANGED erasures \/ \E u \in Users : Erase(u)
  BY DEF Next, vars, Begin, Extract, Record, Bump, Claim, ClaimDue, Refresh, Rebuild, Read,
         Call, Write, Note, Settle, Lapse, GoQuiet, Crash
<1>4. erasures' \in 0..MaxErasures
  BY <1>0, <1>3, BoundAssumption DEF Erase
<1>5. UNCHANGED slow \/ \E u \in Users : Lapse(u)
  BY DEF Next, vars, Begin, Extract, Record, Bump, Claim, ClaimDue, Refresh, Rebuild, Read,
         Call, Write, Note, Settle, Erase, GoQuiet, Crash
<1>6. ASSUME NEW u \in Users, Lapse(u) PROVE slow' \in 0..MaxSlow
  <2>1. slow' = slow \/ (slow < MaxSlow /\ slow' = slow + 1)
    BY <1>6 DEF Lapse
  <2> QED
    BY <1>0, <2>1, BoundAssumption
<1> QED
  BY <1>0, <1>2, <1>4, <1>5, <1>6

\* Every reachable state is well typed, for any users, turns, sweepers, knobs and
\* bounds: no failure streak reaches MAX_REBUILD_FAILURES, no batch holds anything
\* but users.
THEOREM TypeCorrectness == Spec => []TypeOK
<1>1. Init => TypeOK
  BY BoundAssumption DEF Init, TypeOK, Stages, Outcomes
<1>2. TypeOK /\ RebuildInv /\ [Next]_vars /\ RebuildInv' => TypeOK'
  <2> SUFFICES ASSUME TypeOK, RebuildInv, [Next]_vars, RebuildInv' PROVE TypeOK'
    OBVIOUS
  <2> QED
    BY TableTypes, WorkTypes, CounterTypes DEF RebuildInv, PerUser, WorkInv, TypeOK
<1> QED
  BY <1>1, <1>2, RebuildInvariant, PTL DEF Spec
=============================================================================
