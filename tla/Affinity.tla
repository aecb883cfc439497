------------------------------ MODULE Affinity ------------------------------
(***************************************************************************)
(* The relationship state of one persona instance and its audit trail.     *)
(*                                                                         *)
(* Every text session of the instance has one affinity row; the journal of *)
(* tier moments belongs to the instance. Turns run concurrently, also      *)
(* within a session: a turn reads the row when it starts, decides after a  *)
(* model call whether she stays silent, and its judgment is written by a   *)
(* detached task after another model call. Each write locks the row and    *)
(* logs what it did with a snapshot before and after. Archiving the        *)
(* relationship deletes the rows, their log and the journal under them.    *)
(*                                                                         *)
(* One of the two symmetric lines is modelled, as a whole score on a       *)
(* ladder of equal tiers; a verdict is its real delta (after conversion,   *)
(* damping and cross-line penalty), a free choice in Verdicts.             *)
(*                                                                         *)
(* A definition placed just before another, same parameters, that no other *)
(* definition uses is a mutant of it: the bug a property is there to catch.*)
(***************************************************************************)
EXTENDS Integers, Sequences

CONSTANTS
    Sessions,     \* the text sessions of the instance
    Turns,        \* chat turns and answers to a choice
    Rows,         \* the affinity rows a session may have at the start
    Verdicts,     \* the real deltas a judged turn may come to
    Theta,        \* delta_threshold
    Tiers, Width, \* the ladder: how many tiers, how many points each
    MaxStreak,    \* the streak at which no ghost is permitted
    Cooldown,     \* the hour after a ghost, in ticks
    Day,          \* ticks in 24 hours, the time of one point of drift
    Overlap,      \* whether turns of one session may overlap
    MaxFaults,    \* bound on failing statements
    MaxTime       \* bound on the clock

ASSUME SessionsAssumption == Sessions # {}
ASSUME LadderAssumption ==
    /\ Tiers \in Nat \ {0} /\ Width \in Nat \ {0}
    /\ Verdicts \subseteq Int /\ Theta \in Nat
ASSUME ClockAssumption ==
    /\ Day \in Nat \ {0} /\ Cooldown \in Nat /\ MaxStreak \in Nat
    /\ MaxTime \in Nat /\ MaxFaults \in Nat /\ Overlap \in BOOLEAN

VARIABLES
    now,      \* the clock
    live,     \* the sessions not archived
    row,      \* per session, its engine.companion_affinity row or NoRow
    log,      \* per session, engine.companion_affinity_events, oldest first
    journal,  \* per tier above the first, its tier_reached row or NoEntry
    turn,     \* per turn, where it stands and what it holds in memory
    heard,    \* per session, the state time of the newest finished summary
    faults    \* failed statements so far

vars == <<now, live, row, log, journal, turn, heard, faults>>

NoRow == [id |-> 0]
NoEntry == [at |-> -1]
Never == -1 - Day

Top == Tiers * Width - 1
Clamp(n) == IF n < 0 THEN 0 ELSE IF n > Top THEN Top ELSE n

\* The tier of a score, and where one tier down at the same place is.
Tier(n) == n \div Width + 1
Dropped(n) == IF Tier(n) = 1 THEN 0 ELSE n - Width

\* The points of absence a row has gathered since it was last written.
Drift(r) == (now - r.at) \div Day
Drifted(r) == Clamp(r.score - Drift(r))

\* What the gate lets through of a verdict, and what it holds back.
Gate(held, rho) ==
    LET sum == held + rho
    IN  IF sum >= Theta \/ -sum >= Theta
        THEN [committed |-> sum, pending |-> 0]
        ELSE [committed |-> 0, pending |-> sum]

\* The damper after a separation halves growth that lands; the cut is gone.
Slowed(n, slow) == IF slow /\ n > 0 THEN n \div 2 ELSE n

Snapshot(r) == [score |-> r.score, total |-> r.total, at |-> r.at]

Event(type, before, after, rho, committed, drop) ==
    [type |-> type, before |-> Snapshot(before), after |-> Snapshot(after),
     rho |-> rho, committed |-> committed, drop |-> drop, seen |-> now]

NewRow(id) ==
    [id |-> id, score |-> 0, pending |-> 0, streak |-> 0, total |-> 0,
     ghostAt |-> Never, at |-> now, clauseAt |-> Never]

AffinityRows ==
    [id : {1, 2}, score : 0..Top, pending : Int, streak : Nat, total : Nat,
     ghostAt : Int, at : Int, clauseAt : Int]

\* The rows at the start are of live sessions and were written before.
ASSUME RowsAssumption ==
    \A r \in Rows : r = NoRow \/ (r \in AffinityRows /\ r.id = 1 /\ r.at <= 0)

\* A row and the event that left it so, before the model begins.
Opening(r) ==
    << [type |-> IF r.streak > 0 THEN "ghost" ELSE "message",
        before |-> Snapshot(r), after |-> Snapshot(r), rho |-> r.pending,
        committed |-> 0, drop |-> FALSE, seen |-> 0] >>

Fresh == [pc |-> "idle", s |-> CHOOSE s \in Sessions : TRUE, id |-> 0,
          streak |-> 0, ghostAt |-> Never, kind |-> "none", began |-> 0,
          asOf |-> Never]

Init ==
    /\ now = 0
    /\ live = Sessions
    /\ row \in [Sessions -> Rows]
    /\ log = [s \in Sessions |-> IF row[s] = NoRow THEN <<>> ELSE Opening(row[s])]
    /\ journal =
         [k \in 2..Tiers |->
            LET there == {s \in Sessions : row[s] # NoRow /\ Tier(row[s].score) >= k}
            IN  IF there = {} THEN NoEntry
                ELSE [at |-> -Day, by |-> CHOOSE s \in there : TRUE, pos |-> 1]]
    /\ turn = [t \in Turns |-> Fresh]
    /\ heard = [s \in Sessions |-> IF row[s] = NoRow THEN Never ELSE row[s].clauseAt]
    /\ faults = 0

Step(t, r) == turn' = [turn EXCEPT ![t] = r]
Goto(t, pc) == Step(t, [turn[t] EXCEPT !.pc = pc])
Underway(t) == turn[t].pc \notin {"idle", "done"}
Fault == faults < MaxFaults /\ faults' = faults + 1

(***************************************************************************)
(* The turn itself: read, decide, stay silent or reply                     *)
(***************************************************************************)

\* A message reaches its handler, which finds the session live.
Admit(t, s) ==
    /\ turn[t].pc = "idle"
    /\ s \in live
    /\ Overlap \/ \A u \in Turns : ~ (Underway(u) /\ turn[u].s = s)
    /\ Step(t, [turn[t] EXCEPT !.pc = "admitted", !.s = s])
    /\ UNCHANGED <<now, live, row, log, journal, heard, faults>>

\* load_or_create: it asks nothing of the session, which may be archived now.
Load(t) ==
    LET s == turn[t].s
        r == IF row[s] = NoRow THEN NewRow(IF s \in live THEN 1 ELSE 2) ELSE row[s]
    IN  /\ turn[t].pc = "admitted"
        /\ row' = [row EXCEPT ![s] = r]
        /\ Step(t, [turn[t] EXCEPT !.pc = "deciding", !.id = r.id,
                                   !.streak = r.streak, !.ghostAt = r.ghostAt])
        /\ UNCHANGED <<now, live, log, journal, heard, faults>>

\* The hard-safety vetoes, on what the turn read when it started.
GhostPermitted(t) ==
    /\ turn[t].streak < MaxStreak
    /\ now - turn[t].ghostAt >= Cooldown

DecideGhost(t) ==
    /\ turn[t].pc = "deciding"
    /\ GhostPermitted(t)
    /\ Step(t, [turn[t] EXCEPT !.pc = "locking", !.kind = "ghost", !.began = now])
    /\ UNCHANGED <<now, live, row, log, journal, heard, faults>>

\* A reply was served; an empty one ends the turn and touches nothing here.
Reply(t) ==
    /\ turn[t].pc = "deciding"
    /\ \/ Step(t, [turn[t] EXCEPT !.pc = "replied", !.kind = "message"])
       \/ Goto(t, "done")
    /\ UNCHANGED <<now, live, row, log, journal, heard, faults>>

RecordedDecayed(r) == [r EXCEPT !.score = Drifted(r)]
\* Both snapshots of a ghost come off the row, not off the copy its turn
\* decayed in memory.
Recorded(r) == r

FoundBySession(t) == row[turn[t].s] # NoRow
\* A turn locks the row it loaded, which an archive may have taken; the route
\* that answers a choice locks whatever row its session has.
Found(t) ==
    /\ row[turn[t].s] # NoRow
    /\ turn[t].kind = "answer" \/ row[turn[t].s].id = turn[t].id

RecordGhost(t) ==
    LET s == turn[t].s
        r == row[s]
        Ghosted(x) == [x EXCEPT !.streak = @ + 1, !.total = @ + 1,
                                !.ghostAt = turn[t].began, !.at = turn[t].began]
    IN  /\ turn[t].pc = "locking" /\ turn[t].kind = "ghost"
        /\ Found(t)
        /\ row' = [row EXCEPT ![s] = Ghosted(r)]
        /\ log' = [log EXCEPT ![s] =
               Append(@, Event("ghost", Recorded(r), Ghosted(Recorded(r)), 0, 0, FALSE))]
        /\ Goto(t, "done")
        /\ UNCHANGED <<now, live, journal, heard, faults>>

\* A served reply ends the streak, with a statement of its own that logs
\* nothing and moves the row's clock; failing, it is passed over.
ResetStreak(t) ==
    LET s == turn[t].s
    IN  /\ turn[t].pc = "replied"
        /\ Goto(t, "judging")
        /\ \/ /\ row' = IF row[s] = NoRow \/ row[s].streak = 0 THEN row
                        ELSE [row EXCEPT ![s] = [@ EXCEPT !.streak = 0, !.at = now]]
              /\ UNCHANGED faults
           \/ Fault /\ UNCHANGED row
        /\ UNCHANGED <<now, live, log, journal, heard>>

(***************************************************************************)
(* The detached task: the verdict, its write and the feeling clause        *)
(***************************************************************************)

\* Where a turn whose write did not come off goes on: a verdict that moved
\* something is summed up all the same.
AfterFailure(t) == IF turn[t].kind = "message" THEN {"summing", "done"} ELSE {"done"}

\* load_or_create_if_live: after the judge's call the session must be live.
LoadIfLive(t) ==
    LET s == turn[t].s
        r == IF row[s] = NoRow THEN NewRow(1) ELSE row[s]
    IN  /\ turn[t].pc = "judging"
        /\ \/ /\ s \in live
              /\ row' = [row EXCEPT ![s] = r]
              /\ Step(t, [turn[t] EXCEPT !.pc = "judged", !.id = r.id])
              /\ UNCHANGED faults
           \/ /\ (s \notin live /\ UNCHANGED faults) \/ Fault
              /\ \E pc \in AfterFailure(t) : Goto(t, pc)
              /\ UNCHANGED row
        /\ UNCHANGED <<now, live, log, journal, heard>>

\* Its transaction begins, and now() stands still in it from here.
Begin(t) ==
    /\ turn[t].pc = "judged"
    /\ Step(t, [turn[t] EXCEPT !.pc = "locking", !.began = now])
    /\ UNCHANGED <<now, live, row, log, journal, heard, faults>>

TakenBackTwoBelow(k, after, began) ==
    /\ k > Tier(after) + 1 /\ journal[k] # NoEntry
    /\ journal[k].at > began - Day
\* The rows of tiers the line fell below, while they are under a day old.
TakenBack(k, after, began) ==
    /\ k > Tier(after) /\ journal[k] # NoEntry
    /\ journal[k].at > began - Day

\* What one write makes of the journal, in its own transaction.
RecordLabelMoves(s, before, after, began) ==
    journal' = [k \in 2..Tiers |->
        CASE /\ Tier(after) > Tier(before)
             /\ k = Tier(after) /\ journal[k] = NoEntry ->
                [at |-> began, by |-> s, pos |-> Len(log[s]) + 1]
          [] Tier(after) < Tier(before) /\ TakenBack(k, after, began) -> NoEntry
          [] OTHER -> journal[k]]

\* The row a write starts from: decayed under the lock.
Baseline(t) == [row[turn[t].s] EXCEPT !.score = Drifted(row[turn[t].s])]
HeldNothing(t) == 0
\* The balance a write starts from.
Held(t) == row[turn[t].s].pending

\* A judged turn's score and balance; a refused action drops the line a tier
\* instead and keeps nothing in the balance.
Verdict(t, rho, refused, slow) ==
    LET base == Baseline(t)
        gate == Gate(Held(t), rho)
    IN  [base EXCEPT
           !.score = IF refused THEN Dropped(base.score)
                     ELSE Clamp(base.score + Slowed(gate.committed, slow)),
           !.pending = IF refused THEN 0 ELSE gate.pending,
           !.at = turn[t].began]

PersistWithEvent(t) ==
    LET s == turn[t].s
    IN  /\ turn[t].pc = "locking" /\ turn[t].kind = "message"
        /\ Found(t)
        /\ \E rho \in Verdicts, refused, slow \in BOOLEAN :
             LET base == Baseline(t)
                 after == Verdict(t, rho, refused, slow)
             IN  /\ row' = [row EXCEPT ![s] = after]
                 /\ log' = [log EXCEPT ![s] = Append(@,
                        Event("message", base, after, rho,
                              Gate(Held(t), rho).committed, refused))]
                 /\ RecordLabelMoves(s, base.score, after.score, turn[t].began)
                 /\ Goto(t, IF rho # 0 \/ refused THEN "summing" ELSE "done")
        /\ UNCHANGED <<now, live, heard, faults>>

\* The row is gone or a statement fails: the write is given up.
GiveUp(t) ==
    /\ turn[t].pc = "locking"
    /\ \/ ~ Found(t) /\ UNCHANGED faults
       \/ Fault
    /\ \E pc \in AfterFailure(t) : Goto(t, pc)
    /\ UNCHANGED <<now, live, row, log, journal, heard>>

\* The summarizer reads the persisted row; its clause will be as of then.
ReadFeeling(t) ==
    LET s == turn[t].s
    IN  /\ turn[t].pc = "summing"
        /\ IF row[s] = NoRow THEN Goto(t, "done")
           ELSE Step(t, [turn[t] EXCEPT !.pc = "writing", !.asOf = row[s].at])
        /\ UNCHANGED <<now, live, row, log, journal, heard, faults>>

AnyAge(r, asOf) == TRUE
\* The as-of guard of the clause's write.
NotOlder(r, asOf) == r.clauseAt <= asOf

SetFeelingClause(t) ==
    LET s == turn[t].s
        a == turn[t].asOf
    IN  /\ turn[t].pc = "writing"
        /\ Goto(t, "done")
        /\ \/ /\ row' = IF row[s] # NoRow /\ NotOlder(row[s], a)
                        THEN [row EXCEPT ![s].clauseAt = a] ELSE row
              /\ heard' = IF row[s] = NoRow THEN heard
                          ELSE [heard EXCEPT ![s] = IF a > @ THEN a ELSE @]
           \/ UNCHANGED <<row, heard>>   \* the summary failed: the old clause stands
        /\ UNCHANGED <<now, live, log, journal, faults>>

(***************************************************************************)
(* The answer that costs a tier, the archive, time                         *)
(***************************************************************************)

\* The route that answers a choice opens its transaction.
Answer(t, s) ==
    /\ turn[t].pc = "idle"
    /\ s \in live /\ row[s] # NoRow
    /\ Step(t, [turn[t] EXCEPT !.pc = "locking", !.s = s, !.kind = "answer",
                               !.began = now, !.id = row[s].id])
    /\ UNCHANGED <<now, live, row, log, journal, heard, faults>>

PersistLifeChoiceDrop(t) ==
    LET s == turn[t].s
        base == Baseline(t)
        after == [base EXCEPT !.score = Dropped(@), !.pending = 0, !.at = turn[t].began]
    IN  /\ turn[t].pc = "locking" /\ turn[t].kind = "answer"
        /\ Found(t)
        /\ row' = [row EXCEPT ![s] = after]
        /\ log' = [log EXCEPT ![s] =
               Append(@, Event("life_choice", base, after, 0, 0, TRUE))]
        /\ RecordLabelMoves(s, base.score, after.score, turn[t].began)
        /\ Goto(t, "done")
        /\ UNCHANGED <<now, live, heard, faults>>

ArchiveRelationship ==
    /\ live # {}
    /\ live' = {}
    /\ row' = [s \in Sessions |-> NoRow]
    /\ log' = [s \in Sessions |-> <<>>]
    /\ journal' = [k \in 2..Tiers |-> NoEntry]
    /\ heard' = [s \in Sessions |-> Never]
    /\ UNCHANGED <<now, turn, faults>>

\* A transaction may straddle a tick, never outlast one.
Tick ==
    /\ now < MaxTime
    /\ \A t \in Turns : turn[t].pc = "locking" => turn[t].began = now
    /\ now' = now + 1
    /\ UNCHANGED <<live, row, log, journal, turn, heard, faults>>

Next ==
    \/ \E t \in Turns, s \in Sessions : Admit(t, s) \/ Answer(t, s)
    \/ \E t \in Turns :
         \/ Load(t) \/ DecideGhost(t) \/ Reply(t) \/ RecordGhost(t)
         \/ ResetStreak(t) \/ LoadIfLive(t) \/ Begin(t) \/ PersistWithEvent(t)
         \/ GiveUp(t) \/ ReadFeeling(t) \/ SetFeelingClause(t)
         \/ PersistLifeChoiceDrop(t)
    \/ ArchiveRelationship
    \/ Tick

Spec == Init /\ [][Next]_vars

(***************************************************************************)
(* Properties                                                              *)
(***************************************************************************)

Snapshots == [score : 0..Top, total : Nat, at : Int]
EventRows == [type : {"message", "ghost", "life_choice"}, before : Snapshots,
              after : Snapshots, rho : Int, committed : Int, drop : BOOLEAN, seen : Nat]
JournalRows == [at : Int, by : Sessions, pos : Nat]
TurnRows == [pc : {"idle", "admitted", "deciding", "replied", "judging", "judged",
                   "locking", "summing", "writing", "done"},
             s : Sessions, id : 0..2, streak : Nat, ghostAt : Int,
             kind : {"none", "message", "ghost", "answer"}, began : Nat, asOf : Int]

TypeOK ==
    /\ now \in 0..MaxTime /\ faults \in 0..MaxFaults
    /\ live \subseteq Sessions
    /\ row \in [Sessions -> AffinityRows \cup {NoRow}]
    /\ log \in [Sessions -> Seq(EventRows)]
    /\ journal \in [2..Tiers -> JournalRows \cup {NoEntry}]
    /\ turn \in [Turns -> TurnRows]
    /\ heard \in [Sessions -> Int]

\* The log accounts for the row. Between two events nothing but absence moves
\* the score, and only down; every ghost counted is an event; and the row is
\* as its last event left it. (persist_with_event, record_ghost)
LogAccounts ==
    \A s \in Sessions :
      LET l == log[s] IN
      /\ \A i \in 1..Len(l) - 1 :
           /\ l[i + 1].before.score <= l[i].after.score
           /\ l[i + 1].before.score >=
                l[i].after.score - (l[i + 1].seen - l[i].after.at) \div Day
           /\ l[i + 1].before.total = l[i].after.total
           /\ l[i + 1].after.total =
                l[i].after.total + (IF l[i + 1].type = "ghost" THEN 1 ELSE 0)
      /\ l # <<>> => /\ row[s].score = l[Len(l)].after.score
                     /\ row[s].total = l[Len(l)].after.total

\* What a log leaves in the balance: earned, not committed, since a drop.
Owed(l) ==
    LET owed[n \in 0..Len(l)] ==
          IF n = 0 \/ l[n].drop THEN 0
          ELSE owed[n - 1] + l[n].rho - l[n].committed
    IN  owed[Len(l)]

\* The threshold gate re-times what it commits and rescales nothing: the
\* balance is what was earned and not yet committed since a drop cleared it,
\* whatever turns overlapped. (grade_turn, clear_line)
GateOwes == \A s \in Sessions : row[s] # NoRow => row[s].pending = Owed(log[s])

\* No moment of a tier the session has lost within a day of reaching it stays
\* in the journal. (record_label_moves)
JournalHonest ==
    \A k \in 2..Tiers :
      journal[k] # NoEntry =>
        \A i \in journal[k].pos + 1..Len(log[journal[k].by]) :
          LET e == log[journal[k].by][i] IN
          (Tier(e.after.score) < Tier(e.before.score) /\ Tier(e.after.score) < k)
            => journal[k].at <= e.after.at - Day

\* What an archive took stays gone: no moment and no judged turn of an
\* archived session is written by a task that outlived it. (load_or_create_if_live)
ArchivedStaysForgotten ==
    \A s \in Sessions \ live :
      /\ \A k \in 2..Tiers : journal[k] # NoEntry => journal[k].by # s
      /\ \A i \in 1..Len(log[s]) : log[s][i].type # "message"

\* Whatever order overlapping summaries finish in, the clause that stands is
\* the one of the newest state time among them. (set_feeling_clause)
NewestClauseStands ==
    \A s \in Sessions : row[s] # NoRow => row[s].clauseAt = heard[s]

\* "ghost_streak >= 2: never ghost a third time in a row"
\* (docs/ghost-mechanics.md). It does not hold: overlapping turns each read the
\* streak when they start and count their own ghost later.
NeverAThirdGhost == \A s \in Sessions : row[s] # NoRow => row[s].streak <= MaxStreak
=============================================================================
