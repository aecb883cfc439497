-------------------------- MODULE RelationshipScan --------------------------
(***************************************************************************)
(* The scan of one relationship: the turns that count toward it, the claim *)
(* on its state row, the sweeper and the inline scans that take the claim, *)
(* read past the cursor, call the model, write an episode and settle; the  *)
(* archive that deletes the relationship under them.                       *)
(*                                                                         *)
(* A turn is named by the rank of its sent_at; it stands for its user row  *)
(* and the replies to it.  The relationship begins anew, in another epoch, *)
(* each time it is archived.                                               *)
(*                                                                         *)
(* A definition placed just before another, same parameters, that no other *)
(* definition uses is a mutant of it: the bug a property is there to catch.*)
(***************************************************************************)
EXTENDS Integers, FiniteSets, FiniteSetsExt

CONSTANTS
    NoRow,            \* the absence of a scan state
    MaxTurns,         \* bound on the turns posted
    BlankTurns,       \* turns with nothing to read but audio tags
    InlineScans,      \* tasks that scan after a turn of their own
    Sweeper,          \* the sweeper's task
    ScanK,            \* SCAN_K
    FlushMinTurns,    \* FLUSH_MIN_TURNS
    MaxScanFailures,  \* MAX_SCAN_FAILURES
    MaxRowsPerScan,   \* MAX_ROWS_PER_SCAN, in turns
    Idle,             \* DREAMING_IDLE_SECS, in ticks
    Stale,            \* DREAMING_CLAIM_STALE_SECS, in ticks
    SlowStages,       \* where a live scanner may let its claim go stale
    MaxArchives,      \* bound on archives
    MaxFaults,        \* bound on failed database calls
    MaxCrashes        \* bound on process crashes

Scanners == InlineScans \cup {Sweeper}
Turns == 1..MaxTurns
Epochs == 0..MaxArchives

Unclaimed == -1
\* liveFrom is live_from_at, the cursor the row opened with; claim the ticks
\* since claimed_at, idle the ticks since last_turn_at.
ScanState == [liveFrom : 0..MaxTurns, cursor : 0..MaxTurns, pending : 0..MaxTurns,
              claim : {Unclaimed} \cup 0..(Stale + 1),
              failures : 0..(MaxScanFailures - 1), idle : 0..(Idle + 1)]

ASSUME ScannersAssumption == Sweeper \notin InlineScans
ASSUME TurnsAssumption == MaxTurns \in Nat /\ BlankTurns \subseteq Turns
ASSUME KnobAssumption ==
    /\ ScanK \in Nat \ {0} /\ FlushMinTurns \in Nat \ {0}
    /\ MaxScanFailures \in Nat \ {0} /\ MaxRowsPerScan \in Nat \ {0}
    /\ Idle \in Nat /\ Stale \in Nat \ {0}
ASSUME NoRowAssumption == NoRow \notin ScanState
ASSUME BoundAssumption ==
    /\ MaxArchives \in Nat /\ MaxFaults \in Nat /\ MaxCrashes \in Nat

VARIABLES
    turn,        \* how far the counting of each turn got
    epochOf,     \* the epoch each turn was posted in
    row,         \* engine.relationship_scan_state: the relationship's row, or NoRow
    told,        \* engine.relationship_episodes: how many tell of each turn
    due,         \* turns whose count asks for an inline scan
    stage,       \* where each scanner is
    seg,         \* the segment each scanner reads, and what it loaded
    \* what the model remembers for the properties
    epoch,       \* archives so far
    lost,        \* scanners at work that lost the claim they took
    strays,      \* episodes told or still to be settled by one of them
    claimedIn,   \* the epochs in which a claim was taken
    read,        \* turns a settled scan read
    struckOut,   \* turns given up after MAX_SCAN_FAILURES
    missed,      \* what settlements took off the count that was not theirs to take
    \* how much went wrong so far
    faults, crashes

turnVars == <<turn, epochOf>>
scanVars == <<stage, seg, lost, strays>>
ledger == <<read, struckOut, missed>>
bounds == <<faults, crashes>>
vars == <<turnVars, row, told, due, scanVars, epoch, claimedIn, ledger, bounds>>

-----------------------------------------------------------------------------
TurnStates == {"absent", "landed", "seen", "counted", "lost"}

\* (after, bound] is asked for, turns are read, up to last; pending is the count
\* the state row had when it was loaded.
Segments == [after : 0..MaxTurns, bound : 0..MaxTurns, turns : SUBSET Turns,
             last : 0..MaxTurns, pending : 0..MaxTurns]
NoSegment == [after |-> 0, bound |-> 0, turns |-> {}, last |-> 0, pending |-> 0]

\* Where a scan is: claimed in a batch and waiting for its turn in it; about to
\* load the state row; to release a claim it has no use for; to read the
\* segment; to settle an empty one; to call the model; to check its claim; to
\* write the episode; to settle; to settle a failure.
Stages == {"none", "batched", "load", "release", "read", "settle_empty", "call",
           "check", "episode", "settle", "fail"}

\* Every variable has its type; the claim, failure and idle counters stay
\* within the bounds the statements of scan_state.rs give them.
TypeOK ==
    /\ turn \in [Turns -> TurnStates]
    /\ epochOf \in [Turns -> Epochs]
    /\ row \in ScanState \cup {NoRow}
    /\ told \in [Turns -> Nat]
    /\ due \subseteq Turns
    /\ stage \in [Scanners -> Stages]
    /\ seg \in [Scanners -> Segments]
    /\ epoch \in Epochs
    /\ lost \subseteq Scanners
    /\ strays \in Nat
    /\ claimedIn \subseteq Epochs
    /\ read \subseteq Turns
    /\ struckOut \subseteq Turns
    /\ missed \in Nat
    /\ faults \in 0..MaxFaults
    /\ crashes \in 0..MaxCrashes

Init ==
    /\ turn = [t \in Turns |-> "absent"]
    /\ epochOf = [t \in Turns |-> 0]
    /\ row = NoRow
    /\ told = [t \in Turns |-> 0]
    /\ due = {}
    /\ stage = [s \in Scanners |-> "none"]
    /\ seg = [s \in Scanners |-> NoSegment]
    /\ epoch = 0
    /\ lost = {} /\ strays = 0
    /\ claimedIn = {}
    /\ read = {} /\ struckOut = {} /\ missed = 0
    /\ faults = 0 /\ crashes = 0

-----------------------------------------------------------------------------
AtMost(n, m) == IF n < m THEN n ELSE m
AtLeast(n, m) == IF n > m THEN n ELSE m

Landed == {t \in Turns : turn[t] # "absent"}
Newest == Cardinality(Landed)
Live(t) == t \in Landed /\ epochOf[t] = epoch
Between(after, last) == {t \in Turns : after < t /\ t <= last}

Exists == row # NoRow
Claimed == Exists /\ row.claim # Unclaimed
FreeTooSoon == row.claim = Unclaimed \/ row.claim >= Stale
Free == row.claim = Unclaimed \/ row.claim > Stale

Fault == faults < MaxFaults /\ faults' = faults + 1 /\ UNCHANGED crashes
NoFault == UNCHANGED bounds

\* A claim has no owner: one that went stale is taken from the scanner at work
\* under it, and a scanner that lost its own lets go of another's.
Working(s) == stage[s] # "none"
AtWork == {s \in Scanners : Working(s)}
Stray(robbed) ==
    strays' = IF \E s \in robbed \ lost : stage[s] = "settle" THEN strays + 1 ELSE strays

\* A scanner takes the claim, goes on to its next step, is done, or is done and
\* lets go of the claim.
Begin(s, to, bound) ==
    /\ stage' = [stage EXCEPT ![s] = to]
    /\ seg' = [seg EXCEPT ![s] = [NoSegment EXCEPT !.bound = bound]]
    /\ LET robbed == IF row.claim > Stale THEN AtWork ELSE {}
       IN  lost' = lost \cup robbed /\ Stray(robbed)
    /\ claimedIn' = claimedIn \cup {epoch}
GoTo(s, to) ==
    /\ stage' = [stage EXCEPT ![s] = to]
    /\ UNCHANGED <<seg, lost, strays>>
Leave(s) ==
    /\ stage' = [stage EXCEPT ![s] = "none"]
    /\ seg' = [seg EXCEPT ![s] = NoSegment]
Done(s) == Leave(s) /\ lost' = lost \ {s} /\ UNCHANGED strays
LetGo(s) ==
    /\ Leave(s)
    /\ LET robbed == IF s \in lost THEN AtWork \ {s} ELSE {}
       IN  lost' = (lost \cup robbed) \ {s} /\ Stray(robbed)

-----------------------------------------------------------------------------
\* Counting a turn: bump_relationship.

\* The next turn of the relationship is stored.
Land(t) ==
    /\ t = Newest + 1
    /\ turn' = [turn EXCEPT ![t] = "landed"]
    /\ epochOf' = [epochOf EXCEPT ![t] = epoch]
    /\ UNCHANGED <<row, told, due, scanVars, epoch, claimedIn, ledger, bounds>>

\* Its sent_at is read back; a turn of an archived session counts nothing.
SeeTurn(t) ==
    /\ turn[t] = "landed"
    /\ turn' = [turn EXCEPT ![t] = IF Live(t) THEN "seen" ELSE "lost"]
    /\ UNCHANGED <<epochOf, row, told, due, scanVars, epoch, claimedIn, ledger,
                   bounds>>

\* The row of a relationship whose first turn to be counted is t: the cursor
\* is the newest message before it.
Opened(t) ==
    [liveFrom |-> t - 1, cursor |-> t - 1, pending |-> 1, claim |-> Unclaimed,
     failures |-> 0, idle |-> 0]

\* The turn is counted.  A text turn that finds SCAN_K pending asks for a scan;
\* a voice turn only counts.
Bump(t) ==
    /\ turn[t] = "seen"
    /\ turn' = [turn EXCEPT ![t] = "counted"]
    /\ row' = IF Exists
                THEN [row EXCEPT !.pending = AtMost(@ + 1, MaxTurns), !.idle = 0]
                ELSE Opened(t)
    /\ \/ row'.pending >= ScanK /\ due' = due \cup {t}
       \/ UNCHANGED due
    /\ UNCHANGED <<epochOf, told, scanVars, epoch, claimedIn, ledger, bounds>>

\* A count that fails is logged and lost.
BumpLost(t) ==
    /\ turn[t] \in {"landed", "seen"}
    /\ Fault
    /\ turn' = [turn EXCEPT ![t] = "lost"]
    /\ UNCHANGED <<epochOf, row, told, due, scanVars, epoch, claimedIn, ledger>>

-----------------------------------------------------------------------------
\* Taking the claim.

\* claim, for a turn that found SCAN_K pending: the count is read again, and
\* the scan is bounded by the turn's own rows.
ClaimInline(s, t) ==
    /\ stage[s] = "none" /\ t \in due
    /\ due' = due \ {t}
    /\ \/ /\ Exists /\ row.pending >= ScanK /\ Free
          /\ Begin(s, "load", t)
          /\ row' = [row EXCEPT !.claim = 0]
          /\ NoFault
       \/ /\ ~(Exists /\ row.pending >= ScanK /\ Free)
          /\ UNCHANGED <<row, scanVars, claimedIn>>
          /\ NoFault
       \/ Fault /\ UNCHANGED <<row, scanVars, claimedIn>>
    /\ UNCHANGED <<turnVars, told, epoch, ledger>>

\* claim_due: the sweeper claims the idle relationship, one of a batch.
ClaimDue ==
    /\ stage[Sweeper] = "none"
    /\ Exists /\ row.pending >= FlushMinTurns /\ row.idle > Idle /\ Free
    /\ Begin(Sweeper, "batched", 0)
    /\ row' = [row EXCEPT !.claim = 0]
    /\ UNCHANGED <<turnVars, told, due, epoch, ledger, bounds>>

\* The relationship's turn in the batch: refresh_claim takes any claim for the
\* batch's own, and the scan is bounded by the present.
StartOfBatch ==
    /\ stage[Sweeper] = "batched"
    /\ \/ /\ Claimed
          /\ row' = [row EXCEPT !.claim = 0]
          /\ stage' = [stage EXCEPT ![Sweeper] = "load"]
          /\ seg' = [seg EXCEPT ![Sweeper].bound = Newest]
          /\ NoFault /\ UNCHANGED <<lost, strays>>
       \/ ~Claimed /\ Done(Sweeper) /\ NoFault /\ UNCHANGED row
       \/ Done(Sweeper) /\ Fault /\ UNCHANGED row
    /\ UNCHANGED <<turnVars, told, due, epoch, claimedIn, ledger>>

-----------------------------------------------------------------------------
\* One scan: scan_instance, scan_segment.

\* The state row is loaded.  A bound another scan has read past releases the
\* claim; the sweeper's present is past every row's sent_at.
Load(s) ==
    /\ stage[s] = "load"
    /\ \/ ~Exists /\ Done(s) /\ NoFault
       \/ /\ Exists
          /\ seg' = [seg EXCEPT ![s].after = row.cursor, ![s].pending = row.pending]
          /\ stage' = [stage EXCEPT ![s] =
                           IF seg[s].bound < row.cursor \/ (seg[s].bound = row.cursor
                                                            /\ s # Sweeper)
                             THEN "release" ELSE "read"]
          /\ UNCHANGED <<lost, strays>>
          /\ NoFault
       \/ Done(s) /\ Fault
    /\ UNCHANGED <<turnVars, row, told, due, epoch, claimedIn, ledger>>

\* release_claim: whoever's claim it is.
ReleaseClaim(s) ==
    /\ stage[s] = "release"
    /\ \/ /\ Exists
          /\ row' = [row EXCEPT !.claim = Unclaimed]
          /\ LetGo(s)
          /\ NoFault
       \/ ~Exists /\ Done(s) /\ NoFault /\ UNCHANGED row
       \/ Done(s) /\ Fault /\ UNCHANGED row
    /\ UNCHANGED <<turnVars, told, due, epoch, claimedIn, ledger>>

SegmentFromCursor(g) ==
    LET rows == {t \in Between(g.after - 1, g.bound) : Live(t)}
    IN  {t \in rows : Cardinality({u \in rows : u <= t}) <= MaxRowsPerScan}
SegmentNewestFirst(g) ==
    LET rows == {t \in Between(g.after, g.bound) : Live(t)}
    IN  {t \in rows : Cardinality({u \in rows : u >= t}) <= MaxRowsPerScan}
\* read_segment: the oldest of the live turns past the cursor.
Segment(g) ==
    LET rows == {t \in Between(g.after, g.bound) : Live(t)}
    IN  {t \in rows : Cardinality({u \in rows : u <= t}) <= MaxRowsPerScan}

\* A read that fails settles as a failure that covers nothing.  A segment with
\* no rows settles up to its bound, one with nothing but audio tags up to its
\* last row.
Read(s) ==
    /\ stage[s] = "read"
    /\ LET rows == Segment(seg[s])
           last == IF rows = {} THEN seg[s].bound ELSE Max(rows)
       IN  \/ /\ seg' = [seg EXCEPT ![s].turns = rows, ![s].last = last]
              /\ stage' = [stage EXCEPT ![s] =
                               IF rows \subseteq BlankTurns THEN "settle_empty" ELSE "call"]
              /\ NoFault
           \/ /\ seg' = [seg EXCEPT ![s].last = seg[s].after]
              /\ stage' = [stage EXCEPT ![s] = "fail"]
              /\ Fault
    /\ UNCHANGED <<turnVars, row, told, due, epoch, lost, strays, claimedIn, ledger>>

\* The call, its generation row, the embeddings: it ends with an answer or a
\* failure.
Call(s) ==
    /\ stage[s] = "call"
    /\ GoTo(s, "check") \/ GoTo(s, "fail")
    /\ UNCHANGED <<turnVars, row, told, due, epoch, claimedIn, ledger, bounds>>

\* refresh_claim before the first write; a scan whose claim is gone is
\* discarded.  The answer may hold no episode.
Check(s) ==
    /\ stage[s] = "check"
    /\ \/ /\ Claimed
          /\ row' = [row EXCEPT !.claim = 0]
          /\ GoTo(s, "episode") \/ GoTo(s, "settle")
          /\ NoFault
       \/ ~Claimed /\ Done(s) /\ NoFault /\ UNCHANGED row
       \/ Done(s) /\ Fault /\ UNCHANGED row
    /\ UNCHANGED <<turnVars, told, due, epoch, claimedIn, ledger>>

MayInsertWhereRowIs == Exists
MayInsert == Claimed

\* insert_if_claimed: the claim guards the insert, and what follows it.
WriteEpisode(s) ==
    /\ stage[s] = "episode"
    /\ \/ /\ MayInsert
          /\ told' = [t \in Turns |->
                        IF t \in seg[s].turns THEN told[t] + 1 ELSE told[t]]
          /\ stage' = [stage EXCEPT ![s] = "settle"]
          /\ strays' = IF s \in lost THEN strays + 1 ELSE strays
          /\ UNCHANGED <<seg, lost>>
          /\ NoFault
       \/ ~MayInsert /\ Done(s) /\ NoFault /\ UNCHANGED told
       \/ GoTo(s, "fail") /\ Fault /\ UNCHANGED told
    /\ UNCHANGED <<turnVars, row, due, epoch, claimedIn, ledger>>

SettledAfresh(to, covered) ==
    [row EXCEPT !.cursor = AtLeast(@, to), !.pending = 0,
                !.failures = 0, !.claim = Unclaimed]
\* The row once a scan settled up to a turn, having covered so many.
Settled(to, covered) ==
    [row EXCEPT !.cursor = AtLeast(@, to), !.pending = AtLeast(@ - covered, 0),
                !.failures = 0, !.claim = Unclaimed]

\* The turns of its segment a scanner that lost its claim covers though they are
\* no longer to be read: another scan covered them, or they are archived.
Again(s) ==
    IF s \in lost THEN {t \in seg[s].turns : ~Live(t) \/ t <= row.cursor} ELSE {}

\* finish_scan_ok; the segment whose settlement fails is read again.
Settle(s) ==
    /\ stage[s] = "settle"
    /\ \/ /\ Claimed
          /\ row' = Settled(seg[s].last, Cardinality(seg[s].turns))
          /\ read' = read \cup seg[s].turns
          /\ missed' = missed + Cardinality(Again(s))
          /\ LetGo(s)
          /\ NoFault
       \/ ~Claimed /\ Done(s) /\ NoFault /\ UNCHANGED <<row, read, missed>>
       \/ Done(s) /\ Fault /\ UNCHANGED <<row, read, missed>>
    /\ UNCHANGED <<turnVars, told, due, epoch, claimedIn, struckOut>>

EmptyCountAsRead(g) == Cardinality(g.turns)
EmptyCount(g) == g.pending

\* settle_empty clears the whole count the scan loaded.
SettleEmpty(s) ==
    /\ stage[s] = "settle_empty"
    /\ \/ /\ Claimed
          /\ row' = Settled(seg[s].last, EmptyCount(seg[s]))
          /\ read' = read \cup seg[s].turns
          /\ missed' = missed + Cardinality(Again(s))
                            + AtLeast(EmptyCount(seg[s]) - Cardinality(seg[s].turns), 0)
          /\ LetGo(s)
          /\ NoFault
       \/ ~Claimed /\ Done(s) /\ NoFault /\ UNCHANGED <<row, read, missed>>
       \/ Done(s) /\ Fault /\ UNCHANGED <<row, read, missed>>
    /\ UNCHANGED <<turnVars, told, due, epoch, claimedIn, struckOut>>

StrikesOut == row.failures + 1 >= MaxScanFailures

\* finish_scan_failed: one idle period of backoff; the failure that strikes out
\* gives the segment up.
Fail(s) ==
    /\ stage[s] = "fail"
    /\ \/ /\ Claimed
          /\ IF StrikesOut
               THEN /\ row' = Settled(seg[s].last, Cardinality(seg[s].turns))
                    /\ struckOut' = struckOut \cup seg[s].turns
                    /\ missed' = missed + Cardinality(Again(s))
               ELSE /\ row' = [row EXCEPT !.failures = @ + 1, !.idle = 0,
                                          !.claim = Unclaimed]
                    /\ UNCHANGED <<struckOut, missed>>
          /\ LetGo(s)
          /\ NoFault
       \/ ~Claimed /\ Done(s) /\ NoFault /\ UNCHANGED <<row, struckOut, missed>>
       \/ Done(s) /\ Fault /\ UNCHANGED <<row, struckOut, missed>>
    /\ UNCHANGED <<turnVars, told, due, epoch, claimedIn, read>>

Step(s) ==
    \/ Load(s) \/ ReleaseClaim(s) \/ Read(s) \/ Call(s) \/ Check(s)
    \/ WriteEpisode(s) \/ Settle(s) \/ SettleEmpty(s) \/ Fail(s)

-----------------------------------------------------------------------------
\* archive_relationship: the sessions are archived, the state row and the
\* episodes go; the scanners are not told.
Archive ==
    /\ epoch < MaxArchives
    /\ epoch' = epoch + 1
    /\ row' = NoRow
    /\ told' = [t \in Turns |-> 0]
    /\ lost' = AtWork /\ Stray(AtWork)
    /\ UNCHANGED <<turnVars, due, stage, seg, claimedIn, ledger, bounds>>

\* The process dies: turns not yet counted never will be.
Crash ==
    /\ crashes < MaxCrashes
    /\ crashes' = crashes + 1
    /\ turn' = [t \in Turns |-> IF turn[t] \in {"landed", "seen"} THEN "lost" ELSE turn[t]]
    /\ due' = {}
    /\ stage' = [s \in Scanners |-> "none"]
    /\ seg' = [s \in Scanners |-> NoSegment]
    /\ lost' = {}
    /\ UNCHANGED <<epochOf, row, told, strays, epoch, claimedIn, ledger, faults>>

\* Time passes.  A live scan settles before the claim goes stale, but where it
\* may be slow.
OnTime == row.claim < Stale \/ \A s \in Scanners : stage[s] \in {"none"} \cup SlowStages
Tick ==
    /\ Exists
    /\ row.claim = Stale => OnTime
    /\ row' = [row EXCEPT !.claim = IF @ = Unclaimed THEN @ ELSE AtMost(@ + 1, Stale + 1),
                          !.idle = AtMost(@ + 1, Idle + 1)]
    /\ UNCHANGED <<turnVars, told, due, scanVars, epoch, claimedIn, ledger, bounds>>

Next ==
    \/ \E t \in Turns : Land(t) \/ SeeTurn(t) \/ Bump(t) \/ BumpLost(t)
    \/ \E s \in InlineScans, t \in Turns : ClaimInline(s, t)
    \/ ClaimDue \/ StartOfBatch
    \/ \E s \in Scanners : Step(s)
    \/ Archive \/ Crash \/ Tick

Spec == Init /\ [][Next]_vars

\* A handler that runs goes on, the sweeper ticks, time passes.
FairSpec ==
    /\ Spec
    /\ WF_vars(ClaimDue) /\ WF_vars(StartOfBatch) /\ WF_vars(Tick)
    /\ \A s \in Scanners : WF_vars(Step(s))

-----------------------------------------------------------------------------
Holding(s) == stage[s] \notin {"none", "batched", "release"}

\* "Both trigger paths claim the relationship first, so two workers never scan
\* one relationship at once" (dreaming/mod.rs).
NeverTwoScanners == \A s1, s2 \in Scanners : s1 # s2 => ~(Holding(s1) /\ Holding(s2))

\* Of two scanners at work on the relationship, one has lost its claim: it was
\* taken as stale, let go by a scanner that had lost its own, or deleted with
\* an archived row (claim, claim_due, refresh_claim, release_claim).
OneScanner ==
    \A s1, s2 \in Scanners \ lost : s1 # s2 => ~(Holding(s1) /\ Holding(s2))

\* The cursor of a relationship never passes a turn no scan read or gave up:
\* the bound of a capped segment, a failed read and a late settlement do not
\* skip turns (finish_scan_ok, finish_scan_failed, scan_segment).
CursorCoversRead ==
    Exists => \A t \in Between(row.liveFrom, row.cursor) :
                  Live(t) => t \in read \cup struckOut

\* The count on the row, which alone makes the sweeper and the inline path scan,
\* never falls behind the turns still to be read, but for counts that failed,
\* counts an empty settlement took, and turns that were covered again by a
\* scanner that had lost its claim: concurrent bumps and settlements lose nothing
\* else (bump, finish_scan_ok, finish_scan_failed).
CountKeepsUp ==
    Exists =>
        LET unread == {t \in Turns : t > row.cursor /\ Live(t)}
            uncounted == {t \in Turns : Live(t) /\ turn[t] # "counted"}
        IN  row.pending + Cardinality(uncounted) + missed >= Cardinality(unread)

\* A turn is told again only when a database call failed, the process died, or
\* the scanner that told it had lost its claim, or lost it before it settled
\* (insert_if_claimed before finish_scan_ok).
ToldOnce == \A t \in Turns : told[t] <= 1 + faults + crashes + strays

\* "one that comes later finds no row and writes nothing" (session_archive.rs):
\* an episode of an archived conversation is written only after the new one
\* was claimed for a scan of its own.
ArchivedStaysGone ==
    \A t \in Turns : told[t] > 0 => Live(t) \/ epoch \in claimedIn

\* The cursor never moves back while the row lives ("never back",
\* finish_scan_ok), whatever old scan settles.
CursorMonotonic ==
    [][Exists /\ row' # NoRow => row'.cursor >= row.cursor]_vars

\* Enough pending turns of a relationship gone quiet are scanned, given up or
\* deleted in the end, and a count with nothing left to read does not stand
\* ("a count left standing would re-claim this relationship on every tick").
PendingSettles ==
    (Exists /\ row.pending >= FlushMinTurns)
        ~> (~Exists \/ row.pending < FlushMinTurns)
=============================================================================
