# Specifications of eros-engine

eros-engine is the backend of a companion chat: an HTTP server (`crates/eros-engine-server`)
over a Postgres store (`crates/eros-engine-store`), a pure core (`crates/eros-engine-core`) and
a client of language models (`crates/eros-engine-llm`). Handlers, detached tasks and sweepers
share the database; almost every promise the engine makes a client (one reply per message, one
failure notice, one snapshot per call, one scan of a relationship at a time) depends on what two
of them do to one row between two statements. That is what these modules specify.

Everything is translated from the source. Paths below are relative to `crates/`, and `server/`,
`store/`, `core/` and `llm/` stand for `eros-engine-server/src/` and so on. `PROJECT.json` maps each
definition to its lines.

    tlc -config QueueSafety.cfg MCTurnQueue.tla      # any run: <cfg> and the module it names
    tlapm TurnQueueProofs.tla                        # the proofs of a module

## 1. Inventory

Status: **M** modelled, **P** partly, **-** not (yet). The hard behaviour is named because
that is where properties are spent.

| Component | State it keeps | Operations | Talks to | What is hard; what makes it correct | |
|---|---|---|---|---|---|
| Chat turn queue and worker (`server/pipeline/chat_queue.rs`, `store/chat_queue.rs`, `server/routes/companion_async.rs`) | `engine.chat_turn_queue`: status, attempts, claimed_at; worker permits | enqueue (async, claimed), claim_next, drive, settle, reap_stale | history store, turn generator, stream endpoint | crash between reply and verdict, claims going stale, two ladders per session, lost verdicts. A claim belongs to its drive, one reply, one notice, attempts bounded, every turn settles | M |
| Stream endpoint (`routes/companion_stream.rs`, `routes/companion.rs`) | stream slots per user | post, replay answer, spawn the drive | queue | handler dropped between the enqueue and the spawn; the answer to a repeated post | P |
| Turn generator (`pipeline/stream.rs`, `handlers.rs`, `reasoning_call.rs`, `snapshot.rs`) | none of its own; writes replies, ghost marks | run_stream: decide, generate, store, Done frames | LLM chain, history, affinity, post processing | stores reply before Done; failed writes are logged | P |
| LLM chain and failure classes (`llm/`) | none | fallback walk, classification | gateway | the walk is in the callers' modules, with each outcome a free choice | - |
| Model configuration (`llm/model_config.rs`) | read-only after start | parse, resolve | all callers | pure parser | - |
| BYOK and BYOC (`server/byok.rs`, `byoc.rs`, `routes/byoc.rs`) | per-request | validate, resolve | stream endpoint | the queue row cannot carry them (volatile turns) | P |
| Stream cleaning (`llm/stream_scrub.rs`, `stream_clean.rs`, `byte_bpe.rs`) | carry-over buffer of a stream | feed chunk, finish | generator, voice | a tag split over chunks; equals the whole-text scrub | - |
| Affinity (`core/affinity.rs`, `store/affinity.rs`, `core/scope.rs`) | `companion_affinity` vector, ghost streak, events | persist_with_event, record_ghost, decay, drop of a life choice | generator, life choices, effects | read-modify-write under overlapping turns | P |
| Decision engine, ghosting (`core/pde.rs`, `core/ghost.rs`, `store/decision.rs`) | none / decision log | decide, should_ghost | generator | pure, over the affinity | P |
| Post processing, memory (`pipeline/post_process.rs`, `store/memory.rs`, `*_insight.rs`) | memories, facts, insights | extract, insert, refresh | generator, profile | best effort after a turn | P |
| Relationship scan, "dreaming" (`pipeline/dreaming/`, `store/scan_state.rs`, `episode.rs`, `arc.rs`, `journal.rs`, `scan_event.rs`, `server/backfill.rs`) | `relationship_scan_state` (cursor, pending count, claim, strikes), episodes, arc | bump, claim, claim_due, refresh, scan, settle (ok, empty, failed), release | every turn, archive, erasure | claims have no owner; scans outlive claims and archives; counts race settlements. Of two scanners one has lost its claim, cursor covers what was read, count keeps up, archived stays gone | P |
| Profile rebuild, erasure (`pipeline/profile_rebuild.rs`, `store/profile_state.rs`, `human_*.rs`, `erasure.rs`) | profile state, facts, portrait | bump_facts, claim, finish_ok, erase_user | scan, post processing | facts counted during a rebuild; a rebuild outliving an erasure | P |
| Voice turn (`pipeline/voice.rs`, `routes/voice.rs`) | the voice rows of a session, its frozen snapshot | turn/stream, turn/interrupt, retry and repair | history store, chain, audit rows, scan count | an interrupt racing the generator; two generators of one turn; dropped calls; per-candidate metadata | M |
| Chat history store (`store/chat.rs`) | `chat_sessions`, `chat_messages` | upsert user row, insert replies, voice merges, notices | all of the above | row locks, merge rules | P |
| Session archive (`store/session_archive.rs`) | archived flag; clears memories, affinity, insights, scan state, episodes, arc, journal | archive_relationship | scan, post processing | deletes under running tasks | P |
| Group chat (`core/group.rs`, `store/group.rs`, `pipeline/group*.rs`, `routes/group.rs`) | members, round | round of speakers | queue, generator | each speaker is a burst, the turn settles as any; the cast is a free choice | P |
| Life events, effects, needs (`core/events.rs`, `effects.rs`, `needs.rs`, `store/events.rs`) | event rows per instance | insert, insert_preempting, ack, expire | generator, life choices, scan | cap of events under way and the insert that displaces one | P |
| Life choices (`store/life_choices.rs`, `pipeline/life_choice.rs`, `routes/life_choices.rs`) | asks, one open per relationship | insert_ask, resolve, convert_ignored_ask | affinity, events | an answer, an ignoring message and a new ask together | M |
| Session opening, proactive, reactions (`routes/session_open.rs`, `pipeline/proactive.rs`, `routes/reaction.rs`) | opening message, reactions | open, nudge, react | history | one guarded insert with a unique key; a same-key open reads it back | - |
| World, town, story sweepers (`pipeline/world*.rs`, `story.rs` and their stores) | `world_states` (worldview hash, claim token, last run), `persona_story_insights`; fragments, story events, posts and replies | ensure, claim, round, reset, mark_ran, release; publish, comment; erase | a round outlives its claim, its worldview or its owner; a reset is several deletes. What stands was generated from the worldview the world runs on, and no change of it is lost | P |
| Images and persona items | single rows | insert around an external call | image service | none beyond single inserts | - |
| Personas (`core/persona.rs`, `store/persona.rs`, `generation.rs`) | genomes, instances, generations | row-at-a-time edits | all | none | - |
| Prompt building (`server/prompt.rs`, `history_window.rs`, ...) | none | layout | generator, voice | text, no state | - |
| Process, routing, authentication | knobs, slots | start, route | all | the knobs and slots of the queue are modelled | P |
| Database plumbing | pool, migrations | start | all | run once | - |

The hazards of this code, with the line where each bites and the property that would catch it, are
in `PROJECT.json` under `hazards`. Those without a property carry the reason; they are the work list
of the plan.

How the parts meet: a text turn is posted (stream endpoint or async endpoint), stored with its
queue row in one transaction, driven (by its own handler for the first attempt of a streamed turn,
by the worker otherwise), and settled by the frames of its burst. Detached tasks then write the
affinity, extract facts and count the turn on the relationship's scan state; enough counts let an
inline scan or a sweeper claim the relationship or the profile. After a judged turn she may put a
choice to the user, whose answer starts events and costs affinity. The archive and the erasure
delete what all these tasks work on and tell none of them. The modules keep to those seams:
`TurnQueue` drives, `ReplyBurst` is one drive from within, `VoiceTurn` is the other producer of
turns; `Affinity`, `LifeChoices`, `RelationshipScan` and `ProfileRebuild` start at a stored turn;
`World` runs beside them all.

## 2. Modules

| Module | Models | Extends / instantiates |
|---|---|---|
| `TurnService` | the abstract promise of the chat endpoints: posted, answered at most once while open, settled once, one notice per failure | |
| `TurnQueue` | queue table, endpoints that insert, worker, drives, settle ladder, crash | instance of `TurnService` under a refinement mapping |
| `ReplyBurst` | one turn's bursts: chain, output filter, frames, rows, replay | |
| `VoiceTurn` | one voice session: turn/stream, turn/interrupt, chain, repair | |
| `RelationshipScan` | one relationship's scan: counting, claims, sweeper, inline scans, archive | |
| `LifeChoices` | one instance's asks, their answers, and the events they and the draws start | |
| `ProfileRebuild` | users' facts, count, claim and profile, with the erasure | |
| `Affinity` | one instance's affinity rows, event log, journal of moments, ghosts, archive | |
| `World` | one owner's worldview, director and story rounds, posts, erasure | |
| `TurnQueueProofs`, `ReplyBurstProofs`, `VoiceTurnProofs`, `RelationshipScanProofs`, `LifeChoicesProofs`, `ProfileRebuildProofs`, `AffinityProofs`, `WorldProofs` | theorems | the module they are named for, `TLAPS` |
| `MC...` | the small instances | the module they are named for |

In each module a definition that no other uses, placed right before another with the same
parameters, is a mutant of that other: the plausible slip one property is there to catch. They are
listed under `mutants` and are no part of any specification.

### 2.1 TurnQueue

*State.* `status`, `attempts`, `age` (now() - claimed_at, in ticks), `created` and `origin` are the
columns of `chat_turn_queue`; `servedBy`, `lateBy` and `notices` stand for the assistant rows (or the
ghost mark) a drive stored while it lived, those a COMMIT stored after the drive was abandoned, and
the `system_error` rows of a turn. They survive `Crash`. `stage` and `doneSeen` are the
local state of the drive tasks; a drive is named `<<turn, attempt>>`, since a claim stamps a new
attempt. `worker` is the loop of `run_worker`; `inFlight` holds commits whose client task is gone.

*Actions.* `EnqueueAsync` (`send_message_async`, `enqueue_user_message`; the depth cap counts
under the row lock the session upsert takes, so two enqueues of a session do not race the cap),
`EnqueueStream` (`send_message_stream`: slot, `enqueue_user_message_claimed`), `Spawn` or
`HandlerDropped`; `Reap`, `ClaimNext`, `EndDrain` (`drain_once`: reap, then claim while a permit is
free); `ReadGuard`, `StoreReply`, `CountDone`, `EndStream`, `Timeout` (`drive_turn`,
`drive_to_exhaustion`); `Recheck`, `MarkDone`, `MarkFailedWithNotice`, `Release` (`settle_turn`);
`VerdictLost`, `ClaimLost` and the fault branches inside the others (an UPDATE that fails, or commits
without its answer); `CommitLands` (a COMMIT on the wire when the generation timeout drops the
drive); `Crash`, `Restart`, `Tick`.

*Abstractions.* A burst is any sequence of replies, each stored and then counted. The worker wakes on its
interval; the notify that wakes it sooner adds no state. The permits in use are the live drives
the worker started, the stream slots the live drives the handlers started. One process claims:
the deployment runs one worker. A failed enqueue or a failed reap rolls back and is a stutter.
`MaxAttempts` and `PendingCap` are positive because the parser falls back from zero.

*Timing.* `Tick` may not pass a live drive's deadline (`OnTime`): the tokio timeout fires when
due, and what follows it (one read, one write) takes less than `CHAT_QUEUE_CLAIM_STALE_SECS`. This
is the assumption the reap threshold is built on, and `ClaimHeldByItsDrive` is what it buys.

### 2.2 VoiceTurn

*State.* `row`, `sentAt`, `interrupted` and `reply` are the user and assistant rows; `frozen` the
`voice_bootstrap` of the session; `recorded` the generation audit rows; `counted` the bumps toward
the scan. Each call has a stage and the locals of `run_voice_turn` (candidate, whether text
was streamed, whether a generation id came, whether the text is cut). A text and a
generation id are both named `<<call, candidate>>`, so that a property can say they belong together.

*Actions.* `Admit`, `Post`, `Repair` (`voice_turn_stream`: slot, insert or duplicate, repair of a
turn left without a reply), `Load`, `Freeze`, `Reload` (snapshot, `set_voice_bootstrap` and its
loser), `NextCandidate`, `Chunk`, `EndStream`, `ChainExhausted` (the fallback walk), `Record`
(`record_generation`), `Persist` (`insert_voice_assistant_message` with its merge under the user
row's lock), `Resolve`, `Interrupt` (`upsert_voice_interrupt`), `Drop` at any live stage, and
`PostAndDrop` for the commit whose handler is gone. A process crash drops every call at once, which
is a sequence of `Drop`s. A malformed frozen snapshot is not a state the program writes.

### 2.3 RelationshipScan

*State.* `row` is the relationship's `relationship_scan_state` (cursor, the cursor it opened with,
pending count, claim age, strikes, idle time) or `NoRow`; `told` counts the episodes that tell of a
turn. A turn is a user row and its replies, named by the rank of its `sent_at`. Each scanner (inline
tasks, the sweeper) has a stage and the segment it loaded. `epoch`, `lost`, `strays`, `claimedIn`,
`read`, `struckOut` and `missed` are the history the properties speak of.

*Actions.* `Land`, `SeeTurn`, `Bump` (`bump_relationship`: the session is seen live, then counted,
in two statements), `ClaimInline` (`scan_if_due`, `claim`), `ClaimDue` and `StartOfBatch`
(`claim_due`, then `refresh_claim` when the relationship's turn in the batch comes), `Load`, `Read`,
`Call`, `Check`, `WriteEpisode`, `Settle`, `SettleEmpty`, `Fail`, `ReleaseClaim` (`scan_instance`,
`scan_segment` and the statements of `scan_state.rs`), `Archive`, `Crash`, `Tick`.

*Abstractions.* Memories and journal rows are part of the step that writes the episode, under the
same guard; audit rows are omitted. Ranks are distinct, so the trimming of trailing ties is not
needed. `BlankTurns` have nothing to render. Voice turns count but never start a scan (the second
disjunct of `Bump`). `erase_user` does to this row what `Archive` does. The sweeper's bound is the
present, past every cursor, so only an inline scan can find its bound equal to the cursor.

*Claims.* A claim carries no owner: whoever refreshes, settles or releases does it to the claim on
the row. `SlowStages` says in which stages a scanner's claim may go stale under it, and nothing is
assumed of it: the code sizes `DREAMING_CLAIM_STALE_SECS` for a scan and its embedding
(`state.rs:624-629`), so the wait in the sweeper's batch outlasts it, and a slow model can. `lost` holds the
scanners at work whose claim is no longer theirs: it was taken as stale (`Begin`), an archive deleted
it, or a scanner in `lost` let go of it (`LetGo`). A scanner leaves `lost` with its work.
`strays` counts the episodes such scanners told, or had told and not settled when they
lost the claim; `missed` what they took off the count for turns another scan had covered (`Again`),
beside what empty settlements take.

### 2.4 ReplyBurst

*State.* `rows` and `ghosted` are the stored answer; `bubbles`, `told`, `reported` and `pictured`
the frames the client was sent; `pc`, `hop`, `acc`, `cut`, `filterHop`, `go` and `visible` the locals
of `drive_chat_burst_for`; `failures`, `produced` and `ghost` its outcome; `learned` what
post-processing was given; `verdict` the queue's.

*Actions.* `Start`, `AlreadyServed` (`drive_turn`); `Open`, `Chunk`, `FinishCut`, `AttemptFails`,
`EndOfStream`, `Persist`, `Done` (an attempt, shown as it comes in live mode and withdrawn when the
next one supersedes it); `EmptyBuffered`, `CutBuffered`, `ServeBuffered`, the `Filter...` actions and
`Conclude` (filtered mode and its holdback); `Ghost`, `ImageOnly`, `Answer...` (the plans without a
burst); `Salvage`, `PseudoGhost`, `Exhausted`, `Replace` (an exhausted chain: the last complete
garbled text, a pseudo-ghost or an error); `Final`, `HandOver` (between the final frame and the
spawn of post-processing a turn that responds to an action awaits `set_action_response`; there is no
other await), `Settle`, `Timeout` (at any await of these, that one included).

*Abstractions.* A text is which kinds of piece it holds: words, an artifact a rule strips,
undecoded bytes. That the scrubber, fed by chunks, removes what `apply_output_regex` removes from the
whole is assumed. Of the response to an action there is that the turn has one (`responds`): its content and
the row it is stored in are left out, and a failed write of it is logged and changes nothing here.
Left out: audit rows, usage, metadata, display names, the image composer's text,
the input filter and vision. A superseded row keeps the raw text the wire had scrubbed, so
`ReplayAgrees` compares the text of answers alone. A failed insert of a superseded row takes the row
that continues it along (foreign key), so that property speaks of histories without one. Late
commits and crashes are `TurnQueue`'s. A group's speakers run the same burst.

### 2.5 LifeChoices

*State.* `choices` and `events` are the tables of one instance; `judged` the affinity events a streak
is read from; `turn`, `answer` and `draw` where each call stands and what it read.

*Actions.* `Send`, `ReadPending`, `Convert`, `ConvertFails`, `Redrive`, `Ghost`, `Judge`, `TryAsk`,
`TryRomance`, `NoAskNow`, `InsertAsk`, `AskFails` (a message, its conversion of a pending ask, and the
ask after its judgment); `StartAnswer`, `CommitAnswer` (the route); `StartDraw`, `CommitDraw`
(`insert_preempting` and the plain insert, under the instance lock); `Tick`.

*Abstractions.* Kinds are three classes (a foreground incident, one a hospital stay rules out, a
background); the tier and the scopes are a free choice (`NoAskNow`); the offline switch is on; the
action turns and the reply message to an answer are not modelled; `insert_ask` stamps its commit
instant. `late` marks an event written for an ask that had lapsed by the commit: `OneForeground`,
`SeparationHeld` and `AskIsEarned` exempt those. The last does because `streak_anchor` reads the event
of the newest choice alone: what an older choice brought late ends after the newest was asked.

Seen while modelling, not shown by a run: an outing told after its generation can land inside a
hospital stay inserted meanwhile (the ruling-out is read before it); `pending`'s newest row can
hide the older ask that a delayed message answered; an ask still being worded can land inside a
separation that another session's ask started (`life_choice.rs:198` says none while apart).

### 2.6 ProfileRebuild

*State.* `ledger`, `row`, `profile` and `noted` are `human_facts`, `human_profile_state`,
`human_insights` and the kept payloads of its audit; `at`, `batch`, `view`, `outcome` the locals of
workers (an extraction of a turn, a sweeper). A fact is named by its turn, a profile by the facts
it was drawn from.

*Actions.* `Begin`, `Extract`, `Record`, `Bump`, `Claim` (extraction, ledger, `bump_facts`, `claim`);
`ClaimDue`, `Refresh` (the sweeper's batch); `Read`, `Call`, `Write`, `Note`, `Settle`
(`rebuild_user`: `replace_profile_if_claimed`, `finish_ok`, `finish_failed`); `Erase`, `Lapse`,
`GoQuiet`, `Crash`.

*Abstractions.* The erasure is one step: its transaction begins at the state row that every profile
write locks. A turn yields one fact. The claim's age is none, fresh or stale; idleness is `quiet`.
A crash spends the same bound as a failed call. The extraction's own audit row, the projection's
guards and the ledger's ranking are left out. Facts counted while a rebuild runs are zeroed with
the count, as in the code.

*Claims* have no owner here either: `spoiled` users, who lost a claim under a live worker, are
exempt from `OneRebuilder` and `ProfileKeepsUp`. Without `Quiesced`, a rebuild that outlives an
erasure can write erased facts once a fact counted afterwards has been claimed, and the audit row
of a rebuild can be written after the erasure: no run shows either.

### 2.7 Affinity

*State.* `row` and `log` are `companion_affinity` and its events per session, `journal` the
`tier_reached` moments of the instance, `turn` what each overlapping turn or answer holds in memory,
`heard` the newest state a finished summary spoke of, of the row's own clause at the start. `Owed` is
the balance a log leaves, by recursion over its events.

*Actions.* `Admit`, `Load` (`load_or_create`), `DecideGhost` (`ghost_permitted`, then the judge's free
choice), `RecordGhost`, `Reply`, `ResetStreak`; `LoadIfLive`, `Begin`, `PersistWithEvent` (the detached
task: gate, decay, event, moments, under the row's lock), `ReadFeeling`, `SetFeelingClause` (the
summary), `Answer`, `PersistLifeChoiceDrop`, `GiveUp`, `ArchiveRelationship`, `Tick`.

*Abstractions.* One of two symmetric lines, a whole score on equal tiers. Absence takes whole points
per day, where `apply_time_decay` takes a fraction per minute (`core/affinity.rs:64-71`): what the properties
ask is that it is counted from the row's `updated_at` once, however it is rounded. A verdict is its real delta:
grade conversion, damping and cross-line penalty are in the free choice, as is the judge's score;
the floor of messages is passed. Endpoints, levels, warmth and patience are derived and left out.
`last_ghost` and the streak are read at the start of a turn, as the code does; a transaction may
straddle one tick. The stream's `load_or_create` is not guarded against an archive, so it can
create the row of an archived session again; the judged write and the journal are guarded.

Seen while modelling, not shown by a run: a streak reset moves `updated_at` without an event, so the
next event shows no drift; the take-back of a lost tier is per instance, not per session; and
`updated_at` is the start of a transaction, so overlapping writes may stamp out of commit order and
the clause of the newer state be refused.

### 2.8 World

*State.* `worldview` (its text stands for its hash, with its version), `enrolled`, `roster`; `world` and
`story`, the two claimable rows; `fragments`, `tales`, `post`, what rounds generate; `job` and `town`,
the rounds in progress; `erasing`. `era` counts resets; `late`, `residue`, `unread` and `words` are
history the properties speak of.

*Actions.* `Edit`, `Enroll`, `ChangeRoster`; `EnsureWorld`, `ClaimWorld`, `MarkRan`, `ReadWorldview`,
`OpenRound`, `Purge`, `CommitRound`, `AbortRound` (a director round; a reset's transaction in three
steps: its start, its deletes up to the story events, its delete of the story row with the guarded
update); `EnsureStory`, `ClaimStory`, `ReadStory`, `CommitStory`, `AbortStory`; `Publish`,
`ChoosePost`, `Speak`, `GiveUpSpeaking` (comments and replies, whose insert checks the post again);
`BeginErasure`, `CommitErasure` (the fragments, then the rest); `WorldClaimAges`, `StoryClaimAges`,
`IntervalPasses`, `Crash`.

*Abstractions.* One owner, one instance, one post slot. A claim's token is the worker: a process runs one
round at a time. `last_run_at` is kept as the newest `updated_at` it is compared with. Row locks that
only delay a step are left out, which allows more orders than Postgres does. Cadence, cooldown,
debounce and daily cap are a free choice; retention, recent life, embeddings and the feed's reads
are left out. Edits of the worldview are single statements. An `ensure_*` insert is one step: that it
waits on a delete of the erasure and re-creates an erased owner's row (it read the enrollment
before) is not modelled.

*What the properties exempt.* `residue` and `late`: `erase_user` deletes `world_memories` before
`world_states` (`erasure.rs:58-59`), so the fragments of a round that commits in between survive.
`straddled`: a post published inside a reset counts as the new era's, since `worldview_set_at` is the
transaction's start. `unread`: `mark_ran` on an empty roster stamps over a worldview change that
nobody read.

Seen while modelling, not shown by a run: a user's comment that lands while the author's reply is
generated is not answered by the author, since the query wants no comment of hers after it; a
worldview edited and edited back during a story round leaves a story of the other text; a reset and
an erasure take the posts and the state row in opposite orders, and Postgres aborts one.

## 3. What the runs show

| Run | Instance | Question |
|---|---|---|
| `queue` | 2 turns of one session, one volatile; 2 attempts, 2 permits, 1 slot; 1 fault or late commit, 1 crash | one ladder, one reply, settled as served, final answers; the queue implements `TurnService`; every posted turn settles |
| `reaped_reply` (violation) | 1 turn, 1 crash | the reaper fails an answered turn |
| `burst` | 1 turn of each plan, 3 candidates, 2 filter candidates, 2 drives, 1 failed insert | one answer, shown, replayed and learned from alike |
| `voice` | 2 turns (one may be a text), 2 calls, 1 interrupt, 2 candidates, 1 fault | interrupts, spend and snapshot under racing calls |
| `scan` | 2 turns (one blank), 1 inline scanner and the sweeper, 2 strikes, 1 turn a read, 1 archive, 2 faults, 1 crash; claims go stale at any step | scanners, cursor and count, takeovers included; pending turns do not stand |
| `two_scanners` (violation) | 3 turns, claims go stale in the batch only; no fault, crash or archive | two scanners on one relationship |
| `life` | 2 sessions, 3 messages, 1 answer, 1 draw of any kind, 3 ticks | one open ask, answered once; incidents and separations |
| `profile` | 1 user, 2 turns, 1 sweeper, 1 erasure, 1 stale claim, 1 fault or crash | rebuilders, erasure, newest profile; every count settles |
| `affinity` | 2 sessions, 2 overlapping turns or answers, 1 fault, an archive, 3 ticks | the log and the gate account for the score; moments; archive; clauses |
| `third_ghost` (violation) | the same from a streak of one | two overlapping turns make the third silence in a row |
| `world` | 2 texts, 2 sweepers, 1 town sweeper, 2 changes, 1 erasure, 1 fault or crash | everything that stands is of the world's worldview; claims |
| `lives_start_over` (violation) | 2 texts, 2 sweepers, 2 changes | a story outlives the reset that should end it |

**Queue.** `OneLadderPerSession`: the in-flight guard of `claim_next` serializes a session's worker
drives. `OneReply`, `AnswerIsFinal`: one drive answers, and what a repeated post is told does not
change once it is final. `SettledAsServed`: done means answered and failed means not, unless a call
failed or the process died. `ImplementsService`: through every retry, reap and restart the client sees
a turn posted, answered at most once, settled once. A reply whose COMMIT was on the wire when its
drive was abandoned is the exception in three of these: it may join another drive's reply (`OneReply`
counts those stored in time, and so does the refinement), and it turns a failed turn's answer into
"completed" (`AnswerIsFinal`). `EveryTurnSettles`: lost drives, claims, verdicts and processes are all
recovered.

**Burst.** `OneAnswer`, `OneVoice`: whatever was superseded, salvaged or replaced, one stored row
answers, and no bubble mixes two authors. `ReplayAgrees`: a repeated post is told what the first was.
`LearnedIsShown`, `FailuresKept`: memory, affinity and picture follow the reply the user reads; each
genuine failure is on the row that answers. A reply shown in full is not learned from when the deadline drops
the drive while it stores the response to an action, and the next drive finds the turn answered: that
is in `LearnedIsShown`, which allows it on those turns and only for a drive that did not end.

**Voice.** `InterruptedReplyIsMarked`, `HeardTextStands`: whichever of interrupt and generator
commits first, the reply says it was cut off and keeps what was heard. `TextAndSpendAgree`,
`SpendIsRecorded`: two generators of one turn never mix text and spend, and an abandoned candidate
that was billed is recorded; the exceptions, a dropped call's current candidate and a call under
which a query failed, are in the formula. `OneSnapshot`: concurrent first turns speak from one
snapshot.

**Scan.** That one scanner works on a relationship at a time is what the code says and does not do:
`two_scanners` refutes it without a fault, in the case the sweeper's batch makes. `OneScanner` is what is left:
of two at work, one has lost its claim, so no path takes a claim that is fresh. The rest
is said for histories with any takeover. `CursorCoversRead`: capped reads, failed
reads and late settlements, a stray scanner's too, never move the cursor past a turn that was neither
read nor given up. `CountKeepsUp`: settlements that race bumps lose no count; a
stray scanner that covers turns again takes their count again, and no more. `ToldOnce`: a turn is told
again only for a fault, a crash or a stray scanner's episode, once for each. `ArchivedStaysGone`: nothing of an
archived conversation is written until the new one is claimed; `session_archive.rs` says of a scan the
archive overtakes that it "finds no row and writes nothing", which holds until then: after it
the old scan takes the new claim for its own. `PendingSettles`: a count with nothing left to read
does not stand, wherever claims go stale.

**Life.** `OneOpenAsk`: she asks one thing at a time in whatever sessions. `AnswerIsSettled`: the route,
an ignoring message and the lapse give an ask one end, with what that end costs and starts.
`OneForeground`, `SeparationHeld`: incidents displace each other rather than overlap, and a
separation ends early only for another. `AskIsEarned`: an ask rests on turns judged after the
episodes before it, though its words took a while; an episode written late is no part of that.

**Profile.** `OneRebuilder`, `ProfileKeepsUp`: one rebuilder to a claim, and no older profile over a
newer. `ErasedStaysErased`: a rebuild in flight re-creates nothing of an erased user. `CountSettles`:
counted facts are rebuilt from, given up after the strikes, or erased.

**Affinity.** `LogAccounts`, `GateOwes`: between two events only absence moves a score, and the gate's
balance is what was earned and not yet committed, whatever overlapped. `JournalHonest`: no moment
lost within its day is kept. `ArchivedStaysForgotten`, `NewestClauseStands`: a task that outlives
an archive writes no moment and no judgment, and of overlapping summaries the one of the newest
state stands.

**World.** `OneWorldview`: every fragment and every unpublished post was generated from the worldview
of the last director round. `ChangesAreTaken`: no run is recorded over a change it did not read.
`NoWordsOnOldPosts`: a persona speaks only on posts of the standing worldview, though the post was
chosen before a model call. `FreshClaimStands`: only its own round gives up a fresh claim.

**Findings.** Four runs show the code departing from what the repository says of it; each is quoted
in `PROJECT.json`.

1. `reap_stale` fails an exhausted claim on age and attempts alone, so a crash after the last
   attempt's reply is stored fails an answered turn, and adds a failure notice beside the reply.
2. The ghost's vetoes read the streak at the start of a turn; overlapping turns each pass them, and
   she is silent a third time in a row.
3. A reset deletes the story events before the row that a story round commits under, so a story
   round that commits in between tells the old worldview in the new era.
4. A batch claims up to ten relationships at once and scans them in turn. One that waits past the stale
   window is claimed by an inline scan; the sweeper's refresh takes that claim for its own, and two
   scans of the relationship run side by side.

Seen and in no run: a reply whose insert fails is logged and its Done frame counts, so the turn is
settled done with nothing stored (`SettledAsServed` exempts faults); the Done frame of a superseded
attempt makes a drive that was cut afterwards count as done (`classify_outcome`, `chat_queue.rs:36`).

### Bounds

Every bound is a constant. Two turns of one session are what the in-flight guard, LIFO order, the cap
and the reap of one beside the drive of another need. Two attempts reach first, released, exhausted
and terminal. One fault (for the queue a failed call or a late commit) and one crash at any point give
each single failure with every interleaving, and the two together. In `ReplyBurst` three candidates
reach first, middle (superseded and superseding) and last, two filter candidates reach failed over and
last, two drives reach a drive over the first one's rows. In `VoiceTurn` two calls can be two
generators of one turn or two first turns. In `RelationshipScan` two turns, one of them blank, with
reads capped at one reach a capped read, an empty settlement and a bump during a scan; two scanners of
different kinds reach every takeover, since inline scanners differ in nothing but their bound; claims
go stale anywhere (`AnyStage`), which lets either of them overtake the other, and two faults are both
strikes, or a strike and the call after it. In `LifeChoices` one cold turn or two warm ones make a
streak, so a second ask can be earned after the first was answered, and a third (`MaxAsks`) meets an
older episode that came late; two sessions make the instance's lock matter; three ticks hold an ask,
its lapse and a separation. In `ProfileRebuild` each fact makes a rebuild due, so two turns and the
sweeper are three would-be rebuilders. In `Affinity` two turns overlap, three tiers reach a moment,
its loss and its neighbour, three ticks the cooldown and the drift. In `World` two sweepers reach a
round that outlives its claim, two changes the first worldview and its replacement during a round, one
fault or crash at any point. A change back takes three and is past TLC's reach here; the theorems have
no such bound. Clocks count in ticks where only the order of lengths matters.

`voice`, `life`, `affinity`, `world` and `lives_start_over` use symmetry and state no liveness. Except
for the queue, whose worker never stops, an instance may stop when its inputs and bounds are spent,
so deadlock is checked in the queue's runs alone. Type invariants are proved (section 4) and listed
in no run.

### Fairness

`TurnQueue!Fairness` is weak fairness of what the runtime schedules by itself: the worker's drain,
each drive's own next step (a spawned task is polled, the guard is read, the timeout fires, the
verdict is written or lost), the clock, and the supervisor's restart. There is none on posting, on
a generation producing or ending its frames before the timeout, or on faults. The promise needs the
worker: with `CHAT_QUEUE_DISABLED`, or with `CHAT_QUEUE_CONCURRENCY=0` (reap only), it is not made.
`RelationshipScan!FairSpec` has weak fairness of the sweeper's claim, of the start of its batch, of
each scanner's next step and of the clock, and none on inline scans being asked for.
`ProfileRebuild!FairSpec` has weak fairness of the sweepers' claims, of the steps of a rebuild that
began, and of time passing (a claim goes stale, a user goes quiet), and none on turns or on a model
that answers: a rebuild may fail every time.

## 4. What is proved

Each theorem holds for every value of the constants that meets the module's named assumptions,
and for any number of faults, crashes and other bounded events.

| Module | Theorem | Says |
|---|---|---|
| `TurnQueueProofs` | `TypeCorrectness` | `[]TypeOK` |
| | `ClaimHeld` | `[]ClaimHeldByItsDrive` |
| | `AttemptsBounded` | `[]WaitingHasAttemptsLeft` |
| | `NoticeOnce` | `[]OneNoticePerFailure` |
| | `ReplyOnce` | `[]OneReply` |
| | `SettlementIsFinal` | `SettledForGood` |
| | `QueueImplementsService` | `Service!Spec` |
| | `LadderPerSession` | `[]OneLadderPerSession` |
| | `SettledRight` | `[]SettledAsServed` |
| | `AnswersAreFinal` | `AnswerIsFinal` |
| `ReplyBurstProofs` | `TypeCorrectness` | `[]TypeOK` |
| | `AnsweredOnce` | `[]OneAnswer` |
| | `OneTextAtATime` | `[]OneVoice` |
| | `FailuresAreKept` | `[]FailuresKept` |
| | `ShownIsLearned` | `[]LearnedIsShown` |
| | `ReplayIsFaithful` | `[]ReplayAgrees` |
| `VoiceTurnProofs` | `TypeCorrectness` | `[]TypeOK` |
| | `SilenceIsKept` | `[]InterruptedReplyIsMarked` |
| | `SpendMatchesText` | `[]TextAndSpendAgree` |
| | `HeardIsKept` | `HeardTextStands` |
| | `TextTurnsUnanswered` | `[]OnlyVoiceTurnsReplied` |
| | `SnapshotIsShared` | `[]OneSnapshot` |
| | `SpendIsKept` | `[]SpendIsRecorded` |
| | `RecordBeforeReply` | `[]ReplyRefersToRecorded` |
| | `TurnsCountOnce` | `[]CountedOnce` |
| `RelationshipScanProofs` | `TypeCorrectness` | `[]TypeOK` |
| | `CursorNeverBack` | `CursorMonotonic` |
| | `ArchivedIsForgotten` | `[]ArchivedStaysGone` |
| | `ScannersApart` | `[]OneScanner` |
| | `NothingSkipped` | `[]CursorCoversRead` |
| | `CountNeverBehind` | `[]CountKeepsUp` |
| | `ToldAgainAfterFailure` | `[]ToldOnce` |
| `LifeChoicesProofs` | `TypeCorrectness` | `[]TypeOK` |
| | `OneAskAtATime` | `[]OneOpenAsk` |
| | `AsksAreEarned` | `AskIsEarned` |
| | `AnswersSettleOnce` | `[]AnswerIsSettled` |
| | `OneThingAtATime` | `[]OneForeground` |
| | `SeparationsHold` | `[]SeparationHeld` |
| `ProfileRebuildProofs` | `TypeCorrectness` | `[]TypeOK` |
| | `EraseIsFinal` | `[]ErasedStaysErased` |
| | `ClaimKeepsApart` | `[]OneRebuilder` |
| | `ProfilesGrow` | `ProfileKeepsUp` |
| `AffinityProofs` | `TypeCorrectness` | `[]TypeOK` |
| | `NewestClause` | `[]NewestClauseStands` |
| | `HonestJournal` | `[]JournalHonest` |
| | `StaysForgotten` | `[]ArchivedStaysForgotten` |
| | `LogIsTheRow` | `[]LogAccounts` |
| | `GateHoldsWhatItOwes` | `[]GateOwes` |
| `WorldProofs` | `TypeCorrectness` | `[]TypeOK` |
| | `OneWorld` | `[]OneWorldview` |
| | `NoLostChange` | `[]ChangesAreTaken` |
| | `WordsOfTheDay` | `[]NoWordsOnOldPosts` |
| | `FreshClaimKept` | `FreshClaimStands` |

*TurnQueue.* The safety properties are not inductive: that a row is claimed by its live drive says
nothing of how old the claim may be, and a reap would break it. `ClaimInv` adds, per drive
(`DriveInv`), that the claim's age is at most the generation timeout while the drive generates and at
most the reap threshold while it settles, and that a drive about to release has an attempt left; per
turn (`TurnInv`), what attempts and notices are in each status. From the age bounds, `Stale` excludes
live drives, so `Reap` meets none; from `attempts = n` in `DriveInv`, two live drives of a turn are one
(`OneLiveDrive`), which makes every drive's step local to its turn (`DriveStep`). `ReplyInv` adds
that an answering drive is the only one to have answered its turn: `ReadGuard` lets a drive generate
only when nothing was stored, and no other drive can store meanwhile. The refinement maps
`pending` and `claimed` to `open` and the answering attempts to their number; each step is a `Post`,
`Reply`, `Complete` or `Fail` of the service, or a stutter: a commit that lands late changes `lateBy`,
which `Served` reads and the service does not. `ClaimHeldByItsDrive`,
`WaitingHasAttemptsLeft`, `OneNoticePerFailure` and `SettledForGood` are proved and in no run: they are
what the refinement rests on. `LaneInv` is one worker's claim to a session, where a claim is the
worker's unless it is the first of a streamed turn; `LaneEffect` has a step add at most one, in a session
without a claim. `SettleInv` follows a smooth history (no fault, no crash) turn by turn: a served turn
that is still claimed has a drive that will settle it, and what a drive is about to write agrees with
what is stored.

*ReplyBurst.* The five properties speak of a turn that is answered or closed; what makes them true is
how far the drive has come, so `BurstInv` says that for every `pc`. `StageInv`: which plan may be there
and what has been sent. `FrameInv`: the n-th bubble of drive d is `<<d, n>>`, continues its
predecessor in a live burst alone, and is withdrawn unless it is the last (`Chained`); the last is open,
withdrawn or standing by what the drive is at (`Standing`). `VoiceInv`: whose text the last bubble
holds, the candidate's or the rewriter's at work, so a step adds the author who is already there or
opens a bubble. `ProducedInv`: `produced` is the bubbles so far and, once the reply is decided, that
reply, which is learned from `Ended` on (`Taught`). `RowInv`: nothing stored answers while the reply is undecided, which `Start` reads from the table
(`Answered`), one row afterwards, and it has the failures. These five hold whatever inserts fail;
`MirrorInv` speaks of histories without a failed one and pairs rows with bubbles: a live burst's one to
one, the newest row a bubble ahead between `Persist` and `Done` (`Pending`), any other turn's single row
with its last bubble, a silence without one. A failed insert shifts the pairing, which is why
`ReplayAgrees` has that premise. A step changes frames by a bubble opened, spoken into, closed,
superseded or shown (`Opening` to `ShowingAlone`) and rows by one at most (`Inserting`); each part of
the invariant is carried over those. `At`, which thins a sequence out, is a recursive function; `AtNone`
and `AtOne` prove from its definition what is left of no place and of one, by a least place where two
solutions differ: nothing else about it is needed, since one message is retained and one bubble stands.

*VoiceTurn.* `VoiceInv` adds to the types that a call has a turn, that it speaks on a voice turn only,
and what its candidate is in each stage (`CallInv`); an interrupt that found its row found a voice
row (`BargeInv`). `RepliesUntouched`, `PersistWrites` and `InterruptWrites` reduce every step to
the two that write a reply, `Persist` and `Interrupt`, and what each leaves there; the properties of
the reply follow from those. `SpendInv` is per call: it was billed for no generation
beyond its candidate, those before are recorded unless a write failed, and its candidate's is
recorded by the time it stores the reply. The snapshot's argument is that `frozen` is written once and
every call that lost no query speaks from it after `Freeze` or `Reload`.

*RelationshipScan.* `RowWrite` and `ClaimWrites` classify what a step may do to the state row, which is
what `CursorNeverBack` and the rest go through. `ArchivedInv` adds that a claim on the row was taken
in its epoch, and only under a claim is a turn told; `HoldInv` that a scanner at work that has not lost
its claim finds one on the row and is the only such scanner, whatever else is at work: a claim is taken from
it when stale, let go by itself, or let go by a scanner in `lost`, and each of the three ends its hold.
Nothing is assumed of `SlowStages`. By `SegmentInv` the segment of any scan, however
old, holds every live turn between its ends, and the turns below it the cursor has passed, so a late
settlement jumps over nothing (`CursorCoversRead`). `HeldInv` is what a holder knows besides:
what it holds is still to be read. On that stand `CountInv` (a settlement takes off no more than it puts
behind the cursor, or remembers as missed what it took too much; `FreshOrAgain` splits what a stray
scanner covers) and `ToldInv` (a turn told once more than `Mishaps` is behind the cursor, or held by a holder
whose next step puts it there; `RobberyTells`: a holder robbed there is a mishap).

*LifeChoices.* `LifeInv` links the tables: a choice knows the one event its answer brought, the event its
choice, and no instant lies ahead of the clock. Its lemmas reduce a step to one of five effects: an ask
written, a choice settled with its event, an event drawn, the clock, nothing. `OrderInv` is why one ask
is open at a time and why it is earned: each choice was asked when those before it were over.
`InItsHours`, `ChargedOnce` and `StartedOnce` are `AnswerIsSettled` choice by choice. `OneForeground` is
not inductive, since an ask that is accepted could start a separation across what a draw put inside its
hours: `GapInv` says nothing starts there. `SeparationInv` (nothing that displaces her starts within a
separation but another) and `ConvertInv` (a message about to turn an ask into a falling-out was not sent
within one) do the same for `SeparationHeld`.

*ProfileRebuild.* `ErasedStaysErased` needs only that tables have one entry per user (`PerUser`): every
write of a profile meets the state row, and `RowStep` shows that the erasure alone removes one. For
`OneRebuilder`, `Holds(w, u)` says that a worker rebuilds a user or has it in its batch; `WorkStep` shows
that a step keeps who holds whom or lets one worker take users without a fresh claim, and `FreshStep`
that a holder's fresh claim is released by nobody else, so `SoleInv`: it holds alone. `WorkInv` (an idle
sweeper's batch is empty, a user is in a batch once) is what makes a sweeper that settles drop its user
for good. `ViewInv` adds that a holder has in view at least the facts behind the profile it will
replace.

*Affinity.* `AffinityInv` links row and log (no row, no events; a row's `updated_at` is not ahead of the
clock) and says that a judged turn found its session live. A step then is quiet, an archive, or one
logged write (`Quiet`, `Archived`, `Logged`), and each property is carried over those three.
`LogInv` says the row is as its last event left it but for the drift since; `GateInv` that the row's
pending balance is the end of some balance of its log, and `OwedIsTheBalance` that this is what `Owed`
computes: it is the one fact about recursion that is proved, from the definition of a recursive
function on a finite log.

*World.* None of the four safety properties is inductive: `OneWorldview` is broken by a round that
commits a text the world has left. `WorldInv` adds, per sweeper, what its round knows. `ReadInv`: the
version it read is not ahead of the worldview, equal versions mean equal texts, and inside the
transaction the versions are equal, since `Edit` waits for the lock. `HoldInv`: as long as the round
holds the claim, the hash it compared with is the world's, for only a holder writes it; and past its
deletes every post still to come is among the deleted, every post published inside the reset is marked.
`TellInv`: a story round whose claim stands has a world, so an erased owner gets no story event back.
`OwnStep`, `WorldStep`, `StoryStep`, `PostStep` and `RestStep` classify what a step may do to each part
of the state; `CommitLeaves` is what a commit makes of the invariant, `HashKept` what everything else
keeps. `PostInv` (a post that is out, current and unmarked is of the standing worldview) is what
`NoWordsOnOldPosts` comes from.

*Only model-checked.* The liveness properties (`EveryTurnSettles`, `PendingSettles`, `CountSettles`),
since fairness is outside the prover's reach. Every other property of a passing run is a theorem.

## 5. Not modelled, and the plan

Left out for good: HTTP and SSE decoding, prompt text, configuration parsing, token checks, schema
migrations, stream cleaning as text, single-row editing of personas, items and images. They hold no
state between steps, or one row written once. A group's turn is a volatile turn of `TurnQueue` whose speakers
each run the burst of `ReplyBurst`; its cast is a model's choice.

Left out of modelled components, with the hazard each leaves: the arc rewrite, which runs after the
scan's claim is released, so two rewrites of one relationship can overlap; an archive between the
bump's two statements; user rows of two sessions that commit out of `sent_at` order (a hazard without a
property in `PROJECT.json`); the backfill, which releases whatever claim it finds.

Next, within the modules there are: that the drive of `TurnQueue` is the burst of `ReplyBurst` seen from
outside (`Start` to `Settle` as its generate, answer, settle steps), which is now argued in the text and
by no refinement.
