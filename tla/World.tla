-------------------------------- MODULE World --------------------------------
(***************************************************************************)
(* The world of one owner: the worldview an operator writes, the director  *)
(* rounds that turn it into fragments and posts, the story rounds of one   *)
(* persona, the feed with its replies, and the erasure of the owner.       *)
(*                                                                         *)
(* A worldview text stands for its hash, and a generated row for the text  *)
(* it was generated from.  A claim's token is the worker that took it: a   *)
(* worker has one round at a time.                                         *)
(*                                                                         *)
(* A definition placed just before another, same parameters, that no other *)
(* definition uses is a mutant of it: the bug a property is there to catch.*)
(***************************************************************************)
EXTENDS Naturals, FiniteSets

CONSTANTS
    Texts,          \* what a worldview can say
    None,           \* no text, no claim, no row, no post
    Sweepers,       \* processes that run director rounds and story rounds
    TownSweepers,   \* processes that publish, comment and reply
    MaxChanges,     \* bound on what the operator changes
    MaxErasures,    \* bound on erasures
    MaxFaults       \* bound on failed calls and crashes

ASSUME NoneAssumption == None \notin Texts \cup Sweepers
ASSUME BoundAssumption ==
    MaxChanges \in Nat /\ MaxErasures \in Nat /\ MaxFaults \in Nat

VARIABLES
    worldview,    \* engine.world_worldviews: its text, and its updated_at
    enrolled,     \* engine.world_enrollments, every layer switched on
    roster,       \* an instance of the owner is active
    world,        \* engine.world_states, or None
    story,        \* engine.persona_story_insights of the instance, or None
    fragments,    \* engine.world_memories
    tales,        \* engine.persona_story_events, by the era and the text of their round
    post,         \* a row of engine.world_posts, or None
    job,          \* what each sweeper is at
    town,         \* what each town sweeper is at
    erasing,      \* the erasure's transaction is open
    \* what the model remembers for the properties
    era,          \* resets so far
    late,         \* fragments committed since the open erasure deleted them
    residue,      \* fragments an erasure left behind
    unread,       \* a run was recorded over a worldview nobody read
    words,        \* the text of a post and of the world, per persona comment
    \* how much happened so far
    changes, erasures, faults

outside == <<worldview, enrolled, roster>>
feed == <<post, town, words>>
erasure == <<erasing, late, residue>>
bounds == <<changes, erasures, faults>>
vars == <<outside, world, story, fragments, tales, feed, job, erasure, era, unread,
          bounds>>

-----------------------------------------------------------------------------
\* last_run_at is kept as the updated_at that was newest then, 0 for NULL; due
\* says that the interval is over.
NewWorld == [hash |-> None, claim |-> None, stale |-> FALSE, due |-> TRUE, ran |-> 0]
NewStory == [claim |-> None, stale |-> FALSE, due |-> TRUE]

\* current: published_at >= worldview_set_at; straddled: published while a reset
\* was open.
NewPost(text) == [text |-> text, published |-> FALSE, current |-> FALSE,
                  straddled |-> FALSE]

NoJob == [stage |-> "idle", text |-> None, version |-> 0, reset |-> FALSE, era |-> 0,
          shown |-> FALSE, doomed |-> FALSE, late |-> {}]
NoTown == [stage |-> "idle", gone |-> FALSE]

WorldRows == [hash : Texts \cup {None}, claim : Sweepers \cup {None}, stale : BOOLEAN,
              due : BOOLEAN, ran : Nat]
StoryRows == [claim : Sweepers \cup {None}, stale : BOOLEAN, due : BOOLEAN]
Posts == [text : Texts, published : BOOLEAN, current : BOOLEAN, straddled : BOOLEAN]
Tales == [era : Nat, text : Texts \cup {None}]
Jobs == [stage : {"idle", "claimed", "directing", "opened", "purged", "chosen", "telling"},
         text : Texts \cup {None}, version : Nat, reset : BOOLEAN, era : Nat,
         shown : BOOLEAN, doomed : BOOLEAN, late : SUBSET Tales]

\* No row is None.
ASSUME RowAssumption == None \notin WorldRows \cup StoryRows \cup Posts

\* Every variable has its type.
TypeOK ==
    /\ worldview \in [text : Texts \cup {None}, version : Nat]
    /\ enrolled \in BOOLEAN /\ roster \in BOOLEAN
    /\ world \in WorldRows \cup {None} /\ story \in StoryRows \cup {None}
    /\ fragments \subseteq Texts /\ late \subseteq Texts /\ residue \subseteq Texts
    /\ tales \subseteq Tales
    /\ post \in Posts \cup {None}
    /\ job \in [Sweepers -> Jobs]
    /\ town \in [TownSweepers -> [stage : {"idle", "speaking"}, gone : BOOLEAN]]
    /\ erasing \in BOOLEAN /\ era \in Nat /\ unread \in BOOLEAN
    /\ words \subseteq Texts \X (Texts \cup {None})
    /\ changes \in 0..MaxChanges /\ erasures \in 0..MaxErasures /\ faults \in 0..MaxFaults

Init ==
    /\ worldview = [text |-> None, version |-> 0]
    /\ enrolled = FALSE /\ roster = TRUE
    /\ world = None /\ story = None
    /\ fragments = {} /\ tales = {} /\ post = None
    /\ job = [p \in Sweepers |-> NoJob]
    /\ town = [q \in TownSweepers |-> NoTown]
    /\ erasing = FALSE /\ late = {} /\ residue = {}
    /\ era = 0 /\ unread = FALSE /\ words = {}
    /\ changes = 0 /\ erasures = 0 /\ faults = 0

\* A worldview that is there and not blank.
Usable == worldview.text # None

InTransaction(p) == job[p].stage \in {"opened", "purged"}
Published == post # None /\ post.published

\* A deleted post takes its id with it: no later row answers to it.
Orphaned(ts) == [q \in TownSweepers |-> [ts[q] EXCEPT !.gone = @ \/ ts[q].stage # "idle"]]

-----------------------------------------------------------------------------
(***************************************************************************)
(* The operator, who writes the worldview, the enrollment and the roster.  *)
(***************************************************************************)

\* The trigger stamps updated_at when the content changes; the row is locked
\* FOR SHARE while a round persists.
Edit(text) ==
    /\ changes < MaxChanges
    /\ text # worldview.text
    /\ \A p \in Sweepers : ~InTransaction(p)
    /\ worldview' = [text |-> text, version |-> worldview.version + 1]
    /\ changes' = changes + 1
    /\ UNCHANGED <<enrolled, roster, world, story, fragments, tales, feed, job, erasure,
                   era, unread, erasures, faults>>

Enroll ==
    /\ ~enrolled
    /\ enrolled' = TRUE
    /\ UNCHANGED <<worldview, roster, world, story, fragments, tales, feed, job, erasure,
                   era, unread, bounds>>

ChangeRoster ==
    /\ changes < MaxChanges
    /\ roster' = ~roster
    /\ changes' = changes + 1
    /\ UNCHANGED <<worldview, enrolled, world, story, fragments, tales, feed, job, erasure,
                   era, unread, erasures, faults>>

-----------------------------------------------------------------------------
(***************************************************************************)
(* Claims.                                                                 *)
(***************************************************************************)


\* claimed_at IS NULL OR claimed_at < the stale cutoff.
Claimable(row) == row.claim = None \/ row.stale

\* WHERE claimed_at is the token.
Holds(row, p) == IF row = None THEN FALSE ELSE row.claim = p

ClaimedBy(row, p) == [row EXCEPT !.claim = p, !.stale = FALSE]

ReleasedAnyway(row, p) ==
    IF row = None THEN row ELSE [row EXCEPT !.claim = None, !.stale = FALSE]

Released(row, p) ==
    IF Holds(row, p)
    THEN [row EXCEPT !.claim = None, !.stale = FALSE]
    ELSE row

Ran(row) == [row EXCEPT !.claim = None, !.stale = FALSE, !.due = FALSE]

\* A claim outlives the stale window, and an interval passes.
WorldClaimAges ==
    /\ world # None /\ world.claim # None /\ ~world.stale
    /\ world' = [world EXCEPT !.stale = TRUE]
    /\ UNCHANGED <<outside, story, fragments, tales, feed, job, erasure, era, unread, bounds>>

StoryClaimAges ==
    /\ story # None /\ story.claim # None /\ ~story.stale
    /\ story' = [story EXCEPT !.stale = TRUE]
    /\ UNCHANGED <<outside, world, fragments, tales, feed, job, erasure, era, unread, bounds>>

IntervalPasses ==
    /\ \/ /\ world # None
          /\ ~world.due
          /\ world' = [world EXCEPT !.due = TRUE]
          /\ UNCHANGED story
       \/ /\ story # None /\ ~story.due
          /\ story' = [story EXCEPT !.due = TRUE]
          /\ UNCHANGED world
    /\ UNCHANGED <<outside, fragments, tales, feed, job, erasure, era, unread, bounds>>

-----------------------------------------------------------------------------
(***************************************************************************)
(* Director rounds.                                                        *)
(***************************************************************************)

\* The first statement of every tick.
EnsureWorld(p) ==
    /\ job[p].stage = "idle"
    /\ enrolled /\ world = None
    /\ world' = NewWorld
    /\ UNCHANGED <<outside, story, fragments, tales, feed, job, erasure, era, unread, bounds>>

ClaimWorld(p) ==
    /\ job[p].stage = "idle"
    /\ world # None /\ enrolled /\ Usable
    /\ world.due \/ worldview.version > world.ran
    /\ Claimable(world)
    /\ world' = ClaimedBy(world, p)
    /\ job' = [job EXCEPT ![p] = [NoJob EXCEPT !.stage = "claimed"]]
    /\ UNCHANGED <<outside, story, fragments, tales, feed, erasure, era, unread, bounds>>

\* Nobody to direct: the run is recorded, the worldview unread.
MarkRan(p) ==
    /\ job[p].stage = "claimed" /\ ~roster
    /\ IF Holds(world, p)
       THEN /\ world' = [Ran(world) EXCEPT !.ran = worldview.version]
            /\ unread' = (unread \/ world.hash # worldview.text)
       ELSE UNCHANGED <<world, unread>>
    /\ job' = [job EXCEPT ![p] = NoJob]
    /\ UNCHANGED <<outside, story, fragments, tales, feed, erasure, era, bounds>>

\* worldview_state joins the two rows; the round resets when the hash differs.
ReadWorldview(p) ==
    /\ job[p].stage = "claimed" /\ roster
    /\ Usable /\ world # None
    /\ job' = [job EXCEPT ![p].stage = "directing",
                          ![p].text = worldview.text,
                          ![p].version = worldview.version,
                          ![p].reset = (world.hash # worldview.text)]
    /\ UNCHANGED <<outside, world, story, fragments, tales, feed, erasure, era, unread,
                   bounds>>

AnyVersion(p) == Usable

\* The worldview row still has the updated_at the round read.
StillFresh(p) == Usable /\ worldview.version = job[p].version

\* persist_round's transaction begins: worldview_set_at will be this instant,
\* and the worldview row is locked until it ends.
OpenRound(p) ==
    /\ job[p].stage = "directing"
    /\ StillFresh(p)
    /\ job' = [job EXCEPT ![p].stage = "opened", ![p].shown = Published]
    /\ UNCHANGED <<outside, world, story, fragments, tales, feed, erasure, era, unread,
                   bounds>>

PostIsLeft(p) == FALSE

\* The unpublished post is deleted on a reset.
PostIsDoomed(p) == job[p].reset /\ post # None /\ ~post.published

\* The deletes of a reset, up to the story events; a round that does not
\* reset has none.
Purge(p) ==
    /\ job[p].stage = "opened"
    /\ job' = [job EXCEPT ![p].stage = "purged", ![p].doomed = PostIsDoomed(p),
                          ![p].late = {}]
    /\ UNCHANGED <<outside, world, story, fragments, tales, feed, erasure, era, unread,
                   bounds>>

\* The post as a reset leaves it: published_at is behind worldview_set_at,
\* unless it was published after the transaction began.
PostAfterReset(p) ==
    IF post = None \/ job[p].doomed THEN None
    ELSE IF job[p].shown THEN [post EXCEPT !.current = FALSE] ELSE post

\* The delete of the story row, the inserts and the guarded update, committed.
CommitRound(p) ==
    /\ job[p].stage = "purged"
    /\ Holds(world, p)
    /\ LET left == IF job[p].reset THEN PostAfterReset(p) ELSE post
           text == job[p].text
       IN  /\ world' = [Ran(world) EXCEPT !.hash = text, !.ran = worldview.version]
           /\ story' = IF job[p].reset THEN None ELSE story
           /\ tales' = IF job[p].reset THEN job[p].late ELSE tales
           /\ fragments' = {text} \cup (IF job[p].reset THEN {} ELSE fragments)
           /\ residue' = IF job[p].reset THEN {} ELSE residue
           /\ late' = IF ~erasing THEN {}
                      ELSE {text} \cup (IF job[p].reset THEN {} ELSE late)
           /\ \E writes \in BOOLEAN :
                /\ writes => left = None
                /\ post' = IF writes THEN NewPost(text) ELSE left
           /\ town' = IF post # None /\ left = None THEN Orphaned(town) ELSE town
    /\ era' = IF job[p].reset THEN era + 1 ELSE era
    /\ unread' = FALSE
    /\ job' = [job EXCEPT ![p] = NoJob]
    /\ UNCHANGED <<outside, words, erasing, bounds>>

\* The round fails, by its own checks or by a call of it, and releases its claim.
AbortRound(p) ==
    /\ \/ /\ job[p].stage = "claimed" /\ roster
          /\ ~Usable \/ world = None
          /\ UNCHANGED faults
       \/ /\ job[p].stage = "directing" /\ ~StillFresh(p)
          /\ UNCHANGED faults
       \/ /\ job[p].stage = "purged"
          /\ ~Holds(world, p)
          /\ UNCHANGED faults
       \/ /\ job[p].stage \in {"claimed", "directing", "opened", "purged"}
          /\ faults < MaxFaults
          /\ faults' = faults + 1
    /\ world' = Released(world, p)
    /\ job' = [job EXCEPT ![p] = NoJob]
    /\ UNCHANGED <<outside, story, fragments, tales, feed, erasure, era, unread,
                   changes, erasures>>

-----------------------------------------------------------------------------
(***************************************************************************)
(* Story rounds.                                                           *)
(***************************************************************************)

EnsureStory(p) ==
    /\ job[p].stage = "idle"
    /\ enrolled /\ roster /\ story = None
    /\ story' = NewStory
    /\ UNCHANGED <<outside, world, fragments, tales, feed, job, erasure, era, unread, bounds>>

ClaimStory(p) ==
    /\ job[p].stage = "idle"
    /\ story # None /\ enrolled /\ Usable /\ roster
    /\ story.due
    /\ Claimable(story)
    /\ story' = ClaimedBy(story, p)
    /\ job' = [job EXCEPT ![p] = [NoJob EXCEPT !.stage = "chosen", !.era = era]]
    /\ UNCHANGED <<outside, world, fragments, tales, feed, erasure, era, unread, bounds>>

ReadStory(p) ==
    /\ job[p].stage = "chosen"
    /\ story # None /\ Usable /\ world # None
    /\ job' = [job EXCEPT ![p].stage = "telling", ![p].text = worldview.text]
    /\ UNCHANGED <<outside, world, story, fragments, tales, feed, erasure, era, unread,
                   bounds>>

Tale(p) == [era |-> job[p].era, text |-> job[p].text]

\* The events are inserted and the row updated under its token, committed.
CommitStory(p) ==
    /\ job[p].stage = "telling"
    /\ Holds(story, p)
    /\ story' = Ran(story)
    /\ tales' = tales \cup {Tale(p)}
    /\ job' = [q \in Sweepers |->
                 IF q = p THEN NoJob
                 ELSE IF job[q].stage = "purged"
                      THEN [job[q] EXCEPT !.late = @ \cup {Tale(p)}] ELSE job[q]]
    /\ UNCHANGED <<outside, world, fragments, feed, erasure, era, unread, bounds>>

AbortStory(p) ==
    /\ \/ /\ job[p].stage = "chosen"
          /\ story = None \/ ~Usable \/ world = None
          /\ UNCHANGED faults
       \/ /\ job[p].stage = "telling"
          /\ ~Holds(story, p)
          /\ UNCHANGED faults
       \/ /\ job[p].stage \in {"chosen", "telling"}
          /\ faults < MaxFaults
          /\ faults' = faults + 1
    /\ story' = Released(story, p)
    /\ job' = [job EXCEPT ![p] = NoJob]
    /\ UNCHANGED <<outside, world, fragments, tales, feed, erasure, era, unread,
                   changes, erasures>>

\* The process dies: an open transaction rolls back, its claim stays.
Crash(p) ==
    /\ faults < MaxFaults
    /\ job[p].stage # "idle"
    /\ job' = [job EXCEPT ![p] = NoJob]
    /\ faults' = faults + 1
    /\ UNCHANGED <<outside, world, story, fragments, tales, feed, erasure, era, unread,
                   changes, erasures>>

-----------------------------------------------------------------------------
(***************************************************************************)
(* The feed.                                                               *)
(***************************************************************************)

\* A post a transaction has deleted is locked until it ends.
Publish ==
    /\ enrolled /\ post # None /\ ~post.published
    /\ \A p \in Sweepers : ~(job[p].stage = "purged" /\ job[p].doomed)
    /\ post' = [post EXCEPT !.published = TRUE, !.current = TRUE,
                  !.straddled = \E p \in Sweepers : InTransaction(p) /\ job[p].reset]
    /\ UNCHANGED <<outside, world, story, fragments, tales, town, words, job, erasure, era,
                   unread, bounds>>

AnyEra == Published /\ world # None

\* The post is out, and of the current era.
Addressable == Published /\ world # None /\ world.hash # None /\ post.current

\* A comment round or a reply is due: who is asked for what, the cadence, the
\* cooldown and the daily cap choose among the posts a persona may speak on.
ChoosePost(q) ==
    /\ town[q].stage = "idle"
    /\ enrolled /\ Usable /\ roster /\ Addressable
    /\ town' = [town EXCEPT ![q] = [NoTown EXCEPT !.stage = "speaking"]]
    /\ UNCHANGED <<outside, world, story, fragments, tales, post, words, job, erasure, era,
                   unread, bounds>>

\* insert_reply_comment and insert_round_comment check the era again.
Speak(q) ==
    /\ town[q].stage = "speaking"
    /\ ~town[q].gone /\ Addressable
    /\ words' = IF post.straddled THEN words ELSE words \cup {<<post.text, world.hash>>}
    /\ town' = [town EXCEPT ![q] = NoTown]
    /\ UNCHANGED <<outside, world, story, fragments, tales, post, job, erasure, era,
                   unread, bounds>>

\* A gate, the insert's guard or a failure ends the pass; so does a crash.
GiveUpSpeaking(q) ==
    /\ town[q].stage # "idle"
    /\ town' = [town EXCEPT ![q] = NoTown]
    /\ UNCHANGED <<outside, world, story, fragments, tales, post, words, job, erasure, era,
                   unread, bounds>>

-----------------------------------------------------------------------------
(***************************************************************************)
(* The erasure: one transaction, its deletes in the order of DERIVED.      *)
(***************************************************************************)

\* DELETE FROM world_memories sees what is committed by then.
BeginErasure ==
    /\ erasures < MaxErasures /\ ~erasing
    /\ erasing' = TRUE /\ late' = {}
    /\ erasures' = erasures + 1
    /\ UNCHANGED <<outside, world, story, fragments, tales, feed, job, residue, era, unread,
                   changes, faults>>

\* The state row, the enrollment, the posts and the stories behind their own
\* row; the transaction commits.
CommitErasure ==
    /\ erasing
    /\ erasing' = FALSE
    /\ fragments' = late /\ residue' = late /\ late' = {}
    /\ world' = None /\ enrolled' = FALSE
    /\ story' = None /\ tales' = {}
    /\ post' = None /\ town' = Orphaned(town)
    /\ job' = [p \in Sweepers |-> [job[p] EXCEPT !.late = {}]]
    /\ unread' = FALSE
    /\ UNCHANGED <<worldview, roster, words, era, bounds>>

-----------------------------------------------------------------------------
SweeperStep(p) ==
    \/ EnsureWorld(p) \/ ClaimWorld(p) \/ MarkRan(p) \/ ReadWorldview(p)
    \/ OpenRound(p) \/ Purge(p) \/ CommitRound(p) \/ AbortRound(p)
    \/ EnsureStory(p) \/ ClaimStory(p) \/ ReadStory(p) \/ CommitStory(p)
    \/ AbortStory(p)

TownStep(q) == ChoosePost(q) \/ Speak(q) \/ GiveUpSpeaking(q)

Next ==
    \/ \E text \in Texts \cup {None} : Edit(text)
    \/ Enroll \/ ChangeRoster
    \/ WorldClaimAges \/ StoryClaimAges \/ IntervalPasses
    \/ \E p \in Sweepers : SweeperStep(p) \/ Crash(p)
    \/ Publish
    \/ \E q \in TownSweepers : TownStep(q)
    \/ BeginErasure \/ CommitErasure

Spec == Init /\ [][Next]_vars

-----------------------------------------------------------------------------
(***************************************************************************)
(* What the world promises.                                                *)
(***************************************************************************)

\* Every fragment, and every post still to be published, was generated from
\* the worldview of the last director round, save what an erasure left behind;
\* an owner without a world has no other row. (persist_round, erase_user)
OneWorldview ==
    IF world = None
    THEN fragments \subseteq residue \cup late /\ tales = {} /\ post = None
    ELSE /\ \A text \in fragments \ residue : text = world.hash
         /\ post # None /\ ~post.published => post.text = world.hash

\* A change of the worldview is not lost: once a run is recorded after it, the
\* run read it, or found nobody to direct. (persist_round's freshness check)
ChangesAreTaken ==
    /\ world # None /\ Usable /\ world.ran >= worldview.version /\ ~unread
    => world.hash = worldview.text

\* A claim that is not stale is given up by its own round alone, whatever
\* rounds outlived their own. (the token in release_claim, mark_ran, persist_round)
FreshClaimStands ==
    [][\A p \in Sweepers :
         /\ /\ world # None /\ world' # None
            /\ world.claim = p /\ ~world.stale /\ world'.claim # p
            => job[p].stage \in {"claimed", "directing", "opened", "purged"} /\ job'[p] = NoJob
         /\ /\ story # None /\ story' # None
            /\ story.claim = p /\ ~story.stale /\ story'.claim # p
            => job[p].stage \in {"chosen", "telling"} /\ job'[p] = NoJob]_vars

\* A persona speaks only on posts of the standing worldview, though the post
\* was chosen before a model call and a reset may have come between; posts
\* published inside a reset are left out. (insert_reply_comment, insert_round_comment)
NoWordsOnOldPosts == \A w \in words : w[1] = w[2]

\* "deleting a claimed persona_story_insights row mid-story-round is safe"
\* (world.rs): no story told under a worldview that a reset replaced stands after
\* it.  It does not hold: the events are deleted before the row that a story round
\* commits under.
LivesStartOver ==
    \A t \in tales : world # None /\ t.era < era => t.text = world.hash
=============================================================================
