----------------------------- MODULE WorldProofs -----------------------------
(***************************************************************************)
(* Theorems about World for any texts, sweepers and bounds.                *)
(*                                                                         *)
(* A round is worth what it read: the version it read is the one it        *)
(* commits on, since no edit passes an open transaction, and the hash it   *)
(* compared still stands, since only the holder of the claim writes it.    *)
(* Every step of a sweeper is one of the few that change its own row       *)
(* (OwnStep), every change of the world's row one of a claim, a holder,    *)
(* time or the erasure (WorldStep); the invariant follows from these.      *)
(***************************************************************************)
EXTENDS World, TLAPS

TownJobs == [stage : {"idle", "speaking"}, gone : BOOLEAN]

Directing == {"directing", "opened", "purged"}

\* What a director round knows of the worldview: the text of the version it
\* read, which no edit changes once its transaction is open.
ReadInv(p) ==
    /\ job[p].stage \in Directing =>
        /\ job[p].text \in Texts
        /\ job[p].version <= worldview.version
        /\ job[p].version = worldview.version => job[p].text = worldview.text
    /\ InTransaction(p) => job[p].version = worldview.version

\* What it knows of the world while it holds the claim: a round that does not
\* reset goes on with the text the world runs on, a reset has seen every post.
HoldInv(p) ==
    Holds(world, p) =>
        /\ job[p].stage \in Directing /\ ~job[p].reset => job[p].text = world.hash
        /\ job[p].stage = "purged" /\ job[p].reset /\ post # None /\ ~post.published
             => job[p].doomed
        /\ InTransaction(p) /\ job[p].reset /\ Published /\ ~job[p].shown
             => post.straddled

\* A story is told in a world.
TellInv(p) == job[p].stage = "telling" /\ Holds(story, p) => world # None

RunInv ==
    /\ worldview.version = 0 => worldview.text = None
    /\ world # None => world.ran <= worldview.version
    /\ world = None => late = {}

\* A post that is out and current is of the standing worldview.
PostInv ==
    Published /\ post.current /\ ~post.straddled /\ world # None
    => post.text = world.hash

WorldInv ==
    /\ TypeOK /\ RunInv
    /\ \A p \in Sweepers : ReadInv(p) /\ HoldInv(p) /\ TellInv(p)
    /\ OneWorldview /\ PostInv
    /\ ChangesAreTaken /\ NoWordsOnOldPosts

-----------------------------------------------------------------------------
(***************************************************************************)
(* Types.                                                                  *)
(***************************************************************************)

\* The rows a statement leaves have the type of a row.
LEMMA WorldRowTypes ==
    ASSUME NEW row \in WorldRows, NEW p \in Sweepers
    PROVE  /\ ClaimedBy(row, p) \in WorldRows /\ Ran(row) \in WorldRows
           /\ Released(row, p) \in WorldRows
<1>1. ClaimedBy(row, p) \in WorldRows
  BY DEF WorldRows, ClaimedBy
<1>2. Ran(row) \in WorldRows
  BY DEF WorldRows, Ran
<1>3. [row EXCEPT !.claim = None, !.stale = FALSE] \in WorldRows
  BY DEF WorldRows
<1> QED
  BY <1>1, <1>2, <1>3 DEF Released

LEMMA StoryRowTypes ==
    ASSUME NEW row \in StoryRows, NEW p \in Sweepers
    PROVE  /\ ClaimedBy(row, p) \in StoryRows /\ Ran(row) \in StoryRows
           /\ Released(row, p) \in StoryRows
<1>1. ClaimedBy(row, p) \in StoryRows
  BY DEF StoryRows, ClaimedBy
<1>2. Ran(row) \in StoryRows
  BY DEF StoryRows, Ran
<1>3. [row EXCEPT !.claim = None, !.stale = FALSE] \in StoryRows
  BY DEF StoryRows
<1> QED
  BY <1>1, <1>2, <1>3 DEF Released

LEMMA FreshRows ==
    /\ NewWorld \in WorldRows /\ NewStory \in StoryRows /\ NoJob \in Jobs
    /\ NoTown \in TownJobs
    /\ \A text \in Texts : NewPost(text) \in Posts
<1>1. NewWorld \in WorldRows
  BY DEF NewWorld, WorldRows
<1>2. NewStory \in StoryRows
  BY DEF NewStory, StoryRows
<1>3. NoJob \in Jobs
  BY DEF NoJob, Jobs
<1>4. NoTown \in TownJobs
  BY DEF NoTown, TownJobs
<1>5. \A text \in Texts : NewPost(text) \in Posts
  BY DEF NewPost, Posts
<1> QED
  BY <1>1, <1>2, <1>3, <1>4, <1>5

LEMMA ReleasedTypes ==
    \A p \in Sweepers : Released(None, p) = None
  BY DEF Released, Holds

LEMMA WorldInit == Init => WorldInv
<1> SUFFICES ASSUME Init PROVE WorldInv
  OBVIOUS
<1>1. TypeOK
  <2>1. job \in [Sweepers -> Jobs] /\ town \in [TownSweepers -> TownJobs]
    BY FreshRows DEF Init, TownJobs
  <2>2. enrolled \in BOOLEAN /\ roster \in BOOLEAN /\ erasing \in BOOLEAN /\ unread \in BOOLEAN
    BY DEF Init
  <2> QED
    BY <2>1, <2>2, BoundAssumption DEF Init, TypeOK, TownJobs
<1>2. \A p \in Sweepers : job[p].stage = "idle"
  BY DEF Init, NoJob
<1>3. \A p \in Sweepers : ~Holds(world, p) /\ ~Holds(story, p) /\ ~InTransaction(p)
  BY <1>2 DEF Init, Holds, InTransaction
<1>4. \A p \in Sweepers : ReadInv(p) /\ HoldInv(p) /\ TellInv(p)
  BY <1>2, <1>3 DEF ReadInv, HoldInv, TellInv, Directing
<1> QED
  BY <1>1, <1>4
  DEF WorldInv, Init, RunInv, OneWorldview, PostInv, Published, ChangesAreTaken,
      NoWordsOnOldPosts

\* The rows of the sweepers one step leaves have their types.
LEMMA JobUpdate ==
    ASSUME TypeOK, NEW p \in Sweepers, NEW j \in Jobs, job' = [job EXCEPT ![p] = j]
    PROVE  job' \in [Sweepers -> Jobs]
  BY DEF TypeOK

LEMMA OrphanedType ==
    ASSUME TypeOK PROVE Orphaned(town) \in [TownSweepers -> TownJobs]
<1> SUFFICES ASSUME NEW q \in TownSweepers
             PROVE  [town[q] EXCEPT !.gone = @ \/ town[q].stage # "idle"] \in TownJobs
  BY DEF Orphaned
<1> DEFINE gone == town[q].gone \/ town[q].stage # "idle"
<1>1. gone \in BOOLEAN
  OBVIOUS
<1>2. town[q] \in TownJobs
  BY DEF TypeOK, TownJobs
<1>3. [town[q] EXCEPT !.gone = @ \/ town[q].stage # "idle"] = [town[q] EXCEPT !.gone = gone]
  BY <1>2 DEF TownJobs
<1> HIDE DEF gone
<1>4. [town[q] EXCEPT !.gone = gone] \in TownJobs
  BY <1>1, <1>2 DEF TownJobs
<1> QED
  BY <1>3, <1>4

\* What a step of a sweeper makes of its own row has the type of a row.
LEMMA JobTypes ==
    ASSUME TypeOK, NEW p \in Sweepers
    PROVE  /\ [NoJob EXCEPT !.stage = "claimed"] \in Jobs
           /\ [NoJob EXCEPT !.stage = "chosen", !.era = era] \in Jobs
           /\ \A fresh \in BOOLEAN :
                /\ [job[p] EXCEPT !.stage = "directing", !.text = worldview.text,
                      !.version = worldview.version, !.reset = fresh] \in Jobs
                /\ [job[p] EXCEPT !.stage = "opened", !.shown = fresh] \in Jobs
                /\ [job[p] EXCEPT !.stage = "purged", !.doomed = fresh, !.late = {}] \in Jobs
           /\ [job[p] EXCEPT !.stage = "telling", !.text = worldview.text] \in Jobs
           /\ \A told \in SUBSET Tales : [job[p] EXCEPT !.late = told] \in Jobs
<1>1. job[p] \in Jobs /\ worldview.text \in Texts \cup {None} /\ worldview.version \in Nat
      /\ era \in Nat
  BY DEF TypeOK
<1>2. [NoJob EXCEPT !.stage = "claimed"] \in Jobs
  BY DEF NoJob, Jobs
<1>3. [NoJob EXCEPT !.stage = "chosen", !.era = era] \in Jobs
  BY <1>1 DEF NoJob, Jobs
<1>4. ASSUME NEW fresh \in BOOLEAN
      PROVE  [job[p] EXCEPT !.stage = "directing", !.text = worldview.text,
                !.version = worldview.version, !.reset = fresh] \in Jobs
  BY <1>1 DEF Jobs
<1>5. ASSUME NEW fresh \in BOOLEAN
      PROVE  [job[p] EXCEPT !.stage = "opened", !.shown = fresh] \in Jobs
  BY <1>1 DEF Jobs
<1>6. ASSUME NEW fresh \in BOOLEAN
      PROVE  [job[p] EXCEPT !.stage = "purged", !.doomed = fresh, !.late = {}] \in Jobs
  BY <1>1 DEF Jobs
<1>7. [job[p] EXCEPT !.stage = "telling", !.text = worldview.text] \in Jobs
  BY <1>1 DEF Jobs
<1>8. ASSUME NEW told \in SUBSET Tales PROVE [job[p] EXCEPT !.late = told] \in Jobs
  BY <1>1 DEF Jobs
<1> QED
  BY <1>2, <1>3, <1>4, <1>5, <1>6, <1>7, <1>8

\* A director round and a story round keep the sweepers' rows typed.
LEMMA JobStep ==
    ASSUME TypeOK, [Next]_vars
    PROVE  job' \in [Sweepers -> Jobs]
<1> USE DEF outside, feed, erasure, bounds
<1>1. CASE UNCHANGED job
  BY <1>1 DEF TypeOK
<1>2. ASSUME NEW p \in Sweepers, job' = [job EXCEPT ![p] = NoJob]
      PROVE  job' \in [Sweepers -> Jobs]
  BY <1>2, JobUpdate, FreshRows
<1>3. ASSUME NEW p \in Sweepers, ClaimWorld(p) \/ ClaimStory(p)
      PROVE  job' \in [Sweepers -> Jobs]
  BY <1>3, JobUpdate, JobTypes DEF ClaimWorld, ClaimStory
<1>4. ASSUME NEW p \in Sweepers, ReadWorldview(p) PROVE job' \in [Sweepers -> Jobs]
  <2> DEFINE fresh == (world.hash # worldview.text)
  <2>1. fresh \in BOOLEAN
    OBVIOUS
  <2>2. job' = [job EXCEPT ![p] = [job[p] EXCEPT !.stage = "directing",
                  !.text = worldview.text, !.version = worldview.version, !.reset = fresh]]
    BY <1>4 DEF ReadWorldview, TypeOK, Jobs
  <2> HIDE DEF fresh
  <2> QED
    BY <2>1, <2>2, JobUpdate, JobTypes
<1>5. ASSUME NEW p \in Sweepers, OpenRound(p) PROVE job' \in [Sweepers -> Jobs]
  <2> DEFINE fresh == Published
  <2>1. fresh \in BOOLEAN
    BY DEF Published, TypeOK, Posts
  <2>2. job' = [job EXCEPT ![p] = [job[p] EXCEPT !.stage = "opened", !.shown = fresh]]
    BY <1>5 DEF OpenRound, TypeOK, Jobs
  <2> HIDE DEF fresh
  <2> QED
    BY <2>1, <2>2, JobUpdate, JobTypes
<1>6. ASSUME NEW p \in Sweepers, Purge(p) PROVE job' \in [Sweepers -> Jobs]
  <2> DEFINE fresh == PostIsDoomed(p)
  <2>1. fresh \in BOOLEAN
    BY DEF PostIsDoomed, TypeOK, Posts, Jobs
  <2>2. job' = [job EXCEPT ![p] = [job[p] EXCEPT !.stage = "purged", !.doomed = fresh,
                                                 !.late = {}]]
    BY <1>6 DEF Purge, TypeOK, Jobs
  <2> HIDE DEF fresh
  <2> QED
    BY <2>1, <2>2, JobUpdate, JobTypes
<1>7. ASSUME NEW p \in Sweepers, ReadStory(p) PROVE job' \in [Sweepers -> Jobs]
  <2>1. job' = [job EXCEPT ![p] = [job[p] EXCEPT !.stage = "telling",
                                                 !.text = worldview.text]]
    BY <1>7 DEF ReadStory, TypeOK, Jobs
  <2> QED
    BY <2>1, JobUpdate, JobTypes
<1>8. ASSUME NEW p \in Sweepers, CommitStory(p) PROVE job' \in [Sweepers -> Jobs]
  <2>1. Tale(p) \in Tales
    BY DEF Tale, Tales, TypeOK, Jobs
  <2>2. ASSUME NEW q \in Sweepers PROVE [job[q] EXCEPT !.late = @ \cup {Tale(p)}] \in Jobs
    BY <2>1 DEF TypeOK, Jobs
  <2>3. ASSUME NEW q \in Sweepers PROVE job[q] \in Jobs
    BY DEF TypeOK
  <2> QED
    BY <1>8, <2>2, <2>3, FreshRows DEF CommitStory
<1>9. CASE CommitErasure
  <2>1. ASSUME NEW q \in Sweepers PROVE [job[q] EXCEPT !.late = {}] \in Jobs
    BY JobTypes
  <2> QED
    BY <1>9, <2>1 DEF CommitErasure
<1>10. ASSUME NEW p \in Sweepers, SweeperStep(p) \/ Crash(p)
       PROVE  job' \in [Sweepers -> Jobs]
  BY <1>1, <1>2, <1>3, <1>4, <1>5, <1>6, <1>7, <1>8, <1>10
  DEF SweeperStep, Crash, EnsureWorld, MarkRan, CommitRound, AbortRound, EnsureStory, AbortStory
<1>11. CASE \E q \in TownSweepers : TownStep(q)
  BY <1>1, <1>11 DEF TownStep, ChoosePost, Speak, GiveUpSpeaking
<1> QED
  BY <1>1, <1>9, <1>10, <1>11
  DEF Next, vars, Edit, Enroll, ChangeRoster, WorldClaimAges, StoryClaimAges, IntervalPasses,
      Publish, BeginErasure

\* Who writes the world's row, and what stays when no sweeper and no erasure does.
LEMMA WorldRowStep ==
    ASSUME TypeOK, [Next]_vars
    PROVE  world' \in WorldRows \cup {None}
<1> USE DEF outside, feed, erasure, bounds
<1>0. world \in WorldRows \cup {None} /\ worldview.version \in Nat
  BY DEF TypeOK
<1>1. CASE UNCHANGED world
  BY <1>0, <1>1
<1>2. CASE world' = None
  BY <1>2
<1>3. ASSUME NEW p \in Sweepers, world # None,
             world' \in {ClaimedBy(world, p), Ran(world), Released(world, p)}
      PROVE  world' \in WorldRows
  BY <1>0, <1>3, WorldRowTypes
<1>4. ASSUME NEW p \in Sweepers, world' = Released(world, p)
      PROVE  world' \in WorldRows \cup {None}
  BY <1>0, <1>3, <1>4, ReleasedTypes
<1>5. CASE WorldClaimAges \/ IntervalPasses
  BY <1>0, <1>1, <1>5 DEF WorldClaimAges, IntervalPasses, WorldRows
<1>6. ASSUME NEW p \in Sweepers, MarkRan(p) PROVE world' \in WorldRows \cup {None}
  <2>1. CASE Holds(world, p)
    <3>1. world # None
      BY <2>1 DEF Holds
    <3>2. Ran(world) \in WorldRows
      BY <1>0, <3>1, WorldRowTypes
    <3>3. [Ran(world) EXCEPT !.ran = worldview.version] \in WorldRows
      BY <1>0, <3>2 DEF WorldRows
    <3> QED
      BY <1>6, <2>1, <3>3 DEF MarkRan
  <2> QED
    BY <1>1, <1>6, <2>1 DEF MarkRan
<1>7. ASSUME NEW p \in Sweepers, CommitRound(p) PROVE world' \in WorldRows \cup {None}
  <2>1. world # None
    BY <1>7 DEF CommitRound, Holds
  <2>2. Ran(world) \in WorldRows
    BY <1>0, <2>1, WorldRowTypes
  <2>3. job[p].text \in Texts \cup {None}
    BY DEF TypeOK, Jobs
  <2>4. [Ran(world) EXCEPT !.hash = job[p].text, !.ran = worldview.version] \in WorldRows
    BY <1>0, <2>2, <2>3 DEF WorldRows
  <2> QED
    BY <1>7, <2>4 DEF CommitRound
<1>8. ASSUME NEW p \in Sweepers, SweeperStep(p) \/ Crash(p)
      PROVE  world' \in WorldRows \cup {None}
  BY <1>1, <1>3, <1>4, <1>6, <1>7, <1>8, FreshRows
  DEF SweeperStep, Crash, EnsureWorld, ClaimWorld, ReadWorldview, OpenRound, Purge, AbortRound,
      EnsureStory, ClaimStory, ReadStory, CommitStory, AbortStory
<1>9. CASE \E q \in TownSweepers : TownStep(q)
  BY <1>1, <1>9 DEF TownStep, ChoosePost, Speak, GiveUpSpeaking
<1> QED
  BY <1>1, <1>2, <1>5, <1>8, <1>9
  DEF Next, vars, Edit, Enroll, ChangeRoster, StoryClaimAges, Publish, BeginErasure,
      CommitErasure

LEMMA StoryRowStep ==
    ASSUME TypeOK, [Next]_vars
    PROVE  story' \in StoryRows \cup {None}
<1> USE DEF outside, feed, erasure, bounds
<1>0. story \in StoryRows \cup {None}
  BY DEF TypeOK
<1>1. CASE UNCHANGED story
  BY <1>0, <1>1
<1>2. CASE story' = None
  BY <1>2
<1>3. ASSUME NEW p \in Sweepers, story # None,
             story' \in {ClaimedBy(story, p), Ran(story), Released(story, p)}
      PROVE  story' \in StoryRows
  BY <1>0, <1>3, StoryRowTypes
<1>4. ASSUME NEW p \in Sweepers, story' = Released(story, p)
      PROVE  story' \in StoryRows \cup {None}
  BY <1>0, <1>3, <1>4, ReleasedTypes
<1>5. CASE StoryClaimAges \/ IntervalPasses
  BY <1>0, <1>1, <1>5 DEF StoryClaimAges, IntervalPasses, StoryRows
<1>6. ASSUME NEW p \in Sweepers, CommitRound(p) PROVE story' \in StoryRows \cup {None}
  BY <1>0, <1>6 DEF CommitRound
<1>7. ASSUME NEW p \in Sweepers, CommitStory(p) PROVE story' \in StoryRows \cup {None}
  BY <1>3, <1>7 DEF CommitStory, Holds
<1>8. ASSUME NEW p \in Sweepers, SweeperStep(p) \/ Crash(p)
      PROVE  story' \in StoryRows \cup {None}
  BY <1>1, <1>3, <1>4, <1>6, <1>7, <1>8, FreshRows
  DEF SweeperStep, Crash, EnsureWorld, ClaimWorld, MarkRan, ReadWorldview, OpenRound, Purge,
      AbortRound, EnsureStory, ClaimStory, ReadStory, AbortStory
<1>9. CASE \E q \in TownSweepers : TownStep(q)
  BY <1>1, <1>9 DEF TownStep, ChoosePost, Speak, GiveUpSpeaking
<1> QED
  BY <1>1, <1>2, <1>5, <1>8, <1>9
  DEF Next, vars, Edit, Enroll, ChangeRoster, WorldClaimAges, Publish, BeginErasure,
      CommitErasure

\* The feed's rows keep their types: a round that commits has read a text.
LEMMA FeedStep ==
    ASSUME WorldInv, [Next]_vars
    PROVE  /\ post' \in Posts \cup {None}
           /\ town' \in [TownSweepers -> TownJobs]
           /\ words' \subseteq Texts \X (Texts \cup {None})
<1> USE DEF outside, feed, erasure, bounds
<1>0. /\ TypeOK
      /\ post \in Posts \cup {None} /\ town \in [TownSweepers -> TownJobs]
      /\ words \subseteq Texts \X (Texts \cup {None})
  BY DEF WorldInv, TypeOK, TownJobs
<1>1. CASE UNCHANGED feed
  BY <1>0, <1>1
<1>2. CASE Publish
  <2> DEFINE straddles == \E p \in Sweepers : InTransaction(p) /\ job[p].reset
  <2>1. straddles \in BOOLEAN
    OBVIOUS
  <2>2. post' = [post EXCEPT !.published = TRUE, !.current = TRUE, !.straddled = straddles]
    BY <1>2 DEF Publish
  <2>3. post \in Posts
    BY <1>0, <1>2 DEF Publish
  <2> HIDE DEF straddles
  <2>4. post' \in Posts
    BY <2>1, <2>2, <2>3 DEF Posts
  <2> QED
    BY <1>0, <1>2, <2>4 DEF Publish
<1>3. ASSUME NEW p \in Sweepers, CommitRound(p)
      PROVE  post' \in Posts \cup {None} /\ town' \in [TownSweepers -> TownJobs]
  <2>1. job[p].text \in Texts
    BY <1>3 DEF CommitRound, WorldInv, ReadInv, Directing
  <2>2. NewPost(job[p].text) \in Posts
    BY <2>1, FreshRows
  <2>3. PostAfterReset(p) \in Posts \cup {None}
    <3>1. ASSUME post \in Posts PROVE [post EXCEPT !.current = FALSE] \in Posts
      BY <3>1 DEF Posts
    <3>2. CASE post = None \/ job[p].doomed
      <4>1. PostAfterReset(p) = None
        BY <3>2 DEF PostAfterReset
      <4> QED
        BY <4>1
    <3>3. CASE ~(post = None \/ job[p].doomed) /\ job[p].shown
      <4>1. PostAfterReset(p) = [post EXCEPT !.current = FALSE]
        BY <3>3 DEF PostAfterReset
      <4> QED
        BY <1>0, <3>1, <3>3, <4>1
    <3>4. CASE ~(post = None \/ job[p].doomed) /\ ~job[p].shown
      <4>1. PostAfterReset(p) = post
        BY <3>4 DEF PostAfterReset
      <4> QED
        BY <1>0, <4>1
    <3> QED
      BY <3>2, <3>3, <3>4
  <2>4. town' \in [TownSweepers -> TownJobs]
    BY <1>0, <1>3, OrphanedType DEF CommitRound
  <2> QED
    BY <1>0, <1>3, <2>2, <2>3, <2>4 DEF CommitRound
<1>4. ASSUME NEW q \in TownSweepers, TownStep(q)
      PROVE  /\ post' = post /\ town' \in [TownSweepers -> TownJobs]
             /\ words' \subseteq Texts \X (Texts \cup {None})
  <2>1. [NoTown EXCEPT !.stage = "speaking"] \in TownJobs /\ NoTown \in TownJobs
    BY DEF NoTown, TownJobs
  <2>2. town' \in [TownSweepers -> TownJobs]
    BY <1>0, <1>4, <2>1 DEF TownStep, ChoosePost, Speak, GiveUpSpeaking
  <2>3. CASE Speak(q)
    <3>1. post.text \in Texts /\ world.hash \in Texts \cup {None}
      BY <1>0, <2>3 DEF Speak, Addressable, Published, TypeOK, Posts, WorldRows
    <3> QED
      BY <1>0, <2>2, <2>3, <3>1 DEF Speak
  <2> QED
    BY <1>0, <1>4, <2>2, <2>3 DEF TownStep, ChoosePost, GiveUpSpeaking
<1>5. CASE CommitErasure
  BY <1>0, <1>5, OrphanedType DEF CommitErasure
<1>6. ASSUME NEW p \in Sweepers, CommitRound(p)
      PROVE  words' \subseteq Texts \X (Texts \cup {None})
  BY <1>0, <1>6 DEF CommitRound
<1>7. ASSUME NEW p \in Sweepers, SweeperStep(p) \/ Crash(p)
      PROVE  CommitRound(p) \/ UNCHANGED feed
  BY <1>7
  DEF SweeperStep, Crash, EnsureWorld, ClaimWorld, MarkRan, ReadWorldview, OpenRound, Purge,
      AbortRound, EnsureStory, ClaimStory, ReadStory, CommitStory, AbortStory
<1> QED
  BY <1>0, <1>1, <1>2, <1>3, <1>4, <1>5, <1>6, <1>7
  DEF Next, vars, Edit, Enroll, ChangeRoster, WorldClaimAges, StoryClaimAges, IntervalPasses,
      BeginErasure

\* The sets of generated rows keep their types.
LEMMA RowsStep ==
    ASSUME WorldInv, [Next]_vars
    PROVE  /\ fragments' \subseteq Texts /\ late' \subseteq Texts /\ residue' \subseteq Texts
           /\ tales' \subseteq Tales
<1> USE DEF outside, feed, erasure, bounds
<1>0. /\ TypeOK
      /\ fragments \subseteq Texts /\ late \subseteq Texts /\ residue \subseteq Texts
      /\ tales \subseteq Tales
  BY DEF WorldInv, TypeOK
<1>1. CASE UNCHANGED <<fragments, late, residue, tales>>
  BY <1>0, <1>1
<1>2. ASSUME NEW p \in Sweepers, CommitRound(p)
      PROVE  /\ fragments' \subseteq Texts /\ late' \subseteq Texts /\ residue' \subseteq Texts
             /\ tales' \subseteq Tales
  <2>1. job[p].text \in Texts
    BY <1>2 DEF CommitRound, WorldInv, ReadInv, Directing
  <2>2. job[p].late \subseteq Tales
    BY <1>0 DEF TypeOK, Jobs
  <2> QED
    BY <1>0, <1>2, <2>1, <2>2 DEF CommitRound
<1>3. ASSUME NEW p \in Sweepers, CommitStory(p)
      PROVE  /\ fragments' \subseteq Texts /\ late' \subseteq Texts /\ residue' \subseteq Texts
             /\ tales' \subseteq Tales
  <2>1. Tale(p) \in Tales
    BY <1>0 DEF Tale, Tales, TypeOK, Jobs
  <2> QED
    BY <1>0, <1>3, <2>1 DEF CommitStory
<1>4. CASE BeginErasure \/ CommitErasure
  BY <1>0, <1>4 DEF BeginErasure, CommitErasure
<1>5. ASSUME NEW p \in Sweepers, SweeperStep(p) \/ Crash(p)
      PROVE  CommitRound(p) \/ CommitStory(p) \/ UNCHANGED <<fragments, late, residue, tales>>
  BY <1>5
  DEF SweeperStep, Crash, EnsureWorld, ClaimWorld, MarkRan, ReadWorldview, OpenRound, Purge,
      AbortRound, EnsureStory, ClaimStory, ReadStory, AbortStory
<1>6. CASE \E q \in TownSweepers : TownStep(q)
  BY <1>1, <1>6 DEF TownStep, ChoosePost, Speak, GiveUpSpeaking
<1> QED
  BY <1>1, <1>2, <1>3, <1>4, <1>5, <1>6
  DEF Next, vars, Edit, Enroll, ChangeRoster, WorldClaimAges, StoryClaimAges, IntervalPasses,
      Publish

\* The rest of the state: what the operator writes and what is counted.
LEMMA ScalarStep ==
    ASSUME TypeOK, [Next]_vars
    PROVE  /\ worldview' \in [text : Texts \cup {None}, version : Nat]
           /\ enrolled' \in BOOLEAN /\ roster' \in BOOLEAN
           /\ erasing' \in BOOLEAN /\ era' \in Nat /\ unread' \in BOOLEAN
           /\ changes' \in 0..MaxChanges /\ erasures' \in 0..MaxErasures
           /\ faults' \in 0..MaxFaults
<1> USE DEF outside, feed, erasure, bounds
<1>0. /\ worldview \in [text : Texts \cup {None}, version : Nat]
      /\ enrolled \in BOOLEAN /\ roster \in BOOLEAN
      /\ erasing \in BOOLEAN /\ era \in Nat /\ unread \in BOOLEAN
      /\ changes \in 0..MaxChanges /\ erasures \in 0..MaxErasures
      /\ faults \in 0..MaxFaults
  BY DEF TypeOK
<1>1. worldview' \in [text : Texts \cup {None}, version : Nat]
  <2>1. CASE UNCHANGED worldview
    BY <1>0, <2>1
  <2>2. ASSUME NEW text \in Texts \cup {None}, Edit(text)
        PROVE  worldview' \in [text : Texts \cup {None}, version : Nat]
    BY <1>0, <2>2 DEF Edit
  <2>3. ASSUME NEW p \in Sweepers, SweeperStep(p) PROVE UNCHANGED worldview
    BY <2>3
    DEF SweeperStep, EnsureWorld, ClaimWorld, MarkRan, ReadWorldview, OpenRound, Purge,
        CommitRound, AbortRound, EnsureStory, ClaimStory, ReadStory, CommitStory, AbortStory
  <2>4. ASSUME NEW q \in TownSweepers, TownStep(q) PROVE UNCHANGED worldview
    BY <2>4 DEF TownStep, ChoosePost, Speak, GiveUpSpeaking
  <2> QED
    BY <2>1, <2>2, <2>3, <2>4
    DEF Next, vars, Enroll, ChangeRoster, WorldClaimAges, StoryClaimAges, IntervalPasses,
        Publish, BeginErasure, CommitErasure, Crash
<1>2. ASSUME NEW p \in Sweepers, SweeperStep(p) \/ Crash(p)
      PROVE  /\ era' \in Nat /\ unread' \in BOOLEAN /\ faults' \in 0..MaxFaults
             /\ UNCHANGED <<enrolled, roster, erasing, changes, erasures>>
  <2>1. CASE MarkRan(p)
    <3> DEFINE missed == unread \/ world.hash # worldview.text
    <3>1. missed \in BOOLEAN
      OBVIOUS
    <3>2. unread' = missed \/ unread' = unread
      BY <2>1 DEF MarkRan
    <3> HIDE DEF missed
    <3>3. unread' \in BOOLEAN
      BY <1>0, <3>1, <3>2
    <3> QED
      BY <1>0, <2>1, <3>3 DEF MarkRan
  <2>2. CASE CommitRound(p)
    <3>1. era' \in Nat
      BY <1>0, <2>2 DEF CommitRound
    <3>2. unread' = FALSE /\ UNCHANGED <<enrolled, roster, erasing, changes, erasures, faults>>
      BY <2>2 DEF CommitRound
    <3>3. unread' \in BOOLEAN
      BY <3>2
    <3> QED
      BY <1>0, <3>1, <3>2, <3>3
  <2>3. CASE AbortRound(p) \/ AbortStory(p) \/ Crash(p)
    <3>1. faults' = faults \/ (faults < MaxFaults /\ faults' = faults + 1)
      BY <2>3 DEF AbortRound, AbortStory, Crash
    <3>2. faults' \in 0..MaxFaults
      BY <1>0, <3>1, BoundAssumption
    <3> QED
      BY <1>0, <2>3, <3>2 DEF AbortRound, AbortStory, Crash
  <2> QED
    BY <1>0, <1>2, <2>1, <2>2, <2>3
    DEF SweeperStep, EnsureWorld, ClaimWorld, ReadWorldview, OpenRound, Purge, EnsureStory,
        ClaimStory, ReadStory, CommitStory
<1>3. CASE \E p \in Sweepers : SweeperStep(p) \/ Crash(p)
  BY <1>0, <1>1, <1>2, <1>3
<1>4. CASE \E q \in TownSweepers : TownStep(q)
  BY <1>0, <1>4 DEF TownStep, ChoosePost, Speak, GiveUpSpeaking
<1>5. CASE \E text \in Texts \cup {None} : Edit(text)
  BY <1>0, <1>1, <1>5, BoundAssumption DEF Edit
<1>6. CASE ChangeRoster \/ BeginErasure
  <2>1. roster' \in BOOLEAN /\ erasing' \in BOOLEAN
    BY <1>0, <1>6 DEF ChangeRoster, BeginErasure
  <2>2. changes' \in 0..MaxChanges /\ erasures' \in 0..MaxErasures
    BY <1>0, <1>6, BoundAssumption DEF ChangeRoster, BeginErasure
  <2>3. UNCHANGED <<worldview, enrolled, era, unread, faults>>
    BY <1>6 DEF ChangeRoster, BeginErasure
  <2> QED
    BY <1>0, <2>1, <2>2, <2>3
<1>7. CASE CommitErasure
  BY <1>0, <1>7 DEF CommitErasure
<1>8. CASE Enroll \/ WorldClaimAges \/ StoryClaimAges \/ IntervalPasses \/ Publish
  BY <1>0, <1>8 DEF Enroll, WorldClaimAges, StoryClaimAges, IntervalPasses, Publish
<1>9. CASE UNCHANGED vars
  BY <1>0, <1>9 DEF vars
<1> QED
  BY <1>3, <1>4, <1>5, <1>6, <1>7, <1>8, <1>9 DEF Next

LEMMA TypeStep ==
    ASSUME WorldInv, [Next]_vars PROVE TypeOK'
<1>1. TypeOK
  BY DEF WorldInv
<1> QED
  BY <1>1, JobStep, WorldRowStep, StoryRowStep, FeedStep, RowsStep, ScalarStep
  DEF TypeOK, TownJobs

-----------------------------------------------------------------------------
(***************************************************************************)
(* Rounds.                                                                 *)
(***************************************************************************)

\* What a sweeper's own row goes through: each of the three steps of a round
\* that change it, or nothing the invariants read.
LEMMA OwnStep ==
    ASSUME WorldInv, [Next]_vars, NEW p \in Sweepers
    PROVE  \/ job'[p] = NoJob
           \/ ClaimWorld(p) \/ ReadWorldview(p) \/ OpenRound(p) \/ Purge(p)
           \/ ClaimStory(p) \/ ReadStory(p)
           \/ \E told \in SUBSET Tales : job'[p] = [job[p] EXCEPT !.late = told]
<1> USE DEF outside, feed, erasure, bounds
<1>0. job \in [Sweepers -> Jobs] /\ job[p] \in Jobs
  BY DEF WorldInv, TypeOK
<1>1. ASSUME job'[p] = job[p]
      PROVE  \E told \in SUBSET Tales : job'[p] = [job[p] EXCEPT !.late = told]
  <2>1. job[p].late \in SUBSET Tales /\ job[p] = [job[p] EXCEPT !.late = job[p].late]
    BY <1>0 DEF Jobs
  <2> QED
    BY <1>1, <2>1
<1>2. ASSUME NEW q \in Sweepers, CommitStory(q)
      PROVE  \/ job'[p] = NoJob
             \/ \E told \in SUBSET Tales : job'[p] = [job[p] EXCEPT !.late = told]
  <2>1. Tale(q) \in Tales
    BY DEF Tale, Tales, WorldInv, TypeOK, Jobs
  <2>2. job[p].late \cup {Tale(q)} \in SUBSET Tales
    BY <1>0, <2>1 DEF Jobs
  <2>3. [job[p] EXCEPT !.late = @ \cup {Tale(q)}]
          = [job[p] EXCEPT !.late = job[p].late \cup {Tale(q)}]
    BY <1>0 DEF Jobs
  <2>4. \/ job'[p] = NoJob \/ job'[p] = job[p]
        \/ job'[p] = [job[p] EXCEPT !.late = @ \cup {Tale(q)}]
    BY <1>2 DEF CommitStory
  <2> QED
    BY <1>1, <2>2, <2>3, <2>4
<1>3. CASE CommitErasure
  BY <1>3 DEF CommitErasure
<1>4. ASSUME NEW q \in Sweepers, SweeperStep(q) \/ Crash(q), q # p
      PROVE  CommitStory(q) \/ job'[p] = job[p]
  BY <1>0, <1>4
  DEF SweeperStep, Crash, EnsureWorld, ClaimWorld, MarkRan, ReadWorldview, OpenRound, Purge,
      CommitRound, AbortRound, EnsureStory, ClaimStory, ReadStory, AbortStory
<1>5. ASSUME SweeperStep(p) \/ Crash(p)
      PROVE  \/ job'[p] = NoJob \/ job'[p] = job[p] \/ CommitStory(p)
             \/ ClaimWorld(p) \/ ReadWorldview(p) \/ OpenRound(p) \/ Purge(p)
             \/ ClaimStory(p) \/ ReadStory(p)
  BY <1>0, <1>5
  DEF SweeperStep, Crash, EnsureWorld, MarkRan, CommitRound, AbortRound, EnsureStory, AbortStory
<1>6. CASE \E q \in TownSweepers : TownStep(q)
  BY <1>1, <1>6 DEF TownStep, ChoosePost, Speak, GiveUpSpeaking
<1> QED
  BY <1>1, <1>2, <1>3, <1>4, <1>5, <1>6
  DEF Next, vars, Edit, Enroll, ChangeRoster, WorldClaimAges, StoryClaimAges, IntervalPasses,
      Publish, BeginErasure

\* The worldview moves on only while no round is in its transaction.
LEMMA WorldviewStep ==
    ASSUME WorldInv, [Next]_vars
    PROVE  \/ UNCHANGED worldview
           \/ /\ worldview'.version = worldview.version + 1
              /\ \A p \in Sweepers : ~InTransaction(p) /\ job'[p] = job[p]
              /\ UNCHANGED <<world, story, post, fragments>>
<1> USE DEF outside, feed, erasure, bounds
<1>1. ASSUME NEW text \in Texts \cup {None}, Edit(text)
      PROVE  /\ worldview'.version = worldview.version + 1
             /\ \A p \in Sweepers : ~InTransaction(p) /\ job'[p] = job[p]
             /\ UNCHANGED <<world, story, post, fragments>>
  BY <1>1 DEF Edit
<1> QED
  BY <1>1
  DEF Next, vars, Enroll, ChangeRoster, WorldClaimAges, StoryClaimAges, IntervalPasses,
      Publish, BeginErasure, CommitErasure, SweeperStep, Crash, EnsureWorld, ClaimWorld,
      MarkRan, ReadWorldview, OpenRound, Purge, CommitRound, AbortRound, EnsureStory,
      ClaimStory, ReadStory, CommitStory, AbortStory, TownStep, ChoosePost, Speak,
      GiveUpSpeaking

LEMMA JobStages ==
    /\ [NoJob EXCEPT !.stage = "claimed"].stage = "claimed"
    /\ [NoJob EXCEPT !.stage = "chosen", !.era = era].stage = "chosen"
  BY DEF NoJob

LEMMA ReadStep ==
    ASSUME WorldInv, [Next]_vars, NEW p \in Sweepers PROVE ReadInv(p)'
<1>0. ReadInv(p) /\ job[p] \in Jobs /\ worldview \in [text : Texts \cup {None}, version : Nat]
      /\ job \in [Sweepers -> Jobs]
  BY DEF WorldInv, TypeOK
<1>1. CASE ~UNCHANGED worldview
  <2>1. /\ worldview'.version = worldview.version + 1
        /\ ~InTransaction(p) /\ job'[p] = job[p]
    BY <1>1, WorldviewStep
  <2> QED
    BY <1>0, <2>1 DEF ReadInv, InTransaction, Jobs
<1>2. CASE UNCHANGED worldview
  <2>1. CASE job'[p] = NoJob
    BY <1>2, <2>1 DEF ReadInv, NoJob, InTransaction, Directing
  <2>2. ASSUME NEW told \in SUBSET Tales, job'[p] = [job[p] EXCEPT !.late = told]
        PROVE  ReadInv(p)'
    BY <1>0, <1>2, <2>2 DEF ReadInv, InTransaction, Directing, Jobs
  <2>3. CASE ClaimWorld(p) \/ ClaimStory(p) \/ ReadStory(p)
    <3>1. ASSUME ClaimWorld(p) PROVE job'[p].stage = "claimed"
      BY <1>0, <3>1, JobStages DEF ClaimWorld
    <3>2. ASSUME ClaimStory(p) PROVE job'[p].stage = "chosen"
      BY <1>0, <3>2, JobStages DEF ClaimStory
    <3>3. ASSUME ReadStory(p) PROVE job'[p].stage = "telling"
      BY <1>0, <3>3 DEF ReadStory, Jobs
    <3>4. job'[p].stage \in {"claimed", "chosen", "telling"}
      BY <2>3, <3>1, <3>2, <3>3
    <3> QED
      BY <3>4 DEF ReadInv, InTransaction, Directing
  <2>4. CASE ReadWorldview(p)
    BY <1>0, <1>2, <2>4 DEF ReadWorldview, Usable, ReadInv, InTransaction, Directing, Jobs
  <2>5. CASE OpenRound(p)
    BY <1>0, <1>2, <2>5 DEF OpenRound, StillFresh, ReadInv, InTransaction, Directing, Jobs
  <2>6. CASE Purge(p)
    BY <1>0, <1>2, <2>6 DEF Purge, ReadInv, InTransaction, Directing, Jobs
  <2> QED
    BY <2>1, <2>2, <2>3, <2>4, <2>5, <2>6, OwnStep
<1> QED
  BY <1>1, <1>2

\* What the statements of a round leave of the world's row.
LEMMA RowEffects ==
    ASSUME WorldInv, NEW p \in Sweepers
    PROVE  /\ ClaimWorld(p) =>
                /\ world' \in WorldRows
                /\ world'.claim = p /\ world'.hash = world.hash /\ world'.ran = world.ran
           /\ Holds(world, p) =>
                /\ MarkRan(p) \/ CommitRound(p) \/ AbortRound(p) =>
                     world' \in WorldRows /\ world'.claim = None
                /\ MarkRan(p) => world'.hash = world.hash /\ world'.ran = worldview.version
                /\ CommitRound(p) =>
                     world'.hash = job[p].text /\ world'.ran = worldview.version
                /\ AbortRound(p) => world'.hash = world.hash /\ world'.ran = world.ran
<1>0. /\ world \in WorldRows \cup {None} /\ worldview.version \in Nat
      /\ job[p].text \in Texts \cup {None}
  BY DEF WorldInv, TypeOK, Jobs
<1>1. ASSUME ClaimWorld(p)
      PROVE  /\ world' \in WorldRows
             /\ world'.claim = p /\ world'.hash = world.hash /\ world'.ran = world.ran
  <2>1. world \in WorldRows /\ world' = ClaimedBy(world, p)
    BY <1>0, <1>1 DEF ClaimWorld
  <2>2. world' \in WorldRows
    BY <2>1, WorldRowTypes
  <2> QED
    BY <2>1, <2>2 DEF ClaimedBy, WorldRows
<1>2. ASSUME Holds(world, p), AbortRound(p)
      PROVE  /\ world' \in WorldRows
             /\ world'.claim = None /\ world'.hash = world.hash /\ world'.ran = world.ran
  <2>1. world \in WorldRows
    BY <1>0, <1>2 DEF Holds
  <2>2. world' = [world EXCEPT !.claim = None, !.stale = FALSE]
    BY <1>2 DEF AbortRound, Released
  <2> QED
    BY <2>1, <2>2 DEF WorldRows
<1>3. ASSUME Holds(world, p)
      PROVE  Ran(world) \in WorldRows /\ Ran(world).claim = None /\ Ran(world).hash = world.hash
  <2>1. world \in WorldRows
    BY <1>0, <1>3 DEF Holds
  <2> QED
    BY <2>1, WorldRowTypes DEF Ran, WorldRows
<1>4. ASSUME Holds(world, p), MarkRan(p)
      PROVE  /\ world' \in WorldRows
             /\ world'.claim = None /\ world'.hash = world.hash
             /\ world'.ran = worldview.version
  <2>1. world' = [Ran(world) EXCEPT !.ran = worldview.version]
    BY <1>4 DEF MarkRan
  <2> QED
    BY <1>0, <1>3, <1>4, <2>1 DEF WorldRows
<1>5. ASSUME Holds(world, p), CommitRound(p)
      PROVE  /\ world' \in WorldRows
             /\ world'.claim = None /\ world'.hash = job[p].text
             /\ world'.ran = worldview.version
  <2>1. world' = [Ran(world) EXCEPT !.hash = job[p].text, !.ran = worldview.version]
    BY <1>5 DEF CommitRound
  <2> QED
    BY <1>0, <1>3, <1>5, <2>1 DEF WorldRows
<1> QED
  BY <1>1, <1>2, <1>4, <1>5

\* Who writes the world's row: a sweeper that ensures it or claims it, a round
\* that holds the claim, time, and the erasure.
LEMMA WorldStep ==
    ASSUME WorldInv, [Next]_vars
    PROVE  \/ UNCHANGED world
           \/ CommitErasure
           \/ world = None /\ world' = NewWorld /\ UNCHANGED <<unread, worldview>>
           \/ \E p \in Sweepers :
                \/ ClaimWorld(p)
                \/ Holds(world, p) /\ (MarkRan(p) \/ CommitRound(p) \/ AbortRound(p))
           \/ /\ world # None /\ world' # None
              /\ world'.hash = world.hash /\ world'.ran = world.ran
              /\ world'.claim = world.claim
<1> USE DEF outside, feed, erasure, bounds
<1>0. world \in WorldRows \cup {None}
  BY DEF WorldInv, TypeOK
<1>1. CASE UNCHANGED world
  BY <1>1
<1>2. ASSUME WorldClaimAges \/ IntervalPasses, world' # world
      PROVE  /\ world # None /\ world' # None
             /\ world'.hash = world.hash /\ world'.ran = world.ran
             /\ world'.claim = world.claim
  <2>1. world \in WorldRows
    BY <1>0, <1>2 DEF WorldClaimAges, IntervalPasses
  <2>2. \/ world' = [world EXCEPT !.stale = TRUE]
        \/ world' = [world EXCEPT !.due = TRUE]
    BY <1>2 DEF WorldClaimAges, IntervalPasses
  <2>3. world' \in WorldRows
    BY <2>1, <2>2 DEF WorldRows
  <2> QED
    BY <2>1, <2>2, <2>3, RowAssumption DEF WorldRows
<1>3. ASSUME NEW p \in Sweepers, MarkRan(p) \/ AbortRound(p), ~Holds(world, p)
      PROVE  UNCHANGED world
  BY <1>3 DEF MarkRan, AbortRound, Released
<1>4. ASSUME NEW p \in Sweepers, SweeperStep(p) \/ Crash(p)
      PROVE  \/ UNCHANGED world
             \/ world = None /\ world' = NewWorld /\ UNCHANGED <<unread, worldview>>
             \/ ClaimWorld(p) \/ MarkRan(p) \/ AbortRound(p)
             \/ Holds(world, p) /\ CommitRound(p)
  BY <1>4
  DEF SweeperStep, Crash, EnsureWorld, ReadWorldview, OpenRound, Purge, CommitRound,
      EnsureStory, ClaimStory, ReadStory, CommitStory, AbortStory
<1>5. CASE \E q \in TownSweepers : TownStep(q)
  BY <1>1, <1>5 DEF TownStep, ChoosePost, Speak, GiveUpSpeaking
<1> QED
  BY <1>1, <1>2, <1>3, <1>4, <1>5
  DEF Next, vars, Edit, Enroll, ChangeRoster, StoryClaimAges, Publish, BeginErasure

LEMMA PostStep ==
    ASSUME [Next]_vars
    PROVE  \/ UNCHANGED post
           \/ Publish /\ UNCHANGED <<job, world>>
           \/ CommitErasure
           \/ \E p \in Sweepers : CommitRound(p)
<1> USE DEF outside, feed, erasure, bounds
<1>1. ASSUME NEW p \in Sweepers, SweeperStep(p)
      PROVE  UNCHANGED post \/ CommitRound(p)
  BY <1>1
  DEF SweeperStep, EnsureWorld, ClaimWorld, MarkRan, ReadWorldview, OpenRound, Purge,
      AbortRound, EnsureStory, ClaimStory, ReadStory, CommitStory, AbortStory
<1>2. ASSUME NEW p \in Sweepers, Crash(p)
      PROVE  UNCHANGED post
  BY <1>2 DEF Crash
<1>3. ASSUME NEW q \in TownSweepers, TownStep(q)
      PROVE  UNCHANGED post
  BY <1>3 DEF TownStep, ChoosePost, Speak, GiveUpSpeaking
<1> QED
  BY <1>1, <1>2, <1>3
  DEF Next, vars, Edit, Enroll, ChangeRoster, WorldClaimAges, StoryClaimAges, IntervalPasses,
      Publish, BeginErasure

\* A claim that is held was held, or is just taken; nobody has committed under it.
LEMMA HoldsBefore ==
    ASSUME WorldInv, [Next]_vars, NEW p \in Sweepers, Holds(world, p)'
    PROVE  \/ ClaimWorld(p)
           \/ /\ Holds(world, p) /\ world'.hash = world.hash
              /\ UNCHANGED post \/ Publish
<1>0. world' # None /\ world'.claim = p /\ None # p
  BY NoneAssumption DEF Holds
<1>1. ASSUME NEW q \in Sweepers, ClaimWorld(q) PROVE q = p
  BY <1>0, <1>1, RowEffects
<1>2. ASSUME NEW q \in Sweepers, Holds(world, q),
             MarkRan(q) \/ CommitRound(q) \/ AbortRound(q)
      PROVE  FALSE
  BY <1>0, <1>2, RowEffects
<1>3. ~(\E q \in Sweepers : CommitRound(q)) /\ ~CommitErasure
  BY <1>0, <1>2 DEF CommitRound, CommitErasure
<1>4. NewWorld.claim # p
  BY <1>0 DEF NewWorld
<1>5. ClaimWorld(p) \/ (Holds(world, p) /\ world'.hash = world.hash)
  BY <1>0, <1>1, <1>2, <1>3, <1>4, WorldStep DEF Holds
<1> QED
  BY <1>3, <1>5, PostStep

LEMMA HoldStep ==
    ASSUME WorldInv, [Next]_vars, NEW p \in Sweepers PROVE HoldInv(p)'
<1> SUFFICES ASSUME Holds(world, p)'
             PROVE  HoldInv(p)'
  BY DEF HoldInv
<1> USE DEF Directing, InTransaction
<1>0. job \in [Sweepers -> Jobs] /\ job[p] \in Jobs /\ HoldInv(p)
      /\ post \in Posts \cup {None}
  BY DEF WorldInv, TypeOK
<1>1. ASSUME job'[p].stage \notin Directing PROVE HoldInv(p)'
  BY <1>1 DEF HoldInv
<1>2. CASE ClaimWorld(p) \/ ClaimStory(p) \/ ReadStory(p) \/ job'[p] = NoJob
  <2>1. ASSUME ClaimWorld(p) PROVE job'[p].stage = "claimed"
    BY <1>0, <2>1, JobStages DEF ClaimWorld
  <2>2. ASSUME ClaimStory(p) PROVE job'[p].stage = "chosen"
    BY <1>0, <2>2, JobStages DEF ClaimStory
  <2>3. ASSUME ReadStory(p) PROVE job'[p].stage = "telling"
    BY <1>0, <2>3 DEF ReadStory, Jobs
  <2>4. NoJob.stage = "idle"
    BY DEF NoJob
  <2> QED
    BY <1>1, <1>2, <2>1, <2>2, <2>3, <2>4
<1>3. CASE ReadWorldview(p)
  <2>1. /\ job'[p].stage = "directing" /\ job'[p].text = worldview.text
        /\ job'[p].reset = (world.hash # worldview.text) /\ UNCHANGED world
    BY <1>0, <1>3 DEF ReadWorldview, Jobs
  <2> QED
    BY <2>1 DEF HoldInv
<1>4. CASE ~ClaimWorld(p)
  <2>1. Holds(world, p) /\ world'.hash = world.hash /\ (UNCHANGED post \/ Publish)
    BY <1>4, HoldsBefore
  <2>2. CASE OpenRound(p)
    <3>1. /\ job'[p].stage = "opened" /\ job'[p].text = job[p].text
          /\ job'[p].reset = job[p].reset /\ job'[p].shown = Published
          /\ job[p].stage = "directing" /\ UNCHANGED post
      BY <1>0, <2>2 DEF OpenRound, Jobs, feed
    <3> QED
      BY <1>0, <2>1, <3>1 DEF HoldInv, Published
  <2>3. CASE Purge(p)
    <3>1. /\ job'[p].stage = "purged" /\ job'[p].text = job[p].text
          /\ job'[p].reset = job[p].reset /\ job'[p].shown = job[p].shown
          /\ job'[p].doomed = PostIsDoomed(p)
          /\ job[p].stage = "opened" /\ UNCHANGED post
      BY <1>0, <2>3 DEF Purge, Jobs, feed
    <3> QED
      BY <1>0, <2>1, <3>1 DEF HoldInv, Published, PostIsDoomed
  <2>4. ASSUME NEW told \in SUBSET Tales, job'[p] = [job[p] EXCEPT !.late = told]
        PROVE  HoldInv(p)'
    <3>1. /\ job'[p].stage = job[p].stage /\ job'[p].text = job[p].text
          /\ job'[p].reset = job[p].reset /\ job'[p].shown = job[p].shown
          /\ job'[p].doomed = job[p].doomed
      BY <1>0, <2>4 DEF Jobs
    <3>2. CASE UNCHANGED post
      BY <1>0, <2>1, <3>1, <3>2 DEF HoldInv, Published
    <3>3. CASE Publish
      <4>1. post \in Posts
        BY <1>0, <3>3 DEF Publish
      <4>2. post'.published /\ (InTransaction(p) /\ job[p].reset => post'.straddled)
        BY <3>3, <4>1 DEF Publish, Posts
      <4> QED
        BY <1>0, <2>1, <3>1, <4>2 DEF HoldInv, Published
    <3> QED
      BY <2>1, <3>2, <3>3
  <2> QED
    BY <1>2, <1>3, <2>2, <2>3, <2>4, OwnStep
<1> QED
  BY <1>2, <1>4

-----------------------------------------------------------------------------
(***************************************************************************)
(* Stories, runs and the worldview.                                        *)
(***************************************************************************)

\* Only the erasure takes the world away.
LEMMA WorldKept ==
    ASSUME WorldInv, [Next]_vars, world # None, world' = None PROVE CommitErasure
<1>1. world' \notin WorldRows
  BY RowAssumption
<1> QED
  BY <1>1, WorldStep, RowEffects

\* Who writes the story's row.
LEMMA StoryStep ==
    ASSUME WorldInv, [Next]_vars
    PROVE  \/ UNCHANGED story
           \/ story' = None
           \/ story = None
           \/ \E p \in Sweepers :
                ClaimStory(p) \/ (Holds(story, p) /\ (CommitStory(p) \/ AbortStory(p)))
           \/ story'.claim = story.claim
<1> USE DEF outside, feed, erasure, bounds
<1>1. CASE UNCHANGED story
  BY <1>1
<1>2. ASSUME StoryClaimAges \/ IntervalPasses
      PROVE  UNCHANGED story \/ story'.claim = story.claim
  <2>1. story \in StoryRows \cup {None}
    BY DEF WorldInv, TypeOK
  <2> QED
    BY <1>2, <2>1 DEF StoryClaimAges, IntervalPasses, StoryRows
<1>3. ASSUME NEW p \in Sweepers, AbortStory(p), ~Holds(story, p)
      PROVE  UNCHANGED story
  BY <1>3 DEF AbortStory, Released
<1>4. ASSUME NEW p \in Sweepers, SweeperStep(p) \/ Crash(p)
      PROVE  \/ UNCHANGED story \/ story = None \/ story' = None
             \/ ClaimStory(p) \/ AbortStory(p)
             \/ Holds(story, p) /\ CommitStory(p)
  BY <1>4
  DEF SweeperStep, Crash, EnsureWorld, ClaimWorld, MarkRan, ReadWorldview, OpenRound, Purge,
      CommitRound, AbortRound, EnsureStory, ReadStory, CommitStory
<1>5. CASE \E q \in TownSweepers : TownStep(q)
  BY <1>1, <1>5 DEF TownStep, ChoosePost, Speak, GiveUpSpeaking
<1> QED
  BY <1>1, <1>2, <1>3, <1>4, <1>5
  DEF Next, vars, Edit, Enroll, ChangeRoster, WorldClaimAges, Publish, BeginErasure,
      CommitErasure

LEMMA StoryMade ==
    ASSUME [Next]_vars, story = None
    PROVE  story' = None \/ story' = NewStory
<1> USE DEF outside, feed, erasure, bounds
<1>1. ASSUME NEW p \in Sweepers, SweeperStep(p) \/ Crash(p)
      PROVE  story' = None \/ story' = NewStory
  BY <1>1
  DEF SweeperStep, Crash, EnsureWorld, ClaimWorld, MarkRan, ReadWorldview, OpenRound, Purge,
      CommitRound, AbortRound, EnsureStory, ClaimStory, ReadStory, CommitStory, AbortStory,
      Released, Holds
<1>2. CASE \E q \in TownSweepers : TownStep(q)
  BY <1>2 DEF TownStep, ChoosePost, Speak, GiveUpSpeaking
<1> QED
  BY <1>1, <1>2
  DEF Next, vars, Edit, Enroll, ChangeRoster, WorldClaimAges, StoryClaimAges, IntervalPasses,
      Publish, BeginErasure, CommitErasure

\* Who writes the generated rows.
LEMMA RestStep ==
    ASSUME [Next]_vars
    PROVE  \/ \E p \in Sweepers : CommitRound(p)
           \/ CommitErasure
           \/ BeginErasure
           \/ /\ UNCHANGED <<fragments, late, residue>>
              /\ UNCHANGED tales \/ \E p \in Sweepers : CommitStory(p)
<1> USE DEF outside, feed, erasure, bounds
<1>1. ASSUME NEW p \in Sweepers, SweeperStep(p) \/ Crash(p)
      PROVE  \/ CommitRound(p)
             \/ /\ UNCHANGED <<fragments, late, residue>>
                /\ UNCHANGED tales \/ CommitStory(p)
  BY <1>1
  DEF SweeperStep, Crash, EnsureWorld, ClaimWorld, MarkRan, ReadWorldview, OpenRound, Purge,
      AbortRound, EnsureStory, ClaimStory, ReadStory, CommitStory, AbortStory
<1>2. CASE \E q \in TownSweepers : TownStep(q)
  BY <1>2 DEF TownStep, ChoosePost, Speak, GiveUpSpeaking
<1> QED
  BY <1>1, <1>2
  DEF Next, vars, Edit, Enroll, ChangeRoster, WorldClaimAges, StoryClaimAges, IntervalPasses,
      Publish

LEMMA TellStep ==
    ASSUME WorldInv, [Next]_vars, NEW p \in Sweepers PROVE TellInv(p)'
<1> SUFFICES ASSUME job'[p].stage = "telling", Holds(story, p)', world' = None
             PROVE  FALSE
  BY DEF TellInv
<1>0. /\ job \in [Sweepers -> Jobs] /\ job[p] \in Jobs /\ TellInv(p)
      /\ story \in StoryRows \cup {None}
  BY DEF WorldInv, TypeOK
<1>1. ~CommitErasure
  BY DEF CommitErasure, Holds
<1>2. world = None
  BY <1>1, WorldKept
<1>3. ~ClaimStory(p) /\ ~ReadStory(p)
  <2>1. ASSUME ClaimStory(p) PROVE job'[p].stage = "chosen"
    BY <1>0, <2>1, JobStages DEF ClaimStory
  <2> QED
    BY <1>2, <2>1 DEF ReadStory
<1>4. job[p].stage = "telling"
  <2>1. ~ClaimWorld(p) /\ ~ReadWorldview(p)
    BY <1>2 DEF ClaimWorld, ReadWorldview
  <2>2. ~OpenRound(p) /\ ~Purge(p)
    BY <1>0 DEF OpenRound, Purge, Jobs
  <2>3. NoJob.stage # "telling"
    BY DEF NoJob
  <2>4. ASSUME NEW told \in SUBSET Tales, job'[p] = [job[p] EXCEPT !.late = told]
        PROVE  job'[p].stage = job[p].stage
    BY <1>0, <2>4 DEF Jobs
  <2> QED
    BY <1>3, <2>1, <2>2, <2>3, <2>4, OwnStep
<1>5. ~Holds(story, p)
  BY <1>0, <1>2, <1>4 DEF TellInv
<1>6. story' # None /\ story'.claim = p /\ None # p
  BY NoneAssumption DEF Holds
<1>7. ASSUME NEW q \in Sweepers, ClaimStory(q) PROVE q = p
  BY <1>0, <1>6, <1>7 DEF ClaimStory, ClaimedBy, StoryRows
<1>8. ASSUME NEW q \in Sweepers, Holds(story, q), CommitStory(q) \/ AbortStory(q)
      PROVE  FALSE
  BY <1>0, <1>6, <1>8 DEF CommitStory, AbortStory, Ran, Released, Holds, StoryRows
<1>9. story # None /\ story'.claim = story.claim
  <2>1. story # None
    <3>1. ASSUME story = None PROVE story' = None \/ story' = NewStory
      BY <3>1, StoryMade
    <3> QED
      BY <1>6, <3>1 DEF NewStory
  <2> QED
    BY <1>3, <1>6, <1>7, <1>8, <2>1, StoryStep
<1> QED
  BY <1>5, <1>6, <1>9 DEF Holds

LEMMA RunStep ==
    ASSUME WorldInv, [Next]_vars PROVE RunInv'
<1>0. /\ RunInv /\ worldview.version \in Nat
      /\ world \in WorldRows \cup {None}
  BY DEF WorldInv, TypeOK
<1>1. worldview'.version \in Nat /\ worldview.version <= worldview'.version
  BY <1>0, WorldviewStep
<1>2. worldview'.version = 0 => worldview'.text = None
  BY <1>0, WorldviewStep DEF RunInv
<1>3. world' # None => world'.ran <= worldview'.version
  <2>1. CASE UNCHANGED world
    BY <1>0, <1>1, <2>1 DEF RunInv, WorldRows
  <2>2. ASSUME NEW p \in Sweepers, ClaimWorld(p)
        PROVE  world # None /\ world'.ran = world.ran
    BY <2>2, RowEffects DEF ClaimWorld
  <2>3. ASSUME NEW p \in Sweepers, Holds(world, p), MarkRan(p) \/ CommitRound(p)
        PROVE  world'.ran = worldview.version
    BY <2>3, RowEffects
  <2>4. ASSUME NEW p \in Sweepers, Holds(world, p), AbortRound(p)
        PROVE  world # None /\ world'.ran = world.ran
    BY <2>4, RowEffects DEF Holds
  <2>5. NewWorld.ran = 0
    BY DEF NewWorld
  <2>6. CASE world # None /\ world'.ran = world.ran
    BY <1>0, <1>1, <2>6 DEF RunInv, WorldRows
  <2>7. CASE CommitErasure
    BY <2>7 DEF CommitErasure
  <2> QED
    BY <1>0, <1>1, <2>1, <2>2, <2>3, <2>4, <2>5, <2>6, <2>7, WorldStep
<1>4. world' = None => late' = {}
  <2> SUFFICES ASSUME world' = None PROVE late' = {}
    OBVIOUS
  <2>1. CASE CommitErasure
    BY <2>1 DEF CommitErasure
  <2>2. CASE ~CommitErasure
    <3>1. world = None /\ late = {}
      BY <1>0, <2>2, WorldKept DEF RunInv
    <3>2. ~\E p \in Sweepers : CommitRound(p)
      BY <3>1 DEF CommitRound, Holds
    <3> QED
      BY <2>2, <3>1, <3>2, RestStep DEF BeginErasure
  <2> QED
    BY <2>1, <2>2
<1> QED
  BY <1>2, <1>3, <1>4 DEF RunInv

-----------------------------------------------------------------------------
(***************************************************************************)
(* What the committed round leaves, and what the other steps keep.         *)
(***************************************************************************)

\* A round that commits leaves one worldview: its fragments, and a post to come
\* of its own text; a post that was out before a reset is not current any more,
\* and one published inside the reset is marked.
LEMMA CommitLeaves ==
    ASSUME WorldInv, NEW p \in Sweepers, CommitRound(p)
    PROVE  /\ world' # None /\ world'.hash = worldview.text
           /\ worldview'.text = worldview.text
           /\ \A text \in fragments' \ residue' : text = world'.hash
           /\ (post # None /\ ~post.published => post.text = world.hash)'
           /\ PostInv'
<1> USE DEF outside, feed, erasure, bounds
<1>0. /\ Holds(world, p) /\ job[p].stage = "purged" /\ job[p] \in Jobs
      /\ ReadInv(p) /\ HoldInv(p) /\ OneWorldview /\ PostInv
      /\ post \in Posts \cup {None} /\ world # None
  BY DEF WorldInv, TypeOK, CommitRound, Holds
<1> DEFINE text == job[p].text
           left == IF job[p].reset THEN PostAfterReset(p) ELSE post
<1>1. world' # None /\ world'.hash = text /\ text = worldview.text /\ text \in Texts
  BY <1>0, RowEffects, RowAssumption DEF ReadInv, Directing, InTransaction, CommitRound
<1>2. worldview'.text = worldview.text
  BY DEF CommitRound
<1>3. ~job[p].reset => text = world.hash
  BY <1>0 DEF HoldInv, Directing
<1>4. ASSUME NEW told \in fragments' \ residue' PROVE told = text
  <2>1. CASE job[p].reset
    BY <1>4, <2>1 DEF CommitRound
  <2>2. CASE ~job[p].reset
    <3>1. fragments' = {text} \cup fragments /\ residue' = residue
      BY <2>2 DEF CommitRound
    <3> QED
      BY <1>0, <1>3, <1>4, <2>2, <3>1 DEF OneWorldview
  <2> QED
    BY <2>1, <2>2
<1>5. post' = NewPost(text) \/ post' = left
  BY DEF CommitRound
<1>6. ASSUME left # None PROVE left.published \/ left.text = text
  <2>1. CASE ~job[p].reset
    BY <1>0, <1>3, <1>6, <2>1 DEF OneWorldview
  <2>2. CASE job[p].reset
    <3>1. post # None /\ ~job[p].doomed
      BY <1>6, <2>2 DEF PostAfterReset
    <3>2. post.published
      BY <1>0, <2>2, <3>1 DEF HoldInv
    <3>3. left.published
      BY <1>0, <2>2, <3>1, <3>2 DEF PostAfterReset, Posts
    <3> QED
      BY <3>3
  <2> QED
    BY <2>1, <2>2
<1>7. ASSUME left # None, left.published, left.current, ~left.straddled
      PROVE  left.text = text
  <2>1. CASE ~job[p].reset
    BY <1>0, <1>3, <1>7, <2>1 DEF PostInv, Published
  <2>2. CASE job[p].reset
    <3>1. post # None /\ ~job[p].doomed
      BY <1>7, <2>2 DEF PostAfterReset
    <3>2. Published
      BY <1>0, <2>2, <3>1 DEF HoldInv, Published
    <3>3. CASE job[p].shown
      <4>1. left = [post EXCEPT !.current = FALSE]
        BY <2>2, <3>1, <3>3 DEF PostAfterReset
      <4>2. ~left.current
        BY <1>0, <3>1, <4>1 DEF Posts
      <4> QED
        BY <1>7, <4>2
    <3>4. CASE ~job[p].shown
      <4>1. left = post
        BY <2>2, <3>1, <3>4 DEF PostAfterReset
      <4>2. post.straddled
        BY <1>0, <2>2, <3>2, <3>4 DEF HoldInv, InTransaction
      <4> QED
        BY <1>7, <4>1, <4>2
    <3> QED
      BY <3>3, <3>4
  <2> QED
    BY <2>1, <2>2
<1>8. NewPost(text).text = text /\ ~NewPost(text).published
  BY DEF NewPost
<1> HIDE DEF left
<1>9. (post # None /\ ~post.published => post.text = world.hash)'
  <2> SUFFICES ASSUME post' # None, ~post'.published PROVE post'.text = text
    BY <1>1
  <2> QED
    BY <1>5, <1>6, <1>8
<1>10. PostInv'
  <2> SUFFICES ASSUME post' # None, post'.published, post'.current, ~post'.straddled
               PROVE  post'.text = text
    BY <1>1 DEF PostInv, Published
  <2> QED
    BY <1>5, <1>7, <1>8
<1> QED
  BY <1>1, <1>2, <1>4, <1>9, <1>10

\* The steps that neither commit nor erase keep the hash of a world that is there.
LEMMA HashKept ==
    ASSUME WorldInv, [Next]_vars, world # None, ~CommitErasure,
           \A p \in Sweepers : ~CommitRound(p)
    PROVE  world' # None /\ world'.hash = world.hash
<1>1. world' # None
  BY WorldKept
<1>2. ASSUME NEW p \in Sweepers, ClaimWorld(p) PROVE world'.hash = world.hash
  BY <1>2, RowEffects
<1>3. ASSUME NEW p \in Sweepers, Holds(world, p), MarkRan(p) \/ AbortRound(p)
      PROVE  world'.hash = world.hash
  BY <1>3, RowEffects
<1> QED
  BY <1>1, <1>2, <1>3, WorldStep

LEMMA OneWorldStep ==
    ASSUME WorldInv, [Next]_vars PROVE OneWorldview'
<1>0. /\ OneWorldview /\ RunInv
      /\ post \in Posts \cup {None} /\ job \in [Sweepers -> Jobs]
  BY DEF WorldInv, TypeOK
<1>1. CASE \E p \in Sweepers : CommitRound(p)
  BY <1>1, CommitLeaves DEF OneWorldview
<1>2. CASE CommitErasure
  BY <1>2 DEF CommitErasure, OneWorldview
<1>3. CASE ~CommitErasure /\ \A p \in Sweepers : ~CommitRound(p)
  <2>1. ASSUME ~post'.published PROVE post' = post
    <3>1. ASSUME Publish PROVE post'.published
      BY <1>0, <3>1 DEF Publish, Posts
    <3> QED
      BY <1>3, <2>1, <3>1, PostStep
  <2>2. UNCHANGED <<fragments, residue>>
    BY <1>3, RestStep DEF BeginErasure, erasure
  <2>3. CASE world # None
    <3>1. world' # None /\ world'.hash = world.hash
      BY <1>3, <2>3, HashKept
    <3> QED
      BY <1>0, <2>1, <2>2, <2>3, <3>1 DEF OneWorldview
  <2>4. CASE world = None
    <3>1. fragments \subseteq residue /\ tales = {} /\ post = None /\ late = {}
      BY <1>0, <2>4 DEF OneWorldview, RunInv
    <3>2. UNCHANGED post
      BY <1>3, <3>1, PostStep DEF Publish
    <3>3. ASSUME NEW p \in Sweepers, CommitStory(p) PROVE FALSE
      BY <2>4, <3>3 DEF CommitStory, WorldInv, TellInv
    <3>4. UNCHANGED tales
      BY <1>3, <3>3, RestStep DEF BeginErasure
    <3> QED
      BY <2>2, <3>1, <3>2, <3>4 DEF OneWorldview
  <2> QED
    BY <2>3, <2>4
<1> QED
  BY <1>1, <1>2, <1>3

LEMMA PostInvStep ==
    ASSUME WorldInv, [Next]_vars PROVE PostInv'
<1>0. /\ OneWorldview /\ PostInv
      /\ post \in Posts \cup {None}
  BY DEF WorldInv, TypeOK
<1>1. CASE \E p \in Sweepers : CommitRound(p)
  BY <1>1, CommitLeaves
<1>2. CASE CommitErasure
  BY <1>2 DEF CommitErasure, PostInv
<1>3. CASE ~CommitErasure /\ \A p \in Sweepers : ~CommitRound(p)
  <2>1. CASE world = None
    <3>1. post = None
      BY <1>0, <2>1 DEF OneWorldview
    <3>2. post' = None
      BY <1>3, <3>1, PostStep DEF Publish
    <3> QED
      BY <3>2 DEF PostInv, Published
  <2>2. CASE world # None
    <3>1. world' # None /\ world'.hash = world.hash
      BY <1>3, <2>2, HashKept
    <3>2. CASE UNCHANGED post
      BY <1>0, <2>2, <3>1, <3>2 DEF PostInv, Published
    <3>3. CASE Publish
      <4>1. post # None /\ ~post.published /\ post'.text = post.text
        BY <1>0, <3>3 DEF Publish, Posts
      <4> QED
        BY <1>0, <2>2, <3>1, <4>1 DEF OneWorldview, PostInv
    <3> QED
      BY <1>3, <3>2, <3>3, PostStep
  <2> QED
    BY <2>1, <2>2
<1> QED
  BY <1>1, <1>2, <1>3

LEMMA UnreadStep ==
    ASSUME [Next]_vars, ~CommitErasure,
           \A p \in Sweepers : ~CommitRound(p) /\ ~(MarkRan(p) /\ Holds(world, p))
    PROVE  UNCHANGED unread
<1> USE DEF outside, feed, erasure, bounds
<1>1. ASSUME NEW p \in Sweepers, SweeperStep(p) \/ Crash(p)
      PROVE  UNCHANGED unread
  BY <1>1
  DEF SweeperStep, Crash, EnsureWorld, ClaimWorld, MarkRan, ReadWorldview, OpenRound, Purge,
      AbortRound, EnsureStory, ClaimStory, ReadStory, CommitStory, AbortStory
<1>2. CASE \E q \in TownSweepers : TownStep(q)
  BY <1>2 DEF TownStep, ChoosePost, Speak, GiveUpSpeaking
<1> QED
  BY <1>1, <1>2
  DEF Next, vars, Edit, Enroll, ChangeRoster, WorldClaimAges, StoryClaimAges, IntervalPasses,
      Publish, BeginErasure

LEMMA SpokenStep ==
    ASSUME [Next]_vars
    PROVE  UNCHANGED words \/ \E q \in TownSweepers : Speak(q)
<1> USE DEF outside, feed, erasure, bounds
<1>1. ASSUME NEW p \in Sweepers, SweeperStep(p) \/ Crash(p)
      PROVE  UNCHANGED words
  BY <1>1
  DEF SweeperStep, Crash, EnsureWorld, ClaimWorld, MarkRan, ReadWorldview, OpenRound, Purge,
      CommitRound, AbortRound, EnsureStory, ClaimStory, ReadStory, CommitStory, AbortStory
<1> QED
  BY <1>1
  DEF Next, vars, Edit, Enroll, ChangeRoster, WorldClaimAges, StoryClaimAges, IntervalPasses,
      Publish, BeginErasure, CommitErasure, TownStep, ChoosePost, GiveUpSpeaking

LEMMA ChangesStep ==
    ASSUME WorldInv, [Next]_vars PROVE ChangesAreTaken'
<1> SUFFICES ASSUME world' # None, worldview'.text # None,
                    world'.ran >= worldview'.version, ~unread'
             PROVE  world'.hash = worldview'.text
  BY DEF ChangesAreTaken, Usable
<1>0. /\ ChangesAreTaken /\ RunInv /\ world \in WorldRows \cup {None}
      /\ worldview.version \in Nat
  BY DEF WorldInv, TypeOK
<1>1. CASE \E p \in Sweepers : CommitRound(p)
  BY <1>1, CommitLeaves
<1>2. ~CommitErasure
  BY DEF CommitErasure
<1>3. CASE ~UNCHANGED worldview
  <2>1. worldview'.version = worldview.version + 1 /\ world' = world
    BY <1>3, WorldviewStep
  <2> QED
    BY <1>0, <2>1 DEF RunInv, WorldRows
<1>4. CASE UNCHANGED worldview /\ ~(\E p \in Sweepers : CommitRound(p))
  <2>1. ASSUME NEW p \in Sweepers, MarkRan(p), Holds(world, p)
        PROVE  world'.hash = worldview'.text
    <3>1. world'.hash = world.hash
      BY <2>1, RowEffects
    <3>2. unread' = (unread \/ world.hash # worldview.text)
      BY <2>1 DEF MarkRan
    <3> QED
      BY <1>4, <3>1, <3>2
  <2>2. CASE world = None
    <3>1. world' = NewWorld
      BY <1>2, <1>4, <2>2, WorldStep DEF ClaimWorld, Holds
    <3>2. worldview.version = 0
      BY <1>0, <1>4, <3>1 DEF NewWorld
    <3> QED
      BY <1>0, <1>4, <3>2 DEF RunInv
  <2>3. CASE world # None /\ ~\E p \in Sweepers : MarkRan(p) /\ Holds(world, p)
    <3>1. ASSUME NEW p \in Sweepers, ClaimWorld(p) \/ (Holds(world, p) /\ AbortRound(p))
          PROVE  world'.hash = world.hash /\ world'.ran = world.ran
      BY <3>1, RowEffects
    <3>2. world'.hash = world.hash /\ world'.ran = world.ran
      BY <1>2, <1>4, <2>3, <3>1, WorldStep
    <3>3. unread' = unread
      BY <1>2, <1>4, <2>3, UnreadStep
    <3> QED
      BY <1>0, <1>4, <2>3, <3>2, <3>3 DEF ChangesAreTaken, Usable
  <2> QED
    BY <2>1, <2>2, <2>3
<1> QED
  BY <1>1, <1>3, <1>4

LEMMA WordsStep ==
    ASSUME WorldInv, [Next]_vars PROVE NoWordsOnOldPosts'
<1>0. NoWordsOnOldPosts /\ PostInv
  BY DEF WorldInv
<1>1. ASSUME NEW q \in TownSweepers, Speak(q) PROVE NoWordsOnOldPosts'
  <2>1. CASE post.straddled
    BY <1>0, <1>1, <2>1 DEF Speak, NoWordsOnOldPosts
  <2>2. CASE ~post.straddled
    <3>1. post.text = world.hash
      BY <1>0, <1>1, <2>2 DEF Speak, Addressable, PostInv
    <3>2. words' = words \cup {<<post.text, world.hash>>}
      BY <1>1, <2>2 DEF Speak
    <3> QED
      BY <1>0, <3>1, <3>2 DEF NoWordsOnOldPosts
  <2> QED
    BY <2>1, <2>2
<1>2. CASE UNCHANGED words
  BY <1>0, <1>2 DEF NoWordsOnOldPosts
<1> QED
  BY <1>1, <1>2, SpokenStep

LEMMA WorldInvStep == WorldInv /\ [Next]_vars => WorldInv'
<1> SUFFICES ASSUME WorldInv, [Next]_vars PROVE WorldInv'
  OBVIOUS
<1> QED
  BY TypeStep, RunStep, ReadStep, HoldStep, TellStep, OneWorldStep, PostInvStep, ChangesStep,
     WordsStep
  DEF WorldInv

LEMMA WorldInvariant == Spec => []WorldInv
  BY WorldInit, WorldInvStep, PTL DEF Spec

-----------------------------------------------------------------------------
(***************************************************************************)
(* The theorems.                                                           *)
(***************************************************************************)

\* Every reachable state of an owner's world is well typed, for any texts, any
\* number of sweepers and any bounds.
THEOREM TypeCorrectness == Spec => []TypeOK
<1>1. WorldInv => TypeOK
  BY DEF WorldInv
<1> QED
  BY <1>1, WorldInvariant, PTL

\* Whatever rounds overlap, crash or outlive their claim, the fragments and the
\* post to come are of one worldview, the one the last committed round ran on,
\* and an erased owner has no row but the fragments that slipped in behind the
\* erasure's first delete.
THEOREM OneWorld == Spec => []OneWorldview
<1>1. WorldInv => OneWorldview
  BY DEF WorldInv
<1> QED
  BY <1>1, WorldInvariant, PTL

\* A run that is recorded after a change of the worldview has read the change:
\* the round's transaction commits on the version it read or not at all.
THEOREM NoLostChange == Spec => []ChangesAreTaken
<1>1. WorldInv => ChangesAreTaken
  BY DEF WorldInv
<1> QED
  BY <1>1, WorldInvariant, PTL

\* A persona's comment or reply lands on a post of the worldview in force,
\* however long its model call took and whatever committed meanwhile.
THEOREM WordsOfTheDay == Spec => []NoWordsOnOldPosts
<1>1. WorldInv => NoWordsOnOldPosts
  BY DEF WorldInv
<1> QED
  BY <1>1, WorldInvariant, PTL

\* A step that takes a fresh claim from its row is the end of that claim's own
\* round: no other worker releases, records or takes over under it.
LEMMA FreshClaimStep ==
    ASSUME WorldInv, [Next]_vars, NEW p \in Sweepers
    PROVE  /\ /\ world # None /\ world' # None
              /\ world.claim = p /\ ~world.stale /\ world'.claim # p
              => job[p].stage \in {"claimed", "directing", "opened", "purged"} /\ job'[p] = NoJob
           /\ /\ story # None /\ story' # None
              /\ story.claim = p /\ ~story.stale /\ story'.claim # p
              => job[p].stage \in {"chosen", "telling"} /\ job'[p] = NoJob
<1>0. job \in [Sweepers -> Jobs] /\ None # p
  BY NoneAssumption DEF WorldInv, TypeOK
<1>1. ASSUME world # None, world' # None, world.claim = p, ~world.stale, world'.claim # p
      PROVE  job[p].stage \in {"claimed", "directing", "opened", "purged"} /\ job'[p] = NoJob
  <2>1. ASSUME NEW q \in Sweepers, ClaimWorld(q) PROVE FALSE
    BY <1>0, <1>1, <2>1 DEF ClaimWorld, Claimable
  <2>2. ASSUME NEW q \in Sweepers, Holds(world, q) PROVE q = p
    BY <1>1, <2>2 DEF Holds
  <2>3. MarkRan(p) \/ CommitRound(p) \/ AbortRound(p)
    BY <1>1, <2>1, <2>2, WorldStep DEF CommitErasure
  <2> QED
    BY <1>0, <2>3 DEF MarkRan, CommitRound, AbortRound
<1>2. ASSUME story # None, story' # None, story.claim = p, ~story.stale, story'.claim # p
      PROVE  job[p].stage \in {"chosen", "telling"} /\ job'[p] = NoJob
  <2>1. ASSUME NEW q \in Sweepers, ClaimStory(q) PROVE FALSE
    BY <1>0, <1>2, <2>1 DEF ClaimStory, Claimable
  <2>2. ASSUME NEW q \in Sweepers, Holds(story, q) PROVE q = p
    BY <1>2, <2>2 DEF Holds
  <2>3. CommitStory(p) \/ AbortStory(p)
    BY <1>2, <2>1, <2>2, StoryStep
  <2> QED
    BY <1>0, <2>3 DEF CommitStory, AbortStory
<1> QED
  BY <1>1, <1>2

\* The token keeps a fresh claim with its round, for any number of sweepers.
THEOREM FreshClaimKept == Spec => FreshClaimStands
<1>1. WorldInv /\ [Next]_vars
      => [\A p \in Sweepers :
            /\ /\ world # None /\ world' # None
               /\ world.claim = p /\ ~world.stale /\ world'.claim # p
               => job[p].stage \in {"claimed", "directing", "opened", "purged"}
                  /\ job'[p] = NoJob
            /\ /\ story # None /\ story' # None
               /\ story.claim = p /\ ~story.stale /\ story'.claim # p
               => job[p].stage \in {"chosen", "telling"} /\ job'[p] = NoJob]_vars
  BY FreshClaimStep
<1> QED
  BY <1>1, WorldInvariant, PTL DEF Spec, FreshClaimStands
==============================================================================
