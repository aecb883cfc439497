----------------------------- MODULE ReplyBurst -----------------------------
(***************************************************************************)
(* The turn generator's reply: drive_chat_burst walks the chain of chat    *)
(* models, in live mode streaming every attempt to the client as it comes, *)
(* in filtered mode buffering the attempts and streaming the output        *)
(* filter's rewrite; run_stream_with runs the burst or, by the plan of the *)
(* turn, a ghost, a picture or a product answer, closes the turn with a    *)
(* Final or an Error frame and hands the reply to post-processing;         *)
(* drive_to_exhaustion and settle_turn judge the drive by its frames, and  *)
(* replay_stream retells the turn from its stored rows.                    *)
(*                                                                         *)
(* One turn is followed, over as many drives as the queue allows it.  What *)
(* a model says is reduced to which kinds of text it holds: words, text an *)
(* output_regex rule strips, undecoded bytes.                              *)
(*                                                                         *)
(* A definition placed just before another, same parameters, that no other *)
(* definition uses is a mutant of it: the bug a property is there to catch.*)
(***************************************************************************)
EXTENDS Integers, Sequences, FiniteSets, Functions

CONSTANTS
    ChainLength,   \* candidates of the chat chain
    FilterLength,  \* candidates of the output filter's chain
    MaxDrives,     \* drives the queue allows the turn
    MaxFaults      \* bound on failed inserts

ASSUME ChainAssumption == ChainLength \in Nat \ {0} /\ FilterLength \in Nat \ {0}
ASSUME BoundAssumption == MaxDrives \in Nat \ {0} /\ MaxFaults \in Nat

Hops == 1..ChainLength
FilterHops == 1..FilterLength

\* What a stream may hold: words, an artifact some output_regex rule strips,
\* byte-level BPE the provider failed to decode.
Pieces == {"words", "artifact", "garble"}

\* Who wrote a text: a candidate, a filter candidate, the configured phrase.
By(h) == <<"hop", h>>
Rewrite(k) == <<"filter", k>>
Phrase == <<"phrase", 0>>
Nobody == <<"nobody", 0>>
Authors ==
    {By(h) : h \in Hops} \cup {Rewrite(k) : k \in FilterHops} \cup {Phrase, Nobody}

\* A genuine failure is named by the candidate it happened on; the verdict on
\* the whole chain is one more.
ChainExhausted == <<"chain", 0>>
Failures ==
    {By(h) : h \in Hops} \cup {Rewrite(k) : k \in FilterHops} \cup {ChainExhausted}

\* A message is named by its drive and its place in it.
Ids == (1..MaxDrives) \X (Nat \ {0})
NoId == <<0, 0>>

Actions == {"reply", "reply_with_image", "image", "ghost", "product_qa"}

\* The plans: only a reply may be filtered, or run on the user's own key; a reply
\* or a picture may respond to an action of the user's.
Plans ==
    {p \in [action : Actions, filtered : BOOLEAN, byokOnly : BOOLEAN, responds : BOOLEAN] :
        /\ p.filtered \/ p.byokOnly => p.action \in {"reply", "reply_with_image"}
        /\ p.responds => p.action \in {"reply", "reply_with_image", "image"}}

VARIABLES
    turn,       \* the turn's plan
    \* engine.chat_messages
    rows,       \* the assistant rows of the turn, oldest first
    ghosted,    \* ghost_decision of its user row
    \* the frames of the drive
    bubbles,    \* one per Meta, with its Deltas and its Done
    told,       \* the closing frame, "none", "final" or "error"
    reported,   \* the failures the final frame carries
    pictured,   \* the message the image_request frame names
    \* the drive
    drive,      \* drives so far
    pc,         \* where the drive is
    hop,        \* the candidate at work
    acc,        \* what it has streamed
    cut,        \* the attempt is truncated
    failures,   \* chain_failures
    garble,     \* last_complete_garble, the candidate it came from
    filterHop,  \* the filter candidate at work
    go,         \* its text has passed the holdback
    visible,    \* the text that concludes the turn
    produced,   \* outcome.produced: the messages for post-processing
    ghost,      \* outcome.ghost_fallback
    failed,     \* every genuine failure of the drive, for the properties
    \* what outlives the drive
    learned,    \* the messages post-processing was given
    verdict,    \* the queue's: "open", "done" or "failed"
    faults

stored == <<rows, ghosted>>
wire == <<bubbles, told, reported, pictured>>
attempt == <<hop, acc, cut, filterHop, go, visible>>
outcome == <<produced, ghost>>
chain == <<failures, garble, failed>>
vars == <<turn, stored, wire, drive, pc, attempt, outcome, chain, learned, verdict, faults>>

Working == {"open", "reading", "read", "closing", "filtering", "concluding",
            "exhausted", "replacing", "over"}

AssistantRows ==
    [id : Ids, text : Authors, cut : BOOLEAN, ghost : BOOLEAN, from : Ids \cup {NoId},
     failures : SUBSET Failures]
Bubbles ==
    [id : Ids, by : SUBSET Authors, state : {"open", "cut", "served"}, ghost : BOOLEAN,
     from : Ids \cup {NoId}]

TypeOK ==
    /\ turn \in Plans
    /\ rows \in Seq(AssistantRows) /\ ghosted \in BOOLEAN
    /\ bubbles \in Seq(Bubbles)
    /\ told \in {"none", "final", "error"}
    /\ reported \subseteq Failures
    /\ pictured \in Ids \cup {NoId}
    /\ drive \in 0..MaxDrives
    /\ pc \in Working \cup {"responding", "idle", "settling"}
    /\ hop \in Hops /\ filterHop \in FilterHops /\ garble \in Hops \cup {0}
    /\ acc \subseteq Pieces
    /\ cut \in BOOLEAN /\ go \in BOOLEAN /\ ghost \in BOOLEAN
    /\ visible \in Authors
    /\ failures \subseteq Failures /\ failed \subseteq Failures
    /\ produced \in Seq(Ids)
    /\ learned \subseteq Ids
    /\ verdict \in {"open", "done", "failed"}
    /\ faults \in 0..MaxFaults

Init ==
    /\ turn \in Plans
    /\ rows = <<>> /\ bubbles = <<>> /\ produced = <<>>
    /\ told = "none" /\ pc = "idle" /\ verdict = "open"
    /\ reported = {} /\ failures = {} /\ failed = {} /\ learned = {} /\ acc = {}
    /\ pictured = NoId /\ visible = Nobody
    /\ drive = 0 /\ garble = 0 /\ faults = 0 /\ hop = 1 /\ filterHop = 1
    /\ cut = FALSE /\ go = FALSE /\ ghost = FALSE /\ ghosted = FALSE

-----------------------------------------------------------------------------
\* Rows and frames.

Current == bubbles[Len(bubbles)]
FreshId == <<drive, Len(bubbles) + 1>>
LastId == IF bubbles = <<>> THEN NoId ELSE Current.id

\* The elements of a sequence at the places S, in their order.
At(seq, S) ==
    LET kept[n \in 0..Len(seq)] ==
          IF n = 0 THEN <<>>
          ELSE IF n \in S THEN Append(kept[n - 1], seq[n]) ELSE kept[n - 1]
    IN  kept[Len(seq)]

Opened(id, from) ==
    [id |-> id, by |-> {}, state |-> "open", ghost |-> FALSE, from |-> from]
Said(b, author) == [b EXCEPT !.by = @ \cup ({author} \ {Nobody})]
Closed(b, isCut, isGhost) ==
    [b EXCEPT !.state = IF isCut THEN "cut" ELSE "served", !.ghost = isGhost]
OnLast(b) == [bubbles EXCEPT ![Len(bubbles)] = b]

Row(id, text, isCut, isGhost, from, told_) ==
    [id |-> id, text |-> text, cut |-> isCut, ghost |-> isGhost, from |-> from,
     failures |-> told_]

\* insert_assistant_batch, its failure only logged.  A row that continues a row
\* which was never stored breaks the foreign key, and fails with it.
Insert(row) ==
    /\ UNCHANGED ghosted
    /\ \/ /\ row.from \in {NoId} \cup {rows[i].id : i \in DOMAIN rows}
          /\ rows' = Append(rows, row)
          /\ UNCHANGED faults
       \/ /\ row.from \notin {NoId} \cup {rows[i].id : i \in DOMAIN rows}
          /\ UNCHANGED <<rows, faults>>
       \/ /\ faults < MaxFaults
          /\ faults' = faults + 1
          /\ UNCHANGED rows

\* drive_turn's guard: any assistant row, or the ghost mark.
Answered == rows # <<>> \/ ghosted

Replying == turn.action \in {"reply", "reply_with_image"}
Asking == turn.action = "product_qa"
PromisesImage == turn.action \in {"reply_with_image", "image"}
Live == Replying /\ ~turn.filtered

AtLastHop == hop = ChainLength

\* The next candidate starts afresh.
NextHop ==
    /\ hop' = hop + 1
    /\ acc' = {}
    /\ cut' = FALSE
    /\ UNCHANGED <<filterHop, go, visible>>

-----------------------------------------------------------------------------
\* The chat chain, both modes.

StartUnguarded ==
    /\ verdict = "open" /\ pc = "idle" /\ drive < MaxDrives
    /\ drive' = drive + 1 /\ pc' = "open"
    /\ bubbles' = <<>> /\ produced' = <<>> /\ told' = "none" /\ reported' = {}
    /\ pictured' = NoId /\ visible' = Nobody
    /\ hop' = 1 /\ filterHop' = 1 /\ garble' = 0
    /\ acc' = {} /\ failures' = {} /\ failed' = {}
    /\ cut' = FALSE /\ go' = FALSE /\ ghost' = FALSE
    /\ UNCHANGED <<turn, stored, learned, verdict, faults>>

\* drive_turn: a turn with any assistant row is not driven again.
Start ==
    /\ verdict = "open" /\ pc = "idle" /\ drive < MaxDrives
    /\ ~Answered
    /\ drive' = drive + 1 /\ pc' = "open"
    /\ bubbles' = <<>> /\ produced' = <<>> /\ told' = "none" /\ reported' = {}
    /\ pictured' = NoId /\ visible' = Nobody
    /\ hop' = 1 /\ filterHop' = 1 /\ garble' = 0
    /\ acc' = {} /\ failures' = {} /\ failed' = {}
    /\ cut' = FALSE /\ go' = FALSE /\ ghost' = FALSE
    /\ UNCHANGED <<turn, stored, learned, verdict, faults>>

AlreadyServed ==
    /\ verdict = "open" /\ pc = "idle" /\ Answered
    /\ verdict' = "done"
    /\ UNCHANGED <<turn, stored, wire, drive, pc, attempt, outcome, chain, learned, faults>>

\* A live attempt shows its Meta before it is opened; a buffered one waits; the
\* candidates of a product answer share one.
Open ==
    /\ pc = "open" /\ (Replying \/ Asking)
    /\ bubbles' = IF Live \/ (Asking /\ bubbles = <<>>)
                  THEN Append(bubbles, Opened(FreshId, LastId)) ELSE bubbles
    /\ pc' = "reading"
    /\ UNCHANGED <<turn, stored, told, reported, pictured, drive, attempt, outcome, chain,
                   learned, verdict, faults>>

\* A chunk.  The scrubber keeps what an output_regex rule strips off the wire;
\* a product answer knows neither rules nor the garble guard.
Chunk(p) ==
    /\ pc = "reading"
    /\ p \notin acc /\ (Asking => p = "words")
    /\ acc' = acc \cup {p}
    /\ bubbles' = IF turn.filtered \/ p = "artifact" THEN bubbles
                  ELSE OnLast(Said(Current, By(hop)))
    /\ UNCHANGED <<turn, stored, told, reported, pictured, drive, pc, hop, cut, filterHop, go,
                   visible, outcome, chain, learned, verdict, faults>>

\* finish_reason length or content_filter: a content verdict, not a failure.
FinishCut ==
    /\ pc = "reading"
    /\ ~cut
    /\ cut' = TRUE
    /\ UNCHANGED <<turn, stored, wire, drive, pc, hop, acc, filterHop, go, visible, outcome,
                   chain, learned, verdict, faults>>

\* The open or a chunk fails, or a deadline passes.
AttemptFails ==
    /\ pc = "reading"
    /\ cut' = TRUE
    /\ failures' = failures \cup {By(hop)}
    /\ failed' = failed \cup {By(hop)}
    /\ pc' = "read"
    /\ UNCHANGED <<turn, stored, wire, drive, hop, acc, filterHop, go, visible, outcome, garble,
                   learned, verdict, faults>>

EndOfStream ==
    /\ pc = "reading"
    /\ pc' = "read"
    /\ UNCHANGED <<turn, stored, wire, drive, attempt, outcome, chain, learned, verdict, faults>>

Empty == ~cut /\ acc = {}
Garbled == "garble" \in acc
ArtifactOnly == acc = {"artifact"}

-----------------------------------------------------------------------------
\* Live mode.

SupersededUnlessEmpty == cut \/ Garbled
\* The attempt does not conclude the turn: cut short, undecoded, or empty with
\* a candidate left.
Superseded == cut \/ Garbled \/ (Empty /\ ~AtLastHop)

LiveGhost == ~PromisesImage /\ ~Superseded /\ (Empty \/ ArtifactOnly)

\* What the row holds: of a concluding attempt the text with the rules applied.
LiveText == IF acc = {} \/ (ArtifactOnly /\ ~Superseded) THEN Nobody ELSE By(hop)

ListedOnEvery == failures
\* The failures go on the row that concludes the turn.
Listed == IF Superseded THEN {} ELSE failures

\* The attempt is over: its row is stored before its Done frame.
Persist ==
    /\ pc = "read" /\ Live
    /\ Insert(Row(Current.id, LiveText, Superseded, LiveGhost, Current.from, Listed))
    /\ garble' = IF Garbled /\ ~cut THEN hop ELSE garble
    /\ cut' = Superseded
    /\ visible' = LiveText
    /\ ghost' = LiveGhost
    /\ produced' = Append(produced, Current.id)
    /\ pc' = "closing"
    /\ UNCHANGED <<turn, wire, drive, hop, acc, filterHop, go, failures, failed, learned, verdict>>

AllProduced == produced
\* Only the accepted reply reaches post-processing.
Retained == At(produced, {i \in DOMAIN produced : produced[i] = Current.id})

\* Done.  A concluding attempt ends the burst, the last one to fail exhausts
\* the chain, any other hands over to the next candidate.  A product answer cut
\* short is an answer.
Done ==
    /\ pc = "closing"
    /\ bubbles' = OnLast(Closed(Current, cut, ghost))
    /\ IF cut THEN UNCHANGED produced ELSE produced' = Retained
    /\ \/ (~cut \/ Asking) /\ pc' = "over" /\ UNCHANGED attempt
       \/ cut /\ Live /\ AtLastHop /\ pc' = "exhausted" /\ UNCHANGED attempt
       \/ cut /\ Live /\ ~AtLastHop /\ pc' = "open" /\ NextHop
    /\ UNCHANGED <<turn, stored, told, reported, pictured, drive, ghost, chain, learned, verdict,
                   faults>>

-----------------------------------------------------------------------------
\* Filtered mode.

\* An empty completion moves on; the last one is a ghost, stored and then shown.
EmptyBuffered ==
    /\ pc = "read" /\ turn.filtered /\ Empty
    /\ \/ /\ ~AtLastHop
          /\ NextHop
          /\ pc' = "open"
          /\ UNCHANGED <<stored, bubbles, outcome, faults>>
       \/ /\ AtLastHop
          /\ Insert(Row(FreshId, Nobody, FALSE, ~PromisesImage, NoId, failures))
          /\ ghost' = ~PromisesImage
          /\ produced' = Append(produced, FreshId)
          /\ bubbles' = Append(bubbles, Opened(FreshId, NoId))
          /\ pc' = "closing"
          /\ UNCHANGED attempt
    /\ UNCHANGED <<turn, told, reported, pictured, drive, chain, learned, verdict>>

CutBuffered ==
    /\ pc = "read" /\ turn.filtered /\ cut
    /\ \/ ~AtLastHop /\ NextHop /\ pc' = "open"
       \/ AtLastHop /\ pc' = "exhausted" /\ UNCHANGED attempt
    /\ UNCHANGED <<turn, stored, wire, drive, outcome, chain, learned, verdict, faults>>

\* The attempt served: its Meta, the regex strip, then the filter, unless the
\* strip left nothing or the filter is not for this model.
ServeBuffered ==
    /\ pc = "read" /\ turn.filtered /\ ~Empty /\ ~cut
    /\ bubbles' = Append(bubbles, Opened(FreshId, NoId))
    /\ \/ /\ ArtifactOnly
          /\ pc' = "concluding" /\ visible' = Nobody
       \/ /\ ~ArtifactOnly
          /\ pc' = "concluding" /\ visible' = By(hop)
       \/ /\ ~ArtifactOnly
          /\ pc' = "filtering" /\ UNCHANGED visible
    /\ filterHop' = 1 /\ go' = FALSE
    /\ UNCHANGED <<turn, stored, told, reported, pictured, drive, hop, acc, cut, outcome, chain,
                   learned, verdict, faults>>

\* Enough of the rewrite is stable and its head is no refusal: deltas flow.
FilterPassesHead ==
    /\ pc = "filtering" /\ ~go
    /\ go' = TRUE
    /\ bubbles' = OnLast(Said(Current, Rewrite(filterHop)))
    /\ UNCHANGED <<turn, stored, told, reported, pictured, drive, pc, hop, acc, cut, filterHop,
                   visible, outcome, chain, learned, verdict, faults>>

SameBubble == bubbles
\* AttemptAborted with text shown: the bubble is closed and a fresh one opened.
Supersede ==
    Append(OnLast(Closed(Current, TRUE, FALSE)), Opened(FreshId, NoId))

OnlyOnServing(fs) == IF filterHop = FilterLength THEN failures ELSE fs
\* The filter chain's failures join the chat chain's, served or failed open.
Joined(fs) == fs

\* A filter attempt fails, is a refusal, is cut by its provider or fails the
\* validity gate: the next candidate, or the original after the last.
FilterAborts(isFailure) ==
    LET fs == IF isFailure THEN {Rewrite(filterHop)} ELSE {} IN
    /\ pc = "filtering"
    /\ bubbles' = IF go THEN Supersede ELSE bubbles
    /\ failures' = Joined(failures \cup fs)
    /\ failed' = failed \cup fs
    /\ go' = FALSE
    /\ \/ /\ filterHop < FilterLength
          /\ filterHop' = filterHop + 1
          /\ UNCHANGED <<pc, visible>>
       \/ /\ filterHop = FilterLength
          /\ pc' = "concluding" /\ visible' = By(hop)
          /\ UNCHANGED filterHop
    /\ UNCHANGED <<turn, stored, told, reported, pictured, drive, hop, acc, cut, outcome, garble,
                   learned, verdict, faults>>

\* The rewrite is complete, shown whole if it never reached the holdback.
FilterServes ==
    /\ pc = "filtering"
    /\ bubbles' = OnLast(Said(Current, Rewrite(filterHop)))
    /\ visible' = Rewrite(filterHop)
    /\ pc' = "concluding"
    /\ UNCHANGED <<turn, stored, told, reported, pictured, drive, hop, acc, cut, filterHop, go,
                   outcome, chain, learned, verdict, faults>>

ConcludeAsFirstShown ==
    /\ pc = "concluding"
    /\ LET isGhost == visible = Nobody /\ ~PromisesImage IN
       /\ Insert(Row(bubbles[1].id, visible, FALSE, isGhost, NoId, failures))
       /\ ghost' = isGhost
    /\ bubbles' = OnLast(Said(Current, visible))
    /\ produced' = Append(produced, Current.id)
    /\ pc' = "closing"
    /\ UNCHANGED <<turn, told, reported, pictured, drive, attempt, chain, learned, verdict>>

\* The visible text, if it was not streamed, then the concluding row.
Conclude ==
    /\ pc = "concluding"
    /\ LET isGhost == visible = Nobody /\ ~PromisesImage IN
       /\ Insert(Row(Current.id, visible, FALSE, isGhost, NoId, failures))
       /\ ghost' = isGhost
    /\ bubbles' = OnLast(Said(Current, visible))
    /\ produced' = Append(produced, Current.id)
    /\ pc' = "closing"
    /\ UNCHANGED <<turn, told, reported, pictured, drive, attempt, chain, learned, verdict>>

-----------------------------------------------------------------------------
\* The chain is exhausted.

\* The row that stands in for a reply continues the last live bubble.
StandIn(author) ==
    /\ Insert(Row(FreshId, author, FALSE, FALSE, LastId, failures \cup {ChainExhausted}))
    /\ produced' = <<FreshId>>
    /\ failures' = failures \cup {ChainExhausted}
    /\ visible' = author
    /\ pc' = "replacing"
    /\ UNCHANGED <<turn, wire, drive, hop, acc, cut, filterHop, go, ghost, garble, failed,
                   learned, verdict>>

Salvage ==
    /\ pc = "exhausted" /\ Replying /\ garble # 0
    /\ StandIn(By(garble))

\* A chain of the user's own key never answers with the fallback phrase.
PseudoGhost ==
    /\ pc = "exhausted" /\ Replying /\ garble = 0
    /\ ~turn.byokOnly
    /\ StandIn(Phrase)

\* Nothing to stand in: no phrase is configured, its lookup failed, or the
\* chain is the user's own.  run_stream_with forwards the Error and returns.
Exhausted ==
    /\ pc = "exhausted" /\ garble = 0
    /\ told' = "error"
    /\ pc' = "settling"
    /\ UNCHANGED <<turn, stored, bubbles, reported, pictured, drive, attempt, outcome, chain,
                   learned, verdict, faults>>

\* The stand-in's Meta, Delta and Done.
Replace ==
    /\ pc = "replacing"
    /\ bubbles' = Append(bubbles,
                    Closed(Said(Opened(FreshId, LastId), visible), FALSE, FALSE))
    /\ pc' = "over"
    /\ UNCHANGED <<turn, stored, told, reported, pictured, drive, attempt, outcome, chain, learned,
                   verdict, faults>>

-----------------------------------------------------------------------------
\* The other actions of a turn.

\* A deliberate silence: the mark on the user row, its failure only logged.
Ghost ==
    /\ pc = "open" /\ turn.action = "ghost"
    /\ \/ ghosted' = TRUE /\ UNCHANGED faults
       \/ faults < MaxFaults /\ faults' = faults + 1 /\ UNCHANGED ghosted
    /\ bubbles' = <<Closed(Opened(FreshId, NoId), FALSE, FALSE)>>
    /\ pc' = "over"
    /\ UNCHANGED <<turn, rows, told, reported, pictured, drive, attempt, outcome, chain,
                   learned, verdict>>

\* A picture without words.
ImageOnly ==
    /\ pc = "open" /\ turn.action = "image"
    /\ Insert(Row(FreshId, Nobody, FALSE, FALSE, NoId, {}))
    /\ produced' = <<FreshId>>
    /\ bubbles' = <<Closed(Opened(FreshId, NoId), FALSE, FALSE)>>
    /\ pc' = "over"
    /\ UNCHANGED <<turn, told, reported, pictured, drive, attempt, ghost, chain, learned,
                   verdict>>

\* A product answer moves on while nothing has been said, and only then.
AnswerGoesOn ==
    /\ pc = "read" /\ Asking /\ acc = {}
    /\ \/ ~AtLastHop /\ NextHop /\ pc' = "open"
       \/ AtLastHop /\ pc' = "exhausted" /\ UNCHANGED attempt
    /\ UNCHANGED <<turn, stored, wire, drive, outcome, chain, learned, verdict, faults>>

AnswerEnds ==
    /\ pc = "read" /\ Asking /\ acc # {}
    /\ Insert(Row(Current.id, By(hop), cut, FALSE, NoId, failures))
    /\ pc' = "closing"
    /\ UNCHANGED <<turn, wire, drive, attempt, outcome, chain, learned, verdict>>

\* Nobody answered: the phrase, in the bubble already open.
AnswerByPhrase ==
    /\ pc = "exhausted" /\ Asking
    /\ Insert(Row(Current.id, Phrase, FALSE, FALSE, NoId, failures \cup {ChainExhausted}))
    /\ failures' = failures \cup {ChainExhausted}
    /\ bubbles' = OnLast(Said(Current, Phrase))
    /\ cut' = FALSE
    /\ pc' = "closing"
    /\ UNCHANGED <<turn, told, reported, pictured, drive, hop, acc, filterHop, go, visible,
                   outcome, garble, failed, learned, verdict>>

-----------------------------------------------------------------------------
\* The rest of the turn.

\* The turn was served: the image request for the last message produced, the
\* final frame; then post-processing is given what was produced, but the response
\* to an action is stored first, and awaited.
Final ==
    /\ pc = "over"
    /\ pictured' = IF PromisesImage THEN produced[Len(produced)] ELSE NoId
    /\ told' = "final"
    /\ reported' = failures
    /\ IF turn.responds
         THEN pc' = "responding" /\ UNCHANGED learned
         ELSE pc' = "settling" /\ learned' = learned \cup Range(produced)
    /\ UNCHANGED <<turn, stored, bubbles, drive, attempt, outcome, chain, verdict, faults>>

\* The response is stored, or its failure logged.
HandOver ==
    /\ pc = "responding"
    /\ learned' = learned \cup Range(produced)
    /\ pc' = "settling"
    /\ UNCHANGED <<turn, stored, wire, drive, attempt, outcome, chain, verdict, faults>>

\* A failed drive: another, until there are none left; then the turn has failed
\* unless some row says otherwise.
Fails ==
    IF drive < MaxDrives
    THEN pc' = "idle" /\ UNCHANGED verdict
    ELSE pc' = "settling" /\ verdict' = IF Answered THEN "done" ELSE "failed"

DoneSeen == \E i \in DOMAIN bubbles : bubbles[i].state # "open"

\* classify_outcome and settle_turn: any Done frame makes the turn a success.
Settle ==
    /\ pc = "settling" /\ verdict = "open"
    /\ \/ /\ DoneSeen \/ told = "final"
          /\ verdict' = "done"
          /\ UNCHANGED pc
       \/ /\ ~DoneSeen /\ told = "error"
          /\ Fails
    /\ UNCHANGED <<turn, stored, wire, drive, attempt, outcome, chain, learned, faults>>

\* The generation deadline passes: the generator is dropped where it stands,
\* with the frames it counted.
Timeout ==
    /\ pc \in Working \cup {"responding"}
    /\ Fails
    /\ UNCHANGED <<turn, stored, wire, drive, attempt, outcome, chain, learned, faults>>

Next ==
    \/ Start \/ AlreadyServed \/ Open
    \/ \E p \in Pieces : Chunk(p)
    \/ FinishCut \/ AttemptFails \/ EndOfStream
    \/ Persist \/ Done
    \/ EmptyBuffered \/ CutBuffered \/ ServeBuffered
    \/ FilterPassesHead \/ FilterServes \/ Conclude
    \/ \E isFailure \in BOOLEAN : FilterAborts(isFailure)
    \/ Ghost \/ ImageOnly \/ AnswerGoesOn \/ AnswerEnds \/ AnswerByPhrase
    \/ Salvage \/ PseudoGhost \/ Exhausted \/ Replace
    \/ Final \/ HandOver \/ Settle \/ Timeout

Spec == Init /\ [][Next]_vars

-----------------------------------------------------------------------------
\* What replay_stream retells of the stored rows.

Retold(row) ==
    [id |-> row.id, by |-> {row.text} \ {Nobody}, state |-> IF row.cut THEN "cut" ELSE "served",
     ghost |-> row.ghost, from |-> row.from]
Replayed == [i \in DOMAIN rows |-> Retold(rows[i])]

\* All attempts superseded is the failure it was, but not for a product answer.
ReplayedEndOfAny == IF rows # <<>> /\ \A i \in DOMAIN rows : rows[i].cut THEN "error" ELSE "final"
ReplayedEnd ==
    IF rows # <<>> /\ ~Asking /\ \A i \in DOMAIN rows : rows[i].cut THEN "error" ELSE "final"

-----------------------------------------------------------------------------
\* Properties.

\* The rows that answer the turn: a superseded attempt does not.
Answers == {i \in DOMAIN rows : ~rows[i].cut \/ Asking}
Served(seq) == At(seq, {i \in DOMAIN seq : seq[i].state = "served" \/ Asking})
Skeleton(seq) == [i \in DOMAIN seq |-> <<seq[i].id, seq[i].state, seq[i].from>>]

\* A turn is answered once: over all its drives, timeouts and stand-ins, at
\* most one stored row is a reply rather than a superseded attempt
\* (chat_queue.rs drive_turn, stream.rs drive_chat_burst_for).
OneAnswer == Cardinality(Answers) <= 1

\* A repeated request is told what the first was: the replayed reply has the
\* id, the text, the ghost flag and the predecessor the client was shown, a
\* live burst replays all its attempts in order, and the ending is the same
\* (stream.rs replay_stream).
ReplayAgrees ==
    told # "none" /\ faults = 0 /\ Answered =>
        /\ ghosted \/ Served(Replayed) = Served(bubbles)
        /\ Live => Skeleton(Replayed) = Skeleton(bubbles)
        /\ ReplayedEnd = told

\* The client is never left reading two texts at once: a bubble holds the text
\* of one author, a ghost's none, and a turn that ends well leaves its last
\* bubble standing and every other one withdrawn; one that ends in Error leaves
\* none (the supersede of stream.rs:1558-1586, the replacement bubbles).
OneVoice ==
    /\ \A i \in DOMAIN bubbles :
        /\ Cardinality(bubbles[i].by) <= 1
        /\ bubbles[i].ghost => bubbles[i].by = {}
    /\ told = "final" => \A i \in DOMAIN bubbles :
        Asking \/ bubbles[i].state = IF i = Len(bubbles) THEN "served" ELSE "cut"
    /\ told = "error" => \A i \in DOMAIN bubbles : bubbles[i].state # "served"

\* A drive that ran to its end; its frames are still to be judged.
Ended == pc = "settling" /\ verdict = "open"

\* Memory, affinity and the picture follow the reply the user reads and
\* nothing a candidate said before it; a silence and a product answer teach
\* nothing.  A reply the user was shown in full goes unlearned only on a turn that
\* responds to an action, where the drive waits between the final frame and the
\* hand-over: never once it ran to its end, and what is handed over is never a
\* superseded attempt (outcome.produced, set_action_response in stream.rs).
LearnedIsShown ==
    /\ told = "final" =>
        LET taught == IF turn.action \in {"ghost", "product_qa"} THEN {} ELSE {Current.id}
        IN  /\ learned = taught \/ (turn.responds /\ learned = {} /\ ~Ended)
            /\ pictured = IF PromisesImage THEN Current.id ELSE NoId
    /\ faults = 0 => learned \subseteq {rows[i].id : i \in Answers}

\* Every genuine failure of the drive, of either chain, is on the row that
\* answers the turn and in the final frame, and on no superseded row
\* (split_failures and BurstOutcome.failures in stream.rs).
FailuresKept ==
    /\ told = "final" => reported \ {ChainExhausted} = failed
    /\ \A i \in DOMAIN rows \ Answers : rows[i].failures = {}
    /\ told = "final" /\ faults = 0 => \A i \in Answers : rows[i].failures = reported
=============================================================================
