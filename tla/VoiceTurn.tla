------------------------------ MODULE VoiceTurn ------------------------------
(***************************************************************************)
(* One voice session: the calls to turn/stream that post a turn and speak  *)
(* its reply, the retries that repair a turn left without one, and the     *)
(* calls to turn/interrupt that report what the user heard.                *)
(*                                                                         *)
(* A turn is one client_msg_id.  A call is one request to turn/stream; it  *)
(* lives as long as its client holds the stream.  The text a candidate of  *)
(* a call streamed and the generation id it answered with are both named   *)
(* by <<call, candidate>>; the text an interrupt reports by the interrupt. *)
(*                                                                         *)
(* A definition placed just before another, same parameters, that no other *)
(* definition uses is a mutant of it: the bug a property is there to catch.*)
(***************************************************************************)
EXTENDS Integers, FiniteSets

CONSTANTS
    Turns,         \* client_msg_ids used in the session
    TextTurns,     \* those the client posts through the text endpoint
    Calls,         \* requests to turn/stream
    Interrupts,    \* requests to turn/interrupt
    Candidates,    \* length of the model chain: primary and fallbacks
    StreamSlots,   \* CONCURRENT_STREAMS_PER_USER
    None,          \* no text, no generation, no snapshot, no turn
    MaxFaults      \* bound on failed database calls

Generations == Calls \X (1..Candidates)

ASSUME TurnsAssumption == IsFiniteSet(Turns) /\ TextTurns \subseteq Turns
ASSUME KnobAssumption ==
    Candidates \in Nat \ {0} /\ StreamSlots \in Nat \ {0} /\ MaxFaults \in Nat
ASSUME NamesAssumption ==
    /\ None \notin Generations \cup Interrupts \cup Calls \cup Turns
    /\ Generations \cap Interrupts = {}

VARIABLES
    \* engine.chat_messages: the user row of each turn
    row,          \* "absent", or the channel it was posted on: "voice", "text"
    sentAt,       \* rank of sent_at
    interrupted,  \* metadata.voice_interrupt
    \* engine.chat_messages: the voice assistant row of each turn
    reply,        \* its text, generation_id, truncated flag and interrupt marker
    \* engine.chat_sessions, engine.llm_generations, the relationship's count
    frozen,       \* metadata.voice_bootstrap: the call whose snapshot it is
    recorded,     \* generations with a row
    counted,      \* how often the turn was counted toward the next scan
    \* the calls
    stage,        \* where each call is
    turnOf,       \* the turn it posts
    planned,      \* it loaded the session before a snapshot was frozen
    injected,     \* the snapshot it speaks from
    candidate,    \* how many candidates of the chain it has tried
    streamed,     \* it has sent text to the client
    answered,     \* the current candidate gave a generation id
    cut,          \* the text it streamed is incomplete
    degraded,     \* one of its database calls failed
    \* the interrupts
    barge,        \* "none", "resolved" or "ended"
    bargeOn,      \* the turn an interrupt resolved to
    \* what the model remembers for the properties, and its bound
    spent,        \* generations a provider answered with an id
    faults

turnVars == <<row, sentAt, interrupted, reply, counted>>
sessionVars == <<frozen, recorded>>
chainVars == <<candidate, streamed, answered, cut, spent>>
bargeVars == <<barge, bargeOn>>
vars == <<turnVars, sessionVars, stage, turnOf, planned, injected, chainVars,
          degraded, bargeVars, faults>>

Rows == {"absent", "voice", "text"}
Replies == [text : Generations \cup Interrupts \cup {None},
            generation : Generations \cup {None},
            truncated : BOOLEAN, marked : BOOLEAN]
NoReply == [text |-> None, generation |-> None, truncated |-> FALSE, marked |-> FALSE]

\* Where a call is: it posts its turn; it reads the repair state of a turn
\* posted before; it loads what the prompt needs; it freezes the snapshot it
\* assembled; it reloads the one that won; it opens a candidate; it streams; it
\* records the generation; it stores the reply; it answered the client, or its
\* client went away.
LiveStages == {"post", "repair", "load", "freeze", "reload", "open", "stream",
               "record", "persist"}
Stages == LiveStages \cup {"none", "ended", "dropped"}

TypeOK ==
    /\ row \in [Turns -> Rows]
    /\ sentAt \in [Turns -> Nat]
    /\ interrupted \in [Turns -> BOOLEAN]
    /\ reply \in [Turns -> Replies]
    /\ counted \in [Turns -> Nat]
    /\ frozen \in Calls \cup {None}
    /\ recorded \subseteq Generations
    /\ stage \in [Calls -> Stages]
    /\ turnOf \in [Calls -> Turns \cup {None}]
    /\ planned \in [Calls -> BOOLEAN]
    /\ injected \in [Calls -> Calls \cup {None}]
    /\ candidate \in [Calls -> 0..Candidates]
    /\ streamed \in [Calls -> BOOLEAN]
    /\ answered \in [Calls -> BOOLEAN]
    /\ cut \in [Calls -> BOOLEAN]
    /\ degraded \in [Calls -> BOOLEAN]
    /\ barge \in [Interrupts -> {"none", "resolved", "ended"}]
    /\ bargeOn \in [Interrupts -> Turns \cup {None}]
    /\ spent \subseteq Generations
    /\ faults \in 0..MaxFaults

Init ==
    /\ row = [t \in Turns |-> "absent"]
    /\ sentAt = [t \in Turns |-> 0]
    /\ interrupted = [t \in Turns |-> FALSE]
    /\ reply = [t \in Turns |-> NoReply]
    /\ counted = [t \in Turns |-> 0]
    /\ frozen = None
    /\ recorded = {}
    /\ stage = [c \in Calls |-> "none"]
    /\ turnOf = [c \in Calls |-> None]
    /\ planned = [c \in Calls |-> FALSE]
    /\ injected = [c \in Calls |-> None]
    /\ candidate = [c \in Calls |-> 0]
    /\ streamed = [c \in Calls |-> FALSE]
    /\ answered = [c \in Calls |-> FALSE]
    /\ cut = [c \in Calls |-> FALSE]
    /\ degraded = [c \in Calls |-> FALSE]
    /\ barge = [b \in Interrupts |-> "none"]
    /\ bargeOn = [b \in Interrupts |-> None]
    /\ spent = {}
    /\ faults = 0

-----------------------------------------------------------------------------
Live(c) == stage[c] \in LiveStages
Replied(t) == reply[t] # NoReply
CurrentGeneration(c) == <<c, candidate[c]>>
NextSentAt == Cardinality({t \in Turns : row[t] # "absent"}) + 1
LatestVoiceTurn(t) ==
    /\ row[t] = "voice"
    /\ \A u \in Turns : row[u] = "voice" => sentAt[u] <= sentAt[t]

MoveTo(c, s) == stage' = [stage EXCEPT ![c] = s]
NoFault == UNCHANGED <<degraded, faults>>
Fault(c) ==
    /\ faults < MaxFaults
    /\ faults' = faults + 1
    /\ degraded' = [degraded EXCEPT ![c] = TRUE]

\* A message posted to the session through the text endpoint, which has no
\* channel guard.
PostText(t) ==
    /\ t \in TextTurns
    /\ row[t] = "absent"
    /\ row' = [row EXCEPT ![t] = "text"]
    /\ sentAt' = [sentAt EXCEPT ![t] = NextSentAt]
    /\ UNCHANGED <<interrupted, reply, counted, sessionVars, stage, turnOf, planned,
                   injected, chainVars, degraded, bargeVars, faults>>

-----------------------------------------------------------------------------
\* voice_turn_stream.

\* The session row is loaded, its snapshot with it, and a slot is taken.
Admit(c, t) ==
    /\ stage[c] = "none"
    /\ Cardinality({d \in Calls : Live(d)}) < StreamSlots
    /\ turnOf' = [turnOf EXCEPT ![c] = t]
    /\ planned' = [planned EXCEPT ![c] = frozen = None]
    /\ injected' = [injected EXCEPT ![c] = frozen]
    /\ MoveTo(c, "post")
    /\ UNCHANGED <<turnVars, sessionVars, chainVars, degraded, bargeVars, faults>>

\* insert_voice_user_message: a new turn is stored and counted by a detached
\* task; a client_msg_id seen before, on any channel, is a duplicate.
Post(c) ==
    LET t == turnOf[c] IN
    /\ stage[c] = "post"
    /\ IF row[t] = "absent"
         THEN /\ row' = [row EXCEPT ![t] = "voice"]
              /\ sentAt' = [sentAt EXCEPT ![t] = NextSentAt]
              /\ counted' = [counted EXCEPT ![t] = @ + 1]
              /\ MoveTo(c, "load")
         ELSE /\ MoveTo(c, "repair")
              /\ UNCHANGED <<row, sentAt, counted>>
    /\ UNCHANGED <<interrupted, reply, sessionVars, turnOf, planned, injected,
                   chainVars, degraded, bargeVars, faults>>

\* The row is committed and the handler is dropped before it counts the turn.
PostAndDrop(c) ==
    LET t == turnOf[c] IN
    /\ stage[c] = "post"
    /\ row[t] = "absent"
    /\ row' = [row EXCEPT ![t] = "voice"]
    /\ sentAt' = [sentAt EXCEPT ![t] = NextSentAt]
    /\ MoveTo(c, "dropped")
    /\ UNCHANGED <<interrupted, reply, counted, sessionVars, turnOf, planned, injected,
                   chainVars, degraded, bargeVars, faults>>

\* A duplicate is answered again only if it is a voice turn left with neither a
\* reply nor an interrupt; otherwise the client gets 409.
Repair(c) ==
    LET t == turnOf[c] IN
    /\ stage[c] = "repair"
    /\ MoveTo(c, IF row[t] = "voice" /\ ~Replied(t) /\ ~interrupted[t]
                 THEN "load" ELSE "ended")
    /\ UNCHANGED <<turnVars, sessionVars, turnOf, planned, injected, chainVars,
                   degraded, bargeVars, faults>>

-----------------------------------------------------------------------------
\* run_voice_turn: the reads and the snapshot.

\* The joined reads.  A failed part of the snapshot leaves it unfrozen; with no
\* persona or no history the call ends with an error.
Load(c) ==
    /\ stage[c] = "load"
    /\ \/ /\ ~planned[c]
          /\ MoveTo(c, "open")
          /\ UNCHANGED injected
          /\ NoFault
       \/ planned[c] /\ MoveTo(c, "freeze") /\ UNCHANGED injected /\ NoFault
       \/ /\ planned[c]
          /\ injected' = [injected EXCEPT ![c] = c]
          /\ MoveTo(c, "open")
          /\ Fault(c)
       \/ MoveTo(c, "ended") /\ UNCHANGED injected /\ NoFault
    /\ UNCHANGED <<turnVars, sessionVars, turnOf, planned, chainVars, bargeVars>>

\* set_voice_bootstrap writes the snapshot unless one is there; the loser goes
\* on to reload the winner's, and a failed write keeps the copy in memory.
Freeze(c) ==
    /\ stage[c] = "freeze"
    /\ \/ /\ frozen = None
          /\ frozen' = c
          /\ injected' = [injected EXCEPT ![c] = c]
          /\ MoveTo(c, "open")
          /\ NoFault
       \/ /\ frozen # None
          /\ MoveTo(c, "reload")
          /\ UNCHANGED <<frozen, injected>>
          /\ NoFault
       \/ /\ injected' = [injected EXCEPT ![c] = c]
          /\ MoveTo(c, "open")
          /\ UNCHANGED frozen
          /\ Fault(c)
    /\ UNCHANGED <<turnVars, recorded, turnOf, planned, chainVars, bargeVars>>

ReloadSkipped(c) ==
    /\ stage[c] = "reload"
    /\ injected' = [injected EXCEPT ![c] = c]
    /\ MoveTo(c, "open")
    /\ UNCHANGED <<turnVars, sessionVars, turnOf, planned, chainVars, degraded,
                   bargeVars, faults>>

Reload(c) ==
    /\ stage[c] = "reload"
    /\ \/ injected' = [injected EXCEPT ![c] = frozen] /\ NoFault
       \/ injected' = [injected EXCEPT ![c] = c] /\ Fault(c)
    /\ MoveTo(c, "open")
    /\ UNCHANGED <<turnVars, sessionVars, turnOf, planned, chainVars, bargeVars>>

-----------------------------------------------------------------------------
\* run_voice_turn: the chain.

\* record_generation: a failed or late write is only logged, and the caller
\* stores no generation id.
RecordGeneration(c) ==
    \/ ~answered[c] /\ UNCHANGED recorded /\ NoFault
    \/ /\ answered[c]
       /\ recorded' = recorded \cup {CurrentGeneration(c)}
       /\ NoFault
    \/ answered[c] /\ UNCHANGED recorded /\ Fault(c)

NextCandidateUnrecorded(c) ==
    /\ stage[c] = "open"
    /\ candidate[c] < Candidates
    /\ candidate' = [candidate EXCEPT ![c] = @ + 1]
    /\ answered' = [answered EXCEPT ![c] = FALSE]
    /\ cut' = [cut EXCEPT ![c] = FALSE]
    /\ \E opens \in BOOLEAN : MoveTo(c, IF opens THEN "stream" ELSE "open")
    /\ UNCHANGED <<turnVars, sessionVars, turnOf, planned, injected, streamed,
                   spent, degraded, bargeVars, faults>>

\* The next candidate: the one abandoned is recorded, its metadata is forgotten,
\* and the stream opens, or fails to open in time.
NextCandidate(c) ==
    /\ stage[c] = "open"
    /\ candidate[c] < Candidates
    /\ RecordGeneration(c)
    /\ candidate' = [candidate EXCEPT ![c] = @ + 1]
    /\ answered' = [answered EXCEPT ![c] = FALSE]
    /\ cut' = [cut EXCEPT ![c] = FALSE]
    /\ \E opens \in BOOLEAN : MoveTo(c, IF opens THEN "stream" ELSE "open")
    /\ UNCHANGED <<turnVars, frozen, turnOf, planned, injected, streamed, spent,
                   bargeVars>>

\* Every candidate failed with nothing streamed.
ChainExhausted(c) ==
    /\ stage[c] = "open"
    /\ candidate[c] = Candidates
    /\ MoveTo(c, "record")
    /\ UNCHANGED <<turnVars, sessionVars, turnOf, planned, injected, chainVars,
                   degraded, bargeVars, faults>>

\* A chunk: text for the client, a generation id, or a finish reason that says
\* the text is cut short.
Chunk(c) ==
    /\ stage[c] = "stream"
    /\ \/ /\ streamed' = [streamed EXCEPT ![c] = TRUE]
          /\ UNCHANGED <<answered, cut, spent>>
       \/ /\ answered' = [answered EXCEPT ![c] = TRUE]
          /\ spent' = spent \cup {CurrentGeneration(c)}
          /\ UNCHANGED <<streamed, cut>>
       \/ cut' = [cut EXCEPT ![c] = TRUE] /\ UNCHANGED <<streamed, answered, spent>>
    /\ UNCHANGED <<turnVars, sessionVars, stage, turnOf, planned, injected,
                   candidate, degraded, bargeVars, faults>>

\* The stream ends, fails or times out: an empty one falls to the next candidate,
\* and text already sent is kept, as cut short when the end was not clean.
EndStream(c) ==
    /\ stage[c] = "stream"
    /\ \E clean \in BOOLEAN :
        cut' = [cut EXCEPT ![c] = @ \/ (streamed[c] /\ ~clean)]
    /\ MoveTo(c, IF streamed[c] THEN "record" ELSE "open")
    /\ UNCHANGED <<turnVars, sessionVars, turnOf, planned, injected, candidate,
                   streamed, answered, spent, degraded, bargeVars, faults>>

\* The generation is recorded ahead of the reply that refers to it, and ahead of
\* the error frame of a call that streamed nothing.
Record(c) ==
    /\ stage[c] = "record"
    /\ RecordGeneration(c)
    /\ answered' = [answered EXCEPT ![c] = CurrentGeneration(c) \in recorded']
    /\ MoveTo(c, IF streamed[c] THEN "persist" ELSE "ended")
    /\ UNCHANGED <<turnVars, frozen, turnOf, planned, injected, candidate, streamed,
                   cut, spent, bargeVars>>

-----------------------------------------------------------------------------
\* run_voice_turn: the reply.

GenerationId(c) == IF answered[c] THEN CurrentGeneration(c) ELSE None
Spoken(c) == [text |-> CurrentGeneration(c), generation |-> GenerationId(c),
              truncated |-> cut[c], marked |-> FALSE]

MergedLastWriter(c) == Spoken(c)
MergedKeepingText(c) ==
    [reply[turnOf[c]] EXCEPT !.generation = GenerationId(c)]

\* A reply stored over another: an interrupted one keeps its text and its
\* marker and takes the generation id; any other is replaced whole.
Merged(c) ==
    IF reply[turnOf[c]].marked
    THEN [reply[turnOf[c]] EXCEPT !.generation = GenerationId(c)]
    ELSE Spoken(c)

PersistOverSilence(c) ==
    LET t == turnOf[c] IN
    /\ stage[c] = "persist"
    /\ reply' = [reply EXCEPT ![t] = IF Replied(t) THEN Merged(c) ELSE Spoken(c)]
    /\ MoveTo(c, "ended")
    /\ UNCHANGED <<row, sentAt, interrupted, counted, sessionVars, turnOf, planned,
                   injected, chainVars, degraded, bargeVars, faults>>

\* insert_voice_assistant_message, one transaction under the lock of the user
\* row.  A turn interrupted before a word was heard gets no reply.  A failed
\* insert is only logged.
Persist(c) ==
    LET t == turnOf[c] IN
    /\ stage[c] = "persist"
    /\ \/ interrupted[t] /\ ~Replied(t) /\ UNCHANGED reply /\ NoFault
       \/ /\ ~interrupted[t] \/ Replied(t)
          /\ reply' = [reply EXCEPT ![t] = IF Replied(t) THEN Merged(c) ELSE Spoken(c)]
          /\ NoFault
       \/ UNCHANGED reply /\ Fault(c)
    /\ MoveTo(c, "ended")
    /\ UNCHANGED <<row, sentAt, interrupted, counted, sessionVars, turnOf, planned,
                   injected, chainVars, bargeVars>>

\* The client goes away, the process dies or a handler's query fails: the call
\* ends where it stands.
Drop(c) ==
    /\ Live(c)
    /\ MoveTo(c, "dropped")
    /\ UNCHANGED <<turnVars, sessionVars, turnOf, planned, injected, chainVars,
                   degraded, bargeVars, faults>>

-----------------------------------------------------------------------------
\* voice_turn_interrupt.

\* resolve_latest_voice_user_turn: only the latest voice turn can be interrupted.
Resolve(b, t) ==
    /\ barge[b] = "none"
    /\ bargeOn' = [bargeOn EXCEPT ![b] = IF LatestVoiceTurn(t) THEN t ELSE None]
    /\ barge' = [barge EXCEPT ![b] = IF LatestVoiceTurn(t) THEN "resolved" ELSE "ended"]
    /\ UNCHANGED <<turnVars, sessionVars, stage, turnOf, planned, injected, chainVars,
                   degraded, faults>>

\* What the reply becomes when an interrupt reports it: the text heard and the
\* marker, or the marker alone on a reply of which nothing was heard.
Heard(b, t) == [reply[t] EXCEPT !.text = b, !.truncated = TRUE, !.marked = TRUE]
Unheard(t) == IF Replied(t) THEN [reply[t] EXCEPT !.marked = TRUE] ELSE NoReply

\* upsert_voice_interrupt, one transaction under the lock of the user row.
Interrupt(b) ==
    LET t == bargeOn[b] IN
    /\ barge[b] = "resolved"
    /\ interrupted' = [interrupted EXCEPT ![t] = TRUE]
    /\ \E heard \in BOOLEAN :
        reply' = [reply EXCEPT ![t] = IF heard THEN Heard(b, t) ELSE Unheard(t)]
    /\ barge' = [barge EXCEPT ![b] = "ended"]
    /\ UNCHANGED <<row, sentAt, counted, sessionVars, stage, turnOf, planned, injected,
                   chainVars, degraded, bargeOn, faults>>

Progress(c) ==
    \/ Post(c) \/ Repair(c) \/ Load(c) \/ Freeze(c) \/ Reload(c)
    \/ NextCandidate(c) \/ ChainExhausted(c) \/ EndStream(c) \/ Record(c) \/ Persist(c)

Next ==
    \/ \E t \in Turns : PostText(t)
    \/ \E c \in Calls, t \in Turns : Admit(c, t)
    \/ \E c \in Calls : PostAndDrop(c) \/ Chunk(c) \/ Progress(c) \/ Drop(c)
    \/ \E b \in Interrupts, t \in Turns : Resolve(b, t)
    \/ \E b \in Interrupts : Interrupt(b)

Spec == Init /\ [][Next]_vars
-----------------------------------------------------------------------------
(***************************************************************************)
(* What a voice session promises.                                          *)
(***************************************************************************)

\* The reply of an interrupted turn says that it was interrupted, whichever of
\* the interrupt and the generator came first: an interrupt that reports
\* silence is never followed by a full reply that looks completed.
InterruptedReplyIsMarked ==
    \A t \in Turns : interrupted[t] /\ Replied(t) => reply[t].marked

\* The text of an unmarked reply and its generation id come from one
\* generation, however two generators of the turn race: the spend of a reply is
\* never attributed to another.
TextAndSpendAgree ==
    \A t \in Turns : Replied(t) /\ ~reply[t].marked =>
        reply[t].generation \in {reply[t].text, None}

\* A reply refers to a generation only if the generation has its row: the row
\* comes first.
ReplyRefersToRecorded ==
    \A t \in Turns : reply[t].generation \in recorded \cup {None}

\* Every generation a provider answered with an id has a row, unless its call
\* was dropped, a call to the database failed under it, or it is still the
\* candidate of a live call: an abandoned candidate is not forgotten.
SpendIsRecorded ==
    \A c \in Calls, i \in 1..Candidates :
        <<c, i>> \in spent \ recorded =>
            \/ stage[c] = "dropped" \/ degraded[c]
            \/ Live(c) /\ candidate[c] = i /\ stage[c] # "persist"

\* All turns of the session speak from one snapshot, that of the first turn to
\* freeze it, also when two first turns race; only a call under which a query
\* failed may speak from its own.
OneSnapshot ==
    \A c \in Calls :
        injected[c] # None /\ ~degraded[c] => injected[c] = frozen

\* Only voice turns have voice replies, though a text message of the session may
\* hold the same client_msg_id.
OnlyVoiceTurnsReplied == \A t \in Turns : Replied(t) => row[t] = "voice"

\* A turn counts at most once toward the relationship's next scan, whatever its
\* retries.
CountedOnce == \A t \in Turns : counted[t] <= 1

\* What an interrupt reported stays: the text of a marked reply changes only to
\* what another interrupt reports.
HeardTextStands ==
    [][\A t \in Turns : reply[t].marked =>
        /\ reply'[t].marked
        /\ reply'[t].text \in {reply[t].text} \cup {b \in Interrupts : barge'[b] # barge[b]}]_vars
=============================================================================
