---------------------------- MODULE LifeChoices ----------------------------
(***************************************************************************)
(* What she asks of the user, and what happens to her meanwhile.           *)
(*                                                                         *)
(* A persona instance has several chat sessions and one life. After a      *)
(* judged turn she may put a choice to the user (ask for space, or one of  *)
(* the two romantic kinds); the choice is answered by a route, ignored by  *)
(* the user's next message, or lapses. Answers and ignored asks start      *)
(* events, and a route draws others. Her turns, the answers and the draws  *)
(* run concurrently: each reads, generates for a while, and then writes in *)
(* one transaction whose guards are read under the instance's lock.        *)
(*                                                                         *)
(* A definition placed just before another, same parameters, that no other *)
(* definition uses is a mutant of it: the bug a property is there to catch.*)
(***************************************************************************)
EXTENDS Naturals, Sequences, FiniteSets

CONSTANTS
    Sessions,        \* the text sessions of one instance
    Turns,           \* ordinary text messages of the user
    SessionOf,       \* the session a turn is sent in
    Answers,         \* calls of the route that answers a choice
    Draws,           \* calls of the route that draws an event
    Past,            \* how each session was judged so far
    Allowed,         \* the drawn kinds the callers allow
    Gaps,            \* the tier gaps she asks for space at
    Pending,         \* PENDING_HOURS, in ticks
    SpacePerTier,    \* SEPARATION_HOURS_PER_TIER, in ticks
    FellOutLasts,    \* FELL_OUT_HOURS, in ticks
    IncidentLasts,   \* how long a drawn incident lasts, in ticks
    StayLasts,       \* how long a drawn background lasts, in ticks
    ColdStreak,      \* STREAK
    WarmStreak,      \* ROMANCE_STREAK
    ProposeWindow,   \* PROPOSE_WINDOW
    ProposeHits,     \* PROPOSE_HITS
    MaxAsks,         \* bound on the choices asked
    MaxTime          \* bound on the clock

ASSUME SessionsAssumption == SessionOf \in [Turns -> Sessions]
ASSUME PastAssumption == Past \in [Sessions -> {"cold", "warm"}]
ASSUME LengthsAssumption ==
    /\ Allowed \subseteq {"incident", "outing", "hospitalized"}
    /\ Gaps \subseteq Nat \ {0}
    /\ {Pending, SpacePerTier, FellOutLasts, IncidentLasts, StayLasts}
         \subseteq Nat \ {0}
    /\ {ColdStreak, WarmStreak, ProposeWindow, ProposeHits} \subseteq Nat \ {0}
    /\ MaxAsks \in Nat /\ MaxTime \in Nat \ {0}

VARIABLES
    now,       \* the clock
    choices,   \* engine.life_choices, in the order they were asked
    events,    \* engine.persona_events of the instance, in commit order
    judged,    \* per session, the judged turns' affinity events, oldest first
    turn,      \* per message, where its turn and its ask stand
    answer,    \* per call of the answer route, where it stands
    draw       \* per call of the draw route, where it stands

vars == <<now, choices, events, judged, turn, answer, draw>>

Kinds == {"ask_for_space", "sleep_together", "propose"}
Romantic == {"sleep_together", "propose"}
Statuses == {"pending", "accepted", "declined", "ignored"}
Lines == {"bond", "chemistry"}
\* A drawn kind: an incident, an incident ruled out in hospital, a background.
DrawnKinds == {"incident", "outing", "hospitalized"}
EventKinds == DrawnKinds \cup {"taking_space", "fell_out"}
Background == {"hospitalized"}
RulesOut(background, kind) == background = "hospitalized" /\ kind = "outing"
Moods == {"cold", "warm"}

NoLoss == [l \in Lines |-> 0]
NoAsk == [kind |-> "ask_for_space", gap |-> 0, anchor |-> {}, since |-> 0]
Idle(stage) == [stage |-> stage, sentAt |-> 0, read |-> 0, ask |-> NoAsk]
NoAnswer(stage) == [stage |-> stage, choice |-> 0, response |-> "accept", at |-> 0]
NoDraw(stage) == [stage |-> stage, kind |-> "incident", at |-> 0]

Times == 0..MaxTime

ChoiceRows == [session : Sessions, kind : Kinds, gap : Gaps \cup {0},
               status : Statuses, askedAt : Times, resolvedAt : Times,
               event : Nat, lost : [Lines -> Nat]]
EventRows == [kind : EventKinds, choice : Nat, start : Times, end : Nat,
              lasts : Nat, late : BOOLEAN]
JudgedRows == [at : Times, mood : Moods]
AskRows == [kind : Kinds, gap : Gaps \cup {0}, anchor : SUBSET Nat, since : Times]
TurnRows == [stage : {"unsent", "queued", "converting", "driven", "judged",
                      "asking", "romance", "done"},
             sentAt : Times, read : Nat, ask : AskRows]
AnswerRows == [stage : {"idle", "answering", "done"}, choice : Nat,
               response : {"accept", "decline"}, at : Times]
DrawRows == [stage : {"idle", "drawing", "done"}, kind : DrawnKinds, at : Times]

TypeOK ==
    /\ now \in Times
    /\ choices \in Seq(ChoiceRows)
    /\ events \in Seq(EventRows)
    /\ judged \in [Sessions -> Seq(JudgedRows)]
    /\ turn \in [Turns -> TurnRows]
    /\ answer \in [Answers -> AnswerRows]
    /\ draw \in [Draws -> DrawRows]

\* Each session has been judged just short of a streak.
Init ==
    /\ now = 1
    /\ choices = <<>>
    /\ events = <<>>
    /\ judged = [s \in Sessions |->
                   [i \in 1..(ColdStreak - 1) |-> [at |-> 0, mood |-> Past[s]]]]
    /\ turn = [t \in Turns |-> Idle("unsent")]
    /\ answer = [a \in Answers |-> NoAnswer("idle")]
    /\ draw = [d \in Draws |-> NoDraw("idle")]
-----------------------------------------------------------------------------
\* What the tables say at an instant.

Lapses(c) == choices[c].askedAt + Pending
Unanswered(c, at) == choices[c].status = "pending" /\ at < Lapses(c)
PendingForInstance(at) == \E c \in DOMAIN choices : Unanswered(c, at)

Of(s) == {c \in DOMAIN choices : choices[c].session = s}
Latest(ids) == CHOOSE c \in ids : \A d \in ids : d <= c
AtLeast(a, b) == IF a >= b THEN a ELSE b

\* streak_anchor: where the newest choice's episode ends, {} if there is none.
EpisodeEnd(c) ==
    LET answered == AtLeast(choices[c].askedAt, choices[c].resolvedAt)
    IN  IF choices[c].event = 0 THEN answered
        ELSE AtLeast(answered, events[choices[c].event].end)
Anchor(s) == {EpisodeEnd(c) : c \in {c \in Of(s) : c = Latest(Of(s))}}

Foreground(e) == events[e].kind \notin Background
UnderWay(at) == {e \in DOMAIN events : events[e].start <= at /\ at < events[e].end}

\* The newest foreground under way, which is the one a turn sees.
Apart(at) ==
    \E e \in UnderWay(at) :
        /\ events[e].kind = "taking_space"
        /\ \A f \in UnderWay(at) : Foreground(f) =>
             \/ events[f].start < events[e].start
             \/ events[f].start = events[e].start /\ f <= e

RunwayClear == ~PendingForInstance(now) /\ ~Apart(now)

Settled(s, kind) ==
    \E c \in Of(s) : choices[c].kind = kind
                       /\ choices[c].status \in {"accepted", "ignored"}

\* The newest n judged turns, as far as they are after the anchor.
Since(s, anchor, n) ==
    {i \in DOMAIN judged[s] : /\ i + n > Len(judged[s])
                             /\ \A x \in anchor : judged[s][i].at > x}
Oldest(s, window) ==
    LET i == CHOOSE i \in window : \A j \in window : i <= j IN judged[s][i].at
All(s, window, n, mood) ==
    LET newest == {i \in window : i + n > Len(judged[s])}
    IN  Cardinality(newest) = n /\ \A i \in newest : judged[s][i].mood = mood
Warm(s, window) == Cardinality({i \in window : judged[s][i].mood = "warm"})
-----------------------------------------------------------------------------
\* Writes shared by the paths.

\* insert_preempting: every foreground under way ends where the new one starts.
Preempt(kind, c, start, lasts) ==
    Append([e \in DOMAIN events |->
              IF /\ Foreground(e)
                 /\ events[e].start < start /\ start < events[e].end
              THEN [events[e] EXCEPT !.end = start] ELSE events[e]],
           [kind |-> kind, choice |-> c, start |-> start, end |-> start + lasts,
            lasts |-> lasts, late |-> now >= Lapses(c)])

ResolvableInItsHours(c, at) == at < Lapses(c)

\* resolve: the first answer wins, and only inside the choice's hours.
Resolvable(c, at) == Unanswered(c, at)

Resolved(c, status, at, event, lost) ==
    [choices EXCEPT ![c].status = status, ![c].resolvedAt = at,
                    ![c].event = event,
                    ![c].lost = [l \in Lines |-> @[l] + lost[l]]]

\* The lines an answer costs.
Cost(kind, status) ==
    [l \in Lines |->
       CASE kind = "ask_for_space" -> 1
         [] kind # "ask_for_space" /\ status = "accepted" -> 0
         [] kind = "propose" /\ status # "accepted" -> 1
         [] OTHER -> IF l = "chemistry" THEN 1 ELSE 0]
-----------------------------------------------------------------------------
\* A message and its turn.

Step(t, r) == turn' = [turn EXCEPT ![t] = r]
To(t, stage) == Step(t, [turn[t] EXCEPT !.stage = stage])

Send(t) ==
    /\ turn[t].stage = "unsent"
    /\ Step(t, [turn[t] EXCEPT !.stage = "queued", !.sentAt = now])
    /\ UNCHANGED <<now, choices, events, judged, answer, draw>>

IgnoredApartOrNot(t) ==
    LET waiting == {c \in Of(SessionOf[t]) : Unanswered(c, turn[t].sentAt)}
    IN  {c \in waiting : c = Latest(waiting) /\ choices[c].askedAt <= turn[t].sentAt}

\* convert_ignored_ask's reads: the choice pending when the message was sent.
Ignored(t) ==
    LET s == SessionOf[t]
        at == turn[t].sentAt
        waiting == {c \in Of(s) : Unanswered(c, at)}
    IN  {c \in waiting : c = Latest(waiting) /\ choices[c].askedAt <= at /\ ~Apart(at)}

ReadPending(t) ==
    /\ turn[t].stage = "queued"
    /\ IF Ignored(t) = {} THEN To(t, "driven")
       ELSE \E c \in Ignored(t) :
              Step(t, [turn[t] EXCEPT !.stage = "converting", !.read = c])
    /\ UNCHANGED <<now, choices, events, judged, answer, draw>>

\* The message is her answer; one that lost the race writes nothing.
Convert(t) ==
    LET c == turn[t].read
        at == turn[t].sentAt
    IN  /\ turn[t].stage = "converting"
        /\ Step(t, [turn[t] EXCEPT !.stage = "driven", !.read = 0])
        /\ IF Resolvable(c, at)
           THEN /\ choices' = Resolved(c, "ignored", at, 0, NoLoss)
                /\ events' = IF choices[c].kind = "ask_for_space"
                             THEN Preempt("fell_out", c, at, FellOutLasts)
                             ELSE events
           ELSE UNCHANGED <<choices, events>>
        /\ UNCHANGED <<now, judged, answer, draw>>

\* A failed conversion is logged and the turn goes on.
ConvertFails(t) ==
    /\ turn[t].stage = "converting"
    /\ Step(t, [turn[t] EXCEPT !.stage = "driven", !.read = 0])
    /\ UNCHANGED <<now, choices, events, judged, answer, draw>>

\* A failed turn is driven again, its clock still the message's.
Redrive(t) ==
    /\ turn[t].stage = "driven"
    /\ To(t, "queued")
    /\ UNCHANGED <<now, choices, events, judged, answer, draw>>

\* The reply's affinity is committed, or the turn is met with silence.
Judge(t, mood) ==
    /\ turn[t].stage = "driven" /\ ~Apart(turn[t].sentAt)
    /\ judged' = [judged EXCEPT ![SessionOf[t]] = Append(@, [at |-> now, mood |-> mood])]
    /\ Step(t, Idle("judged"))
    /\ UNCHANGED <<now, choices, events, answer, draw>>

Ghost(t) ==
    /\ turn[t].stage = "driven"
    /\ Step(t, Idle("done"))
    /\ UNCHANGED <<now, choices, events, judged, answer, draw>>
-----------------------------------------------------------------------------
\* Her ask.

Asking(t, kind, gap, window) ==
    Step(t, [turn[t] EXCEPT !.stage = "asking",
               !.ask = [kind |-> kind, gap |-> gap, anchor |-> Anchor(SessionOf[t]),
                        since |-> Oldest(SessionOf[t], window)]])

\* try_ask: the last judged turns since the episode were all cold.
TryAsk(t) ==
    LET s == SessionOf[t]
        window == Since(s, Anchor(s), ColdStreak)
    IN  /\ turn[t].stage = "judged"
        /\ RunwayClear /\ All(s, window, ColdStreak, "cold") /\ Len(choices) < MaxAsks
        /\ \E gap \in Gaps : Asking(t, "ask_for_space", gap, window)
        /\ UNCHANGED <<now, choices, events, judged, answer, draw>>

\* try_romance, after a try_ask that asked nothing or whose ask is over: never
\* a kind that had its answer.
TryRomance(t) ==
    LET s == SessionOf[t]
        window == Since(s, Anchor(s), ProposeWindow)
        may(kind) == IF kind = "propose" THEN Warm(s, window) >= ProposeHits
                     ELSE All(s, window, WarmStreak, "warm")
    IN  /\ turn[t].stage \in {"judged", "romance"}
        /\ RunwayClear /\ Len(choices) < MaxAsks
        /\ \E kind \in Romantic :
             may(kind) /\ ~Settled(s, kind) /\ Asking(t, kind, 0, window)
        /\ UNCHANGED <<now, choices, events, judged, answer, draw>>

\* The lines' tiers or the scopes call for no ask.
NoAskNow(t) ==
    /\ turn[t].stage \in {"judged", "romance"}
    /\ To(t, "done")
    /\ UNCHANGED <<now, choices, events, judged, answer, draw>>

MayAskOnItsAnchor(t) == Anchor(SessionOf[t]) = turn[t].ask.anchor
MayAskIfNonePending(t) == ~PendingForInstance(now)

\* insert_ask's guards, read under the instance's lock.
MayAsk(t) ==
    /\ ~PendingForInstance(now)
    /\ Anchor(SessionOf[t]) = turn[t].ask.anchor

AfterAsk(t) == Step(t, Idle(IF turn[t].ask.kind = "ask_for_space" THEN "romance" ELSE "done"))

InsertAsk(t) ==
    LET ask == turn[t].ask
    IN  /\ turn[t].stage = "asking"
        /\ AfterAsk(t)
        /\ choices' = IF MayAsk(t) /\ Len(choices) < MaxAsks
                      THEN Append(choices,
                             [session |-> SessionOf[t], kind |-> ask.kind, gap |-> ask.gap,
                              status |-> "pending", askedAt |-> now, resolvedAt |-> 0,
                              event |-> 0, lost |-> NoLoss])
                      ELSE choices
        /\ UNCHANGED <<now, events, judged, answer, draw>>

\* Her words came back blank or not at all.
AskFails(t) ==
    /\ turn[t].stage = "asking"
    /\ AfterAsk(t)
    /\ UNCHANGED <<now, choices, events, judged, answer, draw>>
-----------------------------------------------------------------------------
\* respond_at: the clock is read first, the transaction comes later.

StartAnswer(a, c, response) ==
    /\ answer[a].stage = "idle" /\ Unanswered(c, now)
    /\ answer' = [answer EXCEPT ![a] = [stage |-> "answering", choice |-> c,
                                        response |-> response, at |-> now]]
    /\ UNCHANGED <<now, choices, events, judged, turn, draw>>

CommitAnswer(a) ==
    LET c == answer[a].choice
        at == answer[a].at
        kind == choices[c].kind
        status == IF answer[a].response = "accept" THEN "accepted" ELSE "declined"
        apart == kind = "ask_for_space" /\ status = "accepted"
    IN  /\ answer[a].stage = "answering"
        /\ answer' = [answer EXCEPT ![a] = NoAnswer("done")]
        /\ IF Resolvable(c, at)
           THEN /\ choices' = Resolved(c, status, at,
                                IF apart THEN Len(events) + 1 ELSE 0, Cost(kind, status))
                /\ events' = IF apart
                             THEN Preempt("taking_space", c, at, SpacePerTier * choices[c].gap)
                             ELSE events
           ELSE UNCHANGED <<choices, events>>
        /\ UNCHANGED <<now, judged, turn, draw>>
-----------------------------------------------------------------------------
\* draw_event_at: reads and draws now, writes after the telling is generated.

Eligible(kind) ==
    /\ ~PendingForInstance(now)
    /\ \A e \in DOMAIN events : events[e].end > now =>
         ~Foreground(e) /\ ~RulesOut(events[e].kind, kind)
    /\ kind \in Background => \A e \in DOMAIN events : Foreground(e)

StartDraw(d, kind) ==
    /\ draw[d].stage = "idle"
    /\ kind \in Allowed /\ Eligible(kind)
    /\ draw' = [draw EXCEPT ![d] = [stage |-> "drawing", kind |-> kind, at |-> now]]
    /\ UNCHANGED <<now, choices, events, judged, turn, answer>>

MayHappenWhileShesWaiting(kind, start) ==
    \A e \in DOMAIN events :
        events[e].end > start => kind \notin Background /\ ~Foreground(e)

\* EventRepo::insert's guards, read under the instance's lock.
MayHappen(kind, start) ==
    /\ ~PendingForInstance(now)
    /\ \A e \in DOMAIN events :
         events[e].end > start => kind \notin Background /\ ~Foreground(e)

\* A told event starts when its telling is written, an untold one when drawn.
CommitDraw(d, told) ==
    LET kind == draw[d].kind
        start == IF told THEN now ELSE draw[d].at
        lasts == IF kind \in Background THEN StayLasts ELSE IncidentLasts
    IN  /\ draw[d].stage = "drawing"
        /\ draw' = [draw EXCEPT ![d] = NoDraw("done")]
        /\ events' = IF MayHappen(kind, start)
                     THEN Append(events, [kind |-> kind, choice |-> 0, start |-> start,
                                          end |-> start + lasts, lasts |-> lasts,
                                          late |-> FALSE])
                     ELSE events
        /\ UNCHANGED <<now, choices, judged, turn, answer>>
-----------------------------------------------------------------------------
Tick ==
    /\ now < MaxTime
    /\ now' = now + 1
    /\ UNCHANGED <<choices, events, judged, turn, answer, draw>>

Next ==
    \/ \E t \in Turns :
         \/ Send(t) \/ ReadPending(t) \/ Convert(t) \/ ConvertFails(t)
         \/ Redrive(t) \/ Ghost(t) \/ (\E mood \in Moods : Judge(t, mood))
         \/ TryAsk(t) \/ TryRomance(t) \/ NoAskNow(t) \/ InsertAsk(t) \/ AskFails(t)
    \/ \E a \in Answers :
         \/ \E c \in DOMAIN choices, r \in {"accept", "decline"} : StartAnswer(a, c, r)
         \/ CommitAnswer(a)
    \/ \E d \in Draws :
         \/ \E kind \in DrawnKinds : StartDraw(d, kind)
         \/ \E told \in BOOLEAN : CommitDraw(d, told)
    \/ Tick

Spec == Init /\ [][Next]_vars
-----------------------------------------------------------------------------
\* "She has one life, so at most one ask is pending at a time", in whatever
\* sessions and however their asks interleave.
OneOpenAsk ==
    \A c, d \in DOMAIN choices :
        Unanswered(c, now) /\ Unanswered(d, now) => c = d

\* A choice is answered at most once, inside its hours, and what followed is
\* what that answer brings: its costs, its separation or its falling-out.
AnswerIsSettled ==
    \A c \in DOMAIN choices :
        LET r == choices[c]
            written(kind) == {e \in DOMAIN events : events[e].choice = c
                                                      /\ events[e].kind = kind}
            started == IF r.kind = "ask_for_space" THEN 1 ELSE 0
        IN  /\ r.status # "pending" => r.askedAt <= r.resolvedAt /\ r.resolvedAt < Lapses(c)
            /\ r.lost = IF r.status \in {"accepted", "declined"}
                        THEN Cost(r.kind, r.status) ELSE NoLoss
            /\ Cardinality(written("taking_space")) =
                 IF r.status = "accepted" THEN started ELSE 0
            /\ Cardinality(written("fell_out")) =
                 IF r.status = "ignored" THEN started ELSE 0

\* She does one thing at a time: two incidents overlap only if they start at
\* one instant or one of them was written for an ask that had lapsed by then.
OneForeground ==
    \A e, f \in DOMAIN events :
        /\ e # f /\ Foreground(e) /\ Foreground(f)
        /\ events[e].start < events[f].start /\ events[f].start < events[e].end
        => events[e].late \/ events[f].late

\* A separation she agreed to is cut short by nothing but another one: a
\* message in between only ghosts, and no drawn event displaces it.
SeparationHeld ==
    \A e \in DOMAIN events :
        /\ events[e].kind = "taking_space" /\ ~events[e].late
        /\ events[e].end < events[e].start + events[e].lasts
        => \E f \in DOMAIN events :
                events[f].kind = "taking_space" /\ events[f].start = events[e].end

\* Every ask rests on turns judged after the episodes before it in its session
\* were over, however long its words took to generate; but for a separation
\* whose answer was committed after its own ask had lapsed (streak_anchor reads
\* the newest choice only).
AskIsEarned ==
    [][\A t \in Turns :
         turn[t].stage = "asking" /\ turn'[t].stage # "asking" /\ choices' # choices =>
            \A a \in Of(SessionOf[t]) :
               /\ turn[t].ask.since > choices[a].askedAt
               /\ turn[t].ask.since > choices[a].resolvedAt
               /\ choices[a].event # 0 /\ ~events[choices[a].event].late =>
                    turn[t].ask.since > events[choices[a].event].end]_vars

=============================================================================
