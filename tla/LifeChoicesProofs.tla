-------------------------- MODULE LifeChoicesProofs --------------------------
(***************************************************************************)
(* What holds of her asks in every instance: types, at most one open ask,  *)
(* what an answer settles, one incident at a time, separations that hold,  *)
(* asks that are earned.                                                   *)
(***************************************************************************)
EXTENDS LifeChoices, Integers, FiniteSetTheorems, SequenceTheorems,
        WellFoundedInduction, NaturalsInduction, TLAPS

\* A set of naturals that is not empty has a least element.
LEMMA LeastExists ==
    ASSUME NEW S \in SUBSET Nat, S # {}
    PROVE  \E x \in S : \A y \in S : x <= y
<1> DEFINE less == OpToRel(<, Nat)
<1>1. PICK x \in S : \A y \in S : <<y, x>> \notin less
  <2>1. IsWellFoundedOn(less, Nat)
    BY NatLessThanWellFounded
  <2> HIDE DEF less
  <2> QED
    BY <2>1, WFMin
<1>2. \A y \in S : ~(y < x)
  BY <1>1 DEF OpToRel
<1> QED
  BY <1>2

\* A set of naturals below a bound has a greatest.
LEMMA GreatestExists ==
    ASSUME NEW n \in Nat, NEW S \in SUBSET (0..n), S # {}
    PROVE  \E x \in S : \A y \in S : y <= x
<1> DEFINE mirrored == {n - t : t \in S}
<1>1. mirrored \in SUBSET Nat /\ mirrored # {}
  <2>1. \A t \in S : n - t \in Nat
    OBVIOUS
  <2> QED
    BY <2>1
<1>2. PICK m \in mirrored : \A k \in mirrored : m <= k
  BY <1>1, LeastExists
<1>3. PICK t \in S : m = n - t
  BY <1>2
<1>4. ASSUME NEW u \in S PROVE u <= t
  <2>1. n - u \in mirrored
    OBVIOUS
  <2>2. n - t <= n - u
    BY <1>2, <1>3, <2>1
  <2> QED
    BY <2>2
<1> QED
  BY <1>4

-----------------------------------------------------------------------------
(***************************************************************************)
(* Types                                                                   *)
(***************************************************************************)

LEMMA Lengths ==
    /\ Pending \in Nat /\ Pending > 0 /\ SpacePerTier \in Nat /\ SpacePerTier > 0
    /\ FellOutLasts \in Nat /\ FellOutLasts > 0
    /\ IncidentLasts \in Nat /\ IncidentLasts > 0 /\ StayLasts \in Nat /\ StayLasts > 0
    /\ MaxTime \in Nat /\ Times \subseteq Nat
    /\ \A g \in Gaps : g \in Nat /\ g > 0
  BY LengthsAssumption DEF Times

LEMMA TimeType == ASSUME NEW x \in Times PROVE x \in Nat /\ x <= MaxTime
  BY Lengths DEF Times

\* What TypeOK says of the tables, entry by entry.
LEMMA Entries ==
    ASSUME TypeOK
    PROVE  /\ Len(choices) \in Nat /\ DOMAIN choices = 1..Len(choices)
           /\ \A c \in DOMAIN choices : choices[c] \in ChoiceRows
           /\ Len(events) \in Nat /\ DOMAIN events = 1..Len(events)
           /\ \A e \in DOMAIN events : events[e] \in EventRows
           /\ \A s \in Sessions : /\ Len(judged[s]) \in Nat
                                  /\ DOMAIN judged[s] = 1..Len(judged[s])
                                  /\ \A i \in DOMAIN judged[s] : judged[s][i] \in JudgedRows
           /\ \A t \in Turns : turn[t] \in TurnRows
           /\ \A a \in Answers : answer[a] \in AnswerRows
           /\ \A d \in Draws : draw[d] \in DrawRows
<1>1. Len(choices) \in Nat /\ DOMAIN choices = 1..Len(choices)
  BY LenProperties DEF TypeOK
<1>2. \A c \in DOMAIN choices : choices[c] \in ChoiceRows
  BY <1>1, ElementOfSeq DEF TypeOK
<1>3. Len(events) \in Nat /\ DOMAIN events = 1..Len(events)
  BY LenProperties DEF TypeOK
<1>4. \A e \in DOMAIN events : events[e] \in EventRows
  BY <1>3, ElementOfSeq DEF TypeOK
<1>5. ASSUME NEW s \in Sessions
      PROVE  /\ Len(judged[s]) \in Nat
             /\ DOMAIN judged[s] = 1..Len(judged[s])
             /\ \A i \in DOMAIN judged[s] : judged[s][i] \in JudgedRows
  <2>1. judged[s] \in Seq(JudgedRows)
    BY DEF TypeOK
  <2>2. Len(judged[s]) \in Nat /\ DOMAIN judged[s] = 1..Len(judged[s])
    BY <2>1, LenProperties
  <2> QED
    BY <2>1, <2>2, ElementOfSeq
<1> QED
  BY <1>1, <1>2, <1>3, <1>4, <1>5 DEF TypeOK

\* A row under way, from the old one or new.
CutAt(old, new, start) ==
    /\ new.kind = old.kind /\ new.choice = old.choice /\ new.start = old.start
    /\ new.lasts = old.lasts /\ new.late = old.late
    /\ new.end = IF old.kind \notin Background /\ old.start < start /\ start < old.end
                 THEN start ELSE old.end
Started(kind, c, start, lasts) ==
    [kind |-> kind, choice |-> c, start |-> start, end |-> start + lasts,
     lasts |-> lasts, late |-> now >= Lapses(c)]

\* insert_preempting, row by row.
LEMMA PreemptRows ==
    ASSUME TypeOK, NEW kind \in EventKinds, NEW c \in DOMAIN choices, NEW start \in Times,
           NEW lasts \in Nat
    PROVE  LET q == Preempt(kind, c, start, lasts)
           IN  /\ q \in Seq(EventRows)
               /\ Len(q) = Len(events) + 1
               /\ \A e \in DOMAIN events : CutAt(events[e], q[e], start)
               /\ q[Len(events) + 1] = Started(kind, c, start, lasts)
<1> DEFINE cut(e) == IF /\ Foreground(e)
                        /\ events[e].start < start /\ start < events[e].end
                     THEN [events[e] EXCEPT !.end = start] ELSE events[e]
           old == [e \in DOMAIN events |-> cut(e)]
           new == Started(kind, c, start, lasts)
<1>0. /\ Len(events) \in Nat /\ DOMAIN events = 1..Len(events)
      /\ \A e \in DOMAIN events : events[e] \in EventRows
      /\ start \in Nat /\ c \in Nat
  BY Entries, Lengths
<1>1. ASSUME NEW e \in DOMAIN events PROVE cut(e) \in EventRows /\ CutAt(events[e], cut(e), start)
  <2>1. events[e] \in EventRows
    BY <1>0
  <2>2. [events[e] EXCEPT !.end = start] \in EventRows
    BY <1>0, <2>1 DEF EventRows
  <2> QED
    BY <2>1, <2>2 DEF CutAt, Foreground, EventRows
<1>2. new \in EventRows
  <2>1. start + lasts \in Nat /\ (now >= Lapses(c)) \in BOOLEAN
    BY <1>0
  <2> DEFINE late == now >= Lapses(c)
             end == start + lasts
  <2>2. [kind |-> kind, choice |-> c, start |-> start, end |-> end,
         lasts |-> lasts, late |-> late] \in EventRows
    <3> HIDE DEF late, end
    <3> QED
      BY <1>0, <2>1 DEF EventRows, late, end
  <2> QED
    BY <2>2 DEF Started
<1> HIDE DEF cut, new
<1>3. old \in Seq(EventRows) /\ Len(old) = Len(events)
  <2>1. old \in [1..Len(events) -> EventRows]
    BY <1>0, <1>1
  <2> QED
    BY <1>0, <2>1
<1>4. Preempt(kind, c, start, lasts) = Append(old, new)
  BY DEF Preempt, cut, new, Started
<1> HIDE DEF old
<1>5. /\ Append(old, new) \in Seq(EventRows) /\ Len(Append(old, new)) = Len(events) + 1
      /\ Append(old, new)[Len(events) + 1] = new
      /\ \A e \in 1..Len(events) : Append(old, new)[e] = old[e]
  BY <1>0, <1>2, <1>3, AppendProperties
<1>6. \A e \in DOMAIN events : Append(old, new)[e] = cut(e)
  BY <1>0, <1>5 DEF old
<1> QED
  BY <1>1, <1>4, <1>5, <1>6 DEF new

\* resolve, row by row.
LEMMA ResolvedRows ==
    ASSUME TypeOK, NEW c \in DOMAIN choices, NEW status \in Statuses, NEW at \in Times,
           NEW event \in Nat, NEW lost \in [Lines -> Nat]
    PROVE  LET q == Resolved(c, status, at, event, lost)
           IN  /\ q \in Seq(ChoiceRows) /\ Len(q) = Len(choices)
               /\ \A d \in DOMAIN choices \ {c} : q[d] = choices[d]
               /\ q[c].session = choices[c].session /\ q[c].kind = choices[c].kind
               /\ q[c].gap = choices[c].gap /\ q[c].askedAt = choices[c].askedAt
               /\ q[c].status = status /\ q[c].resolvedAt = at /\ q[c].event = event
               /\ \A l \in Lines : q[c].lost[l] = choices[c].lost[l] + lost[l]
<1> DEFINE sum == [l \in Lines |-> choices[c].lost[l] + lost[l]]
           new == [choices[c] EXCEPT !.status = status, !.resolvedAt = at,
                                     !.event = event, !.lost = sum]
<1>0. choices \in Seq(ChoiceRows) /\ DOMAIN choices = 1..Len(choices)
      /\ choices[c] \in ChoiceRows
  BY Entries DEF TypeOK
<1>1. sum \in [Lines -> Nat]
  BY <1>0 DEF ChoiceRows
<1>2. Resolved(c, status, at, event, lost) = [choices EXCEPT ![c] = new]
  BY <1>0 DEF Resolved, ChoiceRows
<1> HIDE DEF sum
<1>3. new \in ChoiceRows
  BY <1>0, <1>1 DEF ChoiceRows
<1>4. /\ new.session = choices[c].session /\ new.kind = choices[c].kind
      /\ new.gap = choices[c].gap /\ new.askedAt = choices[c].askedAt
      /\ new.status = status /\ new.resolvedAt = at /\ new.event = event /\ new.lost = sum
  BY <1>0 DEF ChoiceRows
<1> HIDE DEF new
<1>5. /\ [choices EXCEPT ![c] = new] \in Seq(ChoiceRows)
      /\ Len([choices EXCEPT ![c] = new]) = Len(choices)
      /\ \A d \in 1..Len(choices) :
            [choices EXCEPT ![c] = new][d] = IF d = c THEN new ELSE choices[d]
  BY <1>0, <1>3, ExceptSeq
<1> QED
  BY <1>0, <1>2, <1>4, <1>5 DEF sum

\* No entry is of the future.
NothingAhead ==
    /\ \A c \in DOMAIN choices : choices[c].askedAt <= now /\ choices[c].resolvedAt <= now
    /\ \A e \in DOMAIN events : events[e].start <= now
    /\ \A s \in Sessions : \A i \in DOMAIN judged[s] : judged[s][i].at <= now
    /\ \A a \in Answers : answer[a].at <= now
    /\ \A d \in Draws : draw[d].at <= now

\* What the tables say of each other.
Links ==
    /\ \A e \in DOMAIN events : /\ events[e].choice <= Len(choices)
                                /\ events[e].start < events[e].end
    /\ \A c \in DOMAIN choices : choices[c].event <= Len(events)
    /\ \A c \in DOMAIN choices : choices[c].kind = "ask_for_space" => choices[c].gap \in Gaps

\* What a message's turn holds.
TurnHolds(t) ==
    /\ turn[t].sentAt <= now /\ turn[t].ask.since <= now
    /\ turn[t].stage = "converting" =>
         turn[t].read \in DOMAIN choices /\ choices[turn[t].read].askedAt <= turn[t].sentAt
    /\ turn[t].stage = "asking" =>
         /\ \A x \in turn[t].ask.anchor : x < turn[t].ask.since
         /\ turn[t].ask.kind = "ask_for_space" => turn[t].ask.gap \in Gaps

\* What an answer holds: it came after the ask.
AnswerHolds(a) ==
    answer[a].stage = "answering" =>
      answer[a].choice \in DOMAIN choices /\ choices[answer[a].choice].askedAt <= answer[a].at

\* A draw that runs was started while nothing that still waits was waiting.
DrawHolds(d) ==
    draw[d].stage = "drawing" =>
      \A c \in DOMAIN choices : choices[c].status = "pending" =>
         draw[d].at <= choices[c].askedAt \/ Lapses(c) <= draw[d].at

LifeInv ==
    /\ TypeOK /\ NothingAhead /\ Links
    /\ \A t \in Turns : TurnHolds(t)
    /\ \A a \in Answers : AnswerHolds(a)
    /\ \A d \in Draws : DrawHolds(d)

-----------------------------------------------------------------------------
(***************************************************************************)
(* What a step makes of the choices and the events                         *)
(***************************************************************************)

Settlements == {"accepted", "declined", "ignored"}

Quiet == choices' = choices /\ events' = events /\ now' \in {now, now + 1}

NewChoice(t) ==
    [session |-> SessionOf[t], kind |-> turn[t].ask.kind, gap |-> turn[t].ask.gap,
     status |-> "pending", askedAt |-> now, resolvedAt |-> 0, event |-> 0, lost |-> NoLoss]

Asked(t) ==
    /\ turn[t].stage = "asking" /\ MayAsk(t)
    /\ choices' = Append(choices, NewChoice(t))
    /\ now' = now /\ events' = events

\* Choice c is settled as of an instant, and what follows starts.
Outcome(c, status) ==
    IF choices[c].kind # "ask_for_space" \/ status = "declined" THEN "none"
    ELSE IF status = "accepted" THEN "taking_space" ELSE "fell_out"
Charged(c, status) == IF status = "ignored" THEN NoLoss ELSE Cost(choices[c].kind, status)
LinkOf(c, status) == IF Outcome(c, status) = "taking_space" THEN Len(events) + 1 ELSE 0

SettledAt(c, status, at) ==
    /\ Unanswered(c, at) /\ choices[c].askedAt <= at /\ at <= now
    /\ now' = now
    /\ choices' = Resolved(c, status, at, LinkOf(c, status), Charged(c, status))
    /\ IF Outcome(c, status) = "none" THEN events' = events
       ELSE \E lasts \in Nat \ {0} :
              events' = Preempt(Outcome(c, status), c, at, lasts)
    /\ status = "ignored" =>
         \E t \in Turns : turn[t].stage = "converting" /\ turn[t].read = c /\ turn[t].sentAt = at

NewDrawn(kind, start, lasts) ==
    [kind |-> kind, choice |-> 0, start |-> start, end |-> start + lasts,
     lasts |-> lasts, late |-> FALSE]

Drawn(d) ==
    /\ draw[d].stage = "drawing"
    /\ now' = now /\ choices' = choices
    /\ \E kind \in DrawnKinds, start \in {now, draw[d].at}, lasts \in Nat \ {0} :
         /\ MayHappen(kind, start)
         /\ events' = Append(events, NewDrawn(kind, start, lasts))

\* An answer costs whole tiers.
LEMMA CostType ==
    ASSUME NEW kind \in Kinds, NEW status \in Settlements
    PROVE  Cost(kind, status) \in [Lines -> Nat] /\ NoLoss \in [Lines -> Nat]
<1>1. ASSUME NEW l \in Lines
      PROVE  (CASE kind = "ask_for_space" -> 1
                [] kind # "ask_for_space" /\ status = "accepted" -> 0
                [] kind = "propose" /\ status # "accepted" -> 1
                [] OTHER -> IF l = "chemistry" THEN 1 ELSE 0) \in Nat
  BY DEF Kinds, Settlements, Lines
<1> QED
  BY <1>1 DEF Cost, NoLoss

\* The conversion settles the choice its message ignored.
LEMMA ConvertEffect ==
    ASSUME LifeInv, NEW t \in Turns, Convert(t)
    PROVE  Quiet \/ \E c \in DOMAIN choices, at \in Times : SettledAt(c, "ignored", at)
<1> DEFINE c == turn[t].read
           at == turn[t].sentAt
<1>0. /\ turn[t] \in TurnRows /\ TurnHolds(t) /\ TypeOK
      /\ \A d \in DOMAIN choices : choices[d] \in ChoiceRows
  BY Entries DEF LifeInv
<1>1. turn[t].stage = "converting" /\ now' = now
  BY DEF Convert
<1>2. c \in DOMAIN choices /\ choices[c].askedAt <= at /\ at <= now /\ at \in Times
  BY <1>0, <1>1 DEF TurnHolds, TurnRows
<1>3. CASE ~Resolvable(c, at)
  BY <1>1, <1>3 DEF Convert, Quiet
<1>4. CASE Resolvable(c, at)
  <2>1. choices' = Resolved(c, "ignored", at, 0, NoLoss)
    BY <1>4 DEF Convert
  <2>2. events' = IF choices[c].kind = "ask_for_space"
                  THEN Preempt("fell_out", c, at, FellOutLasts) ELSE events
    BY <1>4 DEF Convert
  <2>3. /\ LinkOf(c, "ignored") = 0 /\ Charged(c, "ignored") = NoLoss
        /\ Outcome(c, "ignored") = IF choices[c].kind = "ask_for_space" THEN "fell_out" ELSE "none"
    BY DEF LinkOf, Charged, Outcome
  <2>4. IF Outcome(c, "ignored") = "none" THEN events' = events
        ELSE \E lasts \in Nat \ {0} : events' = Preempt(Outcome(c, "ignored"), c, at, lasts)
    BY <2>2, <2>3, Lengths
  <2>5. SettledAt(c, "ignored", at)
    BY <1>1, <1>2, <1>4, <2>1, <2>3, <2>4 DEF SettledAt, Resolvable
  <2> QED
    BY <1>2, <2>5
<1> QED
  BY <1>3, <1>4

\* The route settles the choice it answers.
LEMMA AnswerEffect ==
    ASSUME LifeInv, NEW a \in Answers, CommitAnswer(a)
    PROVE  \/ Quiet
           \/ \E c \in DOMAIN choices, at \in Times, status \in {"accepted", "declined"} :
                SettledAt(c, status, at)
<1> DEFINE c == answer[a].choice
           at == answer[a].at
           kind == choices[c].kind
           status == IF answer[a].response = "accept" THEN "accepted" ELSE "declined"
           apart == kind = "ask_for_space" /\ status = "accepted"
<1>0. /\ answer[a] \in AnswerRows /\ AnswerHolds(a) /\ TypeOK /\ Links /\ NothingAhead
      /\ \A d \in DOMAIN choices : choices[d] \in ChoiceRows
  BY Entries DEF LifeInv
<1>1. answer[a].stage = "answering" /\ now' = now
  BY DEF CommitAnswer
<1>2. c \in DOMAIN choices /\ choices[c].askedAt <= at /\ at <= now /\ at \in Times
  BY <1>0, <1>1 DEF AnswerHolds, AnswerRows, NothingAhead
<1>3. CASE ~Resolvable(c, at)
  BY <1>1, <1>3 DEF CommitAnswer, Quiet
<1>4. CASE Resolvable(c, at)
  <2>1. choices' = Resolved(c, status, at, IF apart THEN Len(events) + 1 ELSE 0,
                            Cost(kind, status))
    BY <1>4 DEF CommitAnswer
  <2>2. events' = IF apart
                  THEN Preempt("taking_space", c, at, SpacePerTier * choices[c].gap)
                  ELSE events
    BY <1>4 DEF CommitAnswer
  <2>3. /\ LinkOf(c, status) = IF apart THEN Len(events) + 1 ELSE 0
        /\ Charged(c, status) = Cost(kind, status)
        /\ Outcome(c, status) = IF apart THEN "taking_space" ELSE "none"
    BY DEF LinkOf, Charged, Outcome
  <2>4. apart => SpacePerTier * choices[c].gap \in Nat \ {0}
    <3> SUFFICES ASSUME apart PROVE SpacePerTier * choices[c].gap \in Nat \ {0}
      OBVIOUS
    <3> DEFINE g == choices[c].gap
    <3>1. g \in Nat /\ g > 0
      BY <1>0, <1>2, Lengths DEF Links
    <3> HIDE DEF g
    <3>2. SpacePerTier * g \in Nat /\ SpacePerTier * g > 0
      BY <3>1, Lengths
    <3> QED
      BY <3>2 DEF g
  <2>5. IF Outcome(c, status) = "none" THEN events' = events
        ELSE \E lasts \in Nat \ {0} : events' = Preempt(Outcome(c, status), c, at, lasts)
    BY <2>2, <2>3, <2>4
  <2>6. status # "ignored" /\ status \in {"accepted", "declined"}
    OBVIOUS
  <2>7. choices' = Resolved(c, status, at, LinkOf(c, status), Charged(c, status))
    BY <2>1, <2>3
  <2> HIDE DEF status
  <2>8. SettledAt(c, status, at)
    BY <1>1, <1>2, <1>4, <2>5, <2>6, <2>7 DEF SettledAt, Resolvable
  <2> QED
    BY <1>2, <2>6, <2>8
<1> QED
  BY <1>3, <1>4

\* A step leaves the choices and the events alone, asks, settles, or draws.
LEMMA Effects ==
    ASSUME LifeInv, [Next]_vars
    PROVE  \/ Quiet
           \/ \E t \in Turns : Asked(t)
           \/ \E c \in DOMAIN choices, at \in Times, status \in Settlements :
                SettledAt(c, status, at)
           \/ \E d \in Draws : Drawn(d)
<1>1. ASSUME NEW t \in Turns, InsertAsk(t) PROVE Quiet \/ Asked(t)
  BY <1>1 DEF InsertAsk, Quiet, Asked, NewChoice
<1>2. ASSUME NEW d \in Draws, NEW told \in BOOLEAN, CommitDraw(d, told) PROVE Quiet \/ Drawn(d)
  <2> DEFINE kind == draw[d].kind
             start == IF told THEN now ELSE draw[d].at
             lasts == IF kind \in Background THEN StayLasts ELSE IncidentLasts
  <2>1. kind \in DrawnKinds /\ start \in {now, draw[d].at} /\ lasts \in Nat \ {0}
    BY Entries, Lengths DEF LifeInv, DrawRows
  <2>2. /\ draw[d].stage = "drawing" /\ now' = now /\ choices' = choices
        /\ events' = IF MayHappen(kind, start)
                     THEN Append(events, NewDrawn(kind, start, lasts)) ELSE events
    BY <1>2 DEF CommitDraw, NewDrawn
  <2> HIDE DEF kind, start, lasts
  <2> QED
    BY <2>1, <2>2 DEF Quiet, Drawn
<1>3. ASSUME UNCHANGED <<now, choices, events>> PROVE Quiet
  BY <1>3 DEF Quiet
<1>4. ASSUME Tick PROVE Quiet
  BY <1>4 DEF Tick, Quiet
<1>5. ASSUME NEW t \in Turns,
             \/ Send(t) \/ ReadPending(t) \/ ConvertFails(t) \/ Redrive(t) \/ Ghost(t)
             \/ (\E mood \in Moods : Judge(t, mood)) \/ TryAsk(t) \/ TryRomance(t)
             \/ NoAskNow(t) \/ AskFails(t)
      PROVE  Quiet
  BY <1>3, <1>5 DEF Send, ReadPending, ConvertFails, Redrive, Ghost, Judge, TryAsk,
     TryRomance, NoAskNow, AskFails
<1>6. ASSUME NEW a \in Answers, NEW c \in DOMAIN choices, NEW r \in {"accept", "decline"},
             StartAnswer(a, c, r)
      PROVE  Quiet
  BY <1>3, <1>6 DEF StartAnswer
<1>7. ASSUME NEW d \in Draws, NEW kind \in DrawnKinds, StartDraw(d, kind) PROVE Quiet
  BY <1>3, <1>7 DEF StartDraw
<1>8. {"accepted", "declined"} \subseteq Settlements /\ "ignored" \in Settlements
  BY DEF Settlements
<1>9. ASSUME NEW t \in Turns, Convert(t)
      PROVE  Quiet \/ \E c \in DOMAIN choices, at \in Times, status \in Settlements :
                          SettledAt(c, status, at)
  BY <1>8, <1>9, ConvertEffect
<1>10. ASSUME NEW a \in Answers, CommitAnswer(a)
       PROVE  Quiet \/ \E c \in DOMAIN choices, at \in Times, status \in Settlements :
                           SettledAt(c, status, at)
  BY <1>8, <1>10, AnswerEffect
<1> QED
  BY <1>1, <1>2, <1>3, <1>4, <1>5, <1>6, <1>7, <1>9, <1>10 DEF Next, vars

\* The rows a step writes.
LEMMA TablesType ==
    ASSUME LifeInv, [Next]_vars
    PROVE  choices' \in Seq(ChoiceRows) /\ events' \in Seq(EventRows)
<1>0. /\ TypeOK /\ choices \in Seq(ChoiceRows) /\ events \in Seq(EventRows)
      /\ now \in Times /\ Times \subseteq Nat
      /\ \A c \in DOMAIN choices : choices[c] \in ChoiceRows
      /\ Len(events) \in Nat
  BY Entries, Lengths DEF LifeInv, TypeOK
<1>1. CASE Quiet
  BY <1>0, <1>1 DEF Quiet
<1>2. ASSUME NEW t \in Turns, Asked(t)
      PROVE  choices' \in Seq(ChoiceRows) /\ events' \in Seq(EventRows)
  <2>1. turn[t].ask \in AskRows /\ SessionOf[t] \in Sessions
    BY <1>0, Entries, SessionsAssumption DEF TurnRows
  <2>2. NewChoice(t) \in ChoiceRows
    <3>1. NoLoss \in [Lines -> Nat] /\ "pending" \in Statuses /\ 0 \in Times /\ 0 \in Nat
      BY CostType, Lengths DEF NoLoss, Statuses, Times
    <3> QED
      BY <1>0, <2>1, <3>1 DEF NewChoice, ChoiceRows, AskRows
  <2>3. choices' = Append(choices, NewChoice(t)) /\ events' = events
    BY <1>2 DEF Asked
  <2> HIDE DEF NewChoice
  <2> QED
    BY <1>0, <2>2, <2>3, AppendProperties
<1>3. ASSUME NEW c \in DOMAIN choices, NEW at \in Times, NEW status \in Settlements,
             SettledAt(c, status, at)
      PROVE  choices' \in Seq(ChoiceRows) /\ events' \in Seq(EventRows)
  <2>1. choices' = Resolved(c, status, at, LinkOf(c, status), Charged(c, status))
    BY <1>3 DEF SettledAt
  <2>2. /\ status \in Statuses /\ LinkOf(c, status) \in Nat
        /\ Charged(c, status) \in [Lines -> Nat]
    <3>1. choices[c].kind \in Kinds
      BY <1>0 DEF ChoiceRows
    <3>2. Charged(c, status) \in [Lines -> Nat]
      BY <3>1, CostType DEF Charged
    <3>3. LinkOf(c, status) \in Nat
      BY <1>0 DEF LinkOf
    <3> QED
      BY <3>2, <3>3 DEF Settlements, Statuses
  <2>3. choices' \in Seq(ChoiceRows)
    BY <1>0, <2>1, <2>2, ResolvedRows
  <2>4. Outcome(c, status) \in EventKinds \cup {"none"}
    BY DEF Outcome, EventKinds
  <2>5. events' \in Seq(EventRows)
    <3>1. CASE Outcome(c, status) = "none"
      BY <1>0, <1>3, <3>1 DEF SettledAt
    <3>2. CASE Outcome(c, status) # "none"
      <4>1. PICK lasts \in Nat \ {0} : events' = Preempt(Outcome(c, status), c, at, lasts)
        BY <1>3, <3>2 DEF SettledAt
      <4>2. Outcome(c, status) \in EventKinds
        BY <2>4, <3>2
      <4> QED
        BY <1>0, <4>1, <4>2, PreemptRows
    <3> QED
      BY <3>1, <3>2
  <2> QED
    BY <2>3, <2>5
<1>4. ASSUME NEW d \in Draws, Drawn(d)
      PROVE  choices' \in Seq(ChoiceRows) /\ events' \in Seq(EventRows)
  <2>1. PICK kind \in DrawnKinds, start \in {now, draw[d].at}, lasts \in Nat \ {0} :
           events' = Append(events, NewDrawn(kind, start, lasts))
    BY <1>4 DEF Drawn
  <2>2. start \in Times
    BY <1>0, Entries DEF DrawRows
  <2>3. NewDrawn(kind, start, lasts) \in EventRows
    <3>1. start + lasts \in Nat
      BY <1>0, <2>2
    <3> QED
      BY <2>2, <3>1 DEF NewDrawn, EventRows, EventKinds
  <2> HIDE DEF NewDrawn
  <2> QED
    BY <1>0, <1>4, <2>1, <2>3, AppendProperties DEF Drawn
<1> QED
  BY <1>1, <1>2, <1>3, <1>4, Effects

\* Where an episode ends.
LEMMA AnchorType ==
    ASSUME LifeInv, NEW s \in Sessions
    PROVE  Anchor(s) \in SUBSET Nat
<1>0. /\ \A c \in DOMAIN choices : choices[c] \in ChoiceRows
      /\ DOMAIN events = 1..Len(events) /\ Len(events) \in Nat
      /\ \A e \in DOMAIN events : events[e] \in EventRows
      /\ Times \subseteq Nat /\ Links
  BY Entries, Lengths DEF LifeInv
<1>1. ASSUME NEW c \in DOMAIN choices PROVE EpisodeEnd(c) \in Nat
  <2>1. choices[c].askedAt \in Nat /\ choices[c].resolvedAt \in Nat /\ choices[c].event \in Nat
    BY <1>0 DEF ChoiceRows
  <2>2. choices[c].event # 0 => events[choices[c].event].end \in Nat
    <3>1. choices[c].event # 0 => choices[c].event \in DOMAIN events
      BY <1>0, <2>1 DEF Links
    <3> QED
      BY <1>0, <3>1 DEF EventRows
  <2> QED
    BY <2>1, <2>2 DEF EpisodeEnd, AtLeast
<1> QED
  BY <1>1 DEF Anchor, Of

\* The oldest judged turn of a window is one of it.
LEMMA OldestIsJudged ==
    ASSUME LifeInv, NEW s \in Sessions, NEW w \in SUBSET DOMAIN judged[s], w # {}
    PROVE  /\ \E i \in w : Oldest(s, w) = judged[s][i].at
           /\ Oldest(s, w) \in Times /\ Oldest(s, w) <= now
<1>0. /\ DOMAIN judged[s] \in SUBSET Nat
      /\ \A i \in DOMAIN judged[s] : judged[s][i] \in JudgedRows /\ judged[s][i].at <= now
  BY Entries DEF LifeInv, NothingAhead
<1>1. \E i \in w : \A j \in w : i <= j
  BY <1>0, LeastExists
<1>2. \E i \in w : Oldest(s, w) = judged[s][i].at
  BY <1>1 DEF Oldest
<1> QED
  BY <1>0, <1>2 DEF JudgedRows

\* A streak or a hit is of some turns.
LEMMA NotOfNothing ==
    ASSUME LifeInv, NEW s \in Sessions, NEW w \in SUBSET DOMAIN judged[s], NEW mood,
           NEW n \in Nat \ {0},
           All(s, w, n, mood) \/ Warm(s, w) >= n
    PROVE  w # {}
<1> SUFFICES ASSUME w = {} PROVE FALSE
  OBVIOUS
<1>1. {i \in w : i + n > Len(judged[s])} = {} /\ {i \in w : judged[s][i].mood = "warm"} = {}
  OBVIOUS
<1>2. Cardinality({}) = 0
  BY FS_EmptySet
<1> QED
  BY <1>1, <1>2 DEF All, Warm

\* She asks on turns judged after the episode she read.
LEMMA AskingRow ==
    ASSUME LifeInv, NEW t \in Turns, TryAsk(t) \/ TryRomance(t)
    PROVE  \E r \in TurnRows :
              /\ turn' = [turn EXCEPT ![t] = r]
              /\ r.sentAt = turn[t].sentAt /\ r.stage = "asking"
              /\ r.ask.since <= now /\ \A x \in r.ask.anchor : x < r.ask.since
              /\ r.ask.kind = "ask_for_space" => r.ask.gap \in Gaps
<1> DEFINE s == SessionOf[t]
<1>0. /\ s \in Sessions /\ turn[t] \in TurnRows /\ Anchor(s) \in SUBSET Nat
  BY Entries, SessionsAssumption, AnchorType DEF LifeInv
<1>1. ASSUME NEW kind \in Kinds, NEW gap \in Gaps \cup {0}, NEW n,
             kind = "ask_for_space" => gap \in Gaps,
             Since(s, Anchor(s), n) # {},
             Asking(t, kind, gap, Since(s, Anchor(s), n))
      PROVE  \E r \in TurnRows :
               /\ turn' = [turn EXCEPT ![t] = r]
               /\ r.sentAt = turn[t].sentAt /\ r.stage = "asking"
               /\ r.ask.since <= now /\ \A x \in r.ask.anchor : x < r.ask.since
               /\ r.ask.kind = "ask_for_space" => r.ask.gap \in Gaps
  <2> DEFINE w == Since(s, Anchor(s), n)
             since == Oldest(s, w)
             ask == [kind |-> kind, gap |-> gap, anchor |-> Anchor(s), since |-> since]
             r == [turn[t] EXCEPT !.stage = "asking", !.ask = ask]
  <2>1. w \in SUBSET DOMAIN judged[s]
    BY DEF Since
  <2>2. since \in Times /\ since <= now /\ \E i \in w : since = judged[s][i].at
    BY <1>0, <1>1, <2>1, OldestIsJudged
  <2>3. \A x \in Anchor(s) : x < since
    <3>1. \A i \in w : \A x \in Anchor(s) : judged[s][i].at > x
      BY DEF Since
    <3>2. PICK i \in w : since = judged[s][i].at
      BY <2>2
    <3> QED
      BY <1>0, <2>2, <3>1, <3>2, Lengths
  <2>4. turn' = [turn EXCEPT ![t] = r]
    BY <1>1 DEF Asking, Step
  <2> HIDE DEF w, since
  <2>5. ask \in AskRows
    BY <1>0, <2>2 DEF AskRows
  <2>6. /\ r \in TurnRows /\ r.sentAt = turn[t].sentAt /\ r.stage = "asking" /\ r.ask = ask
    <3> HIDE DEF ask
    <3> QED
      BY <1>0, <2>5 DEF TurnRows
  <2>7. ask.since = since /\ ask.anchor = Anchor(s) /\ ask.kind = kind /\ ask.gap = gap
    OBVIOUS
  <2> HIDE DEF r, ask
  <2> QED
    BY <1>1, <2>2, <2>3, <2>4, <2>6, <2>7
<1>2. CASE TryAsk(t)
  <2> DEFINE w == Since(s, Anchor(s), ColdStreak)
  <2>1. All(s, w, ColdStreak, "cold") /\ \E gap \in Gaps : Asking(t, "ask_for_space", gap, w)
    BY <1>2 DEF TryAsk
  <2>2. w # {}
    <3>1. w \in SUBSET DOMAIN judged[s] /\ ColdStreak \in Nat \ {0}
      BY LengthsAssumption DEF Since
    <3> HIDE DEF w
    <3> QED
      BY <1>0, <2>1, <3>1, NotOfNothing
  <2>3. "ask_for_space" \in Kinds
    BY DEF Kinds
  <2> QED
    BY <1>1, <2>1, <2>2, <2>3
<1>3. CASE TryRomance(t)
  <2> DEFINE w == Since(s, Anchor(s), ProposeWindow)
  <2>1. PICK kind \in Romantic :
          /\ IF kind = "propose" THEN Warm(s, w) >= ProposeHits
             ELSE All(s, w, WarmStreak, "warm")
          /\ Asking(t, kind, 0, w)
    BY <1>3 DEF TryRomance
  <2>2. w # {}
    <3>1. /\ w \in SUBSET DOMAIN judged[s]
          /\ ProposeHits \in Nat \ {0} /\ WarmStreak \in Nat \ {0}
      BY LengthsAssumption DEF Since
    <3> HIDE DEF w
    <3> QED
      BY <1>0, <2>1, <3>1, NotOfNothing
  <2>3. kind \in Kinds /\ kind # "ask_for_space"
    BY DEF Kinds, Romantic
  <2>4. 0 \in Gaps \cup {0}
    OBVIOUS
  <2> QED
    BY <1>1, <2>1, <2>2, <2>3, <2>4
<1> QED
  BY <1>2, <1>3

\* What a step of a message's turn leaves it with.
RowFits(t, r) ==
    \/ r.stage \notin {"converting", "asking"} /\ r.sentAt <= now /\ r.ask.since <= now
    \/ /\ r.stage = "converting" /\ r.sentAt = turn[t].sentAt /\ r.ask = turn[t].ask
       /\ r.read \in Ignored(t)
       /\ UNCHANGED <<now, choices, events>>
    \/ /\ r.stage = "asking" /\ r.sentAt = turn[t].sentAt
       /\ r.ask.since <= now /\ \A x \in r.ask.anchor : x < r.ask.since
       /\ r.ask.kind = "ask_for_space" => r.ask.gap \in Gaps

TurnStep(t) ==
    \/ Send(t) \/ ReadPending(t) \/ Convert(t) \/ ConvertFails(t)
    \/ Redrive(t) \/ Ghost(t) \/ (\E mood \in Moods : Judge(t, mood))
    \/ TryAsk(t) \/ TryRomance(t) \/ NoAskNow(t) \/ InsertAsk(t) \/ AskFails(t)

\* The rows a turn goes through.
LEMMA TurnRowTypes ==
    ASSUME LifeInv, NEW t \in Turns,
           NEW stage \in {"unsent", "queued", "driven", "judged", "romance", "done"}
    PROVE  /\ Idle(stage) \in TurnRows /\ RowFits(t, Idle(stage))
           /\ [turn[t] EXCEPT !.stage = stage] \in TurnRows
           /\ RowFits(t, [turn[t] EXCEPT !.stage = stage])
           /\ [turn[t] EXCEPT !.stage = stage, !.sentAt = now] \in TurnRows
           /\ RowFits(t, [turn[t] EXCEPT !.stage = stage, !.sentAt = now])
           /\ [turn[t] EXCEPT !.stage = stage, !.read = 0] \in TurnRows
           /\ RowFits(t, [turn[t] EXCEPT !.stage = stage, !.read = 0])
<1>0. /\ turn[t] \in TurnRows /\ TurnHolds(t) /\ now \in Times /\ now \in Nat
      /\ 0 \in Times /\ 0 <= now
  BY Entries, Lengths DEF LifeInv, TypeOK, Times
<1>1. Idle(stage) \in TurnRows /\ RowFits(t, Idle(stage))
  <2>1. NoAsk \in AskRows /\ NoAsk.since = 0
    BY <1>0 DEF NoAsk, AskRows, Kinds
  <2>2. Idle(stage) \in TurnRows
    BY <1>0, <2>1 DEF Idle, TurnRows
  <2> QED
    BY <1>0, <2>1, <2>2 DEF Idle, RowFits
<1>2. /\ [turn[t] EXCEPT !.stage = stage] \in TurnRows
      /\ RowFits(t, [turn[t] EXCEPT !.stage = stage])
  BY <1>0 DEF TurnRows, RowFits, TurnHolds
<1>3. /\ [turn[t] EXCEPT !.stage = stage, !.sentAt = now] \in TurnRows
      /\ RowFits(t, [turn[t] EXCEPT !.stage = stage, !.sentAt = now])
  <2> DEFINE r == [turn[t] EXCEPT !.stage = stage, !.sentAt = now]
  <2>1. r \in TurnRows /\ r.stage = stage /\ r.sentAt = now /\ r.ask = turn[t].ask
    BY <1>0 DEF TurnRows
  <2> HIDE DEF r
  <2>2. RowFits(t, r)
    BY <1>0, <2>1 DEF RowFits, TurnHolds
  <2> QED
    BY <2>1, <2>2 DEF r
<1>4. /\ [turn[t] EXCEPT !.stage = stage, !.read = 0] \in TurnRows
      /\ RowFits(t, [turn[t] EXCEPT !.stage = stage, !.read = 0])
  BY <1>0 DEF TurnRows, RowFits, TurnHolds
<1> QED
  BY <1>1, <1>2, <1>3, <1>4

\* A step of a message's turn writes its row.
LEMMA OwnTurn ==
    ASSUME LifeInv, NEW t \in Turns, TurnStep(t)
    PROVE  \E r \in TurnRows : turn' = [turn EXCEPT ![t] = r] /\ RowFits(t, r)
<1> DEFINE Goal == \E r \in TurnRows : turn' = [turn EXCEPT ![t] = r] /\ RowFits(t, r)
           Safe == {"unsent", "queued", "driven", "judged", "romance", "done"}
<1>1. CASE Send(t)
  BY <1>1, TurnRowTypes DEF Send, Step
<1>2. CASE ReadPending(t)
  <2>1. CASE Ignored(t) = {}
    BY <1>2, <2>1, TurnRowTypes DEF ReadPending, To, Step
  <2>2. CASE Ignored(t) # {}
    <3>1. PICK c \in Ignored(t) :
             turn' = [turn EXCEPT ![t] = [turn[t] EXCEPT !.stage = "converting", !.read = c]]
      BY <1>2, <2>2 DEF ReadPending, Step
    <3> DEFINE r == [turn[t] EXCEPT !.stage = "converting", !.read = c]
    <3>2. turn[t] \in TurnRows /\ c \in Nat
      BY Entries DEF LifeInv, Ignored, Of
    <3>3. /\ r \in TurnRows /\ r.stage = "converting" /\ r.read = c
          /\ r.sentAt = turn[t].sentAt /\ r.ask = turn[t].ask
      BY <3>2 DEF TurnRows
    <3>4. UNCHANGED <<now, choices, events>>
      BY <1>2 DEF ReadPending
    <3> HIDE DEF r
    <3> QED
      BY <3>1, <3>3, <3>4 DEF RowFits, r
  <2> QED
    BY <2>1, <2>2
<1>3. CASE Convert(t) \/ ConvertFails(t)
  <2>1. turn' = [turn EXCEPT ![t] = [turn[t] EXCEPT !.stage = "driven", !.read = 0]]
    BY <1>3 DEF Convert, ConvertFails, Step
  <2> QED
    BY <2>1, TurnRowTypes
<1>4. CASE Redrive(t) \/ NoAskNow(t)
  <2>1. \E stage \in Safe : turn' = [turn EXCEPT ![t] = [turn[t] EXCEPT !.stage = stage]]
    BY <1>4 DEF Redrive, NoAskNow, To, Step
  <2> QED
    BY <2>1, TurnRowTypes
<1>5. CASE Ghost(t) \/ (\E mood \in Moods : Judge(t, mood)) \/ InsertAsk(t) \/ AskFails(t)
  <2>1. \E stage \in Safe : turn' = [turn EXCEPT ![t] = Idle(stage)]
    BY <1>5 DEF Ghost, Judge, InsertAsk, AskFails, AfterAsk, Step
  <2> QED
    BY <2>1, TurnRowTypes
<1>6. CASE TryAsk(t) \/ TryRomance(t)
  <2>1. PICK r \in TurnRows :
              /\ turn' = [turn EXCEPT ![t] = r]
              /\ r.sentAt = turn[t].sentAt /\ r.stage = "asking"
              /\ r.ask.since <= now /\ \A x \in r.ask.anchor : x < r.ask.since
              /\ r.ask.kind = "ask_for_space" => r.ask.gap \in Gaps
    BY <1>6, AskingRow
  <2> QED
    BY <2>1 DEF RowFits
<1> QED
  BY <1>1, <1>2, <1>3, <1>4, <1>5, <1>6 DEF TurnStep

\* A step leaves a message's turn alone or is its own.
LEMMA TurnChanges ==
    ASSUME LifeInv, [Next]_vars
    PROVE  /\ turn' \in [Turns -> TurnRows]
           /\ \A t \in Turns : turn'[t] = turn[t] \/ RowFits(t, turn'[t])
<1>0. turn \in [Turns -> TurnRows]
  BY DEF LifeInv, TypeOK
<1>1. ASSUME turn' = turn
      PROVE  /\ turn' \in [Turns -> TurnRows]
             /\ \A t \in Turns : turn'[t] = turn[t] \/ RowFits(t, turn'[t])
  BY <1>0, <1>1
<1>2. ASSUME NEW t \in Turns, TurnStep(t)
      PROVE  /\ turn' \in [Turns -> TurnRows]
             /\ \A u \in Turns : turn'[u] = turn[u] \/ RowFits(u, turn'[u])
  <2>1. PICK r \in TurnRows : turn' = [turn EXCEPT ![t] = r] /\ RowFits(t, r)
    BY <1>2, OwnTurn
  <2>2. turn'[t] = r /\ \A u \in Turns : u # t => turn'[u] = turn[u]
    BY <1>0, <2>1
  <2> QED
    BY <1>0, <2>1, <2>2
<1>3. \/ UNCHANGED turn
      \/ \E t \in Turns : TurnStep(t)
  BY DEF Next, vars, TurnStep, StartAnswer, CommitAnswer, StartDraw, CommitDraw, Tick
<1> QED
  BY <1>1, <1>2, <1>3

\* The judged turns, the answers, the draws and the clock.
LEMMA OtherTypes ==
    ASSUME LifeInv, [Next]_vars
    PROVE  /\ now' \in Times /\ now' >= now
           /\ judged' \in [Sessions -> Seq(JudgedRows)]
           /\ \A s \in Sessions : \A i \in DOMAIN judged'[s] : judged'[s][i].at <= now'
           /\ answer' \in [Answers -> AnswerRows]
           /\ draw' \in [Draws -> DrawRows]
<1>0. /\ TypeOK /\ now \in Times /\ now \in Nat /\ 0 \in Times
      /\ judged \in [Sessions -> Seq(JudgedRows)]
      /\ answer \in [Answers -> AnswerRows] /\ draw \in [Draws -> DrawRows]
      /\ \A s \in Sessions : \A i \in DOMAIN judged[s] : judged[s][i].at <= now
      /\ \A s \in Sessions : \A i \in DOMAIN judged[s] : judged[s][i] \in JudgedRows
  BY Entries, Lengths DEF LifeInv, TypeOK, NothingAhead, Times
<1>1. now' \in Times /\ now' >= now
  <2>1. now' = now \/ (now < MaxTime /\ now' = now + 1)
    BY DEF Next, vars, Tick, Send, ReadPending, Convert, ConvertFails, Redrive, Ghost, Judge,
       TryAsk, TryRomance, NoAskNow, InsertAsk, AskFails, StartAnswer, CommitAnswer,
       StartDraw, CommitDraw
  <2> QED
    BY <1>0, <2>1, Lengths DEF Times
<1>2. /\ judged' \in [Sessions -> Seq(JudgedRows)]
      /\ \A s \in Sessions : \A i \in DOMAIN judged'[s] : judged'[s][i].at <= now'
  <2>1. CASE judged' = judged
    <3>1. \A s \in Sessions : \A i \in DOMAIN judged[s] : judged[s][i].at \in Nat
      BY <1>0, Lengths DEF JudgedRows
    <3>2. now' \in Nat
      BY <1>1, Lengths
    <3> QED
      BY <1>0, <1>1, <2>1, <3>1, <3>2
  <2>2. ASSUME NEW t \in Turns, NEW mood \in Moods, Judge(t, mood)
        PROVE  /\ judged' \in [Sessions -> Seq(JudgedRows)]
               /\ \A s \in Sessions : \A i \in DOMAIN judged'[s] : judged'[s][i].at <= now'
    <3> DEFINE z == SessionOf[t]
               j == [at |-> now, mood |-> mood]
    <3>1. z \in Sessions /\ j \in JudgedRows /\ j.at = now
      BY <1>0, SessionsAssumption DEF JudgedRows
    <3>2. judged' = [judged EXCEPT ![z] = Append(judged[z], j)] /\ now' = now
      BY <1>0, <2>2, <3>1 DEF Judge
    <3> HIDE DEF j, z
    <3>3. /\ Append(judged[z], j) \in Seq(JudgedRows)
          /\ Len(Append(judged[z], j)) = Len(judged[z]) + 1
          /\ \A i \in 1..Len(judged[z]) : Append(judged[z], j)[i] = judged[z][i]
          /\ Append(judged[z], j)[Len(judged[z]) + 1] = j
      BY <1>0, <3>1, AppendProperties
    <3>4. /\ DOMAIN Append(judged[z], j) = 1..(Len(judged[z]) + 1)
          /\ Len(judged[z]) \in Nat /\ DOMAIN judged[z] = 1..Len(judged[z])
      BY <1>0, <3>1, <3>3, LenProperties
    <3>5. \A i \in DOMAIN Append(judged[z], j) : Append(judged[z], j)[i].at <= now
      <4>1. ASSUME NEW i \in DOMAIN Append(judged[z], j) PROVE Append(judged[z], j)[i].at <= now
        <5>1. CASE i = Len(judged[z]) + 1
          BY <1>0, <3>1, <3>3, <5>1
        <5>2. CASE i \in 1..Len(judged[z])
          BY <1>0, <3>1, <3>3, <3>4, <5>2
        <5> QED
          BY <3>4, <5>1, <5>2
      <4> QED
        BY <4>1
    <3>6. \A s \in Sessions : judged'[s] = IF s = z THEN Append(judged[z], j) ELSE judged[s]
      BY <1>0, <3>2
    <3>7. judged' \in [Sessions -> Seq(JudgedRows)]
      BY <1>0, <3>1, <3>2, <3>3
    <3>8. ASSUME NEW s \in Sessions PROVE \A i \in DOMAIN judged'[s] : judged'[s][i].at <= now'
      BY <1>0, <3>2, <3>5, <3>6
    <3> QED
      BY <3>7, <3>8
  <2>3. judged' = judged \/ \E t \in Turns, mood \in Moods : Judge(t, mood)
    BY DEF Next, vars, Tick, Send, ReadPending, Convert, ConvertFails, Redrive, Ghost,
       TryAsk, TryRomance, NoAskNow, InsertAsk, AskFails, StartAnswer, CommitAnswer,
       StartDraw, CommitDraw
  <2> QED
    BY <2>1, <2>2, <2>3
<1>3. answer' \in [Answers -> AnswerRows]
  <2>1. ASSUME NEW a \in Answers, NEW c \in DOMAIN choices, NEW r \in {"accept", "decline"},
               StartAnswer(a, c, r)
        PROVE  answer' \in [Answers -> AnswerRows]
    <3>1. [stage |-> "answering", choice |-> c, response |-> r, at |-> now] \in AnswerRows
      BY <1>0, Entries DEF AnswerRows
    <3> QED
      BY <1>0, <2>1, <3>1 DEF StartAnswer
  <2>2. ASSUME NEW a \in Answers, CommitAnswer(a) PROVE answer' \in [Answers -> AnswerRows]
    <3>1. NoAnswer("done") \in AnswerRows
      BY <1>0 DEF AnswerRows, NoAnswer
    <3>2. answer' = [answer EXCEPT ![a] = NoAnswer("done")]
      BY <2>2 DEF CommitAnswer
    <3> QED
      BY <1>0, <3>1, <3>2
  <2>3. \/ answer' = answer
        \/ \E a \in Answers : CommitAnswer(a)
        \/ \E a \in Answers, c \in DOMAIN choices, r \in {"accept", "decline"} :
              StartAnswer(a, c, r)
    BY DEF Next, vars, Tick, Send, ReadPending, Convert, ConvertFails, Redrive, Ghost, Judge,
       TryAsk, TryRomance, NoAskNow, InsertAsk, AskFails, StartDraw, CommitDraw
  <2> QED
    BY <1>0, <2>1, <2>2, <2>3
<1>4. draw' \in [Draws -> DrawRows]
  <2>1. ASSUME NEW d \in Draws, NEW kind \in DrawnKinds, StartDraw(d, kind)
        PROVE  draw' \in [Draws -> DrawRows]
    <3>1. [stage |-> "drawing", kind |-> kind, at |-> now] \in DrawRows
      BY <1>0 DEF DrawRows
    <3> QED
      BY <1>0, <2>1, <3>1 DEF StartDraw
  <2>2. ASSUME NEW d \in Draws, NEW told \in BOOLEAN, CommitDraw(d, told)
        PROVE  draw' \in [Draws -> DrawRows]
    <3>1. NoDraw("done") \in DrawRows
      BY <1>0 DEF DrawRows, NoDraw, DrawnKinds
    <3>2. draw' = [draw EXCEPT ![d] = NoDraw("done")]
      BY <2>2 DEF CommitDraw
    <3> QED
      BY <1>0, <3>1, <3>2
  <2>3. \/ draw' = draw
        \/ \E d \in Draws, told \in BOOLEAN : CommitDraw(d, told)
        \/ \E d \in Draws, kind \in DrawnKinds : StartDraw(d, kind)
    BY DEF Next, vars, Tick, Send, ReadPending, Convert, ConvertFails, Redrive, Ghost, Judge,
       TryAsk, TryRomance, NoAskNow, InsertAsk, AskFails, StartAnswer, CommitAnswer
  <2> QED
    BY <1>0, <2>1, <2>2, <2>3
<1> QED
  BY <1>1, <1>2, <1>3, <1>4

LEMMA TypeStep == ASSUME LifeInv, [Next]_vars PROVE TypeOK'
  BY TablesType, TurnChanges, OtherTypes DEF TypeOK

-----------------------------------------------------------------------------
(***************************************************************************)
(* The tables after a step, row by row                                     *)
(***************************************************************************)

LEMMA AskedRows ==
    ASSUME LifeInv, NEW t \in Turns, Asked(t)
    PROVE  /\ Len(choices) \in Nat /\ DOMAIN choices = 1..Len(choices)
           /\ Len(choices') = Len(choices) + 1
           /\ DOMAIN choices' = 1..(Len(choices) + 1)
           /\ \A c \in DOMAIN choices : choices'[c] = choices[c]
           /\ choices'[Len(choices) + 1] = NewChoice(t)
           /\ events' = events /\ now' = now
<1>0. /\ TypeOK /\ choices \in Seq(ChoiceRows) /\ turn[t].ask \in AskRows
      /\ SessionOf[t] \in Sessions /\ now \in Times /\ 0 \in Times
      /\ Len(choices) \in Nat /\ DOMAIN choices = 1..Len(choices)
  BY Entries, SessionsAssumption, Lengths DEF LifeInv, TypeOK, TurnRows, Times
<1>1. NewChoice(t) \in ChoiceRows
  BY <1>0 DEF NewChoice, ChoiceRows, AskRows, NoLoss, Statuses
<1>2. choices' = Append(choices, NewChoice(t)) /\ events' = events /\ now' = now
  BY DEF Asked
<1> HIDE DEF NewChoice
<1>3. /\ choices' \in Seq(ChoiceRows) /\ Len(choices') = Len(choices) + 1
      /\ \A c \in 1..Len(choices) : choices'[c] = choices[c]
      /\ choices'[Len(choices) + 1] = NewChoice(t)
  BY <1>0, <1>1, <1>2, AppendProperties
<1>4. DOMAIN choices' = 1..(Len(choices) + 1)
  BY <1>3, LenProperties
<1> QED
  BY <1>0, <1>2, <1>3, <1>4

LEMMA SettledRows ==
    ASSUME LifeInv, NEW c \in DOMAIN choices, NEW at \in Times, NEW status \in Settlements,
           SettledAt(c, status, at)
    PROVE  /\ DOMAIN choices' = DOMAIN choices /\ Len(choices') = Len(choices)
           /\ \A d \in DOMAIN choices \ {c} : choices'[d] = choices[d]
           /\ choices'[c].session = choices[c].session
           /\ choices'[c].kind = choices[c].kind
           /\ choices'[c].gap = choices[c].gap
           /\ choices'[c].askedAt = choices[c].askedAt
           /\ choices'[c].status = status /\ choices'[c].resolvedAt = at
           /\ choices'[c].event = LinkOf(c, status)
           /\ choices'[c].lost \in [Lines -> Nat]
           /\ \A l \in Lines :
                choices'[c].lost[l] = choices[c].lost[l] + Charged(c, status)[l]
<1>0. /\ TypeOK /\ Len(choices) \in Nat /\ DOMAIN choices = 1..Len(choices)
      /\ choices[c] \in ChoiceRows /\ Len(events) \in Nat
  BY Entries DEF LifeInv
<1>1. choices' = Resolved(c, status, at, LinkOf(c, status), Charged(c, status))
  BY DEF SettledAt
<1>2. /\ status \in Statuses /\ LinkOf(c, status) \in Nat
      /\ Charged(c, status) \in [Lines -> Nat]
  <2>1. choices[c].kind \in Kinds
    BY <1>0 DEF ChoiceRows
  <2>2. Charged(c, status) \in [Lines -> Nat]
    BY <2>1, CostType DEF Charged
  <2>3. LinkOf(c, status) \in Nat
    BY <1>0 DEF LinkOf
  <2> QED
    BY <2>2, <2>3 DEF Settlements, Statuses
<1> HIDE DEF LinkOf, Charged
<1>3. /\ choices' \in Seq(ChoiceRows) /\ Len(choices') = Len(choices)
      /\ \A d \in DOMAIN choices \ {c} : choices'[d] = choices[d]
      /\ choices'[c].session = choices[c].session /\ choices'[c].kind = choices[c].kind
      /\ choices'[c].gap = choices[c].gap /\ choices'[c].askedAt = choices[c].askedAt
      /\ choices'[c].status = status /\ choices'[c].resolvedAt = at
      /\ choices'[c].event = LinkOf(c, status)
      /\ \A l \in Lines : choices'[c].lost[l] = choices[c].lost[l] + Charged(c, status)[l]
  <2> DEFINE event == LinkOf(c, status)
             lost == Charged(c, status)
             q == Resolved(c, status, at, event, lost)
  <2>1. TypeOK /\ event \in Nat /\ lost \in [Lines -> Nat] /\ status \in Statuses
    BY <1>0, <1>2
  <2> HIDE DEF event, lost
  <2>2. /\ q \in Seq(ChoiceRows) /\ Len(q) = Len(choices)
        /\ \A d \in DOMAIN choices \ {c} : q[d] = choices[d]
        /\ q[c].session = choices[c].session /\ q[c].kind = choices[c].kind
        /\ q[c].gap = choices[c].gap /\ q[c].askedAt = choices[c].askedAt
        /\ q[c].status = status /\ q[c].resolvedAt = at /\ q[c].event = event
        /\ \A l \in Lines : q[c].lost[l] = choices[c].lost[l] + lost[l]
    BY <2>1, ResolvedRows
  <2>3. choices' = q
    BY <1>1 DEF event, lost
  <2> HIDE DEF q
  <2> QED
    BY <2>2, <2>3 DEF event, lost
<1>4. DOMAIN choices' = DOMAIN choices
  BY <1>0, <1>3, LenProperties
<1>5. choices'[c].lost \in [Lines -> Nat]
  <2>1. choices'[c] \in ChoiceRows
    BY <1>0, <1>3, <1>4, ElementOfSeq
  <2> QED
    BY <2>1 DEF ChoiceRows
<1> QED
  BY <1>3, <1>4, <1>5

\* What a settlement starts: nothing, or an event that ends those under way.
LEMMA StartedRows ==
    ASSUME LifeInv, NEW c \in DOMAIN choices, NEW at \in Times, NEW status \in Settlements,
           SettledAt(c, status, at)
    PROVE  \/ Outcome(c, status) = "none" /\ events' = events
           \/ /\ Outcome(c, status) \in {"taking_space", "fell_out"}
              /\ Len(events) \in Nat /\ DOMAIN events = 1..Len(events)
              /\ Len(events') = Len(events) + 1
              /\ DOMAIN events' = 1..(Len(events) + 1)
              /\ \A e \in DOMAIN events : CutAt(events[e], events'[e], at)
              /\ \E lasts \in Nat \ {0} :
                    events'[Len(events) + 1] = Started(Outcome(c, status), c, at, lasts)
<1>0. TypeOK /\ Len(events) \in Nat /\ DOMAIN events = 1..Len(events)
  BY Entries DEF LifeInv
<1>1. CASE Outcome(c, status) = "none"
  BY <1>1 DEF SettledAt
<1>2. CASE Outcome(c, status) # "none"
  <2>1. Outcome(c, status) \in {"taking_space", "fell_out"}
    BY <1>2 DEF Outcome
  <2>2. PICK lasts \in Nat \ {0} : events' = Preempt(Outcome(c, status), c, at, lasts)
    BY <1>2 DEF SettledAt
  <2>3. Outcome(c, status) \in EventKinds
    BY <2>1 DEF EventKinds
  <2> HIDE DEF Outcome
  <2>4. /\ events' \in Seq(EventRows) /\ Len(events') = Len(events) + 1
        /\ \A e \in DOMAIN events : CutAt(events[e], events'[e], at)
        /\ events'[Len(events) + 1] = Started(Outcome(c, status), c, at, lasts)
    BY <1>0, <2>2, <2>3, PreemptRows
  <2>5. DOMAIN events' = 1..(Len(events) + 1)
    BY <1>0, <2>4, LenProperties
  <2> QED
    BY <1>0, <2>1, <2>4, <2>5
<1> QED
  BY <1>1, <1>2

LEMMA DrawnRows ==
    ASSUME LifeInv, NEW d \in Draws, Drawn(d)
    PROVE  \E kind \in DrawnKinds, start \in {now, draw[d].at}, lasts \in Nat \ {0} :
              /\ MayHappen(kind, start) /\ start \in Times
              /\ choices' = choices /\ now' = now
              /\ Len(events) \in Nat /\ DOMAIN events = 1..Len(events)
              /\ Len(events') = Len(events) + 1
              /\ DOMAIN events' = 1..(Len(events) + 1)
              /\ \A e \in DOMAIN events : events'[e] = events[e]
              /\ events'[Len(events) + 1] = NewDrawn(kind, start, lasts)
<1>0. /\ TypeOK /\ events \in Seq(EventRows)
      /\ Len(events) \in Nat /\ DOMAIN events = 1..Len(events)
      /\ now \in Times /\ draw[d].at \in Times /\ Times \subseteq Nat
  BY Entries, Lengths DEF LifeInv, TypeOK, DrawRows
<1>1. PICK kind \in DrawnKinds, start \in {now, draw[d].at}, lasts \in Nat \ {0} :
         MayHappen(kind, start) /\ events' = Append(events, NewDrawn(kind, start, lasts))
  BY DEF Drawn
<1>2. NewDrawn(kind, start, lasts) \in EventRows
  <2>1. start + lasts \in Nat /\ start \in Times
    BY <1>0
  <2> QED
    BY <2>1 DEF NewDrawn, EventRows, EventKinds
<1> HIDE DEF NewDrawn
<1>3. /\ events' \in Seq(EventRows) /\ Len(events') = Len(events) + 1
      /\ \A e \in 1..Len(events) : events'[e] = events[e]
      /\ events'[Len(events) + 1] = NewDrawn(kind, start, lasts)
  BY <1>0, <1>1, <1>2, AppendProperties
<1>4. DOMAIN events' = 1..(Len(events) + 1)
  BY <1>3, LenProperties
<1>5. choices' = choices /\ now' = now
  BY DEF Drawn
<1> QED
  BY <1>0, <1>1, <1>3, <1>4, <1>5

\* What no step changes of a choice and of an event.
LEMMA Kept ==
    ASSUME LifeInv, [Next]_vars
    PROVE  /\ Len(choices) <= Len(choices') /\ DOMAIN choices \subseteq DOMAIN choices'
           /\ \A c \in DOMAIN choices :
                /\ choices'[c].askedAt = choices[c].askedAt
                /\ choices'[c].kind = choices[c].kind
                /\ choices'[c].session = choices[c].session
                /\ choices'[c].status = "pending" => choices'[c] = choices[c]
           /\ Len(events) <= Len(events') /\ DOMAIN events \subseteq DOMAIN events'
           /\ \A e \in DOMAIN events :
                /\ events'[e].kind = events[e].kind /\ events'[e].choice = events[e].choice
                /\ events'[e].start = events[e].start /\ events'[e].lasts = events[e].lasts
                /\ events'[e].late = events[e].late
                /\ events'[e].end <= events[e].end /\ events[e].start < events'[e].end
<1> DEFINE Goal ==
           /\ Len(choices) <= Len(choices') /\ DOMAIN choices \subseteq DOMAIN choices'
           /\ \A c \in DOMAIN choices :
                /\ choices'[c].askedAt = choices[c].askedAt
                /\ choices'[c].kind = choices[c].kind
                /\ choices'[c].session = choices[c].session
                /\ choices'[c].status = "pending" => choices'[c] = choices[c]
           EGoal ==
           /\ Len(events) <= Len(events') /\ DOMAIN events \subseteq DOMAIN events'
           /\ \A e \in DOMAIN events :
                /\ events'[e].kind = events[e].kind /\ events'[e].choice = events[e].choice
                /\ events'[e].start = events[e].start /\ events'[e].lasts = events[e].lasts
                /\ events'[e].late = events[e].late
                /\ events'[e].end <= events[e].end /\ events[e].start < events'[e].end
<1>0. /\ Len(choices) \in Nat /\ DOMAIN choices = 1..Len(choices)
      /\ Len(events) \in Nat /\ DOMAIN events = 1..Len(events)
      /\ \A e \in DOMAIN events : /\ events[e].start \in Nat /\ events[e].end \in Nat
                                  /\ events[e].start < events[e].end
  BY Entries, Lengths DEF LifeInv, EventRows, Links
<1>1. ASSUME events' = events PROVE EGoal
  BY <1>0, <1>1
<1>2. ASSUME choices' = choices PROVE Goal
  BY <1>0, <1>2
<1>3. ASSUME NEW t \in Turns, Asked(t) PROVE Goal /\ events' = events
  <2>1. /\ Len(choices') = Len(choices) + 1 /\ DOMAIN choices' = 1..(Len(choices) + 1)
        /\ \A c \in DOMAIN choices : choices'[c] = choices[c]
        /\ events' = events
    BY <1>3, AskedRows
  <2> QED
    BY <1>0, <2>1
<1>4. ASSUME NEW c \in DOMAIN choices, NEW at \in Times, NEW status \in Settlements,
             SettledAt(c, status, at)
      PROVE  Goal /\ EGoal
  <2>1. status # "pending"
    BY DEF Settlements
  <2>2. Goal
    <3>1. /\ DOMAIN choices' = DOMAIN choices /\ Len(choices') = Len(choices)
          /\ \A d \in DOMAIN choices \ {c} : choices'[d] = choices[d]
          /\ choices'[c].session = choices[c].session
          /\ choices'[c].kind = choices[c].kind
          /\ choices'[c].askedAt = choices[c].askedAt
          /\ choices'[c].status = status
      BY <1>4, SettledRows
    <3>2. ASSUME NEW d \in DOMAIN choices
          PROVE  /\ choices'[d].askedAt = choices[d].askedAt
                 /\ choices'[d].kind = choices[d].kind
                 /\ choices'[d].session = choices[d].session
                 /\ choices'[d].status = "pending" => choices'[d] = choices[d]
      <4>1. CASE d = c
        BY <2>1, <3>1, <4>1
      <4>2. CASE d # c
        BY <3>1, <4>2
      <4> QED
        BY <4>1, <4>2
    <3> QED
      BY <1>0, <3>1, <3>2
  <2>3. ASSUME Len(events') = Len(events) + 1, DOMAIN events' = 1..(Len(events) + 1),
               \A e \in DOMAIN events : CutAt(events[e], events'[e], at)
        PROVE  EGoal
    <3>1. at \in Nat
      BY Lengths
    <3>2. ASSUME NEW e \in DOMAIN events
          PROVE  /\ events'[e].kind = events[e].kind /\ events'[e].choice = events[e].choice
                 /\ events'[e].start = events[e].start /\ events'[e].lasts = events[e].lasts
                 /\ events'[e].late = events[e].late
                 /\ events'[e].end <= events[e].end /\ events[e].start < events'[e].end
      BY <1>0, <2>3, <3>1 DEF CutAt
    <3> QED
      BY <1>0, <2>3, <3>2
  <2>4. EGoal
    BY <1>1, <1>4, <2>3, StartedRows
  <2> QED
    BY <2>2, <2>4
<1>5. ASSUME NEW d \in Draws, Drawn(d) PROVE EGoal /\ choices' = choices
  <2>1. /\ choices' = choices
        /\ Len(events') = Len(events) + 1 /\ DOMAIN events' = 1..(Len(events) + 1)
        /\ \A e \in DOMAIN events : events'[e] = events[e]
    BY <1>5, DrawnRows
  <2> QED
    BY <1>0, <2>1
<1>6. CASE Quiet
  BY <1>1, <1>2, <1>6 DEF Quiet
<1> HIDE DEF Goal, EGoal
<1>7. Goal /\ EGoal
  BY <1>1, <1>2, <1>3, <1>4, <1>5, <1>6, Effects DEF Quiet
<1> QED
  BY <1>7 DEF Goal, EGoal

\* A choice that was not there was asked now.
LEMMA NewChoiceAsked ==
    ASSUME LifeInv, [Next]_vars, NEW c \in DOMAIN choices', c \notin DOMAIN choices
    PROVE  c = Len(choices) + 1 /\ \E t \in Turns : Asked(t) /\ choices'[c] = NewChoice(t)
<1>1. ~Quiet
  BY DEF Quiet
<1>2. ASSUME NEW d \in DOMAIN choices, NEW at \in Times, NEW status \in Settlements,
             SettledAt(d, status, at)
      PROVE  FALSE
  BY <1>2, SettledRows
<1>3. ASSUME NEW d \in Draws, Drawn(d) PROVE FALSE
  BY <1>3 DEF Drawn
<1>4. PICK t \in Turns : Asked(t)
  BY <1>1, <1>2, <1>3, Effects
<1>5. /\ Len(choices) \in Nat /\ DOMAIN choices = 1..Len(choices)
      /\ DOMAIN choices' = 1..(Len(choices) + 1)
      /\ choices'[Len(choices) + 1] = NewChoice(t)
  BY <1>4, AskedRows
<1>6. c = Len(choices) + 1
  BY <1>5
<1> QED
  BY <1>4, <1>5, <1>6

\* A choice that changed was settled now.
LEMMA ChangedChoice ==
    ASSUME LifeInv, [Next]_vars, NEW c \in DOMAIN choices, choices'[c] # choices[c]
    PROVE  \E at \in Times, status \in Settlements : SettledAt(c, status, at)
<1>1. ~Quiet
  BY DEF Quiet
<1>2. ASSUME NEW t \in Turns, Asked(t) PROVE FALSE
  BY <1>2, AskedRows
<1>3. ASSUME NEW d \in Draws, Drawn(d) PROVE FALSE
  BY <1>3 DEF Drawn
<1>4. PICK d \in DOMAIN choices, at \in Times, status \in Settlements :
         SettledAt(d, status, at)
  BY <1>1, <1>2, <1>3, Effects
<1>5. d = c
  BY <1>4, SettledRows
<1> QED
  BY <1>4, <1>5

\* An event that was not there is what an answer brought, or was drawn.
BroughtBy(e, c, at, status, lasts) ==
    /\ SettledAt(c, status, at)
    /\ Outcome(c, status) \in {"taking_space", "fell_out"}
    /\ events'[e] = Started(Outcome(c, status), c, at, lasts)
    /\ \A f \in DOMAIN events : CutAt(events[f], events'[f], at)
DrawnBy(e, d, kind, start, lasts) ==
    /\ draw[d].stage = "drawing" /\ MayHappen(kind, start)
    /\ choices' = choices /\ now' = now
    /\ events'[e] = NewDrawn(kind, start, lasts)
    /\ \A f \in DOMAIN events : events'[f] = events[f]

LEMMA NewEvent ==
    ASSUME LifeInv, [Next]_vars, NEW e \in DOMAIN events', e \notin DOMAIN events
    PROVE  /\ e = Len(events) + 1 /\ Len(events) \in Nat
           /\ \/ \E c \in DOMAIN choices, at \in Times, status \in Settlements,
                    lasts \in Nat \ {0} : BroughtBy(e, c, at, status, lasts)
              \/ \E d \in Draws, kind \in DrawnKinds, start \in Times, lasts \in Nat \ {0} :
                    start \in {now, draw[d].at} /\ DrawnBy(e, d, kind, start, lasts)
<1>1. ~Quiet
  BY DEF Quiet
<1>2. ASSUME NEW t \in Turns, Asked(t) PROVE FALSE
  BY <1>2 DEF Asked
<1>3. ASSUME NEW c \in DOMAIN choices, NEW at \in Times, NEW status \in Settlements,
             SettledAt(c, status, at)
      PROVE  /\ e = Len(events) + 1 /\ Len(events) \in Nat
             /\ \E lasts \in Nat \ {0} : BroughtBy(e, c, at, status, lasts)
  <2>1. events' # events
    OBVIOUS
  <2>2. /\ Outcome(c, status) \in {"taking_space", "fell_out"}
        /\ Len(events) \in Nat /\ DOMAIN events = 1..Len(events)
        /\ DOMAIN events' = 1..(Len(events) + 1)
        /\ \A f \in DOMAIN events : CutAt(events[f], events'[f], at)
        /\ \E lasts \in Nat \ {0} :
              events'[Len(events) + 1] = Started(Outcome(c, status), c, at, lasts)
    BY <1>3, <2>1, StartedRows
  <2>3. e = Len(events) + 1
    BY <2>2
  <2> QED
    BY <1>3, <2>2, <2>3 DEF BroughtBy
<1>4. ASSUME NEW d \in Draws, Drawn(d)
      PROVE  /\ e = Len(events) + 1 /\ Len(events) \in Nat
             /\ \E kind \in DrawnKinds, start \in Times, lasts \in Nat \ {0} :
                    start \in {now, draw[d].at} /\ DrawnBy(e, d, kind, start, lasts)
  <2>1. PICK kind \in DrawnKinds, start \in {now, draw[d].at}, lasts \in Nat \ {0} :
              /\ MayHappen(kind, start) /\ start \in Times
              /\ choices' = choices /\ now' = now
              /\ Len(events) \in Nat /\ DOMAIN events = 1..Len(events)
              /\ DOMAIN events' = 1..(Len(events) + 1)
              /\ \A f \in DOMAIN events : events'[f] = events[f]
              /\ events'[Len(events) + 1] = NewDrawn(kind, start, lasts)
    BY <1>4, DrawnRows
  <2>2. e = Len(events) + 1
    BY <2>1
  <2>3. DrawnBy(e, d, kind, start, lasts)
    BY <1>4, <2>1, <2>2 DEF DrawnBy, Drawn
  <2> QED
    BY <2>1, <2>2, <2>3
<1> QED
  BY <1>1, <1>2, <1>3, <1>4, Effects

\* What a step makes of an answer and of a draw.
AnswerFits(a, r) ==
    \/ r.stage = "done" /\ r.at = 0
    \/ /\ r.stage = "answering" /\ r.at = now
       /\ r.choice \in DOMAIN choices /\ Unanswered(r.choice, now)
       /\ UNCHANGED <<now, choices, events>>
DrawFits(d, r) ==
    \/ r.stage = "done" /\ r.at = 0
    \/ /\ r.stage = "drawing" /\ r.at = now /\ ~PendingForInstance(now)
       /\ UNCHANGED <<now, choices, events>>

LEMMA AnswerChanges ==
    ASSUME LifeInv, [Next]_vars, NEW a \in Answers
    PROVE  answer'[a] = answer[a] \/ AnswerFits(a, answer'[a])
<1>0. answer \in [Answers -> AnswerRows]
  BY DEF LifeInv, TypeOK
<1>1. ASSUME NEW b \in Answers, CommitAnswer(b)
      PROVE  answer'[a] = answer[a] \/ AnswerFits(a, answer'[a])
  <2>1. answer' = [answer EXCEPT ![b] = NoAnswer("done")]
    BY <1>1 DEF CommitAnswer
  <2> QED
    BY <1>0, <2>1 DEF NoAnswer, AnswerFits
<1>2. ASSUME NEW b \in Answers, NEW c \in DOMAIN choices, NEW r \in {"accept", "decline"},
             StartAnswer(b, c, r)
      PROVE  answer'[a] = answer[a] \/ AnswerFits(a, answer'[a])
  BY <1>0, <1>2 DEF StartAnswer, AnswerFits
<1>3. \/ answer' = answer
      \/ \E b \in Answers : CommitAnswer(b)
      \/ \E b \in Answers, c \in DOMAIN choices, r \in {"accept", "decline"} :
              StartAnswer(b, c, r)
  BY DEF Next, vars, Tick, Send, ReadPending, Convert, ConvertFails, Redrive, Ghost, Judge,
     TryAsk, TryRomance, NoAskNow, InsertAsk, AskFails, StartDraw, CommitDraw
<1> QED
  BY <1>1, <1>2, <1>3

LEMMA DrawChanges ==
    ASSUME LifeInv, [Next]_vars, NEW d \in Draws
    PROVE  draw'[d] = draw[d] \/ DrawFits(d, draw'[d])
<1>0. draw \in [Draws -> DrawRows]
  BY DEF LifeInv, TypeOK
<1>1. ASSUME NEW b \in Draws, NEW told \in BOOLEAN, CommitDraw(b, told)
      PROVE  draw'[d] = draw[d] \/ DrawFits(d, draw'[d])
  <2>1. draw' = [draw EXCEPT ![b] = NoDraw("done")]
    BY <1>1 DEF CommitDraw
  <2> QED
    BY <1>0, <2>1 DEF NoDraw, DrawFits
<1>2. ASSUME NEW b \in Draws, NEW kind \in DrawnKinds, StartDraw(b, kind)
      PROVE  draw'[d] = draw[d] \/ DrawFits(d, draw'[d])
  <2>1. ~PendingForInstance(now)
    BY <1>2 DEF StartDraw, Eligible
  <2> QED
    BY <1>0, <1>2, <2>1 DEF StartDraw, DrawFits
<1>3. \/ draw' = draw
      \/ \E b \in Draws, told \in BOOLEAN : CommitDraw(b, told)
      \/ \E b \in Draws, kind \in DrawnKinds : StartDraw(b, kind)
  BY DEF Next, vars, Tick, Send, ReadPending, Convert, ConvertFails, Redrive, Ghost, Judge,
     TryAsk, TryRomance, NoAskNow, InsertAsk, AskFails, StartAnswer, CommitAnswer
<1> QED
  BY <1>1, <1>2, <1>3

-----------------------------------------------------------------------------
(***************************************************************************)
(* Every step keeps what the tables and the runs hold                      *)
(***************************************************************************)

LEMMA AheadStep == ASSUME LifeInv, [Next]_vars PROVE NothingAhead'
<1>0. /\ now \in Nat /\ now' \in Nat /\ now' >= now
      /\ \A s \in Sessions : \A i \in DOMAIN judged'[s] : judged'[s][i].at <= now'
      /\ \A c \in DOMAIN choices : /\ choices[c].askedAt \in Nat /\ choices[c].resolvedAt \in Nat
                                   /\ choices[c].askedAt <= now /\ choices[c].resolvedAt <= now
      /\ \A e \in DOMAIN events : events[e].start \in Nat /\ events[e].start <= now
      /\ \A a \in Answers : answer[a].at \in Nat /\ answer[a].at <= now
      /\ \A d \in Draws : draw[d].at \in Nat /\ draw[d].at <= now
  BY OtherTypes, Entries, Lengths
  DEF LifeInv, NothingAhead, TypeOK, ChoiceRows, EventRows, AnswerRows, DrawRows
<1>1. ASSUME NEW c \in DOMAIN choices'
      PROVE  choices'[c].askedAt <= now' /\ choices'[c].resolvedAt <= now'
  <2>1. CASE c \in DOMAIN choices /\ choices'[c] = choices[c]
    BY <1>0, <2>1
  <2>2. CASE c \in DOMAIN choices /\ choices'[c] # choices[c]
    <3>1. PICK at \in Times, status \in Settlements : SettledAt(c, status, at)
      BY <2>2, ChangedChoice
    <3>2. choices'[c].resolvedAt = at /\ choices'[c].askedAt = choices[c].askedAt
      BY <2>2, <3>1, SettledRows
    <3>3. at <= now /\ at \in Nat
      BY <3>1, Lengths DEF SettledAt
    <3> QED
      BY <1>0, <2>2, <3>2, <3>3
  <2>3. CASE c \notin DOMAIN choices
    <3>1. PICK t \in Turns : choices'[c] = NewChoice(t)
      BY <2>3, NewChoiceAsked
    <3>2. choices'[c].askedAt = now /\ choices'[c].resolvedAt = 0
      BY <3>1 DEF NewChoice
    <3> QED
      BY <1>0, <3>2
  <2> QED
    BY <2>1, <2>2, <2>3
<1>2. ASSUME NEW e \in DOMAIN events' PROVE events'[e].start <= now'
  <2>1. CASE e \in DOMAIN events
    <3>1. events'[e].start = events[e].start
      BY <2>1, Kept
    <3> QED
      BY <1>0, <2>1, <3>1
  <2>2. CASE e \notin DOMAIN events
    <3>1. ASSUME NEW c \in DOMAIN choices, NEW at \in Times, NEW status \in Settlements,
                 NEW lasts \in Nat \ {0}, BroughtBy(e, c, at, status, lasts)
          PROVE  events'[e].start <= now'
      <4>1. events'[e].start = at /\ at <= now /\ at \in Nat
        BY <3>1, Lengths DEF BroughtBy, Started, SettledAt
      <4> QED
        BY <1>0, <4>1
    <3>2. ASSUME NEW d \in Draws, NEW kind \in DrawnKinds, NEW start \in Times,
                 NEW lasts \in Nat \ {0}, start \in {now, draw[d].at},
                 DrawnBy(e, d, kind, start, lasts)
          PROVE  events'[e].start <= now'
      <4>1. events'[e].start = start
        BY <3>2 DEF DrawnBy, NewDrawn
      <4> QED
        BY <1>0, <3>2, <4>1
    <3> QED
      BY <2>2, <3>1, <3>2, NewEvent
  <2> QED
    BY <2>1, <2>2
<1>3. ASSUME NEW a \in Answers PROVE answer'[a].at <= now'
  BY <1>0, AnswerChanges DEF AnswerFits
<1>4. ASSUME NEW d \in Draws PROVE draw'[d].at <= now'
  BY <1>0, DrawChanges DEF DrawFits
<1> QED
  BY <1>0, <1>1, <1>2, <1>3, <1>4 DEF NothingAhead

LEMMA LinksStep == ASSUME LifeInv, [Next]_vars PROVE Links'
<1>0. /\ Links /\ Len(choices) \in Nat /\ DOMAIN choices = 1..Len(choices)
      /\ Len(events) \in Nat /\ DOMAIN events = 1..Len(events)
      /\ \A c \in DOMAIN choices : choices[c].event \in Nat
      /\ \A e \in DOMAIN events : events[e].choice \in Nat
      /\ Len(choices') \in Nat /\ Len(events') \in Nat
      /\ DOMAIN choices' = 1..Len(choices') /\ DOMAIN events' = 1..Len(events')
      /\ Len(choices) <= Len(choices') /\ Len(events) <= Len(events')
  BY Entries, TablesType, LenProperties, Kept DEF LifeInv, ChoiceRows, EventRows
<1>1. ASSUME NEW e \in DOMAIN events'
      PROVE  events'[e].choice <= Len(choices') /\ events'[e].start < events'[e].end
  <2>1. CASE e \in DOMAIN events
    <3>1. /\ events'[e].choice = events[e].choice /\ events'[e].start = events[e].start
          /\ events[e].start < events'[e].end
      BY <2>1, Kept
    <3> QED
      BY <1>0, <2>1, <3>1 DEF Links
  <2>2. CASE e \notin DOMAIN events
    <3>1. ASSUME NEW c \in DOMAIN choices, NEW at \in Times, NEW status \in Settlements,
                 NEW lasts \in Nat \ {0}, BroughtBy(e, c, at, status, lasts)
          PROVE  events'[e].choice <= Len(choices') /\ events'[e].start < events'[e].end
      <4>1. /\ events'[e].start = at /\ events'[e].end = at + lasts
            /\ events'[e].choice = c /\ at \in Nat
        BY <3>1, Lengths DEF BroughtBy, Started
      <4> QED
        BY <1>0, <4>1
    <3>2. ASSUME NEW d \in Draws, NEW kind \in DrawnKinds, NEW start \in Times,
                 NEW lasts \in Nat \ {0}, DrawnBy(e, d, kind, start, lasts)
          PROVE  events'[e].choice <= Len(choices') /\ events'[e].start < events'[e].end
      <4>1. /\ events'[e].start = start /\ events'[e].end = start + lasts
            /\ events'[e].choice = 0 /\ start \in Nat
        BY <3>2, Lengths DEF DrawnBy, NewDrawn
      <4> QED
        BY <1>0, <4>1
    <3> QED
      BY <2>2, <3>1, <3>2, NewEvent
  <2> QED
    BY <2>1, <2>2
<1>2. ASSUME NEW c \in DOMAIN choices'
      PROVE  /\ choices'[c].event <= Len(events')
             /\ choices'[c].kind = "ask_for_space" => choices'[c].gap \in Gaps
  <2>1. CASE c \in DOMAIN choices /\ choices'[c] = choices[c]
    BY <1>0, <2>1 DEF Links
  <2>2. CASE c \in DOMAIN choices /\ choices'[c] # choices[c]
    <3>1. PICK at \in Times, status \in Settlements : SettledAt(c, status, at)
      BY <2>2, ChangedChoice
    <3>2. /\ choices'[c].event = LinkOf(c, status)
          /\ choices'[c].kind = choices[c].kind /\ choices'[c].gap = choices[c].gap
      BY <2>2, <3>1, SettledRows
    <3>3. LinkOf(c, status) <= Len(events')
      <4>1. CASE Outcome(c, status) = "taking_space"
        <5>1. Len(events') = Len(events) + 1
          BY <2>2, <3>1, <4>1, StartedRows
        <5> QED
          BY <1>0, <4>1, <5>1 DEF LinkOf
      <4>2. CASE Outcome(c, status) # "taking_space"
        BY <1>0, <4>2 DEF LinkOf
      <4> QED
        BY <4>1, <4>2
    <3> QED
      BY <1>0, <2>2, <3>2, <3>3 DEF Links
  <2>3. CASE c \notin DOMAIN choices
    <3>1. PICK t \in Turns : Asked(t) /\ choices'[c] = NewChoice(t)
      BY <2>3, NewChoiceAsked
    <3>2. /\ choices'[c].event = 0 /\ choices'[c].kind = turn[t].ask.kind
          /\ choices'[c].gap = turn[t].ask.gap
      BY <3>1 DEF NewChoice
    <3>3. TurnHolds(t) /\ turn[t].stage = "asking"
      BY <3>1 DEF LifeInv, Asked
    <3> QED
      BY <1>0, <3>2, <3>3 DEF TurnHolds
  <2> QED
    BY <2>1, <2>2, <2>3
<1> QED
  BY <1>1, <1>2 DEF Links

LEMMA TurnHoldsStep ==
    ASSUME LifeInv, [Next]_vars, NEW t \in Turns PROVE TurnHolds(t)'
<1>0. /\ now \in Nat /\ now' \in Nat /\ now' >= now /\ TurnHolds(t)
      /\ turn[t].sentAt \in Nat /\ turn[t].ask.since \in Nat
      /\ turn'[t].sentAt \in Nat /\ turn'[t].ask.since \in Nat
      /\ DOMAIN choices \subseteq DOMAIN choices'
      /\ \A c \in DOMAIN choices : choices'[c].askedAt = choices[c].askedAt
  <2>1. turn[t] \in TurnRows /\ turn'[t] \in TurnRows
    BY TurnChanges, Entries DEF LifeInv
  <2> QED
    BY <2>1, OtherTypes, Kept, Lengths DEF LifeInv, TypeOK, TurnRows, AskRows
<1>1. turn'[t].sentAt <= now' /\ turn'[t].ask.since <= now'
  <2>1. turn[t].sentAt <= now /\ turn[t].ask.since <= now
    BY <1>0 DEF TurnHolds
  <2>2. CASE turn'[t] = turn[t]
    BY <1>0, <2>1, <2>2
  <2>3. CASE RowFits(t, turn'[t])
    BY <1>0, <2>1, <2>3 DEF RowFits
  <2> QED
    BY <2>2, <2>3, TurnChanges
<1>2. ASSUME turn'[t].stage = "converting"
      PROVE  /\ turn'[t].read \in DOMAIN choices'
             /\ choices'[turn'[t].read].askedAt <= turn'[t].sentAt
  <2>1. CASE turn'[t] = turn[t]
    BY <1>0, <1>2, <2>1 DEF TurnHolds
  <2>2. CASE RowFits(t, turn'[t])
    <3>1. turn'[t].read \in Ignored(t) /\ turn'[t].sentAt = turn[t].sentAt
      BY <1>2, <2>2 DEF RowFits
    <3>2. /\ turn'[t].read \in DOMAIN choices
          /\ choices[turn'[t].read].askedAt <= turn[t].sentAt
      BY <3>1 DEF Ignored, Of
    <3> QED
      BY <1>0, <3>1, <3>2
  <2> QED
    BY <2>1, <2>2, TurnChanges
<1>3. ASSUME turn'[t].stage = "asking"
      PROVE  /\ \A x \in turn'[t].ask.anchor : x < turn'[t].ask.since
             /\ turn'[t].ask.kind = "ask_for_space" => turn'[t].ask.gap \in Gaps
  <2>1. CASE turn'[t] = turn[t]
    BY <1>0, <1>3, <2>1 DEF TurnHolds
  <2>2. CASE RowFits(t, turn'[t])
    BY <1>3, <2>2 DEF RowFits
  <2> QED
    BY <2>1, <2>2, TurnChanges
<1> QED
  BY <1>1, <1>2, <1>3 DEF TurnHolds

LEMMA AnswerHoldsStep ==
    ASSUME LifeInv, [Next]_vars, NEW a \in Answers PROVE AnswerHolds(a)'
<1>0. /\ AnswerHolds(a) /\ NothingAhead
      /\ DOMAIN choices \subseteq DOMAIN choices'
      /\ \A c \in DOMAIN choices : choices'[c].askedAt = choices[c].askedAt
  BY Kept DEF LifeInv
<1>1. CASE answer'[a] = answer[a]
  BY <1>0, <1>1 DEF AnswerHolds
<1>2. CASE AnswerFits(a, answer'[a])
  BY <1>0, <1>2 DEF AnswerHolds, AnswerFits, NothingAhead
<1> QED
  BY <1>1, <1>2, AnswerChanges

LEMMA DrawHoldsStep ==
    ASSUME LifeInv, [Next]_vars, NEW d \in Draws PROVE DrawHolds(d)'
<1> SUFFICES ASSUME draw'[d].stage = "drawing", NEW c \in DOMAIN choices',
                    choices'[c].status = "pending"
             PROVE  \/ draw'[d].at <= choices'[c].askedAt
                    \/ choices'[c].askedAt + Pending <= draw'[d].at
  BY DEF DrawHolds, Lapses
<1>0. /\ DrawHolds(d) /\ NothingAhead /\ now \in Nat /\ Pending \in Nat
      /\ \A z \in DOMAIN choices : choices[z].askedAt \in Nat
      /\ DOMAIN choices \subseteq DOMAIN choices'
      /\ \A z \in DOMAIN choices : choices'[z].status = "pending" => choices'[z] = choices[z]
  BY Kept, Entries, Lengths DEF LifeInv, TypeOK, ChoiceRows
<1>1. CASE draw'[d] = draw[d] /\ c \in DOMAIN choices
  BY <1>0, <1>1 DEF DrawHolds, Lapses
<1>2. CASE draw'[d] = draw[d] /\ c \notin DOMAIN choices
  <2>1. PICK t \in Turns : choices'[c] = NewChoice(t)
    BY <1>2, NewChoiceAsked
  <2> QED
    BY <1>0, <1>2, <2>1 DEF NewChoice, NothingAhead
<1>3. CASE DrawFits(d, draw'[d])
  <2>1. draw'[d].at = now /\ ~PendingForInstance(now) /\ choices' = choices
    BY <1>3 DEF DrawFits
  <2> QED
    BY <1>0, <2>1 DEF PendingForInstance, Unanswered, Lapses
<1> QED
  BY <1>1, <1>2, <1>3, DrawChanges

LEMMA LifeStep == LifeInv /\ [Next]_vars => LifeInv'
  BY TypeStep, AheadStep, LinksStep, TurnHoldsStep, AnswerHoldsStep, DrawHoldsStep
  DEF LifeInv

LEMMA LifeInit == Init => LifeInv
<1> SUFFICES ASSUME Init PROVE LifeInv
  OBVIOUS
<1>0. 0 \in Nat /\ 0 \in Times /\ 1 \in Times /\ ColdStreak - 1 \in Nat
  BY LengthsAssumption DEF Times
<1>1. /\ choices = <<>> /\ events = <<>> /\ now = 1
      /\ choices \in Seq(ChoiceRows) /\ events \in Seq(EventRows)
      /\ Len(choices) = 0 /\ Len(events) = 0 /\ DOMAIN choices = {} /\ DOMAIN events = {}
  BY DEF Init
<1>2. ASSUME NEW s \in Sessions
      PROVE  /\ judged[s] \in Seq(JudgedRows)
             /\ \A i \in DOMAIN judged[s] : judged[s][i].at = 0
  <2> DEFINE j == [at |-> 0, mood |-> Past[s]]
  <2>1. j \in JudgedRows /\ j.at = 0
    BY <1>0, PastAssumption DEF JudgedRows, Moods
  <2>2. judged[s] = [i \in 1..(ColdStreak - 1) |-> j]
    BY DEF Init
  <2> HIDE DEF j
  <2>3. judged[s] \in [1..(ColdStreak - 1) -> JudgedRows]
    BY <2>1, <2>2
  <2> QED
    BY <1>0, <2>1, <2>2, <2>3, SeqDef
<1>3. judged \in [Sessions -> Seq(JudgedRows)]
  BY <1>2 DEF Init
<1>4. /\ turn \in [Turns -> TurnRows]
      /\ \A t \in Turns : turn[t].stage = "unsent" /\ turn[t].sentAt = 0 /\ turn[t].ask.since = 0
  <2>1. NoAsk \in AskRows /\ NoAsk.since = 0
    BY <1>0 DEF NoAsk, AskRows, Kinds
  <2>2. Idle("unsent") \in TurnRows
    BY <1>0, <2>1 DEF Idle, TurnRows
  <2>3. /\ Idle("unsent").stage = "unsent" /\ Idle("unsent").sentAt = 0
        /\ Idle("unsent").ask.since = 0
    BY <2>1 DEF Idle
  <2> QED
    BY <2>2, <2>3 DEF Init
<1>5. /\ answer \in [Answers -> AnswerRows]
      /\ \A a \in Answers : answer[a].stage = "idle" /\ answer[a].at = 0
  <2>1. NoAnswer("idle") \in AnswerRows
    BY <1>0 DEF NoAnswer, AnswerRows
  <2> QED
    BY <2>1 DEF Init, NoAnswer
<1>6. /\ draw \in [Draws -> DrawRows]
      /\ \A d \in Draws : draw[d].stage = "idle" /\ draw[d].at = 0
  <2>1. NoDraw("idle") \in DrawRows
    BY <1>0 DEF NoDraw, DrawRows, DrawnKinds
  <2> QED
    BY <2>1 DEF Init, NoDraw
<1>7. TypeOK
  BY <1>0, <1>1, <1>3, <1>4, <1>5, <1>6 DEF TypeOK
<1>8. NothingAhead
  BY <1>1, <1>2, <1>5, <1>6 DEF NothingAhead
<1>9. Links
  BY <1>1 DEF Links
<1> QED
  BY <1>1, <1>4, <1>5, <1>6, <1>7, <1>8, <1>9 DEF LifeInv, TurnHolds, AnswerHolds, DrawHolds

LEMMA Life == Spec => []LifeInv
  BY LifeInit, LifeStep, PTL DEF Spec

\* The tables, the messages' turns, the answers and the draws stay well formed:
\* every link names a row, every instant is one of the clock's.
THEOREM TypeCorrectness == Spec => []TypeOK
<1>1. LifeInv => TypeOK
  BY DEF LifeInv
<1> QED
  BY <1>1, Life, PTL

-----------------------------------------------------------------------------
(***************************************************************************)
(* One open ask, and asks that are earned                                  *)
(***************************************************************************)

\* A choice is asked when the ones before it are over: answered or lapsed, and
\* in its own session what they brought is over too, unless it came late.
OrderInv ==
    \A a, b \in DOMAIN choices : a < b =>
      /\ choices[a].askedAt <= choices[b].askedAt
      /\ choices[a].resolvedAt <= choices[b].askedAt
      /\ choices[a].status = "pending" => Lapses(a) <= choices[b].askedAt
      /\ /\ choices[a].session = choices[b].session
         /\ choices[a].event # 0 /\ ~events[choices[a].event].late
         => events[choices[a].event].end <= choices[b].askedAt

\* The numbers of the tables.
LEMMA Numbers ==
    ASSUME LifeInv
    PROVE  /\ now \in Nat /\ Pending \in Nat /\ Pending > 0
           /\ Len(choices) \in Nat /\ DOMAIN choices = 1..Len(choices)
           /\ Len(events) \in Nat /\ DOMAIN events = 1..Len(events)
           /\ \A c \in DOMAIN choices :
                /\ choices[c].askedAt \in Nat /\ choices[c].askedAt <= now
                /\ choices[c].resolvedAt \in Nat /\ choices[c].resolvedAt <= now
                /\ choices[c].event \in Nat
                /\ choices[c].event # 0 => choices[c].event \in DOMAIN events
           /\ \A e \in DOMAIN events :
                /\ events[e].start \in Nat /\ events[e].start <= now
                /\ events[e].end \in Nat /\ events[e].start < events[e].end
                /\ events[e].lasts \in Nat
                /\ events[e].choice \in Nat /\ events[e].choice <= Len(choices)
                /\ events[e].late \in BOOLEAN
           /\ \A t \in Turns : turn[t].sentAt \in Nat /\ turn[t].ask.since \in Nat
           /\ \A d \in Draws : draw[d].at \in Nat
<1>0. /\ TypeOK /\ NothingAhead /\ Links /\ Times \subseteq Nat /\ now \in Times
      /\ Pending \in Nat /\ Pending > 0
  BY Lengths DEF LifeInv, TypeOK
<1>1. ASSUME NEW c \in DOMAIN choices
      PROVE  /\ choices[c].askedAt \in Nat /\ choices[c].askedAt <= now
             /\ choices[c].resolvedAt \in Nat /\ choices[c].resolvedAt <= now
             /\ choices[c].event \in Nat
             /\ choices[c].event # 0 => choices[c].event \in DOMAIN events
  <2>1. choices[c] \in ChoiceRows
    BY <1>0, Entries
  <2>2. choices[c].event \in Nat /\ choices[c].event <= Len(events)
    BY <1>0, <2>1 DEF Links, ChoiceRows
  <2>3. choices[c].event # 0 => choices[c].event \in DOMAIN events
    BY <1>0, <2>2, Entries
  <2> QED
    BY <1>0, <2>1, <2>2, <2>3 DEF NothingAhead, ChoiceRows
<1>2. ASSUME NEW e \in DOMAIN events
      PROVE  /\ events[e].start \in Nat /\ events[e].start <= now
             /\ events[e].end \in Nat /\ events[e].start < events[e].end
             /\ events[e].lasts \in Nat
             /\ events[e].choice \in Nat /\ events[e].choice <= Len(choices)
             /\ events[e].late \in BOOLEAN
  <2>1. events[e] \in EventRows
    BY <1>0, Entries
  <2> QED
    BY <1>0, <2>1 DEF NothingAhead, Links, EventRows
<1>3. \A t \in Turns : turn[t].sentAt \in Nat /\ turn[t].ask.since \in Nat
  BY <1>0, Entries DEF TurnRows, AskRows
<1>4. \A d \in Draws : draw[d].at \in Nat
  BY <1>0, Entries DEF DrawRows
<1> QED
  BY <1>0, <1>1, <1>2, <1>3, <1>4, Entries

LEMMA StartedFields ==
    ASSUME NEW kind, NEW c, NEW start, NEW lasts
    PROVE  /\ Started(kind, c, start, lasts).kind = kind
           /\ Started(kind, c, start, lasts).choice = c
           /\ Started(kind, c, start, lasts).start = start
           /\ Started(kind, c, start, lasts).end = start + lasts
           /\ Started(kind, c, start, lasts).lasts = lasts
<1> DEFINE late == now >= Lapses(c)
           end == start + lasts
<1>1. Started(kind, c, start, lasts) =
        [kind |-> kind, choice |-> c, start |-> start, end |-> end, lasts |-> lasts, late |-> late]
  BY DEF Started
<1> HIDE DEF late, end
<1>2. /\ Started(kind, c, start, lasts).kind = kind
      /\ Started(kind, c, start, lasts).choice = c
      /\ Started(kind, c, start, lasts).start = start
      /\ Started(kind, c, start, lasts).end = end
      /\ Started(kind, c, start, lasts).lasts = lasts
  BY <1>1
<1> QED
  BY <1>2 DEF end

LEMMA StartedLate ==
    ASSUME NEW kind, NEW c, NEW start, NEW lasts, now >= Lapses(c)
    PROVE  Started(kind, c, start, lasts).late = TRUE
<1> DEFINE end == start + lasts
<1>1. (now >= Lapses(c)) = TRUE
  OBVIOUS
<1>2. Started(kind, c, start, lasts) =
        [kind |-> kind, choice |-> c, start |-> start, end |-> end, lasts |-> lasts, late |-> TRUE]
  BY <1>1, Zenon DEF Started
<1> HIDE DEF end
<1> QED
  BY <1>2

\* The newest choice of a session is one of it, and no other is newer.
LEMMA LatestIsNewest ==
    ASSUME LifeInv, NEW s, NEW c \in Of(s)
    PROVE  Latest(Of(s)) \in Of(s) /\ c <= Latest(Of(s))
<1>1. Of(s) \in SUBSET (0..Len(choices)) /\ Of(s) # {} /\ Len(choices) \in Nat
  BY Numbers DEF Of
<1>2. \E x \in Of(s) : \A y \in Of(s) : y <= x
  BY <1>1, GreatestExists
<1> QED
  BY <1>2 DEF Latest

\* The anchor an ask found again is past every episode before it.
LEMMA AnchorCovers ==
    ASSUME LifeInv, OrderInv, NEW t \in Turns, turn[t].stage = "asking", MayAsk(t),
           NEW a \in Of(SessionOf[t])
    PROVE  /\ turn[t].ask.since > choices[a].askedAt
           /\ turn[t].ask.since > choices[a].resolvedAt
           /\ choices[a].event # 0 /\ ~events[choices[a].event].late =>
                turn[t].ask.since > events[choices[a].event].end
<1> DEFINE s == SessionOf[t]
           l == Latest(Of(s))
           since == turn[t].ask.since
<1>1. l \in Of(s) /\ a <= l
  BY LatestIsNewest
<1>2. /\ a \in DOMAIN choices /\ l \in DOMAIN choices
      /\ choices[a].session = s /\ choices[l].session = s
  BY <1>1 DEF Of
<1>3. EpisodeEnd(l) < since
  <2>1. EpisodeEnd(l) \in Anchor(s)
    BY <1>1 DEF Anchor
  <2>2. Anchor(s) = turn[t].ask.anchor
    BY DEF MayAsk
  <2> QED
    BY <2>1, <2>2 DEF LifeInv, TurnHolds
<1>4. /\ since \in Nat /\ a \in Nat /\ l \in Nat
      /\ choices[a].askedAt \in Nat /\ choices[a].resolvedAt \in Nat
      /\ choices[l].askedAt \in Nat /\ choices[l].resolvedAt \in Nat
      /\ choices[a].event # 0 => events[choices[a].event].end \in Nat
      /\ choices[l].event # 0 => events[choices[l].event].end \in Nat
  BY <1>2, Numbers
<1>5. /\ since > choices[l].askedAt /\ since > choices[l].resolvedAt
      /\ choices[l].event # 0 => since > events[choices[l].event].end
  BY <1>3, <1>4 DEF EpisodeEnd, AtLeast
<1>6. CASE a = l
  BY <1>5, <1>6
<1>7. CASE a < l
  <2>1. /\ choices[a].askedAt <= choices[l].askedAt
        /\ choices[a].resolvedAt <= choices[l].askedAt
        /\ choices[a].event # 0 /\ ~events[choices[a].event].late =>
             events[choices[a].event].end <= choices[l].askedAt
    BY <1>2, <1>7 DEF OrderInv
  <2> HIDE DEF since, l
  <2>2. since > choices[a].askedAt /\ since > choices[a].resolvedAt
    BY <1>4, <1>5, <2>1
  <2>3. ASSUME choices[a].event # 0, ~events[choices[a].event].late
        PROVE  since > events[choices[a].event].end
    <3>1. /\ events[choices[a].event].end <= choices[l].askedAt
          /\ events[choices[a].event].end \in Nat
      BY <1>4, <2>1, <2>3
    <3> QED
      BY <1>4, <1>5, <3>1
  <2> QED
    BY <2>2, <2>3 DEF since
<1> QED
  BY <1>1, <1>4, <1>6, <1>7

LEMMA OrderStep == ASSUME LifeInv, OrderInv, [Next]_vars PROVE OrderInv'
<1> SUFFICES ASSUME NEW a \in DOMAIN choices', NEW b \in DOMAIN choices', a < b
             PROVE  /\ choices'[a].askedAt <= choices'[b].askedAt
                    /\ choices'[a].resolvedAt <= choices'[b].askedAt
                    /\ choices'[a].status = "pending" =>
                         choices'[a].askedAt + Pending <= choices'[b].askedAt
                    /\ /\ choices'[a].session = choices'[b].session
                       /\ choices'[a].event # 0 /\ ~events'[choices'[a].event].late
                       => events'[choices'[a].event].end <= choices'[b].askedAt
  BY DEF OrderInv, Lapses
<1>1. CASE b \notin DOMAIN choices
  <2>1. PICK t \in Turns : Asked(t) /\ choices'[b] = NewChoice(t)
    BY <1>1, NewChoiceAsked
  <2>2. b = Len(choices) + 1
    BY <1>1, NewChoiceAsked
  <2>3. a \in DOMAIN choices /\ choices'[a] = choices[a] /\ events' = events
    <3>1. DOMAIN choices' = 1..(Len(choices) + 1) /\ DOMAIN choices = 1..Len(choices)
          /\ Len(choices) \in Nat
      BY <2>1, AskedRows
    <3>2. a \in DOMAIN choices
      BY <2>2, <3>1
    <3> QED
      BY <2>1, <3>2, AskedRows
  <2>4. choices'[b].askedAt = now /\ choices'[b].session = SessionOf[t]
    BY <2>1 DEF NewChoice
  <2>5. turn[t].stage = "asking" /\ MayAsk(t)
    BY <2>1 DEF Asked
  <2>6. choices[a].askedAt <= now /\ choices[a].resolvedAt <= now
    BY <2>3, Numbers
  <2>7. choices[a].status = "pending" => choices[a].askedAt + Pending <= now
    <3>1. ~Unanswered(a, now)
      BY <2>3, <2>5 DEF MayAsk, PendingForInstance
    <3> QED
      BY <2>3, <3>1, Numbers DEF Unanswered, Lapses
  <2>8. ASSUME choices[a].session = SessionOf[t], choices[a].event # 0,
               ~events[choices[a].event].late
        PROVE  events[choices[a].event].end <= now
    <3>1. a \in Of(SessionOf[t])
      BY <2>3, <2>8 DEF Of
    <3>2. turn[t].ask.since > events[choices[a].event].end
      BY <2>5, <2>8, <3>1, AnchorCovers
    <3>3. turn[t].ask.since <= now
      BY DEF LifeInv, TurnHolds
    <3>4. events[choices[a].event].end \in Nat
      BY <2>3, <2>8, Numbers
    <3> QED
      BY <3>2, <3>3, <3>4, Numbers
  <2> QED
    BY <2>3, <2>4, <2>6, <2>7, <2>8
<1>2. CASE b \in DOMAIN choices
  <2>1. a \in DOMAIN choices
    <3>1. CASE a \notin DOMAIN choices
      <4>1. a = Len(choices) + 1
        BY <3>1, NewChoiceAsked
      <4> QED
        BY <1>2, <4>1, Numbers
    <3> QED
      BY <3>1
  <2>2. /\ choices'[a].askedAt = choices[a].askedAt /\ choices'[b].askedAt = choices[b].askedAt
        /\ choices'[a].session = choices[a].session /\ choices'[b].session = choices[b].session
        /\ choices'[a].status = "pending" => choices'[a] = choices[a]
    BY <1>2, <2>1, Kept
  <2>3. /\ choices[a].askedAt <= choices[b].askedAt
        /\ choices[a].resolvedAt <= choices[b].askedAt
        /\ choices[a].status = "pending" => choices[a].askedAt + Pending <= choices[b].askedAt
        /\ /\ choices[a].session = choices[b].session
           /\ choices[a].event # 0 /\ ~events[choices[a].event].late
           => events[choices[a].event].end <= choices[b].askedAt
    BY <1>2, <2>1 DEF OrderInv, Lapses
  <2>4. CASE choices'[a] = choices[a]
    <3>1. ASSUME choices[a].session = choices[b].session, choices[a].event # 0,
                 ~events'[choices[a].event].late
          PROVE  events'[choices[a].event].end <= choices[b].askedAt
      <4> DEFINE e == choices[a].event
      <4>1. e \in DOMAIN events /\ events[e].end \in Nat /\ choices[b].askedAt \in Nat
        BY <1>2, <2>1, <3>1, Numbers
      <4>2. /\ events'[e].late = events[e].late /\ events'[e].end <= events[e].end
            /\ events[e].start < events'[e].end
        BY <4>1, Kept
      <4>3. events[e].end <= choices[b].askedAt
        BY <2>3, <3>1, <4>2
      <4>4. e \in DOMAIN events' /\ events'[e].end \in Nat
        <5>1. events' \in Seq(EventRows)
          BY TypeStep DEF TypeOK
        <5>2. e \in DOMAIN events'
          BY <4>1, Kept
        <5>3. events'[e] \in EventRows
          BY <5>1, <5>2, LenProperties, ElementOfSeq
        <5> QED
          BY <5>2, <5>3 DEF EventRows
      <4> HIDE DEF e
      <4>5. events'[e].end <= choices[b].askedAt
        BY <4>1, <4>2, <4>3, <4>4
      <4> QED
        BY <4>5 DEF e
    <3> QED
      BY <2>2, <2>3, <2>4, <3>1
  <2>5. CASE choices'[a] # choices[a]
    <3>1. PICK at \in Times, status \in Settlements : SettledAt(a, status, at)
      BY <2>1, <2>5, ChangedChoice
    <3>2. choices[a].status = "pending" /\ at < choices[a].askedAt + Pending /\ at \in Nat
      BY <3>1, Lengths DEF SettledAt, Unanswered, Lapses
    <3>3. choices'[a].resolvedAt = at /\ choices'[a].event = LinkOf(a, status)
      BY <2>1, <3>1, SettledRows
    <3>4. /\ choices[a].askedAt \in Nat /\ choices[b].askedAt \in Nat /\ now \in Nat
          /\ choices[b].askedAt <= now /\ Pending \in Nat
      BY <1>2, <2>1, Numbers
    <3>5. choices'[a].resolvedAt <= choices'[b].askedAt
      BY <2>2, <2>3, <3>2, <3>3, <3>4
    <3>6. ASSUME choices'[a].event # 0 PROVE events'[choices'[a].event].late
      <4>1. LinkOf(a, status) = Len(events) + 1 /\ Outcome(a, status) = "taking_space"
        BY <3>3, <3>6 DEF LinkOf
      <4>2. PICK lasts \in Nat \ {0} :
               events'[Len(events) + 1] = Started(Outcome(a, status), a, at, lasts)
        BY <2>1, <3>1, <4>1, StartedRows
      <4>3. now >= Lapses(a)
        BY <2>3, <3>2, <3>4 DEF Lapses
      <4>4. choices'[a].event = Len(events) + 1
        BY <3>3, <4>1
      <4>5. Started(Outcome(a, status), a, at, lasts).late = TRUE
        BY <4>3, StartedLate
      <4>6. events'[choices'[a].event].late = TRUE
        BY <4>2, <4>4, <4>5
      <4> QED
        BY <4>6
    <3>7. choices'[a].status # "pending"
      BY <2>2, <2>5
    <3> QED
      BY <2>2, <2>3, <3>5, <3>6, <3>7
  <2> QED
    BY <2>4, <2>5
<1> QED
  BY <1>1, <1>2

LEMMA Ordered == Spec => [](LifeInv /\ OrderInv)
<1>1. Init => LifeInv /\ OrderInv
  <2>1. Init => OrderInv
    BY DEF Init, OrderInv
  <2> QED
    BY <2>1, LifeInit
<1>2. LifeInv /\ OrderInv /\ [Next]_vars => (LifeInv /\ OrderInv)'
  BY LifeStep, OrderStep
<1> QED
  BY <1>1, <1>2, PTL DEF Spec

\* In whatever sessions and however their asks interleave, at most one ask of an
\* instance waits for its answer.
THEOREM OneAskAtATime == Spec => []OneOpenAsk
<1>1. ASSUME LifeInv, OrderInv PROVE OneOpenAsk
  <2> SUFFICES ASSUME NEW c \in DOMAIN choices, NEW d \in DOMAIN choices,
                      Unanswered(c, now), Unanswered(d, now), c # d
               PROVE  FALSE
    BY DEF OneOpenAsk
  <2>1. ASSUME NEW a \in DOMAIN choices, NEW b \in DOMAIN choices, a < b, Unanswered(a, now)
        PROVE  FALSE
    <3>1. Lapses(a) <= choices[b].askedAt
      BY <1>1, <2>1 DEF OrderInv, Unanswered
    <3>2. now < Lapses(a) /\ choices[b].askedAt <= now
      BY <1>1, <2>1, Numbers DEF Unanswered
    <3>3. now \in Nat /\ choices[b].askedAt \in Nat /\ Lapses(a) \in Nat
      BY <1>1, <2>1, Numbers DEF Lapses
    <3> QED
      BY <3>1, <3>2, <3>3
  <2>2. c < d \/ d < c
    BY <1>1, Numbers
  <2> QED
    BY <2>1, <2>2
<1> QED
  BY <1>1, Ordered, PTL

\* However long her words took, and whatever was answered meanwhile, an ask is
\* written only on turns judged after the episodes before it were over.
THEOREM AsksAreEarned == Spec => AskIsEarned
<1> DEFINE Earned(t) ==
      turn[t].stage = "asking" /\ turn'[t].stage # "asking" /\ choices' # choices =>
            \A a \in Of(SessionOf[t]) :
               /\ turn[t].ask.since > choices[a].askedAt
               /\ turn[t].ask.since > choices[a].resolvedAt
               /\ choices[a].event # 0 /\ ~events[choices[a].event].late =>
                    turn[t].ask.since > events[choices[a].event].end
<1>1. ASSUME LifeInv, OrderInv, [Next]_vars, NEW t \in Turns,
             turn[t].stage = "asking", turn'[t].stage # "asking", choices' # choices
      PROVE  MayAsk(t)
  <2>0. turn \in [Turns -> TurnRows]
    BY <1>1 DEF LifeInv, TypeOK
  <2>1. ASSUME NEW u \in Turns, InsertAsk(u) PROVE MayAsk(t)
    <3>1. MayAsk(u)
      BY <1>1, <2>1 DEF InsertAsk
    <3>2. u = t
      BY <1>1, <2>0, <2>1 DEF InsertAsk, AfterAsk, Step
    <3> QED
      BY <3>1, <3>2
  <2>2. ASSUME NEW u \in Turns, Convert(u) PROVE FALSE
    BY <1>1, <2>0, <2>2 DEF Convert, Step
  <2>3. ASSUME NEW a \in Answers, CommitAnswer(a) PROVE FALSE
    BY <1>1, <2>3 DEF CommitAnswer
  <2>4. \/ choices' = choices
        \/ \E u \in Turns : InsertAsk(u) \/ Convert(u)
        \/ \E a \in Answers : CommitAnswer(a)
    BY <1>1 DEF Next, vars, Tick, Send, ReadPending, ConvertFails, Redrive, Ghost, Judge,
       TryAsk, TryRomance, NoAskNow, AskFails, StartAnswer, StartDraw, CommitDraw
  <2> QED
    BY <1>1, <2>1, <2>2, <2>3, <2>4
<1>2. ASSUME LifeInv, OrderInv, [Next]_vars PROVE \A t \in Turns : Earned(t)
  BY <1>1, <1>2, AnchorCovers
<1>3. LifeInv /\ OrderInv /\ [Next]_vars => [\A t \in Turns : Earned(t)]_vars
  BY <1>2
<1> QED
  BY <1>3, Ordered, PTL DEF Spec, AskIsEarned

\* What an answer brings.
LEMMA BroughtEvent ==
    ASSUME LifeInv, NEW e, NEW c \in DOMAIN choices, NEW at \in Times,
           NEW status \in Settlements, NEW lasts \in Nat \ {0}, BroughtBy(e, c, at, status, lasts)
    PROVE  /\ events'[e].kind = Outcome(c, status) /\ events'[e].choice = c
           /\ events'[e].start = at /\ events'[e].end = at + lasts /\ events'[e].lasts = lasts
           /\ Outcome(c, status) \in {"taking_space", "fell_out"}
<1> DEFINE kind == Outcome(c, status)
           r == Started(kind, c, at, lasts)
<1>1. events'[e] = r /\ kind \in {"taking_space", "fell_out"}
  BY DEF BroughtBy
<1> HIDE DEF kind
<1>2. r.kind = kind /\ r.choice = c /\ r.start = at /\ r.end = at + lasts /\ r.lasts = lasts
  BY StartedFields
<1> HIDE DEF r
<1> QED
  BY <1>1, <1>2 DEF kind

\* An event that is not late was answered while its own choice still waited.
LEMMA BroughtBefore ==
    ASSUME LifeInv, NEW e, NEW c \in DOMAIN choices, NEW at \in Times,
           NEW status \in Settlements, NEW lasts \in Nat \ {0}, BroughtBy(e, c, at, status, lasts),
           ~events'[e].late
    PROVE  now < Lapses(c)
<1>1. now \in Nat /\ Lapses(c) \in Nat
  BY Numbers DEF Lapses
<1>2. ASSUME now >= Lapses(c) PROVE FALSE
  <2>1. Started(Outcome(c, status), c, at, lasts).late = TRUE
    BY <1>2, StartedLate
  <2>2. events'[e] = Started(Outcome(c, status), c, at, lasts)
    BY DEF BroughtBy
  <2> HIDE DEF Started
  <2>3. events'[e].late = TRUE
    BY <2>1, <2>2, Zenon
  <2> QED
    BY <2>3
<1> QED
  BY <1>1, <1>2

\* The choice whose answer brings it.
LEMMA BroughtFrom ==
    ASSUME LifeInv, NEW e, NEW c \in DOMAIN choices, NEW at \in Times,
           NEW status \in Settlements, NEW lasts \in Nat \ {0}, BroughtBy(e, c, at, status, lasts)
    PROVE  /\ choices[c].status = "pending" /\ choices'[c].status # "pending"
           /\ choices[c].askedAt <= at /\ at < Lapses(c) /\ at <= now
           /\ at \in Nat /\ Lapses(c) \in Nat /\ choices[c].askedAt \in Nat
<1>1. SettledAt(c, status, at)
  BY DEF BroughtBy
<1>2. /\ choices[c].status = "pending" /\ at < Lapses(c)
      /\ choices[c].askedAt <= at /\ at <= now
  BY <1>1 DEF SettledAt, Unanswered
<1>3. choices'[c].status # "pending"
  BY <1>1, SettledRows DEF Settlements
<1>4. at \in Nat /\ Lapses(c) \in Nat /\ choices[c].askedAt \in Nat
  BY Lengths, Numbers DEF Lapses
<1> QED
  BY <1>2, <1>3, <1>4

-----------------------------------------------------------------------------
(***************************************************************************)
(* What an answer settles                                                  *)
(***************************************************************************)

Written(c, kind) == {e \in DOMAIN events : events[e].choice = c /\ events[e].kind = kind}
Begun(c, status) ==
    IF choices[c].kind = "ask_for_space" /\ choices[c].status = status THEN 1 ELSE 0

\* AnswerIsSettled for one choice, in named parts.
InItsHours(c) ==
    choices[c].status # "pending" =>
      choices[c].askedAt <= choices[c].resolvedAt /\ choices[c].resolvedAt < Lapses(c)
ChargedOnce(c) ==
    choices[c].lost = IF choices[c].status \in {"accepted", "declined"}
                      THEN Cost(choices[c].kind, choices[c].status) ELSE NoLoss
StartedOnce(c) ==
    /\ Cardinality(Written(c, "taking_space")) = Begun(c, "accepted")
    /\ Cardinality(Written(c, "fell_out")) = Begun(c, "ignored")
SettleInv == \A c \in DOMAIN choices : InItsHours(c) /\ ChargedOnce(c) /\ StartedOnce(c)

LEMMA SettledIsProperty == SettleInv => AnswerIsSettled
<1> SUFFICES ASSUME SettleInv, NEW c \in DOMAIN choices
             PROVE  LET r == choices[c]
                        written(kind) == {e \in DOMAIN events : events[e].choice = c
                                                                  /\ events[e].kind = kind}
                        started == IF r.kind = "ask_for_space" THEN 1 ELSE 0
                    IN  /\ r.status # "pending" =>
                             r.askedAt <= r.resolvedAt /\ r.resolvedAt < Lapses(c)
                        /\ r.lost = IF r.status \in {"accepted", "declined"}
                                    THEN Cost(r.kind, r.status) ELSE NoLoss
                        /\ Cardinality(written("taking_space")) =
                             IF r.status = "accepted" THEN started ELSE 0
                        /\ Cardinality(written("fell_out")) =
                             IF r.status = "ignored" THEN started ELSE 0
  BY DEF AnswerIsSettled
<1>1. InItsHours(c) /\ ChargedOnce(c) /\ StartedOnce(c)
  BY DEF SettleInv
<1> QED
  BY <1>1 DEF InItsHours, ChargedOnce, StartedOnce, Written, Begun

\* What a choice brought is a finite set of events.
LEMMA WrittenIsFinite ==
    ASSUME LifeInv, NEW c, NEW kind PROVE IsFiniteSet(Written(c, kind))
<1>1. IsFiniteSet(1..Len(events)) /\ Written(c, kind) \subseteq 1..Len(events)
  <2>1. Len(events) \in Nat /\ DOMAIN events = 1..Len(events)
    BY Numbers
  <2> QED
    BY <2>1, FS_Interval DEF Written
<1> QED
  BY <1>1, FS_Subset

\* Only the settlement of a choice writes events of it.
LEMMA WrittenKept ==
    ASSUME LifeInv, [Next]_vars, NEW c \in DOMAIN choices, choices'[c] = choices[c], NEW kind
    PROVE  Written(c, kind)' = Written(c, kind)
<1>1. ASSUME NEW e \in DOMAIN events', e \notin DOMAIN events PROVE events'[e].choice # c
  <2>1. ASSUME NEW d \in DOMAIN choices, NEW at \in Times, NEW status \in Settlements,
               NEW lasts \in Nat \ {0}, BroughtBy(e, d, at, status, lasts)
        PROVE  events'[e].choice # c
    <3>1. events'[e].choice = d
      BY <2>1, BroughtEvent
    <3>2. choices[d].status = "pending" /\ choices'[d].status # "pending"
      BY <2>1, BroughtFrom
    <3> QED
      BY <3>1, <3>2
  <2>2. ASSUME NEW d \in Draws, NEW k \in DrawnKinds, NEW start \in Times,
               NEW lasts \in Nat \ {0}, DrawnBy(e, d, k, start, lasts)
        PROVE  events'[e].choice # c
    <3>1. events'[e].choice = 0
      BY <2>2 DEF DrawnBy, NewDrawn
    <3>2. c \in 1..Len(choices) /\ Len(choices) \in Nat
      BY Numbers
    <3> QED
      BY <3>1, <3>2
  <2> QED
    BY <1>1, <2>1, <2>2, NewEvent
<1>2. /\ DOMAIN events \subseteq DOMAIN events'
      /\ \A e \in DOMAIN events : events'[e].kind = events[e].kind
                                  /\ events'[e].choice = events[e].choice
  BY Kept
<1>3. Written(c, kind)' =
        {e \in DOMAIN events' : events'[e].choice = c /\ events'[e].kind = kind}
  BY DEF Written
<1> QED
  BY <1>1, <1>2, <1>3 DEF Written

LEMMA SettleStep == ASSUME LifeInv, SettleInv, [Next]_vars PROVE SettleInv'
<1> SUFFICES ASSUME NEW c \in DOMAIN choices'
             PROVE  InItsHours(c)' /\ ChargedOnce(c)' /\ StartedOnce(c)'
  BY DEF SettleInv
<1>1. CASE c \notin DOMAIN choices
  <2>1. PICK t \in Turns : Asked(t) /\ choices'[c] = NewChoice(t)
    BY <1>1, NewChoiceAsked
  <2>2. choices'[c].status = "pending" /\ choices'[c].lost = NoLoss
    BY <2>1 DEF NewChoice
  <2>3. ASSUME NEW kind PROVE Cardinality(Written(c, kind)') = 0
    <3>1. c = Len(choices) + 1 /\ events' = events
      BY <1>1, <2>1, NewChoiceAsked DEF Asked
    <3>2. \A e \in DOMAIN events : events[e].choice # c
      BY <3>1, Numbers
    <3>3. Written(c, kind)' = {}
      <4>1. Written(c, kind)' =
              {e \in DOMAIN events' : events'[e].choice = c /\ events'[e].kind = kind}
        BY DEF Written
      <4> QED
        BY <3>1, <3>2, <4>1
    <3> QED
      BY <3>3, FS_EmptySet
  <2>4. Begun(c, "accepted")' = 0 /\ Begun(c, "ignored")' = 0
    BY <2>2 DEF Begun
  <2>5. InItsHours(c)' /\ ChargedOnce(c)'
    BY <2>2 DEF InItsHours, ChargedOnce
  <2>6. StartedOnce(c)'
    BY <2>3, <2>4 DEF StartedOnce
  <2> QED
    BY <2>5, <2>6
<1>2. CASE c \in DOMAIN choices /\ choices'[c] = choices[c]
  <2>0. InItsHours(c) /\ ChargedOnce(c) /\ StartedOnce(c)
    BY <1>2 DEF SettleInv
  <2>1. /\ Written(c, "taking_space")' = Written(c, "taking_space")
        /\ Written(c, "fell_out")' = Written(c, "fell_out")
    BY <1>2, WrittenKept
  <2>2. Begun(c, "accepted")' = Begun(c, "accepted") /\ Begun(c, "ignored")' = Begun(c, "ignored")
    BY <1>2 DEF Begun
  <2>3. InItsHours(c)' /\ ChargedOnce(c)'
    BY <1>2, <2>0 DEF InItsHours, ChargedOnce, Lapses
  <2>4. StartedOnce(c)'
    BY <2>0, <2>1, <2>2 DEF StartedOnce
  <2> QED
    BY <2>3, <2>4
<1>3. CASE c \in DOMAIN choices /\ choices'[c] # choices[c]
  <2>1. PICK at \in Times, status \in Settlements : SettledAt(c, status, at)
    BY <1>3, ChangedChoice
  <2>2. /\ choices[c].status = "pending" /\ at < Lapses(c) /\ choices[c].askedAt <= at
    BY <2>1 DEF SettledAt, Unanswered
  <2>3. /\ choices'[c].kind = choices[c].kind /\ choices'[c].askedAt = choices[c].askedAt
        /\ choices'[c].status = status /\ choices'[c].resolvedAt = at
        /\ choices'[c].lost \in [Lines -> Nat]
        /\ \A l \in Lines : choices'[c].lost[l] = choices[c].lost[l] + Charged(c, status)[l]
    BY <1>3, <2>1, SettledRows
  <2>4. InItsHours(c)'
    BY <2>2, <2>3 DEF InItsHours, Lapses
  <2>5. ChargedOnce(c)'
    <3>1. choices[c].lost = NoLoss
      BY <1>3, <2>2 DEF SettleInv, ChargedOnce
    <3>2. Charged(c, status) \in [Lines -> Nat]
      <4>1. choices[c].kind \in Kinds
        BY <1>3, Entries DEF LifeInv, ChoiceRows
      <4> QED
        BY <4>1, CostType DEF Charged
    <3>3. \A l \in Lines : choices'[c].lost[l] = Charged(c, status)[l]
      BY <2>3, <3>1, <3>2 DEF NoLoss
    <3>4. choices'[c].lost = Charged(c, status)
      BY <2>3, <3>2, <3>3
    <3>5. status = "ignored" \/ status \in {"accepted", "declined"}
      BY DEF Settlements
    <3> QED
      BY <2>3, <3>4, <3>5 DEF ChargedOnce, Charged
  <2>6. StartedOnce(c)'
    <3>1. ASSUME NEW kind \in {"taking_space", "fell_out"}
          PROVE  /\ Written(c, kind) = {}
                 /\ Written(c, kind)' = IF Outcome(c, status) = kind THEN {Len(events) + 1} ELSE {}
      <4>1. Written(c, kind) = {}
        <5>1. Cardinality(Written(c, kind)) = 0
          BY <1>3, <2>2, <3>1 DEF SettleInv, StartedOnce, Begun
        <5> QED
          BY <5>1, WrittenIsFinite, FS_EmptySet
      <4>2. Written(c, kind)' =
              {e \in DOMAIN events' : events'[e].choice = c /\ events'[e].kind = kind}
        BY DEF Written
      <4>3. CASE Outcome(c, status) = "none"
        BY <1>3, <2>1, <3>1, <4>1, <4>2, <4>3 DEF Written, SettledAt
      <4>4. CASE Outcome(c, status) # "none"
        <5>1. /\ Len(events) \in Nat /\ DOMAIN events = 1..Len(events)
              /\ DOMAIN events' = 1..(Len(events) + 1)
              /\ \A e \in DOMAIN events : CutAt(events[e], events'[e], at)
          BY <1>3, <2>1, <4>4, StartedRows
        <5>2. /\ events'[Len(events) + 1].choice = c
              /\ events'[Len(events) + 1].kind = Outcome(c, status)
          <6>1. PICK lasts \in Nat \ {0} :
                  events'[Len(events) + 1] = Started(Outcome(c, status), c, at, lasts)
            BY <1>3, <2>1, <4>4, StartedRows
          <6>2. BroughtBy(Len(events) + 1, c, at, status, lasts)
            BY <1>3, <2>1, <4>4, <5>1, <6>1 DEF BroughtBy, Outcome
          <6> DEFINE e == Len(events) + 1
          <6>3. BroughtBy(e, c, at, status, lasts)
            BY <6>2
          <6> HIDE DEF e
          <6>4. events'[e].choice = c /\ events'[e].kind = Outcome(c, status)
            BY <1>3, <6>3, BroughtEvent
          <6> QED
            BY <6>4 DEF e
        <5>3. ASSUME NEW e \in DOMAIN events
              PROVE  ~(events'[e].choice = c /\ events'[e].kind = kind)
          BY <4>1, <5>1 DEF CutAt, Written
        <5>4. Len(events) + 1 \notin DOMAIN events
              /\ DOMAIN events' = DOMAIN events \cup {Len(events) + 1}
          BY <5>1
        <5> QED
          BY <4>1, <4>2, <5>2, <5>3, <5>4
      <4> QED
        BY <4>1, <4>3, <4>4
    <3>2. Cardinality({}) = 0 /\ Cardinality({Len(events) + 1}) = 1
      BY FS_EmptySet, FS_Singleton
    <3>3. /\ Begun(c, "accepted")' = IF Outcome(c, status) = "taking_space" THEN 1 ELSE 0
          /\ Begun(c, "ignored")' = IF Outcome(c, status) = "fell_out" THEN 1 ELSE 0
      BY <2>3 DEF Begun, Outcome, Settlements
    <3> QED
      BY <3>1, <3>2, <3>3 DEF StartedOnce
  <2> QED
    BY <2>4, <2>5, <2>6
<1> QED
  BY <1>1, <1>2, <1>3

\* A choice is answered once, inside its hours, and its costs and what it starts
\* are those of that answer, whichever of the message and the route was first.
THEOREM AnswersSettleOnce == Spec => []AnswerIsSettled
<1>1. Init => LifeInv /\ SettleInv
  <2>1. Init => SettleInv
    BY DEF Init, SettleInv
  <2> QED
    BY <2>1, LifeInit
<1>2. LifeInv /\ SettleInv /\ [Next]_vars => (LifeInv /\ SettleInv)'
  BY LifeStep, SettleStep
<1> QED
  BY <1>1, <1>2, SettledIsProperty, PTL DEF Spec

-----------------------------------------------------------------------------
(***************************************************************************)
(* One incident at a time                                                  *)
(***************************************************************************)

\* While a choice waits nothing starts but what was under way when she asked.
GapInv ==
    \A c \in DOMAIN choices, e \in DOMAIN events :
      choices[c].status = "pending" /\ Foreground(e) =>
        events[e].start <= choices[c].askedAt \/ Lapses(c) <= events[e].start

\* Two choices that wait at two instants do not wait at one.
LEMMA WaitInTurn ==
    ASSUME LifeInv, OrderInv, NEW c \in DOMAIN choices, NEW d \in DOMAIN choices, c # d,
           choices[c].status = "pending", choices[d].status = "pending"
    PROVE  Lapses(c) <= choices[d].askedAt \/ Lapses(d) <= choices[c].askedAt
<1>1. c < d \/ d < c
  BY Numbers
<1> QED
  BY <1>1 DEF OrderInv

LEMMA GapStep == ASSUME LifeInv, OrderInv, GapInv, [Next]_vars PROVE GapInv'
<1> SUFFICES ASSUME NEW c \in DOMAIN choices', NEW e \in DOMAIN events',
                    choices'[c].status = "pending", events'[e].kind \notin Background
             PROVE  \/ events'[e].start <= choices'[c].askedAt
                    \/ choices'[c].askedAt + Pending <= events'[e].start
  BY DEF GapInv, Foreground, Lapses
<1>1. CASE c \notin DOMAIN choices
  <2>1. PICK t \in Turns : Asked(t) /\ choices'[c] = NewChoice(t)
    BY <1>1, NewChoiceAsked
  <2>2. choices'[c].askedAt = now /\ events' = events
    BY <2>1 DEF Asked, NewChoice
  <2> QED
    BY <2>2, Numbers
<1>2. CASE c \in DOMAIN choices /\ e \in DOMAIN events
  <2>1. choices'[c] = choices[c] /\ events'[e].kind = events[e].kind
        /\ events'[e].start = events[e].start
    BY <1>2, Kept
  <2> QED
    BY <1>2, <2>1 DEF GapInv, Foreground, Lapses
<1>3. CASE c \in DOMAIN choices /\ e \notin DOMAIN events
  <2>0. choices'[c] = choices[c] /\ choices[c].askedAt \in Nat /\ now \in Nat /\ Pending \in Nat
        /\ choices[c].status = "pending"
    BY <1>3, Kept, Numbers
  <2>1. ASSUME NEW d \in DOMAIN choices, NEW at \in Times, NEW status \in Settlements,
               NEW lasts \in Nat \ {0}, BroughtBy(e, d, at, status, lasts)
        PROVE  at <= choices[c].askedAt \/ Lapses(c) <= at
    <3>1. /\ choices[d].status = "pending" /\ choices'[d].status # "pending"
          /\ choices[d].askedAt <= at /\ at < Lapses(d)
          /\ at \in Nat /\ Lapses(d) \in Nat
      BY <2>1, BroughtFrom
    <3>2. c # d
      BY <3>1
    <3>3. Lapses(c) <= choices[d].askedAt \/ Lapses(d) <= choices[c].askedAt
      BY <1>3, <2>0, <3>1, <3>2, WaitInTurn
    <3>4. choices[d].askedAt \in Nat /\ Lapses(c) \in Nat
      BY <2>0, Numbers DEF Lapses
    <3> QED
      BY <2>0, <3>1, <3>3, <3>4
  <2>2. ASSUME NEW d \in Draws, NEW kind \in DrawnKinds, NEW start \in {now, draw[d].at},
               NEW lasts \in Nat \ {0}, DrawnBy(e, d, kind, start, lasts)
        PROVE  start <= choices[c].askedAt \/ Lapses(c) <= start
    <3>1. CASE start = now
      <4>1. ~Unanswered(c, now)
        BY <1>3, <2>2 DEF DrawnBy, MayHappen, PendingForInstance
      <4> QED
        BY <2>0, <3>1, <4>1 DEF Unanswered, Lapses
    <3>2. CASE start = draw[d].at
      BY <1>3, <2>0, <2>2, <3>2 DEF DrawnBy, LifeInv, DrawHolds
    <3> QED
      BY <3>1, <3>2
  <2>3. ASSUME NEW d \in DOMAIN choices, NEW at \in Times, NEW status \in Settlements,
               NEW lasts \in Nat \ {0}, BroughtBy(e, d, at, status, lasts)
        PROVE  events'[e].start = at
    BY <2>3, BroughtEvent
  <2>4. ASSUME NEW d \in Draws, NEW kind \in DrawnKinds, NEW start \in Times,
               NEW lasts \in Nat \ {0}, DrawnBy(e, d, kind, start, lasts)
        PROVE  events'[e].start = start
    BY <2>4 DEF DrawnBy, NewDrawn
  <2>5. ASSUME NEW d \in DOMAIN choices, NEW at \in Times, NEW status \in Settlements,
               NEW lasts \in Nat \ {0}, BroughtBy(e, d, at, status, lasts)
        PROVE  events'[e].start <= choices[c].askedAt \/ Lapses(c) <= events'[e].start
    BY <2>1, <2>3, <2>5
  <2>6. ASSUME NEW d \in Draws, NEW kind \in DrawnKinds, NEW start \in Times,
               NEW lasts \in Nat \ {0}, start \in {now, draw[d].at},
               DrawnBy(e, d, kind, start, lasts)
        PROVE  events'[e].start <= choices[c].askedAt \/ Lapses(c) <= events'[e].start
    BY <2>2, <2>4, <2>6
  <2>7. events'[e].start <= choices[c].askedAt \/ Lapses(c) <= events'[e].start
    BY <1>3, <2>5, <2>6, NewEvent
  <2> QED
    BY <2>0, <2>7 DEF Lapses
<1> QED
  BY <1>1, <1>2, <1>3

LEMMA ForegroundStep ==
    ASSUME LifeInv, OrderInv, GapInv, OneForeground, [Next]_vars PROVE OneForeground'
<1> SUFFICES ASSUME NEW e \in DOMAIN events', NEW f \in DOMAIN events', e # f,
                    events'[e].kind \notin Background, events'[f].kind \notin Background,
                    events'[e].start < events'[f].start, events'[f].start < events'[e].end,
                    ~events'[e].late, ~events'[f].late
             PROVE  FALSE
  BY DEF OneForeground, Foreground
<1>0. /\ \A g \in DOMAIN events :
           /\ events'[g].kind = events[g].kind /\ events'[g].start = events[g].start
           /\ events'[g].late = events[g].late
           /\ events'[g].end <= events[g].end
           /\ events[g].start \in Nat /\ events[g].end \in Nat /\ events[g].start <= now
           /\ events[g].start < events[g].end
      /\ now \in Nat
      /\ \A g \in DOMAIN events' : events'[g].start \in Nat /\ events'[g].end \in Nat
  <2>1. \A g \in DOMAIN events' : events'[g].start \in Nat /\ events'[g].end \in Nat
    <3>1. events' \in Seq(EventRows)
      BY TypeStep DEF TypeOK
    <3>2. \A g \in DOMAIN events' : events'[g] \in EventRows
      BY <3>1, LenProperties, ElementOfSeq
    <3> QED
      BY <3>2, Lengths DEF EventRows
  <2> QED
    BY <2>1, Kept, Numbers
<1>1. CASE e \in DOMAIN events /\ f \in DOMAIN events
  <2>1. events[f].start < events[e].end
    BY <1>0, <1>1
  <2> QED
    BY <1>0, <1>1, <2>1 DEF OneForeground, Foreground
<1>2. CASE e \in DOMAIN events /\ f \notin DOMAIN events
  <2>1. ASSUME NEW d \in DOMAIN choices, NEW at \in Times, NEW status \in Settlements,
               NEW lasts \in Nat \ {0}, BroughtBy(f, d, at, status, lasts)
        PROVE  FALSE
    <3>1. events'[f].start = at /\ at \in Nat
      BY <2>1, BroughtEvent, BroughtFrom
    <3>2. CutAt(events[e], events'[e], at)
      BY <1>2, <2>1 DEF BroughtBy
    <3>3. events'[e].end = IF events[e].start < at /\ at < events[e].end
                           THEN at ELSE events[e].end
      BY <1>0, <1>2, <3>2 DEF CutAt
    <3> QED
      BY <1>0, <1>2, <3>1, <3>3
  <2>2. ASSUME NEW d \in Draws, NEW kind \in DrawnKinds, NEW start \in Times,
               NEW lasts \in Nat \ {0}, DrawnBy(f, d, kind, start, lasts)
        PROVE  FALSE
    <3>1. events'[f].start = start /\ events'[e] = events[e]
      BY <1>2, <2>2 DEF DrawnBy, NewDrawn
    <3>2. events[e].end > start
      BY <1>0, <1>2, <3>1
    <3>3. ~Foreground(e)
      BY <1>2, <2>2, <3>2 DEF DrawnBy, MayHappen
    <3> QED
      BY <1>0, <1>2, <3>3 DEF Foreground
  <2> QED
    BY <1>2, <2>1, <2>2, NewEvent
<1>3. CASE e \notin DOMAIN events /\ f \in DOMAIN events
  <2>1. ASSUME NEW d \in DOMAIN choices, NEW at \in Times, NEW status \in Settlements,
               NEW lasts \in Nat \ {0}, BroughtBy(e, d, at, status, lasts)
        PROVE  FALSE
    <3>1. /\ events'[e].start = at /\ at \in Nat /\ Lapses(d) \in Nat
          /\ choices[d].status = "pending" /\ choices[d].askedAt <= at
          /\ now < Lapses(d)
      BY <2>1, BroughtEvent, BroughtBefore, BroughtFrom
    <3>2. events[f].start <= choices[d].askedAt \/ Lapses(d) <= events[f].start
      BY <1>0, <1>3, <3>1 DEF GapInv, Foreground
    <3>3. choices[d].askedAt \in Nat
      BY Numbers
    <3> QED
      BY <1>0, <1>3, <3>1, <3>2, <3>3
  <2>2. ASSUME NEW d \in Draws, NEW kind \in DrawnKinds, NEW start \in Times,
               NEW lasts \in Nat \ {0}, DrawnBy(e, d, kind, start, lasts)
        PROVE  FALSE
    <3>1. events'[e].start = start /\ events'[f] = events[f]
      BY <1>3, <2>2 DEF DrawnBy, NewDrawn
    <3>2. events[f].end > start
      BY <1>0, <1>3, <3>1
    <3>3. ~Foreground(f)
      BY <1>3, <2>2, <3>2 DEF DrawnBy, MayHappen
    <3> QED
      BY <1>0, <1>3, <3>3 DEF Foreground
  <2> QED
    BY <1>3, <2>1, <2>2, NewEvent
<1>4. CASE e \notin DOMAIN events /\ f \notin DOMAIN events
  BY <1>4, NewEvent
<1> QED
  BY <1>1, <1>2, <1>3, <1>4

\* She does one thing at a time: what an answer brings ends what is under way,
\* and a drawn event waits for it, but for what came late.
THEOREM OneThingAtATime == Spec => []OneForeground
<1>1. Init => GapInv /\ OneForeground
  BY DEF Init, GapInv, OneForeground
<1>2. ASSUME LifeInv /\ OrderInv, GapInv, OneForeground, [Next]_vars
      PROVE  GapInv' /\ OneForeground'
  BY <1>2, GapStep, ForegroundStep
<1> QED
  BY <1>1, <1>2, Ordered, PTL DEF Spec

-----------------------------------------------------------------------------
(***************************************************************************)
(* Separations that hold                                                   *)
(***************************************************************************)

Separation(e) == events[e].kind = "taking_space" /\ ~events[e].late

\* Nothing that displaces her starts within a separation: what starts with it
\* is older or a separation itself.
SeparationInv ==
    \A e, f \in DOMAIN events : Separation(e) /\ Foreground(f) /\ e # f =>
      /\ events[f].start > events[e].start => events[f].start >= events[e].end
      /\ events[f].start = events[e].start /\ f > e => events[f].kind = "taking_space"

\* A message about to turn an open choice into a falling-out was not sent
\* within a separation.
ConvertInv ==
    \A t \in Turns :
      turn[t].stage = "converting" /\ Unanswered(turn[t].read, turn[t].sentAt) =>
        \A e \in DOMAIN events : Separation(e) =>
          ~(events[e].start <= turn[t].sentAt /\ turn[t].sentAt < events[e].end)

\* A message sent within a separation sees it.
LEMMA SeparationIsSeen ==
    ASSUME LifeInv, SeparationInv, NEW at \in Nat, NEW e \in DOMAIN events, Separation(e),
           events[e].start <= at, at < events[e].end
    PROVE  Apart(at)
<1> DEFINE alike == {f \in UnderWay(at) : /\ events[f].kind = "taking_space"
                                         /\ events[f].start = events[e].start}
<1>0. /\ Len(events) \in Nat /\ DOMAIN events = 1..Len(events)
      /\ \A f \in DOMAIN events : events[f].start \in Nat /\ events[f].end \in Nat
  BY Numbers
<1>1. e \in alike
  BY DEF UnderWay, Separation
<1>2. alike \in SUBSET (0..Len(events))
  BY <1>0 DEF UnderWay
<1>3. PICK g \in alike : \A f \in alike : f <= g
  BY <1>0, <1>1, <1>2, GreatestExists
<1>4. /\ g \in UnderWay(at) /\ events[g].kind = "taking_space"
      /\ events[g].start = events[e].start /\ e <= g
  BY <1>1, <1>3
<1>5. ASSUME NEW f \in UnderWay(at), Foreground(f)
      PROVE  \/ events[f].start < events[g].start
             \/ events[f].start = events[g].start /\ f <= g
  <2>1. f \in DOMAIN events /\ events[f].start <= at /\ at < events[f].end
    BY DEF UnderWay
  <2>2. CASE f = e
    BY <1>4, <2>2
  <2>3. CASE f # e
    <3>1. ~(events[f].start > events[e].start)
      <4>1. events[f].start > events[e].start => events[f].start >= events[e].end
        BY <1>5, <2>1, <2>3 DEF SeparationInv
      <4> QED
        BY <1>0, <2>1, <4>1
    <3>2. ASSUME events[f].start = events[e].start PROVE f <= g
      <4>1. CASE f > e
        <5>1. events[f].kind = "taking_space"
          BY <1>5, <2>1, <2>3, <3>2, <4>1 DEF SeparationInv
        <5> QED
          BY <1>3, <3>2, <5>1
      <4>2. CASE ~(f > e)
        BY <1>0, <1>2, <1>4, <2>1, <4>2
      <4> QED
        BY <4>1, <4>2
    <3> QED
      BY <1>0, <1>4, <2>1, <3>1, <3>2
  <2> QED
    BY <2>2, <2>3
<1> QED
  BY <1>4, <1>5 DEF Apart

\* What a settlement cuts of a separation, another one follows.
LEMMA CutBySeparation ==
    ASSUME LifeInv, ConvertInv, NEW g, NEW c \in DOMAIN choices, NEW at \in Times,
           NEW status \in Settlements, NEW lasts \in Nat \ {0}, BroughtBy(g, c, at, status, lasts),
           NEW e \in DOMAIN events, Separation(e), events[e].start <= at, at < events[e].end
    PROVE  events'[g].kind = "taking_space"
<1>1. SettledAt(c, status, at) /\ Unanswered(c, at)
  BY DEF BroughtBy, SettledAt
<1>2. status # "ignored"
  <2> SUFFICES ASSUME status = "ignored" PROVE FALSE
    OBVIOUS
  <2>1. PICK t \in Turns :
           turn[t].stage = "converting" /\ turn[t].read = c /\ turn[t].sentAt = at
    BY <1>1 DEF SettledAt
  <2> QED
    BY <1>1, <2>1 DEF ConvertInv
<1>3. /\ events'[g].kind = Outcome(c, status)
      /\ Outcome(c, status) \in {"taking_space", "fell_out"}
  BY BroughtEvent
<1>4. Outcome(c, status) # "fell_out"
  BY <1>2 DEF Outcome, Settlements
<1> QED
  BY <1>3, <1>4

LEMMA SeparationStep ==
    ASSUME LifeInv, GapInv, SeparationInv, ConvertInv, [Next]_vars PROVE SeparationInv'
<1> SUFFICES ASSUME NEW e \in DOMAIN events', NEW f \in DOMAIN events', e # f,
                    events'[e].kind = "taking_space", ~events'[e].late,
                    events'[f].kind \notin Background
             PROVE  /\ events'[f].start > events'[e].start => events'[f].start >= events'[e].end
                    /\ events'[f].start = events'[e].start /\ f > e =>
                         events'[f].kind = "taking_space"
  BY DEF SeparationInv, Separation, Foreground
<1>0. /\ \A g \in DOMAIN events :
           /\ events'[g].kind = events[g].kind /\ events'[g].start = events[g].start
           /\ events'[g].late = events[g].late
           /\ events'[g].end <= events[g].end
           /\ events[g].start \in Nat /\ events[g].end \in Nat /\ events[g].start <= now
           /\ events[g].start < events[g].end
      /\ now \in Nat
  BY Kept, Numbers
<1>1. \A g \in DOMAIN events' : events'[g].start \in Nat /\ events'[g].end \in Nat
  <2>1. events' \in Seq(EventRows)
    BY TypeStep DEF TypeOK
  <2>2. \A g \in DOMAIN events' : events'[g] \in EventRows
    BY <2>1, LenProperties, ElementOfSeq
  <2> QED
    BY <2>2, Lengths DEF EventRows
<1>2. CASE e \in DOMAIN events /\ f \in DOMAIN events
  <2>1. Separation(e) /\ Foreground(f)
    BY <1>0, <1>2 DEF Separation, Foreground
  <2>2. /\ events[f].start > events[e].start => events[f].start >= events[e].end
        /\ events[f].start = events[e].start /\ f > e => events[f].kind = "taking_space"
    BY <1>2, <2>1 DEF SeparationInv
  <2>3. events'[f].start > events'[e].start => events'[f].start >= events'[e].end
    BY <1>0, <1>1, <1>2, <2>2
  <2>4. events'[f].start = events'[e].start /\ f > e => events'[f].kind = "taking_space"
    BY <1>0, <1>2, <2>2
  <2> QED
    BY <2>3, <2>4
<1>3. CASE e \in DOMAIN events /\ f \notin DOMAIN events
  <2>0. Separation(e) /\ Foreground(e)
    BY <1>0, <1>3 DEF Separation, Foreground, Background
  <2>1. ASSUME NEW d \in DOMAIN choices, NEW at \in Times, NEW status \in Settlements,
               NEW lasts \in Nat \ {0}, BroughtBy(f, d, at, status, lasts)
        PROVE  /\ events'[f].start > events'[e].start => events'[f].start >= events'[e].end
               /\ events'[f].start = events'[e].start => events'[f].kind = "taking_space"
    <3>1. events'[f].start = at /\ at \in Nat
      BY <2>1, BroughtEvent, BroughtFrom
    <3>2. CutAt(events[e], events'[e], at)
      BY <1>3, <2>1 DEF BroughtBy
    <3>3. events'[e].end = IF events[e].start < at /\ at < events[e].end
                           THEN at ELSE events[e].end
      BY <2>0, <3>2 DEF CutAt, Foreground
    <3>4. events'[f].start > events'[e].start => events'[f].start >= events'[e].end
      BY <1>0, <1>3, <3>1, <3>3
    <3>5. ASSUME events'[f].start = events'[e].start PROVE events'[f].kind = "taking_space"
      <4>1. events[e].start <= at /\ at < events[e].end
        BY <1>0, <1>3, <3>1, <3>5
      <4> QED
        BY <1>3, <2>0, <2>1, <4>1, CutBySeparation
    <3> QED
      BY <3>4, <3>5
  <2>2. ASSUME NEW d \in Draws, NEW kind \in DrawnKinds, NEW start \in Times,
               NEW lasts \in Nat \ {0}, DrawnBy(f, d, kind, start, lasts)
        PROVE  /\ events'[f].start > events'[e].start => events'[f].start >= events'[e].end
               /\ events'[f].start # events'[e].start
    <3>1. events'[f].start = start /\ events'[e] = events[e] /\ start \in Nat
      BY <1>3, <2>2, Lengths DEF DrawnBy, NewDrawn
    <3>2. ~(events[e].end > start)
      BY <1>3, <2>0, <2>2 DEF DrawnBy, MayHappen
    <3> QED
      BY <1>0, <1>3, <3>1, <3>2
  <2> QED
    BY <1>3, <2>1, <2>2, NewEvent
<1>4. CASE e \notin DOMAIN events /\ f \in DOMAIN events
  <2>1. ASSUME NEW d \in DOMAIN choices, NEW at \in Times, NEW status \in Settlements,
               NEW lasts \in Nat \ {0}, BroughtBy(e, d, at, status, lasts)
        PROVE  ~(events'[f].start > events'[e].start)
    <3>1. /\ events'[e].start = at /\ at \in Nat /\ Lapses(d) \in Nat
          /\ choices[d].status = "pending" /\ choices[d].askedAt <= at
          /\ now < Lapses(d) /\ choices[d].askedAt \in Nat
      BY <2>1, BroughtEvent, BroughtBefore, BroughtFrom
    <3>2. events[f].start <= choices[d].askedAt \/ Lapses(d) <= events[f].start
      BY <1>0, <1>4, <3>1 DEF GapInv, Foreground
    <3> QED
      BY <1>0, <1>4, <3>1, <3>2
  <2>2. ASSUME NEW d \in Draws, NEW kind \in DrawnKinds, NEW start \in Times,
               NEW lasts \in Nat \ {0}, DrawnBy(e, d, kind, start, lasts)
        PROVE  FALSE
    BY <2>2 DEF DrawnBy, NewDrawn, DrawnKinds
  <2>3. ~(f > e)
    BY <1>4, NewEvent, Numbers
  <2>4. ~(events'[f].start > events'[e].start)
    BY <1>4, <2>1, <2>2, NewEvent
  <2> QED
    BY <2>3, <2>4
<1>5. CASE e \notin DOMAIN events /\ f \notin DOMAIN events
  BY <1>5, NewEvent
<1> QED
  BY <1>2, <1>3, <1>4, <1>5

LEMMA ConvertStep ==
    ASSUME LifeInv, OrderInv, SeparationInv, ConvertInv, [Next]_vars PROVE ConvertInv'
<1> SUFFICES ASSUME NEW t \in Turns, turn'[t].stage = "converting",
                    choices'[turn'[t].read].status = "pending",
                    turn'[t].sentAt < choices'[turn'[t].read].askedAt + Pending,
                    NEW e \in DOMAIN events', events'[e].kind = "taking_space", ~events'[e].late,
                    events'[e].start <= turn'[t].sentAt, turn'[t].sentAt < events'[e].end
             PROVE  FALSE
  BY DEF ConvertInv, Separation, Unanswered, Lapses
<1> DEFINE c == turn[t].read
           at == turn[t].sentAt
<1>1. CASE turn'[t] = turn[t]
  <2>1. /\ c \in DOMAIN choices /\ choices[c].askedAt <= at /\ at <= now /\ at \in Nat
        /\ now \in Nat /\ choices[c].askedAt \in Nat /\ Lapses(c) \in Nat
    <3>1. c \in DOMAIN choices /\ choices[c].askedAt <= at /\ at <= now
      BY <1>1 DEF LifeInv, TurnHolds
    <3> QED
      BY <3>1, Numbers DEF Lapses
  <2>2. choices'[c] = choices[c]
    BY <1>1, <2>1, Kept
  <2>3. choices[c].status = "pending" /\ at < Lapses(c) /\ Unanswered(c, at)
    BY <1>1, <2>2 DEF Unanswered, Lapses
  <2>4. CASE e \in DOMAIN events
    <3>1. /\ events'[e].kind = events[e].kind /\ events'[e].start = events[e].start
          /\ events'[e].late = events[e].late /\ events'[e].end <= events[e].end
          /\ events[e].end \in Nat
      BY <2>4, Kept, Numbers
    <3>2. events'[e].end \in Nat
      <4>1. events' \in Seq(EventRows)
        BY TypeStep DEF TypeOK
      <4>2. events'[e] \in EventRows
        BY <4>1, LenProperties, ElementOfSeq
      <4> QED
        BY <4>2 DEF EventRows
    <3>3. Separation(e) /\ events[e].start <= at /\ at < events[e].end
      BY <1>1, <2>1, <3>1, <3>2 DEF Separation
    <3> QED
      BY <1>1, <2>3, <2>4, <3>3 DEF ConvertInv
  <2>5. CASE e \notin DOMAIN events
    <3>1. ASSUME NEW d \in DOMAIN choices, NEW z \in Times, NEW status \in Settlements,
                 NEW lasts \in Nat \ {0}, BroughtBy(e, d, z, status, lasts)
          PROVE  FALSE
      <4>1. events'[e].start = z
        BY <3>1, BroughtEvent
      <4>2. /\ choices[d].status = "pending" /\ choices'[d].status # "pending"
            /\ choices[d].askedAt <= z /\ z \in Nat /\ Lapses(d) \in Nat
            /\ choices[d].askedAt \in Nat
        BY <3>1, BroughtFrom
      <4>3. now < Lapses(d)
        BY <3>1, BroughtBefore
      <4>4. c # d
        BY <2>2, <2>3, <4>2
      <4>5. Lapses(c) <= choices[d].askedAt \/ Lapses(d) <= choices[c].askedAt
        BY <2>1, <2>3, <4>2, <4>4, WaitInTurn
      <4> QED
        BY <1>1, <2>1, <2>3, <4>1, <4>2, <4>3, <4>5
    <3>2. ASSUME NEW d \in Draws, NEW kind \in DrawnKinds, NEW start \in Times,
                 NEW lasts \in Nat \ {0}, DrawnBy(e, d, kind, start, lasts)
          PROVE  FALSE
      BY <3>2 DEF DrawnBy, NewDrawn, DrawnKinds
    <3> QED
      BY <2>5, <3>1, <3>2, NewEvent
  <2> QED
    BY <2>4, <2>5
<1>2. CASE turn'[t] # turn[t]
  <2>1. RowFits(t, turn'[t])
    BY <1>2, TurnChanges
  <2>2. /\ turn'[t].sentAt = at /\ turn'[t].read \in Ignored(t)
        /\ events' = events
    BY <2>1 DEF RowFits
  <2>3. ~Apart(at)
    BY <2>2 DEF Ignored
  <2>4. at \in Nat /\ Separation(e) /\ events[e].start <= at /\ at < events[e].end
    BY <2>2, Numbers DEF Separation
  <2> QED
    BY <2>2, <2>3, <2>4, SeparationIsSeen
<1> QED
  BY <1>1, <1>2

LEMMA HeldStep ==
    ASSUME LifeInv, ConvertInv, SeparationHeld, [Next]_vars PROVE SeparationHeld'
<1> SUFFICES ASSUME NEW e \in DOMAIN events', events'[e].kind = "taking_space", ~events'[e].late,
                    events'[e].end < events'[e].start + events'[e].lasts
             PROVE  \E f \in DOMAIN events' : /\ events'[f].kind = "taking_space"
                                              /\ events'[f].start = events'[e].end
  BY DEF SeparationHeld
<1>1. CASE e \in DOMAIN events /\ events'[e].end = events[e].end
  <2>1. /\ events'[e].kind = events[e].kind /\ events'[e].start = events[e].start
        /\ events'[e].late = events[e].late /\ events'[e].lasts = events[e].lasts
    BY <1>1, Kept
  <2>2. PICK f \in DOMAIN events : /\ events[f].kind = "taking_space"
                                   /\ events[f].start = events[e].end
    BY <1>1, <2>1 DEF SeparationHeld
  <2>3. /\ f \in DOMAIN events' /\ events'[f].kind = events[f].kind
        /\ events'[f].start = events[f].start
    BY Kept
  <2> QED
    BY <1>1, <2>2, <2>3
<1>2. CASE e \in DOMAIN events /\ events'[e].end # events[e].end
  <2>1. \E c \in DOMAIN choices, at \in Times, status \in Settlements : SettledAt(c, status, at)
    <3>1. events' # events
      BY <1>2
    <3>2. ASSUME NEW d \in Draws, Drawn(d) PROVE FALSE
      <4>1. \A g \in DOMAIN events : events'[g] = events[g]
        BY <3>2, DrawnRows
      <4> QED
        BY <1>2, <4>1
    <3> QED
      BY <3>1, <3>2, Effects DEF Quiet, Asked
  <2>2. PICK c \in DOMAIN choices, at \in Times, status \in Settlements :
           SettledAt(c, status, at)
    BY <2>1
  <2>3. /\ Outcome(c, status) \in {"taking_space", "fell_out"}
        /\ Len(events) \in Nat
        /\ DOMAIN events' = 1..(Len(events) + 1)
        /\ \A g \in DOMAIN events : CutAt(events[g], events'[g], at)
    BY <1>2, <2>2, StartedRows
  <2>4. PICK lasts \in Nat \ {0} :
           events'[Len(events) + 1] = Started(Outcome(c, status), c, at, lasts)
    BY <1>2, <2>2, StartedRows
  <2> DEFINE g == Len(events) + 1
  <2>5. BroughtBy(g, c, at, status, lasts) /\ g \in DOMAIN events'
    BY <2>2, <2>3, <2>4 DEF BroughtBy
  <2> HIDE DEF g
  <2>6. /\ events[e].start < at /\ at < events[e].end /\ events'[e].end = at
        /\ events[e].kind = "taking_space" /\ events[e].late = events'[e].late
    BY <1>2, <2>3 DEF CutAt
  <2>7. Separation(e) /\ events[e].start <= at
    BY <1>2, <2>6, Numbers, Lengths DEF Separation
  <2>8. events'[g].kind = "taking_space" /\ events'[g].start = at
    BY <1>2, <2>5, <2>6, <2>7, CutBySeparation, BroughtEvent
  <2> QED
    BY <2>5, <2>6, <2>8
<1>3. CASE e \notin DOMAIN events
  <2>1. ASSUME NEW d \in DOMAIN choices, NEW at \in Times, NEW status \in Settlements,
               NEW lasts \in Nat \ {0}, BroughtBy(e, d, at, status, lasts)
        PROVE  FALSE
    <3>1. /\ events'[e].start = at /\ events'[e].end = at + lasts /\ events'[e].lasts = lasts
          /\ at \in Nat
      BY <2>1, BroughtEvent, BroughtFrom
    <3> QED
      BY <3>1
  <2>2. ASSUME NEW d \in Draws, NEW kind \in DrawnKinds, NEW start \in Times,
               NEW lasts \in Nat \ {0}, DrawnBy(e, d, kind, start, lasts)
        PROVE  FALSE
    BY <2>2 DEF DrawnBy, NewDrawn, DrawnKinds
  <2> QED
    BY <1>3, <2>1, <2>2, NewEvent
<1> QED
  BY <1>1, <1>2, <1>3

\* A separation she agreed to lasts its hours or until the next one: a message
\* sent within it sees it and turns no ask into a falling-out that would end it.
THEOREM SeparationsHold == Spec => []SeparationHeld
<1> DEFINE Inv == GapInv /\ SeparationInv /\ ConvertInv /\ SeparationHeld
<1>1. Init => Inv
  BY DEF Init, GapInv, SeparationInv, ConvertInv, SeparationHeld, Idle
<1>2. LifeInv /\ OrderInv /\ Inv /\ [Next]_vars => Inv'
  BY GapStep, SeparationStep, ConvertStep, HeldStep
<1>3. Inv => SeparationHeld
  OBVIOUS
<1> HIDE DEF Inv
<1> QED
  BY <1>1, <1>2, <1>3, Ordered, PTL DEF Spec

=============================================================================
