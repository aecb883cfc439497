--------------------------- MODULE ReplyBurstProofs ---------------------------
(***************************************************************************)
(* What holds of a turn's bursts for chains of any length and any number   *)
(* of drives and failed inserts: types, one answer, one voice to a bubble, *)
(* what is learned, reported and retold is what the client was shown.      *)
(***************************************************************************)
EXTENDS ReplyBurst, SequenceTheorems, FiniteSetTheorems, WellFoundedInduction,
        TLAPS

(***************************************************************************)
(* Sequences that grow, change their last element, are thinned out         *)
(***************************************************************************)

\* t is s with e behind it; s with e for its last element.
Longer(t, s, e) ==
    /\ Len(t) = Len(s) + 1 /\ t[Len(t)] = e
    /\ \A i \in 1..Len(s) : t[i] = s[i]
Changed(t, s, e) ==
    /\ Len(t) = Len(s) /\ t[Len(s)] = e
    /\ \A i \in 1..Len(s) : i # Len(s) => t[i] = s[i]

LEMMA Appended ==
    ASSUME NEW S, NEW s \in Seq(S), NEW e \in S
    PROVE  Append(s, e) \in Seq(S) /\ Longer(Append(s, e), s, e)
<1>1. /\ Append(s, e) \in Seq(S) /\ Len(Append(s, e)) = Len(s) + 1 /\ Len(s) \in Nat
      /\ Append(s, e)[Len(s) + 1] = e
      /\ \A i \in 1..Len(s) : Append(s, e)[i] = s[i]
  BY LenProperties, AppendProperties
<1> QED
  BY <1>1 DEF Longer

LEMMA LastChanged ==
    ASSUME NEW S, NEW s \in Seq(S), s # <<>>, NEW e \in S
    PROVE  [s EXCEPT ![Len(s)] = e] \in Seq(S) /\ Changed([s EXCEPT ![Len(s)] = e], s, e)
<1>1. Len(s) \in 1..Len(s)
  BY EmptySeq
<1> QED
  BY <1>1, ExceptSeq DEF Changed

LEMMA NotEmpty ==
    ASSUME NEW S, NEW s \in Seq(S)
    PROVE  /\ Len(s) \in Nat /\ DOMAIN s = 1..Len(s)
           /\ s = <<>> <=> Len(s) = 0
           /\ s # <<>> => Len(s) \in 1..Len(s) /\ s[Len(s)] \in S
           /\ \A i \in 1..Len(s) : s[i] \in S
<1>1. Len(s) \in Nat /\ DOMAIN s = 1..Len(s) /\ (s = <<>> <=> Len(s) = 0)
  BY LenProperties, EmptySeq
<1>2. \A i \in 1..Len(s) : s[i] \in S
  BY ElementOfSeq
<1> QED
  BY <1>1, <1>2

LEMMA Single ==
    ASSUME NEW S, NEW e \in S
    PROVE  <<e>> \in Seq(S) /\ Len(<<e>>) = 1 /\ <<e>>[1] = e
  OBVIOUS

\* A set of numbers has a least one.
LEMMA LeastExists ==
    ASSUME NEW S \in SUBSET Nat, S # {}
    PROVE  \E x \in S : \A y \in S : x <= y
<1> DEFINE less == OpToRel(<, Nat)
<1>1. PICK x \in S : \A y \in S : <<y, x>> \notin less
  <2>1. IsWellFoundedOn(less, Nat)
    BY NatLessThanWellFounded
  <2> HIDE DEF less
  <2> QED
    BY <2>1, WFMin
<1>2. \A y \in S : ~(y < x)
  BY <1>1 DEF OpToRel
<1> QED
  BY <1>2

\* What At makes of a sequence up to one place less.
Thinned(s, S, f) ==
    [n \in 0..Len(s) |->
        IF n = 0 THEN <<>> ELSE IF n \in S THEN Append(f[n - 1], s[n]) ELSE f[n - 1]]

\* A sequence thinned out is known from what its places leave, place by place.
LEMMA AtIsFixed ==
    ASSUME NEW X, NEW s \in Seq(X), NEW S, NEW f, f = Thinned(s, S, f)
    PROVE  At(s, S) = f[Len(s)]
<1> DEFINE F == CHOOSE g : g = Thinned(s, S, g)
<1>0. Len(s) \in Nat
  BY LenProperties
<1>1. F = Thinned(s, S, F)
  OBVIOUS
<1>2. At(s, S) = F[Len(s)]
  BY DEF At, Thinned
<1> HIDE DEF F
<1> DEFINE Apart == {n \in 0..Len(s) : F[n] # f[n]}
<1>3. Apart = {}
  <2> SUFFICES ASSUME Apart # {} PROVE FALSE
    OBVIOUS
  <2>1. PICK n \in Apart : \A m \in Apart : n <= m
    <3>1. Apart \in SUBSET Nat
      BY <1>0
    <3> HIDE DEF Apart
    <3> QED
      BY <3>1, LeastExists
  <2>2. n \in 0..Len(s) /\ F[n] # f[n]
    BY <2>1
  <2>3. /\ F[n] = IF n = 0 THEN <<>> ELSE IF n \in S THEN Append(F[n - 1], s[n]) ELSE F[n - 1]
        /\ f[n] = IF n = 0 THEN <<>> ELSE IF n \in S THEN Append(f[n - 1], s[n]) ELSE f[n - 1]
    BY <1>1, <2>2 DEF Thinned
  <2>4. ASSUME n # 0 PROVE F[n - 1] = f[n - 1]
    <3>1. n - 1 \in 0..Len(s) /\ ~ (n <= n - 1)
      BY <1>0, <2>2, <2>4
    <3> QED
      BY <2>1, <3>1
  <2> QED
    BY <2>2, <2>3, <2>4
<1> QED
  BY <1>0, <1>2, <1>3

\* Nothing is left of places that are not there, one element of one place.
LEMMA AtNone ==
    ASSUME NEW X, NEW s \in Seq(X), NEW S, \A i \in 1..Len(s) : i \notin S
    PROVE  At(s, S) = <<>>
<1> DEFINE f == [n \in 0..Len(s) |-> <<>>]
<1>0. Len(s) \in Nat
  BY LenProperties
<1>1. ASSUME NEW n \in 0..Len(s) PROVE f[n] = Thinned(s, S, f)[n]
  <2>1. CASE n = 0
    BY <1>0, <2>1 DEF Thinned
  <2>2. CASE n # 0
    BY <1>0, <2>2 DEF Thinned
  <2> QED
    BY <2>1, <2>2
<1>2. f = Thinned(s, S, f)
  BY <1>1 DEF Thinned
<1>3. f[Len(s)] = <<>>
  BY <1>0
<1> HIDE DEF f
<1> QED
  BY <1>2, <1>3, AtIsFixed

LEMMA AtOne ==
    ASSUME NEW X, NEW s \in Seq(X), NEW S, NEW k \in 1..Len(s),
           \A i \in 1..Len(s) : i \in S <=> i = k
    PROVE  At(s, S) = <<s[k]>>
<1> DEFINE f == [n \in 0..Len(s) |-> IF n < k THEN <<>> ELSE <<s[k]>>]
<1>0. Len(s) \in Nat /\ k \in Nat
  BY LenProperties
<1>1. ASSUME NEW n \in 0..Len(s) PROVE f[n] = Thinned(s, S, f)[n]
  <2>1. CASE n = 0
    BY <1>0, <2>1 DEF Thinned
  <2>2. CASE n = k
    <3>1. f[n - 1] = <<>> /\ f[n] = <<s[k]>> /\ Append(<<>>, s[k]) = <<s[k]>>
      BY <1>0, <2>2
    <3>2. n \in S /\ n # 0
      BY <1>0, <2>2
    <3> HIDE DEF f
    <3>3. Thinned(s, S, f)[n] = Append(f[n - 1], s[n])
      BY <3>2 DEF Thinned
    <3> QED
      BY <2>2, <3>1, <3>3
  <2>3. CASE n # 0 /\ n # k
    <3>1. n - 1 \in 0..Len(s) /\ (n < k <=> n - 1 < k) /\ n \notin S
      BY <1>0, <2>3
    <3> QED
      BY <1>0, <2>3, <3>1 DEF Thinned
  <2> QED
    BY <2>1, <2>2, <2>3
<1>2. f = Thinned(s, S, f)
  BY <1>1 DEF Thinned
<1>3. f[Len(s)] = <<s[k]>>
  BY <1>0
<1> HIDE DEF f
<1> QED
  BY <1>2, <1>3, AtIsFixed

-----------------------------------------------------------------------------
(***************************************************************************)
(* Plans, frames and rows                                                  *)
(***************************************************************************)

LEMMA PlanFacts ==
    ASSUME TypeOK
    PROVE  /\ turn.action \in Actions /\ turn.filtered \in BOOLEAN
           /\ turn.filtered => Replying
           /\ Live <=> Replying /\ ~turn.filtered
           /\ Replying <=> turn.action \in {"reply", "reply_with_image"}
           /\ Asking <=> turn.action = "product_qa"
           /\ PromisesImage <=> turn.action \in {"reply_with_image", "image"}
<1>1. turn \in Plans
  BY DEF TypeOK
<1> QED
  BY <1>1 DEF Plans, Replying, Asking, Live, PromisesImage

LEMMA TurnKept ==
    ASSUME [Next]_vars
    PROVE  turn' = turn
  BY DEF Next, vars, stored, wire, attempt, outcome, chain, Start, AlreadyServed, Open, Chunk,
         FinishCut, AttemptFails, EndOfStream, Persist, Done, EmptyBuffered, CutBuffered,
         ServeBuffered, FilterPassesHead, FilterServes, Conclude, FilterAborts, Ghost, ImageOnly,
         AnswerGoesOn, AnswerEnds, AnswerByPhrase, Salvage, PseudoGhost, StandIn, Exhausted,
         Replace, Final, HandOver, Settle, Timeout

LEMMA PlanKept ==
    ASSUME [Next]_vars
    PROVE  /\ turn' = turn
           /\ Live' <=> Live
           /\ Replying' <=> Replying
           /\ Asking' <=> Asking
           /\ PromisesImage' <=> PromisesImage
  BY TurnKept DEF Live, Replying, Asking, PromisesImage

LEMMA AuthorTypes ==
    /\ Nobody \in Authors /\ Phrase \in Authors
    /\ \A h \in Hops : By(h) \in Authors /\ By(h) \in Failures /\ By(h) # Nobody
                       /\ By(h) # ChainExhausted
    /\ \A k \in FilterHops : Rewrite(k) \in Authors /\ Rewrite(k) \in Failures
                             /\ Rewrite(k) # Nobody /\ Rewrite(k) # ChainExhausted
    /\ Phrase # Nobody
    /\ ChainExhausted \in Failures
  BY DEF Authors, Failures, By, Rewrite, Phrase, Nobody, ChainExhausted

LEMMA ChainFacts ==
    /\ ChainLength \in Nat /\ FilterLength \in Nat /\ MaxDrives \in Nat /\ MaxFaults \in Nat
    /\ 1 \in Hops /\ 1 \in FilterHops
  BY ChainAssumption, BoundAssumption DEF Hops, FilterHops

\* A bubble after its Meta, with a text, closed.
LEMMA OpenedIs ==
    ASSUME NEW id \in Ids, NEW from \in Ids \cup {NoId}
    PROVE  LET b == Opened(id, from) IN
           /\ b \in Bubbles
           /\ b.id = id /\ b.by = {} /\ b.state = "open" /\ b.ghost = FALSE /\ b.from = from
  BY DEF Opened, Bubbles

LEMMA SaidIs ==
    ASSUME NEW b \in Bubbles, NEW a \in Authors
    PROVE  LET c == Said(b, a) IN
           /\ c \in Bubbles
           /\ c.id = b.id /\ c.by = b.by \cup ({a} \ {Nobody}) /\ c.state = b.state
           /\ c.ghost = b.ghost /\ c.from = b.from
<1>1. b.by \cup ({a} \ {Nobody}) \in SUBSET Authors
  BY DEF Bubbles
<1> QED
  BY <1>1 DEF Said, Bubbles

LEMMA ClosedIs ==
    ASSUME NEW b \in Bubbles, NEW isCut \in BOOLEAN, NEW isGhost \in BOOLEAN
    PROVE  LET c == Closed(b, isCut, isGhost) IN
           /\ c \in Bubbles
           /\ c.id = b.id /\ c.by = b.by /\ c.state = (IF isCut THEN "cut" ELSE "served")
           /\ c.ghost = isGhost /\ c.from = b.from
  BY DEF Closed, Bubbles

LEMMA RowIs ==
    ASSUME NEW id \in Ids, NEW text \in Authors, NEW isCut \in BOOLEAN, NEW isGhost \in BOOLEAN,
           NEW from \in Ids \cup {NoId}, NEW fs \in SUBSET Failures
    PROVE  LET r == Row(id, text, isCut, isGhost, from, fs) IN
           /\ r \in AssistantRows
           /\ r.id = id /\ r.text = text /\ r.cut = isCut /\ r.ghost = isGhost
           /\ r.from = from /\ r.failures = fs
  BY DEF Row, AssistantRows

-----------------------------------------------------------------------------
(***************************************************************************)
(* What a step may do to the frames and the rows                           *)
(***************************************************************************)

Frames == Len(bubbles)

LEMMA FrameFacts ==
    ASSUME TypeOK
    PROVE  /\ Frames \in Nat /\ DOMAIN bubbles = 1..Frames
           /\ bubbles = <<>> <=> Frames = 0
           /\ \A i \in 1..Frames : bubbles[i] \in Bubbles
           /\ Frames # 0 => Frames \in 1..Frames /\ Current \in Bubbles
           /\ Current = bubbles[Frames]
<1>1. bubbles \in Seq(Bubbles)
  BY DEF TypeOK
<1> QED
  BY <1>1, NotEmpty DEF Frames, Current

LEMMA IdTypes ==
    ASSUME TypeOK, drive # 0
    PROVE  FreshId \in Ids /\ LastId \in Ids \cup {NoId}
<1>1. drive \in 1..MaxDrives /\ Len(bubbles) + 1 \in Nat \ {0}
  BY FrameFacts, ChainFacts DEF TypeOK, Frames
<1>2. bubbles # <<>> => Current.id \in Ids
  BY FrameFacts DEF Bubbles
<1> QED
  BY <1>1, <1>2 DEF FreshId, LastId, Ids

\* A new bubble.
LEMMA Opening ==
    ASSUME TypeOK, drive # 0, NEW from \in Ids \cup {NoId},
           bubbles' = Append(bubbles, Opened(FreshId, from))
    PROVE  /\ bubbles' \in Seq(Bubbles)
           /\ Longer(bubbles', bubbles, Opened(FreshId, from))
<1>1. bubbles \in Seq(Bubbles) /\ Opened(FreshId, from) \in Bubbles
  BY IdTypes, OpenedIs DEF TypeOK
<1> QED
  BY <1>1, Appended

\* A text in the last one.
LEMMA Speaking ==
    ASSUME TypeOK, Frames # 0, NEW a \in Authors, bubbles' = OnLast(Said(Current, a))
    PROVE  /\ bubbles' \in Seq(Bubbles)
           /\ Changed(bubbles', bubbles, Said(Current, a))
<1>1. bubbles \in Seq(Bubbles) /\ Said(Current, a) \in Bubbles /\ bubbles # <<>>
  BY FrameFacts, SaidIs DEF TypeOK
<1> QED
  BY <1>1, LastChanged DEF OnLast

\* Its end.
LEMMA Closing ==
    ASSUME TypeOK, Frames # 0, NEW isCut \in BOOLEAN, NEW isGhost \in BOOLEAN,
           bubbles' = OnLast(Closed(Current, isCut, isGhost))
    PROVE  /\ bubbles' \in Seq(Bubbles)
           /\ Changed(bubbles', bubbles, Closed(Current, isCut, isGhost))
<1>1. bubbles \in Seq(Bubbles) /\ Closed(Current, isCut, isGhost) \in Bubbles /\ bubbles # <<>>
  BY FrameFacts, ClosedIs DEF TypeOK
<1> QED
  BY <1>1, LastChanged DEF OnLast

\* Its withdrawal in favour of a fresh one.
LEMMA Superseding ==
    ASSUME TypeOK, Frames # 0, drive # 0, bubbles' = Supersede
    PROVE  /\ bubbles' \in Seq(Bubbles)
           /\ Len(bubbles') = Frames + 1
           /\ bubbles'[Frames + 1] = Opened(FreshId, NoId)
           /\ bubbles'[Frames] = Closed(Current, TRUE, FALSE)
           /\ \A i \in 1..Frames : i # Frames => bubbles'[i] = bubbles[i]
<1> DEFINE closed == OnLast(Closed(Current, TRUE, FALSE))
<1>1. /\ bubbles \in Seq(Bubbles) /\ Closed(Current, TRUE, FALSE) \in Bubbles /\ bubbles # <<>>
      /\ Opened(FreshId, NoId) \in Bubbles /\ Frames \in 1..Frames
  BY FrameFacts, ClosedIs, IdTypes, OpenedIs DEF TypeOK
<1>2. closed \in Seq(Bubbles) /\ Changed(closed, bubbles, Closed(Current, TRUE, FALSE))
  BY <1>1, LastChanged DEF OnLast
<1>3. bubbles' = Append(closed, Opened(FreshId, NoId))
  BY DEF Supersede
<1> HIDE DEF closed
<1>4. bubbles' \in Seq(Bubbles) /\ Longer(bubbles', closed, Opened(FreshId, NoId))
  BY <1>1, <1>2, <1>3, Appended
<1> QED
  BY <1>1, <1>2, <1>4 DEF Longer, Changed, Frames

\* A bubble shown at once: a stand-in, a ghost, a picture.
LEMMA Showing ==
    ASSUME TypeOK, drive # 0, NEW a \in Authors, NEW from \in Ids \cup {NoId},
           bubbles' = Append(bubbles, Closed(Said(Opened(FreshId, from), a), FALSE, FALSE))
    PROVE  LET b == bubbles'[Frames + 1] IN
           /\ bubbles' \in Seq(Bubbles) /\ Len(bubbles') = Frames + 1
           /\ \A i \in 1..Frames : bubbles'[i] = bubbles[i]
           /\ b.id = FreshId /\ b.by = {a} \ {Nobody} /\ b.state = "served"
           /\ b.ghost = FALSE /\ b.from = from
<1> DEFINE opened == Opened(FreshId, from)
           said == Said(opened, a)
           shown == Closed(said, FALSE, FALSE)
<1>0. FreshId \in Ids
  BY IdTypes
<1>1. /\ opened \in Bubbles /\ opened.id = FreshId /\ opened.by = {} /\ opened.from = from
  BY <1>0 DEF Opened, Bubbles
<1> HIDE DEF opened
<1>2. said \in Bubbles /\ said.id = FreshId /\ said.by = {a} \ {Nobody} /\ said.from = from
  BY <1>1, SaidIs
<1> HIDE DEF said
<1>3. /\ shown \in Bubbles /\ shown.id = FreshId /\ shown.by = {a} \ {Nobody}
      /\ shown.state = "served" /\ shown.ghost = FALSE /\ shown.from = from
  BY <1>2, ClosedIs
<1>4. bubbles' = Append(bubbles, shown) /\ bubbles \in Seq(Bubbles)
  BY DEF TypeOK, shown, said, opened
<1> HIDE DEF shown
<1>5. Append(bubbles, shown) \in Seq(Bubbles) /\ Longer(Append(bubbles, shown), bubbles, shown)
  <2>1. shown \in Bubbles /\ bubbles \in Seq(Bubbles)
    BY <1>3, <1>4
  <2> QED
    BY <2>1, Appended
<1> QED
  BY <1>3, <1>4, <1>5 DEF Longer, Frames

LEMMA ShowingAlone ==
    ASSUME TypeOK, drive # 0, bubbles' = <<Closed(Opened(FreshId, NoId), FALSE, FALSE)>>
    PROVE  LET b == bubbles'[1] IN
           /\ bubbles' \in Seq(Bubbles) /\ Len(bubbles') = 1
           /\ b.id = FreshId /\ b.by = {} /\ b.state = "served"
           /\ b.ghost = FALSE /\ b.from = NoId
<1> DEFINE opened == Opened(FreshId, NoId)
           shown == Closed(opened, FALSE, FALSE)
<1>0. FreshId \in Ids /\ NoId \in Ids \cup {NoId}
  BY IdTypes
<1>1. /\ opened \in Bubbles /\ opened.id = FreshId /\ opened.by = {} /\ opened.from = NoId
  BY <1>0, OpenedIs
<1> HIDE DEF opened
<1>3. /\ shown \in Bubbles /\ shown.id = FreshId /\ shown.by = {}
      /\ shown.state = "served" /\ shown.ghost = FALSE /\ shown.from = NoId
  BY <1>1, ClosedIs
<1>4. bubbles' = <<shown>>
  BY DEF shown, opened
<1> HIDE DEF shown
<1> QED
  BY <1>3, <1>4, Single

\* An insert that may fail.
LEMMA Inserting ==
    ASSUME TypeOK, NEW r \in AssistantRows, Insert(r)
    PROVE  /\ rows' \in Seq(AssistantRows) /\ ghosted' = ghosted /\ faults' \in 0..MaxFaults
           /\ rows' = rows \/ Longer(rows', rows, r)
           /\ faults' = 0 =>
                /\ faults = 0
                /\ \/ r.from = NoId
                   \/ \E i \in 1..Len(rows) : rows[i].id = r.from
                   => Longer(rows', rows, r)
<1>1. /\ rows \in Seq(AssistantRows) /\ faults \in 0..MaxFaults /\ MaxFaults \in Nat
      /\ DOMAIN rows = 1..Len(rows)
  BY ChainFacts, NotEmpty DEF TypeOK
<1>2. Append(rows, r) \in Seq(AssistantRows) /\ Longer(Append(rows, r), rows, r)
  BY <1>1, Appended
<1>0. ghosted' = ghosted
  BY DEF Insert
<1>3. CASE rows' = Append(rows, r) /\ faults' = faults
  BY <1>0, <1>1, <1>2, <1>3
<1>4. CASE /\ r.from \notin {NoId} \cup {rows[i].id : i \in DOMAIN rows}
           /\ rows' = rows /\ faults' = faults
  <2>1. r.from # NoId /\ ~ \E i \in 1..Len(rows) : rows[i].id = r.from
    BY <1>1, <1>4
  <2> QED
    BY <1>0, <1>1, <1>4, <2>1
<1>5. CASE faults < MaxFaults /\ faults' = faults + 1 /\ rows' = rows
  BY <1>0, <1>1, <1>5
<1> QED
  BY <1>3, <1>4, <1>5 DEF Insert

-----------------------------------------------------------------------------
(***************************************************************************)
(* The invariants                                                          *)
(***************************************************************************)

\* The turn's reply is still to be decided.
Undecided == {"open", "reading", "read", "filtering", "concluding", "exhausted"}
Concluded == pc = "over" \/ told = "final"

\* What a plan's drive goes through, and what it has done by then.
StageInv ==
    /\ pc \in {"reading", "read", "closing", "exhausted"} => Replying \/ Asking
    /\ pc = "replacing" => Replying
    /\ pc \in {"filtering", "concluding"} => turn.filtered
    /\ pc \in {"filtering", "concluding", "closing"} /\ turn.filtered => ~cut
    /\ pc \in Working => told = "none"
    /\ pc = "responding" => told = "final" /\ turn.responds
    /\ told = "error" => Replying \/ Asking
    /\ pc # "idle" => drive # 0
    /\ pc = "open" => acc = {}
    /\ Asking => acc \subseteq {"words"}
    /\ ghost => /\ Replying /\ pc \notin Undecided \cup {"replacing"}
                /\ pc = "closing" => ~cut

\* The bubbles are in order and all but the last withdrawn.
Chained ==
    \A i \in 1..Frames :
      /\ bubbles[i].id = <<drive, i>>
      /\ bubbles[i].from = IF Live /\ i > 1 THEN <<drive, i - 1>> ELSE NoId
      /\ i # Frames => bubbles[i].state = "cut"

\* The last is open while an attempt is at work on it.
Standing ==
    /\ \/ pc \in {"reading", "read"} /\ ~turn.filtered
       \/ pc \in {"closing", "filtering", "concluding"}
       => Frames # 0 /\ Current.state = "open"
    /\ Live /\ pc \in {"open", "exhausted", "replacing"} /\ Frames # 0 => Current.state = "cut"
    /\ turn.filtered /\ pc \in {"open", "reading", "read", "exhausted", "replacing"} => Frames = 0
    /\ Asking => Frames <= 1
    /\ Asking /\ pc = "exhausted" => Frames = 1
    /\ Asking /\ pc \in {"open", "exhausted"} /\ Frames # 0 => Current.state = "open"
    /\ ~Replying /\ ~Asking /\ pc = "open" => Frames = 0
    /\ Concluded => Frames # 0 /\ (Asking \/ Current.state = "served")
    /\ told = "error" /\ Frames # 0 =>
         /\ Current.state # "served"
         /\ Live => Current.state = "cut"

FrameInv == Chained /\ Standing

\* Whose text the last bubble holds.
Voiced(b) ==
    /\ \E a \in Authors : b.by \subseteq {a}
    /\ b.ghost => b.by = {} /\ b.state # "open"
Voices == \A i \in 1..Frames : Voiced(bubbles[i])
Speaker ==
    /\ pc \in {"reading", "read"} /\ ~turn.filtered =>
         Current.by = IF acc \subseteq {"artifact"} THEN {} ELSE {By(hop)}
    /\ pc \in {"open", "exhausted"} /\ Asking /\ Frames # 0 => Current.by = {}
    /\ pc = "filtering" => Current.by = IF go THEN {Rewrite(filterHop)} ELSE {}
    /\ pc = "concluding" => Current.by \subseteq {visible} \ {Nobody}
    /\ pc = "closing" /\ ghost => Current.by = {}

VoiceInv == Voices /\ Speaker

\* What is produced is the attempts so far, then the reply alone.
Silent == turn.action \in {"ghost", "product_qa"}
Attempts ==
    Live /\ pc \in Undecided \cup {"closing"} =>
      /\ \A i \in 1..Len(produced) : produced[i] = <<drive, i>>
      /\ pc \in {"open", "exhausted", "closing"} => Len(produced) = Frames
      /\ pc \in {"reading", "read"} => Len(produced) = Frames - 1
Offered ==
    /\ ~Live /\ pc \in Undecided => produced = <<>>
    /\ turn.filtered /\ pc = "closing" => produced = <<Current.id>>
    /\ Asking => produced = <<>>
    /\ pc = "replacing" => produced = <<FreshId>>
    /\ pc \in {"over", "responding"} => produced = IF Silent THEN <<>> ELSE <<Current.id>>
Taught ==
    /\ told = "final" =>
         /\ learned = (IF Silent THEN {} ELSE {Current.id})
              \/ (turn.responds /\ learned = {} /\ ~Ended)
         /\ pictured = IF PromisesImage THEN Current.id ELSE NoId
    /\ told # "final" \/ pc # "settling" => learned = {}

ProducedInv == Attempts /\ Offered /\ Taught

\* One row answers, and carries the failures.
RowsAgree ==
    /\ \A i, j \in Answers : i = j
    /\ \A i \in DOMAIN rows \ Answers : rows[i].failures = {}
Accounted ==
    /\ pc \in Undecided => Answers = {}
    /\ pc = "closing" /\ cut /\ ~Asking => Answers = {}
    /\ pc \in {"closing", "replacing"} \/ Concluded =>
         \A i \in Answers : rows[i].failures = failures
    /\ told = "final" => reported = failures
    /\ ~Replying /\ ~Asking => failures = {}
    /\ failures \ {ChainExhausted} = failed

RowInv == RowsAgree /\ Accounted

\* A row retells a bubble, and the text it was left with.
Mirrors(r, b) ==
    /\ r.id = b.id /\ r.from = b.from /\ r.ghost = b.ghost
    /\ b.state = (IF r.cut THEN "cut" ELSE "served")
Speaks(r, b) == b.by = {r.text} \ {Nobody}
Tells(r, b) == Mirrors(r, b) /\ (~r.cut => Speaks(r, b))

Stored == Len(rows)
Newest == rows[Stored]

\* While no insert has failed, the rows are the bubbles: a live burst's one by
\* one, any other turn's one, a silence's none.
Counted ==
    /\ Live => /\ pc \in {"reading", "read"} => Stored = Frames - 1
               /\ pc \in {"open", "exhausted", "closing", "over"} \/ told # "none" =>
                    Stored = Frames
               /\ pc = "replacing" => Stored = Frames + 1
    /\ ~Live => /\ pc \in Undecided \/ told = "error" => Stored = 0
                /\ pc \in {"closing", "replacing"} \/ Concluded =>
                     Stored = IF turn.action = "ghost" THEN 0 ELSE 1
LivePairs ==
    \A i \in 1..Frames : i <= Stored /\ bubbles[i].state # "open" => Tells(rows[i], bubbles[i])
Paired ==
    /\ Live => LivePairs
    /\ ~Live /\ Concluded /\ turn.action # "ghost" =>
         Mirrors(Newest, Current) /\ Speaks(Newest, Current)
Pending ==
    /\ pc = "closing" =>
         /\ Newest.id = Current.id /\ Newest.from = Current.from
         /\ Newest.cut = cut /\ Newest.ghost = ghost
         /\ ~cut \/ Asking => Speaks(Newest, Current)
    /\ pc = "replacing" =>
         /\ Newest.id = FreshId /\ Newest.from = LastId /\ Newest.text = visible
         /\ Newest.cut = FALSE /\ Newest.ghost = FALSE
Silenced ==
    /\ ghosted => turn.action = "ghost"
    /\ turn.action = "ghost" => Stored = 0 /\ (Concluded => ghosted)

Mirrored == Counted /\ Paired /\ Pending /\ Silenced
MirrorInv == faults = 0 => Mirrored

BurstInv == TypeOK /\ StageInv /\ FrameInv /\ VoiceInv /\ ProducedInv /\ RowInv /\ MirrorInv

LEMMA StageStep ==
    ASSUME TypeOK, StageInv, [Next]_vars PROVE StageInv'
<1>0. /\ turn' = turn /\ (Live' <=> Live) /\ (Replying' <=> Replying) /\ (Asking' <=> Asking)
      /\ turn.filtered => Replying
      /\ Replying => ~Asking
      /\ Live <=> Replying /\ ~turn.filtered
      /\ drive \in Nat
  BY PlanFacts, PlanKept, ChainFacts DEF TypeOK
<1>1. CASE Start
  BY <1>0, <1>1 DEF Start, StageInv, Undecided, Working
<1>2. CASE AlreadyServed
  BY <1>0, <1>2 DEF AlreadyServed, StageInv, Undecided, Working, wire, attempt, outcome
<1>3. CASE Open
  BY <1>0, <1>3 DEF Open, StageInv, Undecided, Working, attempt, outcome
<1>4. ASSUME NEW p \in Pieces, Chunk(p) PROVE StageInv'
  BY <1>0, <1>4 DEF Chunk, StageInv, Undecided, Working, outcome
<1>5. CASE FinishCut
  BY <1>0, <1>5 DEF FinishCut, StageInv, Undecided, Working, wire, outcome
<1>6. CASE AttemptFails
  BY <1>0, <1>6 DEF AttemptFails, StageInv, Undecided, Working, wire, outcome
<1>7. CASE EndOfStream
  BY <1>0, <1>7 DEF EndOfStream, StageInv, Undecided, Working, wire, attempt, outcome
<1>8. CASE Persist
  BY <1>0, <1>8 DEF Persist, StageInv, Undecided, Working, wire, LiveGhost
<1>9. CASE Done
  BY <1>0, <1>9 DEF Done, StageInv, Undecided, Working, attempt, NextHop
<1>10. CASE EmptyBuffered
  <2>1. CASE ~AtLastHop /\ NextHop /\ pc' = "open" /\ UNCHANGED <<stored, bubbles, outcome, faults>>
    BY <1>0, <1>10, <2>1 DEF EmptyBuffered, StageInv, Undecided, Working, outcome, NextHop, Empty
  <2>2. CASE pc' = "closing" /\ ghost' = ~PromisesImage /\ UNCHANGED attempt
    BY <1>0, <1>10, <2>2 DEF EmptyBuffered, StageInv, Undecided, Working, attempt, Empty
  <2> QED
    BY <1>10, <2>1, <2>2 DEF EmptyBuffered
<1>11. CASE CutBuffered
  BY <1>0, <1>11 DEF CutBuffered, StageInv, Undecided, Working, wire, attempt, outcome, NextHop
<1>12. CASE ServeBuffered
  BY <1>0, <1>12 DEF ServeBuffered, StageInv, Undecided, Working, outcome
<1>13. CASE FilterPassesHead
  BY <1>0, <1>13 DEF FilterPassesHead, StageInv, Undecided, Working, outcome
<1>14. CASE FilterServes
  BY <1>0, <1>14 DEF FilterServes, StageInv, Undecided, Working, outcome
<1>15. CASE Conclude
  BY <1>0, <1>15 DEF Conclude, StageInv, Undecided, Working, attempt
<1>16. ASSUME NEW isFailure \in BOOLEAN, FilterAborts(isFailure) PROVE StageInv'
  BY <1>0, <1>16 DEF FilterAborts, StageInv, Undecided, Working, outcome
<1>17. CASE Ghost
  BY <1>0, <1>17 DEF Ghost, StageInv, Undecided, Working, attempt, outcome
<1>18. CASE ImageOnly
  BY <1>0, <1>18 DEF ImageOnly, StageInv, Undecided, Working, attempt
<1>19. CASE AnswerGoesOn
  BY <1>0, <1>19 DEF AnswerGoesOn, StageInv, Undecided, Working, wire, attempt, outcome, NextHop
<1>20. CASE AnswerEnds
  BY <1>0, <1>20 DEF AnswerEnds, StageInv, Undecided, Working, wire, attempt, outcome
<1>21. CASE AnswerByPhrase
  BY <1>0, <1>21 DEF AnswerByPhrase, StageInv, Undecided, Working, outcome
<1>22. ASSUME NEW author \in Authors, Replying, pc = "exhausted", StandIn(author) PROVE StageInv'
  BY <1>0, <1>22 DEF StandIn, StageInv, Undecided, Working, wire
<1>23. CASE Exhausted
  BY <1>0, <1>23 DEF Exhausted, StageInv, Undecided, Working, attempt, outcome
<1>24. CASE Replace
  BY <1>0, <1>24 DEF Replace, StageInv, Undecided, Working, attempt, outcome
<1>25. CASE Final
  BY <1>0, <1>25 DEF Final, StageInv, Undecided, Working, attempt, outcome
<1>26. CASE Settle
  BY <1>0, <1>26 DEF Settle, Fails, StageInv, Undecided, Working, wire, attempt, outcome
<1>27. CASE Timeout
  BY <1>0, <1>27 DEF Timeout, Fails, StageInv, Undecided, Working, wire, attempt, outcome
<1>28. CASE UNCHANGED vars
  BY <1>0, <1>28 DEF vars, StageInv, Undecided, Working, wire, attempt, outcome
<1>30. CASE HandOver
  BY <1>0, <1>30 DEF HandOver, StageInv, Undecided, Working, wire, attempt, outcome
<1>29. CASE Salvage \/ PseudoGhost
  <2>1. garble # 0 => By(garble) \in Authors
    BY AuthorTypes DEF TypeOK
  <2> QED
    BY <1>22, <1>29, <2>1, AuthorTypes DEF Salvage, PseudoGhost
<1> QED
  BY <1>1, <1>2, <1>3, <1>4, <1>5, <1>6, <1>7, <1>8, <1>9, <1>10, <1>11, <1>12, <1>13, <1>14,
     <1>15, <1>16, <1>17, <1>18, <1>19, <1>20, <1>21, <1>23, <1>24, <1>25, <1>26, <1>27, <1>28,
     <1>29, <1>30 DEF Next

-----------------------------------------------------------------------------
(***************************************************************************)
(* Types                                                                   *)
(***************************************************************************)

\* The parts of a state that are no sequences.
ScalarsOK ==
    /\ turn \in Plans /\ ghosted \in BOOLEAN
    /\ told \in {"none", "final", "error"}
    /\ reported \subseteq Failures
    /\ pictured \in Ids \cup {NoId}
    /\ drive \in 0..MaxDrives
    /\ pc \in Working \cup {"responding", "idle", "settling"}
    /\ hop \in Hops /\ filterHop \in FilterHops /\ garble \in Hops \cup {0}
    /\ acc \subseteq Pieces
    /\ cut \in BOOLEAN /\ go \in BOOLEAN /\ ghost \in BOOLEAN
    /\ visible \in Authors
    /\ failures \subseteq Failures /\ failed \subseteq Failures
    /\ learned \subseteq Ids
    /\ verdict \in {"open", "done", "failed"}
    /\ faults \in 0..MaxFaults

LEMMA TypeParts ==
    /\ TypeOK <=> /\ ScalarsOK
                  /\ rows \in Seq(AssistantRows) /\ bubbles \in Seq(Bubbles)
                  /\ produced \in Seq(Ids)
    /\ TypeOK' <=> /\ ScalarsOK'
                   /\ rows' \in Seq(AssistantRows) /\ bubbles' \in Seq(Bubbles)
                   /\ produced' \in Seq(Ids)
  BY DEF TypeOK, ScalarsOK

LEMMA AttemptTypes ==
    ASSUME TypeOK
    PROVE  /\ LiveText \in Authors /\ Superseded \in BOOLEAN /\ LiveGhost \in BOOLEAN
           /\ Listed \in SUBSET Failures
<1>1. By(hop) \in Authors /\ Nobody \in Authors /\ cut \in BOOLEAN /\ failures \in SUBSET Failures
  BY AuthorTypes DEF TypeOK
<1> QED
  BY <1>1 DEF LiveText, Superseded, LiveGhost, Listed

\* The rows the drives store.
LEMMA RowTypes ==
    ASSUME TypeOK, drive # 0
    PROVE  /\ ~turn.filtered /\ Frames # 0 =>
                Row(Current.id, LiveText, Superseded, LiveGhost, Current.from, Listed)
                  \in AssistantRows
           /\ Row(FreshId, Nobody, FALSE, ~PromisesImage, NoId, failures) \in AssistantRows
           /\ Frames # 0 =>
                Row(Current.id, visible, FALSE, visible = Nobody /\ ~PromisesImage, NoId, failures)
                  \in AssistantRows
           /\ \A a \in Authors :
                Row(FreshId, a, FALSE, FALSE, LastId, failures \cup {ChainExhausted})
                  \in AssistantRows
           /\ Row(FreshId, Nobody, FALSE, FALSE, NoId, {}) \in AssistantRows
           /\ Frames # 0 =>
                /\ Row(Current.id, By(hop), cut, FALSE, NoId, failures) \in AssistantRows
                /\ Row(Current.id, Phrase, FALSE, FALSE, NoId, failures \cup {ChainExhausted})
                     \in AssistantRows
<1>1. /\ FreshId \in Ids /\ LastId \in Ids \cup {NoId} /\ NoId \in Ids \cup {NoId}
      /\ hop \in Hops /\ visible \in Authors /\ failures \in SUBSET Failures /\ cut \in BOOLEAN
      /\ By(hop) \in Authors /\ Nobody \in Authors /\ Phrase \in Authors
      /\ failures \cup {ChainExhausted} \in SUBSET Failures /\ {} \in SUBSET Failures
  BY IdTypes, AuthorTypes DEF TypeOK
<1>2. Frames # 0 => Current.id \in Ids /\ Current.from \in Ids \cup {NoId}
  BY FrameFacts DEF Bubbles
<1>3. /\ LiveText \in Authors /\ Superseded \in BOOLEAN /\ LiveGhost \in BOOLEAN
      /\ Listed \in SUBSET Failures
  BY AttemptTypes
<1>4. (~PromisesImage) \in BOOLEAN /\ (visible = Nobody /\ ~PromisesImage) \in BOOLEAN
  OBVIOUS
<1>5. ASSUME NEW id \in Ids, NEW text \in Authors, NEW isCut \in BOOLEAN, NEW isGhost \in BOOLEAN,
             NEW from \in Ids \cup {NoId}, NEW fs \in SUBSET Failures
      PROVE  Row(id, text, isCut, isGhost, from, fs) \in AssistantRows
  BY RowIs
<1>6. /\ TRUE \in BOOLEAN /\ FALSE \in BOOLEAN
  OBVIOUS
<1>7. Frames # 0 =>
        Row(Current.id, LiveText, Superseded, LiveGhost, Current.from, Listed) \in AssistantRows
  BY <1>2, <1>3, <1>5
<1>8. Row(FreshId, Nobody, FALSE, ~PromisesImage, NoId, failures) \in AssistantRows
  BY <1>1, <1>4, <1>5, <1>6
<1>9. Frames # 0 =>
        Row(Current.id, visible, FALSE, visible = Nobody /\ ~PromisesImage, NoId, failures)
          \in AssistantRows
  BY <1>1, <1>2, <1>4, <1>5, <1>6
<1>10. \A a \in Authors :
         Row(FreshId, a, FALSE, FALSE, LastId, failures \cup {ChainExhausted}) \in AssistantRows
  BY <1>1, <1>5, <1>6
<1>11. Row(FreshId, Nobody, FALSE, FALSE, NoId, {}) \in AssistantRows
  BY <1>1, <1>5, <1>6
<1>12. Frames # 0 => Row(Current.id, By(hop), cut, FALSE, NoId, failures) \in AssistantRows
  BY <1>1, <1>2, <1>5, <1>6
<1>13. Frames # 0 =>
         Row(Current.id, Phrase, FALSE, FALSE, NoId, failures \cup {ChainExhausted})
           \in AssistantRows
  BY <1>1, <1>2, <1>5, <1>6
<1> QED
  BY <1>7, <1>8, <1>9, <1>10, <1>11, <1>12, <1>13

LEMMA ScalarsStep ==
    ASSUME TypeOK, StageInv, FrameInv, ProducedInv, [Next]_vars PROVE ScalarsOK'
<1>0. /\ turn \in Plans /\ ghosted \in BOOLEAN
      /\ told \in {"none", "final", "error"} /\ reported \subseteq Failures
      /\ pictured \in Ids \cup {NoId} /\ drive \in 0..MaxDrives
      /\ pc \in Working \cup {"responding", "idle", "settling"}
      /\ hop \in Hops /\ filterHop \in FilterHops /\ garble \in Hops \cup {0}
      /\ acc \subseteq Pieces /\ cut \in BOOLEAN /\ go \in BOOLEAN /\ ghost \in BOOLEAN
      /\ visible \in Authors /\ failures \subseteq Failures /\ failed \subseteq Failures
      /\ learned \subseteq Ids /\ verdict \in {"open", "done", "failed"} /\ faults \in 0..MaxFaults
  BY DEF TypeOK
<1>a. /\ 1 \in Hops /\ 1 \in FilterHops /\ NoId \in Ids \cup {NoId}
      /\ Nobody \in Authors /\ By(hop) \in Authors /\ By(hop) \in Failures
      /\ Rewrite(filterHop) \in Authors /\ Rewrite(filterHop) \in Failures
      /\ Phrase \in Authors /\ ChainExhausted \in Failures
      /\ ~AtLastHop => hop + 1 \in Hops
      /\ filterHop < FilterLength => filterHop + 1 \in FilterHops
  BY <1>0, AuthorTypes, ChainFacts DEF AtLastHop, Hops, FilterHops
<1>b. /\ \A r : Insert(r) => ghosted' = ghosted /\ faults' \in 0..MaxFaults
      /\ faults < MaxFaults => faults + 1 \in 0..MaxFaults
      /\ drive < MaxDrives => drive + 1 \in 0..MaxDrives
  BY <1>0, ChainFacts DEF Insert
<1>1. CASE Start
  BY <1>0, <1>a, <1>b, <1>1 DEF Start, stored, ScalarsOK, Working
<1>2. CASE AlreadyServed
  BY <1>0, <1>a, <1>b, <1>2 DEF AlreadyServed, wire, attempt, outcome, chain, stored, ScalarsOK,
         Working
<1>3. CASE Open
  BY <1>0, <1>a, <1>b, <1>3 DEF Open, stored, attempt, outcome, chain, ScalarsOK, Working
<1>4. ASSUME NEW p \in Pieces, Chunk(p) PROVE ScalarsOK'
  BY <1>0, <1>a, <1>b, <1>4 DEF Chunk, stored, outcome, chain, ScalarsOK, Working
<1>5. CASE FinishCut
  BY <1>0, <1>a, <1>b, <1>5 DEF FinishCut, stored, wire, outcome, chain, ScalarsOK, Working
<1>6. CASE AttemptFails
  BY <1>0, <1>a, <1>b, <1>6 DEF AttemptFails, stored, wire, outcome, ScalarsOK, Working
<1>7. CASE EndOfStream
  BY <1>0, <1>a, <1>b, <1>7 DEF EndOfStream, stored, wire, attempt, outcome, chain, ScalarsOK,
         Working
<1>8. CASE Persist
  <2>1. /\ ghosted' = ghosted /\ faults' \in 0..MaxFaults
        /\ garble' = garble \/ garble' = hop
        /\ cut' = Superseded /\ visible' = LiveText /\ ghost' = LiveGhost /\ pc' = "closing"
    BY <1>b, <1>8 DEF Persist
  <2>2. /\ turn' = turn /\ told' = told /\ reported' = reported /\ pictured' = pictured
        /\ drive' = drive /\ hop' = hop /\ acc' = acc /\ filterHop' = filterHop /\ go' = go
        /\ failures' = failures /\ failed' = failed /\ learned' = learned /\ verdict' = verdict
    BY <1>8 DEF Persist, wire
  <2>3. /\ cut' \in BOOLEAN /\ visible' \in Authors /\ ghost' \in BOOLEAN
        /\ garble' \in Hops \cup {0} /\ pc' \in Working
    BY <1>0, <2>1, AttemptTypes DEF Working
  <2> QED
    BY <1>0, <2>1, <2>2, <2>3 DEF ScalarsOK
<1>9. CASE Done
  <2>1. /\ turn' = turn /\ ghosted' = ghosted /\ told' = told /\ reported' = reported
        /\ pictured' = pictured /\ drive' = drive /\ ghost' = ghost /\ garble' = garble
        /\ failures' = failures /\ failed' = failed /\ learned' = learned /\ verdict' = verdict
        /\ faults' = faults /\ pc' \in {"over", "exhausted", "open"}
    BY <1>9 DEF Done, stored, chain
  <2>2. \/ hop' = hop /\ acc' = acc /\ cut' = cut
        \/ ~AtLastHop /\ hop' = hop + 1 /\ acc' = {} /\ cut' = FALSE
    BY <1>9 DEF Done, NextHop, attempt
  <2>3. filterHop' = filterHop /\ go' = go /\ visible' = visible
    BY <1>9 DEF Done, NextHop, attempt
  <2>4. hop' \in Hops /\ acc' \subseteq Pieces /\ cut' \in BOOLEAN /\ pc' \in Working
    BY <1>0, <1>a, <2>1, <2>2 DEF Working
  <2> QED
    BY <1>0, <2>1, <2>3, <2>4 DEF ScalarsOK
<1>10. CASE EmptyBuffered
  BY <1>0, <1>a, <1>b, <1>10 DEF EmptyBuffered, NextHop, stored, attempt, outcome, chain,
         ScalarsOK, Working
<1>11. CASE CutBuffered
  BY <1>0, <1>a, <1>b, <1>11 DEF CutBuffered, NextHop, stored, wire, attempt, outcome, chain,
         ScalarsOK, Working
<1>12. CASE ServeBuffered
  BY <1>0, <1>a, <1>b, <1>12 DEF ServeBuffered, stored, outcome, chain, ScalarsOK, Working
<1>13. CASE FilterPassesHead
  BY <1>0, <1>a, <1>b, <1>13 DEF FilterPassesHead, stored, outcome, chain, ScalarsOK, Working
<1>14. CASE FilterServes
  BY <1>0, <1>a, <1>b, <1>14 DEF FilterServes, stored, outcome, chain, ScalarsOK, Working
<1>15. CASE Conclude
  BY <1>0, <1>a, <1>b, <1>15 DEF Conclude, attempt, chain, ScalarsOK, Working
<1>16. ASSUME NEW isFailure \in BOOLEAN, FilterAborts(isFailure) PROVE ScalarsOK'
  <2> DEFINE fs == IF isFailure THEN {Rewrite(filterHop)} ELSE {}
  <2>1. failures \cup fs \subseteq Failures /\ failed \cup fs \subseteq Failures
    BY <1>0, <1>a
  <2>2. failures' = failures \cup fs /\ failed' = failed \cup fs
    BY <1>16 DEF FilterAborts, Joined
  <2> HIDE DEF fs
  <2> QED
    BY <1>0, <1>a, <1>16, <2>1, <2>2 DEF FilterAborts, stored, outcome, ScalarsOK, Working
<1>17. CASE Ghost
  BY <1>0, <1>a, <1>b, <1>17 DEF Ghost, attempt, outcome, chain, ScalarsOK, Working
<1>18. CASE ImageOnly
  BY <1>0, <1>a, <1>b, <1>18 DEF ImageOnly, attempt, chain, ScalarsOK, Working
<1>19. CASE AnswerGoesOn
  BY <1>0, <1>a, <1>b, <1>19 DEF AnswerGoesOn, NextHop, stored, wire, attempt, outcome, chain,
         ScalarsOK, Working
<1>20. CASE AnswerEnds
  BY <1>0, <1>a, <1>b, <1>20 DEF AnswerEnds, wire, attempt, outcome, chain, ScalarsOK, Working
<1>21. CASE AnswerByPhrase
  BY <1>0, <1>a, <1>b, <1>21 DEF AnswerByPhrase, outcome, ScalarsOK, Working
<1>22. ASSUME NEW author \in Authors, Replying, pc = "exhausted", StandIn(author)
       PROVE  ScalarsOK'
  BY <1>0, <1>a, <1>b, <1>22 DEF StandIn, wire, ScalarsOK, Working
<1>23. CASE Exhausted
  BY <1>0, <1>a, <1>b, <1>23 DEF Exhausted, stored, attempt, outcome, chain, ScalarsOK, Working
<1>24. CASE Replace
  BY <1>0, <1>a, <1>b, <1>24 DEF Replace, stored, attempt, outcome, chain, ScalarsOK, Working
<1>25. CASE Final
  <2>1. /\ \A i \in 1..Len(produced) : produced[i] \in Ids
        /\ DOMAIN produced = 1..Len(produced)
    BY NotEmpty DEF TypeOK
  <2>2. PromisesImage => Len(produced) \in 1..Len(produced)
    <3>1. PromisesImage => ~Silent
      BY PlanFacts DEF Silent
    <3> QED
      BY <1>25, <3>1 DEF Final, ProducedInv, Offered
  <2>3. learned' \subseteq Ids /\ pictured' \in Ids \cup {NoId}
    BY <1>0, <1>25, <2>1, <2>2 DEF Final, Range
  <2> QED
    BY <1>0, <1>25, <2>3 DEF Final, stored, attempt, outcome, chain, ScalarsOK, Working
<1>26. CASE Settle
  BY <1>0, <1>a, <1>b, <1>26 DEF Settle, Fails, stored, wire, attempt, outcome, chain, ScalarsOK,
         Working
<1>27. CASE Timeout
  BY <1>0, <1>a, <1>b, <1>27 DEF Timeout, Fails, stored, wire, attempt, outcome, chain, ScalarsOK,
         Working
<1>28. CASE UNCHANGED vars
  BY <1>0, <1>a, <1>b, <1>28 DEF vars, stored, wire, attempt, outcome, chain, ScalarsOK, Working
<1>30. CASE HandOver
  <2>1. \A i \in 1..Len(produced) : produced[i] \in Ids
    BY NotEmpty DEF TypeOK
  <2>2. learned' \subseteq Ids
    BY <1>0, <1>30, <2>1 DEF HandOver, Range
  <2> QED
    BY <1>0, <1>30, <2>2 DEF HandOver, stored, wire, attempt, outcome, chain, ScalarsOK, Working
<1>29. CASE Salvage \/ PseudoGhost
  <2>1. garble # 0 => By(garble) \in Authors
    BY AuthorTypes DEF TypeOK
  <2> QED
    BY <1>22, <1>29, <2>1, AuthorTypes DEF Salvage, PseudoGhost
<1> QED
  BY <1>1, <1>2, <1>3, <1>4, <1>5, <1>6, <1>7, <1>8, <1>9, <1>10, <1>11, <1>12, <1>13, <1>14,
     <1>15, <1>16, <1>17, <1>18, <1>19, <1>20, <1>21, <1>23, <1>24, <1>25, <1>26, <1>27, <1>28,
     <1>29, <1>30 DEF Next

LEMMA FramesTypeStep ==
    ASSUME TypeOK, StageInv, FrameInv, [Next]_vars PROVE bubbles' \in Seq(Bubbles)
<1>0. /\ bubbles \in Seq(Bubbles) /\ <<>> \in Seq(Bubbles)
      /\ pc # "idle" => drive # 0
      /\ NoId \in Ids \cup {NoId} /\ (drive # 0 => LastId \in Ids \cup {NoId})
      /\ By(hop) \in Authors /\ Rewrite(filterHop) \in Authors /\ Phrase \in Authors
      /\ visible \in Authors /\ cut \in BOOLEAN /\ ghost \in BOOLEAN
      /\ \/ pc \in {"reading", "read"} /\ ~turn.filtered
         \/ pc \in {"closing", "filtering", "concluding"}
         => Frames # 0
      /\ Asking /\ pc = "exhausted" => Frames # 0
  BY IdTypes, AuthorTypes DEF TypeOK, StageInv, FrameInv, Standing
<1>1. CASE Start
  BY <1>0, <1>1 DEF Start
<1>2. CASE AlreadyServed
  BY <1>0, <1>2 DEF AlreadyServed, wire
<1>3. CASE Open
  <2>1. CASE bubbles' = bubbles
    BY <1>0, <2>1
  <2>2. CASE bubbles' = Append(bubbles, Opened(FreshId, LastId))
    BY <1>0, <1>3, <2>2, Opening DEF Open
  <2> QED
    BY <1>3, <2>1, <2>2 DEF Open
<1>4. ASSUME NEW p \in Pieces, Chunk(p) PROVE bubbles' \in Seq(Bubbles)
  <2>1. CASE bubbles' = bubbles
    BY <1>0, <2>1
  <2>2. CASE ~turn.filtered /\ bubbles' = OnLast(Said(Current, By(hop)))
    BY <1>0, <1>4, <2>2, Speaking DEF Chunk
  <2> QED
    BY <1>4, <2>1, <2>2 DEF Chunk
<1>5. CASE FinishCut
  BY <1>0, <1>5 DEF FinishCut, wire
<1>6. CASE AttemptFails
  BY <1>0, <1>6 DEF AttemptFails, wire
<1>7. CASE EndOfStream
  BY <1>0, <1>7 DEF EndOfStream, wire
<1>8. CASE Persist
  BY <1>0, <1>8 DEF Persist, wire
<1>9. CASE Done
  BY <1>0, <1>9, Closing DEF Done
<1>10. CASE EmptyBuffered
  <2>1. CASE bubbles' = bubbles
    BY <1>0, <2>1
  <2>2. CASE bubbles' = Append(bubbles, Opened(FreshId, NoId))
    BY <1>0, <1>10, <2>2, Opening DEF EmptyBuffered
  <2> QED
    BY <1>10, <2>1, <2>2 DEF EmptyBuffered
<1>11. CASE CutBuffered
  BY <1>0, <1>11 DEF CutBuffered, NextHop, wire
<1>12. CASE ServeBuffered
  BY <1>0, <1>12, Opening DEF ServeBuffered
<1>13. CASE FilterPassesHead
  BY <1>0, <1>13, Speaking DEF FilterPassesHead
<1>14. CASE FilterServes
  BY <1>0, <1>14, Speaking DEF FilterServes
<1>15. CASE Conclude
  BY <1>0, <1>15, Speaking DEF Conclude
<1>16. ASSUME NEW isFailure \in BOOLEAN, FilterAborts(isFailure) PROVE bubbles' \in Seq(Bubbles)
  <2>1. CASE bubbles' = bubbles
    BY <1>0, <2>1
  <2>2. CASE bubbles' = Supersede
    BY <1>0, <1>16, <2>2, Superseding DEF FilterAborts
  <2> QED
    BY <1>16, <2>1, <2>2 DEF FilterAborts
<1>17. CASE Ghost
  BY <1>0, <1>17, ShowingAlone DEF Ghost
<1>18. CASE ImageOnly
  BY <1>0, <1>18, ShowingAlone DEF ImageOnly
<1>19. CASE AnswerGoesOn
  BY <1>0, <1>19 DEF AnswerGoesOn, NextHop, wire
<1>20. CASE AnswerEnds
  BY <1>0, <1>20 DEF AnswerEnds, wire
<1>21. CASE AnswerByPhrase
  BY <1>0, <1>21, Speaking DEF AnswerByPhrase
<1>22. ASSUME NEW author \in Authors, Replying, pc = "exhausted", StandIn(author)
       PROVE  bubbles' \in Seq(Bubbles)
  BY <1>0, <1>22 DEF StandIn, wire
<1>23. CASE Exhausted
  BY <1>0, <1>23 DEF Exhausted
<1>24. CASE Replace
  BY <1>0, <1>24, Showing DEF Replace
<1>25. CASE Final
  BY <1>0, <1>25 DEF Final
<1>26. CASE Settle
  BY <1>0, <1>26 DEF Settle, Fails, wire
<1>27. CASE Timeout
  BY <1>0, <1>27 DEF Timeout, Fails, wire
<1>28. CASE UNCHANGED vars
  BY <1>0, <1>28 DEF vars, wire
<1>30. CASE HandOver
  BY <1>0, <1>30 DEF HandOver, wire
<1>29. CASE Salvage \/ PseudoGhost
  <2>1. garble # 0 => By(garble) \in Authors
    BY AuthorTypes DEF TypeOK
  <2> QED
    BY <1>22, <1>29, <2>1, AuthorTypes DEF Salvage, PseudoGhost
<1> QED
  BY <1>1, <1>2, <1>3, <1>4, <1>5, <1>6, <1>7, <1>8, <1>9, <1>10, <1>11, <1>12, <1>13, <1>14,
     <1>15, <1>16, <1>17, <1>18, <1>19, <1>20, <1>21, <1>23, <1>24, <1>25, <1>26, <1>27, <1>28,
     <1>29, <1>30 DEF Next

LEMMA RowsTypeStep ==
    ASSUME TypeOK, StageInv, FrameInv, [Next]_vars PROVE rows' \in Seq(AssistantRows)
<1>0. /\ rows \in Seq(AssistantRows)
      /\ pc # "idle" => drive # 0
      /\ \/ pc \in {"reading", "read"} /\ ~turn.filtered
         \/ pc \in {"closing", "filtering", "concluding"}
         => Frames # 0
      /\ Asking /\ pc = "exhausted" => Frames # 0
      /\ Live => ~turn.filtered
      /\ Asking => ~turn.filtered
  BY PlanFacts DEF TypeOK, StageInv, FrameInv, Standing
<1>1. CASE Start
  BY <1>0, <1>1 DEF Start, stored
<1>2. CASE AlreadyServed
  BY <1>0, <1>2 DEF AlreadyServed, stored
<1>3. CASE Open
  BY <1>0, <1>3 DEF Open, stored
<1>4. ASSUME NEW p \in Pieces, Chunk(p) PROVE rows' \in Seq(AssistantRows)
  BY <1>0, <1>4 DEF Chunk, stored
<1>5. CASE FinishCut
  BY <1>0, <1>5 DEF FinishCut, stored
<1>6. CASE AttemptFails
  BY <1>0, <1>6 DEF AttemptFails, stored
<1>7. CASE EndOfStream
  BY <1>0, <1>7 DEF EndOfStream, stored
<1>8. CASE Persist
  BY <1>0, <1>8, RowTypes, Inserting DEF Persist
<1>9. CASE Done
  BY <1>0, <1>9 DEF Done, NextHop, stored
<1>10. CASE EmptyBuffered
  <2>1. CASE rows' = rows
    BY <1>0, <2>1
  <2>2. CASE Insert(Row(FreshId, Nobody, FALSE, ~PromisesImage, NoId, failures))
    BY <1>0, <1>10, <2>2, RowTypes, Inserting DEF EmptyBuffered
  <2> QED
    BY <1>10, <2>1, <2>2 DEF EmptyBuffered, stored
<1>11. CASE CutBuffered
  BY <1>0, <1>11 DEF CutBuffered, NextHop, stored
<1>12. CASE ServeBuffered
  BY <1>0, <1>12 DEF ServeBuffered, stored
<1>13. CASE FilterPassesHead
  BY <1>0, <1>13 DEF FilterPassesHead, stored
<1>14. CASE FilterServes
  BY <1>0, <1>14 DEF FilterServes, stored
<1>15. CASE Conclude
  BY <1>0, <1>15, RowTypes, Inserting DEF Conclude
<1>16. ASSUME NEW isFailure \in BOOLEAN, FilterAborts(isFailure) PROVE rows' \in Seq(AssistantRows)
  BY <1>0, <1>16 DEF FilterAborts, stored
<1>17. CASE Ghost
  BY <1>0, <1>17 DEF Ghost
<1>18. CASE ImageOnly
  BY <1>0, <1>18, RowTypes, Inserting DEF ImageOnly
<1>19. CASE AnswerGoesOn
  BY <1>0, <1>19 DEF AnswerGoesOn, NextHop, stored
<1>20. CASE AnswerEnds
  BY <1>0, <1>20, RowTypes, Inserting DEF AnswerEnds
<1>21. CASE AnswerByPhrase
  BY <1>0, <1>21, RowTypes, Inserting DEF AnswerByPhrase
<1>22. ASSUME NEW author \in Authors, Replying, pc = "exhausted", StandIn(author)
       PROVE  rows' \in Seq(AssistantRows)
  BY <1>0, <1>22, RowTypes, Inserting DEF StandIn
<1>23. CASE Exhausted
  BY <1>0, <1>23 DEF Exhausted, stored
<1>24. CASE Replace
  BY <1>0, <1>24 DEF Replace, stored
<1>25. CASE Final
  BY <1>0, <1>25 DEF Final, stored
<1>26. CASE Settle
  BY <1>0, <1>26 DEF Settle, Fails, stored
<1>27. CASE Timeout
  BY <1>0, <1>27 DEF Timeout, Fails, stored
<1>28. CASE UNCHANGED vars
  BY <1>0, <1>28 DEF vars, stored
<1>30. CASE HandOver
  BY <1>0, <1>30 DEF HandOver, stored
<1>29. CASE Salvage \/ PseudoGhost
  <2>1. garble # 0 => By(garble) \in Authors
    BY AuthorTypes DEF TypeOK
  <2> QED
    BY <1>22, <1>29, <2>1, AuthorTypes DEF Salvage, PseudoGhost
<1> QED
  BY <1>1, <1>2, <1>3, <1>4, <1>5, <1>6, <1>7, <1>8, <1>9, <1>10, <1>11, <1>12, <1>13, <1>14,
     <1>15, <1>16, <1>17, <1>18, <1>19, <1>20, <1>21, <1>23, <1>24, <1>25, <1>26, <1>27, <1>28,
     <1>29, <1>30 DEF Next

\* What is retained at the end of an attempt is its own message.
LEMMA RetainedIs ==
    ASSUME TypeOK, StageInv, FrameInv, ProducedInv, pc = "closing"
    PROVE  Retained = IF Asking THEN <<>> ELSE <<Current.id>>
<1> DEFINE kept == {i \in DOMAIN produced : produced[i] = Current.id}
<1>0. /\ produced \in Seq(Ids) /\ Len(produced) \in Nat /\ DOMAIN produced = 1..Len(produced)
      /\ Retained = At(produced, kept)
      /\ Frames \in 1..Frames /\ Current = bubbles[Frames] /\ Current.id = <<drive, Frames>>
  BY NotEmpty, FrameFacts DEF TypeOK, FrameInv, Chained, Standing, Retained
<1>1. CASE Asking
  <2>1. produced = <<>>
    BY <1>1 DEF ProducedInv, Offered
  <2>2. \A i \in 1..Len(produced) : i \notin kept
    BY <1>0, <2>1, EmptySeq
  <2> QED
    BY <1>0, <1>1, <2>2, AtNone
<1>2. CASE ~Asking
  <2>1. PICK k \in 1..Len(produced) :
           /\ produced[k] = Current.id
           /\ \A i \in 1..Len(produced) : i # k => produced[i] # Current.id
    <3>1. CASE Live
      BY <1>0, <3>1 DEF ProducedInv, Attempts
    <3>2. CASE ~Live
      <4>1. produced = <<Current.id>>
        BY <1>2, <3>2, PlanFacts DEF StageInv, ProducedInv, Offered
      <4>2. Len(produced) = 1 /\ produced[1] = Current.id
        BY <4>1
      <4> QED
        BY <4>2
    <3> QED
      BY <3>1, <3>2
  <2>2. \A i \in 1..Len(produced) : i \in kept <=> i = k
    BY <1>0, <2>1
  <2> HIDE DEF kept
  <2> QED
    BY <1>0, <1>2, <2>1, <2>2, AtOne
<1> QED
  BY <1>1, <1>2

LEMMA ProducedTypeStep ==
    ASSUME TypeOK, StageInv, FrameInv, ProducedInv, [Next]_vars PROVE produced' \in Seq(Ids)
<1>0. /\ produced \in Seq(Ids) /\ <<>> \in Seq(Ids)
      /\ pc # "idle" => FreshId \in Ids
      /\ \/ pc \in {"reading", "read"} /\ ~turn.filtered
         \/ pc \in {"closing", "filtering", "concluding"}
         => Current.id \in Ids
      /\ Live => ~turn.filtered
      /\ \A id \in Ids : <<id>> \in Seq(Ids) /\ Append(produced, id) \in Seq(Ids)
  <2>1. Frames # 0 => Current.id \in Ids
    BY FrameFacts DEF Bubbles
  <2> QED
    BY <2>1, IdTypes, PlanFacts, Appended DEF TypeOK, StageInv, FrameInv, Standing
<1>1. CASE Start
  BY <1>0, <1>1 DEF Start
<1>2. CASE AlreadyServed
  BY <1>0, <1>2 DEF AlreadyServed, outcome
<1>3. CASE Open
  BY <1>0, <1>3 DEF Open, outcome
<1>4. ASSUME NEW p \in Pieces, Chunk(p) PROVE produced' \in Seq(Ids)
  BY <1>0, <1>4 DEF Chunk, outcome
<1>5. CASE FinishCut
  BY <1>0, <1>5 DEF FinishCut, outcome
<1>6. CASE AttemptFails
  BY <1>0, <1>6 DEF AttemptFails, outcome
<1>7. CASE EndOfStream
  BY <1>0, <1>7 DEF EndOfStream, outcome
<1>8. CASE Persist
  BY <1>0, <1>8 DEF Persist
<1>9. CASE Done
  <2>1. Retained \in Seq(Ids)
    BY <1>0, <1>9, RetainedIs DEF Done
  <2> QED
    BY <1>0, <1>9, <2>1 DEF Done
<1>10. CASE EmptyBuffered
  BY <1>0, <1>10 DEF EmptyBuffered, NextHop, outcome
<1>11. CASE CutBuffered
  BY <1>0, <1>11 DEF CutBuffered, NextHop, outcome
<1>12. CASE ServeBuffered
  BY <1>0, <1>12 DEF ServeBuffered, outcome
<1>13. CASE FilterPassesHead
  BY <1>0, <1>13 DEF FilterPassesHead, outcome
<1>14. CASE FilterServes
  BY <1>0, <1>14 DEF FilterServes, outcome
<1>15. CASE Conclude
  BY <1>0, <1>15 DEF Conclude
<1>16. ASSUME NEW isFailure \in BOOLEAN, FilterAborts(isFailure) PROVE produced' \in Seq(Ids)
  BY <1>0, <1>16 DEF FilterAborts, outcome
<1>17. CASE Ghost
  BY <1>0, <1>17 DEF Ghost, outcome
<1>18. CASE ImageOnly
  BY <1>0, <1>18 DEF ImageOnly
<1>19. CASE AnswerGoesOn
  BY <1>0, <1>19 DEF AnswerGoesOn, NextHop, outcome
<1>20. CASE AnswerEnds
  BY <1>0, <1>20 DEF AnswerEnds, outcome
<1>21. CASE AnswerByPhrase
  BY <1>0, <1>21 DEF AnswerByPhrase, outcome
<1>22. ASSUME NEW author \in Authors, Replying, pc = "exhausted", StandIn(author)
       PROVE  produced' \in Seq(Ids)
  BY <1>0, <1>22 DEF StandIn
<1>23. CASE Exhausted
  BY <1>0, <1>23 DEF Exhausted, outcome
<1>24. CASE Replace
  BY <1>0, <1>24 DEF Replace, outcome
<1>25. CASE Final
  BY <1>0, <1>25 DEF Final, outcome
<1>26. CASE Settle
  BY <1>0, <1>26 DEF Settle, Fails, outcome
<1>27. CASE Timeout
  BY <1>0, <1>27 DEF Timeout, Fails, outcome
<1>28. CASE UNCHANGED vars
  BY <1>0, <1>28 DEF vars, outcome
<1>30. CASE HandOver
  BY <1>0, <1>30 DEF HandOver, outcome
<1>29. CASE Salvage \/ PseudoGhost
  <2>1. garble # 0 => By(garble) \in Authors
    BY AuthorTypes DEF TypeOK
  <2> QED
    BY <1>22, <1>29, <2>1, AuthorTypes DEF Salvage, PseudoGhost
<1> QED
  BY <1>1, <1>2, <1>3, <1>4, <1>5, <1>6, <1>7, <1>8, <1>9, <1>10, <1>11, <1>12, <1>13, <1>14,
     <1>15, <1>16, <1>17, <1>18, <1>19, <1>20, <1>21, <1>23, <1>24, <1>25, <1>26, <1>27, <1>28,
     <1>29, <1>30 DEF Next

LEMMA TypeStep ==
    ASSUME TypeOK, StageInv, FrameInv, ProducedInv, [Next]_vars PROVE TypeOK'
  BY ScalarsStep, FramesTypeStep, RowsTypeStep, ProducedTypeStep, TypeParts

-----------------------------------------------------------------------------
(***************************************************************************)
(* The frames of a drive                                                   *)
(***************************************************************************)

LEMMA FramesSame ==
    ASSUME bubbles' = bubbles
    PROVE  /\ Frames' = Frames /\ Current' = Current
           /\ Chained /\ drive' = drive /\ (Live' <=> Live) => Chained'
  BY DEF Frames, Current, Chained

LEMMA ChainAlters ==
    ASSUME TypeOK, Chained, drive' = drive, Live' <=> Live, Frames # 0,
           Len(bubbles') = Frames, \A i \in 1..Frames : i # Frames => bubbles'[i] = bubbles[i],
           bubbles'[Frames].id = Current.id, bubbles'[Frames].from = Current.from
    PROVE  Frames' = Frames /\ Current' = bubbles'[Frames] /\ Chained'
<1>1. Frames' = Frames /\ Current' = bubbles'[Frames]
  BY DEF Frames, Current
<1>2. ASSUME NEW i \in 1..Frames
      PROVE  /\ bubbles'[i].id = bubbles[i].id /\ bubbles'[i].from = bubbles[i].from
             /\ i # Frames => bubbles'[i].state = bubbles[i].state
  BY FrameFacts
<1> QED
  BY <1>1, <1>2 DEF Chained

LEMMA ChainGrows ==
    ASSUME TypeOK, Chained, drive' = drive, Live' <=> Live,
           Len(bubbles') = Frames + 1,
           \A i \in 1..Frames : i # Frames => bubbles'[i] = bubbles[i],
           Frames # 0 => /\ bubbles'[Frames].id = Current.id
                         /\ bubbles'[Frames].from = Current.from
                         /\ bubbles'[Frames].state = "cut",
           bubbles'[Frames + 1].id = FreshId,
           bubbles'[Frames + 1].from = IF Live THEN LastId ELSE NoId
    PROVE  Frames' = Frames + 1 /\ Current' = bubbles'[Frames + 1] /\ Chained'
<1>0. /\ Frames \in Nat /\ (bubbles = <<>> <=> Frames = 0)
      /\ Frames # 0 => Frames \in 1..Frames
      /\ Current = bubbles[Frames] /\ Frames = Len(bubbles)
  BY FrameFacts DEF Frames
<1>1. Frames' = Frames + 1 /\ Current' = bubbles'[Frames + 1]
  BY DEF Frames, Current
<1>2. FreshId = <<drive, Frames + 1>> /\ LastId = IF Frames = 0 THEN NoId ELSE <<drive, Frames>>
  BY <1>0 DEF FreshId, LastId, Chained
<1>3. ASSUME NEW i \in 1..Frames
      PROVE  /\ bubbles'[i].id = <<drive, i>> /\ bubbles'[i].state = "cut"
             /\ bubbles'[i].from = IF Live /\ i > 1 THEN <<drive, i - 1>> ELSE NoId
  BY <1>0, <1>3 DEF Chained
<1>4. /\ bubbles'[Frames + 1].id = <<drive, Frames + 1>>
      /\ bubbles'[Frames + 1].from = IF Live /\ Frames + 1 > 1 THEN <<drive, Frames + 1 - 1>>
                                     ELSE NoId
  BY <1>0, <1>2
<1>5. \A i \in 1..(Frames + 1) : i \in 1..Frames \/ i = Frames + 1
  BY <1>0
<1>6. ASSUME NEW i \in 1..(Frames + 1)
      PROVE  /\ bubbles'[i].id = <<drive', i>>
             /\ bubbles'[i].from = IF Live' /\ i > 1 THEN <<drive', i - 1>> ELSE NoId
             /\ i # Frames + 1 => bubbles'[i].state = "cut"
  <2>1. CASE i \in 1..Frames
    BY <1>0, <1>3, <2>1
  <2>2. CASE i = Frames + 1
    BY <1>0, <1>4, <2>2
  <2> QED
    BY <1>5, <2>1, <2>2
<1>7. Chained'
  <2>1. \A i \in 1..Frames' :
          /\ bubbles'[i].id = <<drive', i>>
          /\ bubbles'[i].from = IF Live' /\ i > 1 THEN <<drive', i - 1>> ELSE NoId
          /\ i # Frames' => bubbles'[i].state = "cut"
    BY <1>1, <1>6
  <2> QED
    BY <2>1 DEF Chained
<1> QED
  BY <1>1, <1>7

\* What the frames of a step are, and the last of them.
LEMMA FrameOpens ==
    ASSUME TypeOK, Chained, drive # 0, drive' = drive, Live' <=> Live,
           Frames # 0 => Current.state = "cut",
           NEW from \in Ids \cup {NoId}, from = IF Live THEN LastId ELSE NoId,
           bubbles' = Append(bubbles, Opened(FreshId, from))
    PROVE  /\ Frames' = Frames + 1 /\ Current' = bubbles'[Frames + 1] /\ Chained'
           /\ Current'.id = FreshId /\ Current'.by = {} /\ Current'.state = "open"
           /\ Current'.ghost = FALSE /\ Current'.from = from
           /\ \A i \in 1..Frames : bubbles'[i] = bubbles[i]
<1>1. Longer(bubbles', bubbles, Opened(FreshId, from))
  BY Opening
<1>2. LET b == Opened(FreshId, from) IN
      /\ b.id = FreshId /\ b.by = {} /\ b.state = "open" /\ b.ghost = FALSE /\ b.from = from
  BY DEF Opened
<1>3. /\ Len(bubbles') = Frames + 1 /\ bubbles'[Frames + 1] = Opened(FreshId, from)
      /\ \A i \in 1..Frames : bubbles'[i] = bubbles[i]
  BY <1>1 DEF Longer, Frames
<1>4. Frames # 0 => bubbles'[Frames] = Current
  BY <1>3, FrameFacts
<1>5. Frames' = Frames + 1 /\ Current' = bubbles'[Frames + 1] /\ Chained'
  BY <1>2, <1>3, <1>4, ChainGrows
<1> QED
  BY <1>2, <1>3, <1>5

LEMMA FrameSays ==
    ASSUME TypeOK, Chained, Frames # 0, drive' = drive, Live' <=> Live, NEW a \in Authors,
           bubbles' = OnLast(Said(Current, a))
    PROVE  /\ Frames' = Frames /\ Current' = bubbles'[Frames] /\ Chained'
           /\ Current'.id = Current.id /\ Current'.by = Current.by \cup ({a} \ {Nobody})
           /\ Current'.state = Current.state /\ Current'.ghost = Current.ghost
           /\ Current'.from = Current.from
           /\ \A i \in 1..Frames : i # Frames => bubbles'[i] = bubbles[i]
<1>1. Changed(bubbles', bubbles, Said(Current, a))
  BY Speaking
<1>2. LET b == Said(Current, a) IN
      /\ b.id = Current.id /\ b.by = Current.by \cup ({a} \ {Nobody}) /\ b.state = Current.state
      /\ b.ghost = Current.ghost /\ b.from = Current.from
  BY FrameFacts, SaidIs
<1>3. /\ Len(bubbles') = Frames /\ bubbles'[Frames] = Said(Current, a)
      /\ \A i \in 1..Frames : i # Frames => bubbles'[i] = bubbles[i]
  BY <1>1 DEF Changed, Frames
<1>4. Frames' = Frames /\ Current' = bubbles'[Frames] /\ Chained'
  BY <1>2, <1>3, ChainAlters
<1> QED
  BY <1>2, <1>3, <1>4

LEMMA FrameCloses ==
    ASSUME TypeOK, Chained, Frames # 0, drive' = drive, Live' <=> Live,
           NEW isCut \in BOOLEAN, NEW isGhost \in BOOLEAN,
           bubbles' = OnLast(Closed(Current, isCut, isGhost))
    PROVE  /\ Frames' = Frames /\ Current' = bubbles'[Frames] /\ Chained'
           /\ Current'.id = Current.id /\ Current'.by = Current.by
           /\ Current'.state = (IF isCut THEN "cut" ELSE "served") /\ Current'.ghost = isGhost
           /\ Current'.from = Current.from
           /\ \A i \in 1..Frames : i # Frames => bubbles'[i] = bubbles[i]
<1>1. Changed(bubbles', bubbles, Closed(Current, isCut, isGhost))
  BY Closing
<1>2. LET b == Closed(Current, isCut, isGhost) IN
      /\ b.id = Current.id /\ b.by = Current.by /\ b.state = (IF isCut THEN "cut" ELSE "served")
      /\ b.ghost = isGhost /\ b.from = Current.from
  BY FrameFacts, ClosedIs
<1>3. /\ Len(bubbles') = Frames /\ bubbles'[Frames] = Closed(Current, isCut, isGhost)
      /\ \A i \in 1..Frames : i # Frames => bubbles'[i] = bubbles[i]
  BY <1>1 DEF Changed, Frames
<1>4. Frames' = Frames /\ Current' = bubbles'[Frames] /\ Chained'
  BY <1>2, <1>3, ChainAlters
<1> QED
  BY <1>2, <1>3, <1>4

LEMMA FrameSuperseded ==
    ASSUME TypeOK, Chained, Frames # 0, drive # 0, drive' = drive, Live' <=> Live, ~Live,
           bubbles' = Supersede
    PROVE  /\ Frames' = Frames + 1 /\ Current' = bubbles'[Frames + 1] /\ Chained'
           /\ Current'.id = FreshId /\ Current'.by = {} /\ Current'.state = "open"
           /\ Current'.ghost = FALSE
           /\ bubbles'[Frames].by = Current.by /\ bubbles'[Frames].ghost = FALSE
           /\ \A i \in 1..Frames : i # Frames => bubbles'[i] = bubbles[i]
<1>1. /\ Len(bubbles') = Frames + 1
      /\ bubbles'[Frames + 1] = Opened(FreshId, NoId)
      /\ bubbles'[Frames] = Closed(Current, TRUE, FALSE)
      /\ \A i \in 1..Frames : i # Frames => bubbles'[i] = bubbles[i]
  BY Superseding
<1>2. LET b == Opened(FreshId, NoId) IN
      /\ b.id = FreshId /\ b.by = {} /\ b.state = "open" /\ b.ghost = FALSE /\ b.from = NoId
  BY DEF Opened
<1>3. LET b == Closed(Current, TRUE, FALSE) IN
      /\ b.id = Current.id /\ b.by = Current.by /\ b.state = "cut"
      /\ b.ghost = FALSE /\ b.from = Current.from
  BY FrameFacts DEF Closed, Bubbles
<1>4. Frames' = Frames + 1 /\ Current' = bubbles'[Frames + 1] /\ Chained'
  BY <1>1, <1>2, <1>3, ChainGrows
<1> QED
  BY <1>1, <1>2, <1>3, <1>4

LEMMA FrameShown ==
    ASSUME TypeOK, Chained, drive # 0, drive' = drive, Live' <=> Live,
           Frames # 0 => Current.state = "cut",
           NEW a \in Authors, Live \/ Frames = 0,
           bubbles' = Append(bubbles, Closed(Said(Opened(FreshId, LastId), a), FALSE, FALSE))
    PROVE  /\ Frames' = Frames + 1 /\ Current' = bubbles'[Frames + 1] /\ Chained'
           /\ Current'.id = FreshId /\ Current'.by = {a} \ {Nobody} /\ Current'.state = "served"
           /\ Current'.ghost = FALSE /\ Current'.from = LastId
           /\ \A i \in 1..Frames : bubbles'[i] = bubbles[i]
<1>0. LastId \in Ids \cup {NoId} /\ (Frames = 0 => LastId = NoId)
  BY IdTypes, FrameFacts DEF LastId
<1>1. LET b == bubbles'[Frames + 1] IN
      /\ Len(bubbles') = Frames + 1 /\ (\A i \in 1..Frames : bubbles'[i] = bubbles[i])
      /\ b.id = FreshId /\ b.by = {a} \ {Nobody} /\ b.state = "served"
      /\ b.ghost = FALSE /\ b.from = LastId
  BY <1>0, Showing
<1>2. Frames # 0 => bubbles'[Frames] = Current
  BY <1>1, FrameFacts
<1>3. bubbles'[Frames + 1].from = IF Live THEN LastId ELSE NoId
  BY <1>0, <1>1
<1>4. Frames' = Frames + 1 /\ Current' = bubbles'[Frames + 1] /\ Chained'
  BY <1>1, <1>2, <1>3, ChainGrows
<1> QED
  BY <1>1, <1>4

LEMMA FrameAlone ==
    ASSUME TypeOK, drive # 0, drive' = drive, Frames = 0,
           bubbles' = <<Closed(Opened(FreshId, NoId), FALSE, FALSE)>>
    PROVE  /\ Frames' = 1 /\ Current' = bubbles'[1] /\ Chained'
           /\ Current'.id = FreshId /\ Current'.by = {} /\ Current'.state = "served"
           /\ Current'.ghost = FALSE /\ Current'.from = NoId
<1>1. LET b == bubbles'[1] IN
      /\ Len(bubbles') = 1 /\ b.id = FreshId /\ b.by = {} /\ b.state = "served"
      /\ b.ghost = FALSE /\ b.from = NoId
  BY ShowingAlone
<1>2. FreshId = <<drive', 1>>
  BY DEF FreshId, Frames
<1>3. Frames' = 1 /\ Current' = bubbles'[1]
  BY <1>1 DEF Frames, Current
<1>4. ASSUME NEW i \in 1..Frames'
      PROVE  /\ bubbles'[i].id = <<drive', i>>
             /\ bubbles'[i].from = IF Live' /\ i > 1 THEN <<drive', i - 1>> ELSE NoId
             /\ i # Frames' => bubbles'[i].state = "cut"
  <2>1. i = 1 /\ i = Frames' /\ ~(i > 1)
    BY <1>3
  <2>2. bubbles'[i].id = <<drive', i>>
    BY <1>1, <1>2, <2>1
  <2>3. bubbles'[i].from = NoId
    BY <1>1, <2>1
  <2> QED
    BY <2>1, <2>2, <2>3
<1>5. Chained'
  BY <1>4 DEF Chained
<1> QED
  BY <1>1, <1>3, <1>5


LEMMA FrameStep ==
    ASSUME TypeOK, StageInv, Chained, Standing, [Next]_vars PROVE Chained' /\ Standing'
<1>0. /\ turn' = turn /\ (Live' <=> Live) /\ (Replying' <=> Replying) /\ (Asking' <=> Asking)
      /\ turn.filtered => Replying
      /\ Replying => ~Asking
      /\ Live <=> Replying /\ ~turn.filtered
      /\ turn.action \in {"ghost", "image"} => ~Replying /\ ~Asking
      /\ Frames \in Nat /\ (bubbles = <<>> <=> Frames = 0)
      /\ cut \in BOOLEAN /\ ghost \in BOOLEAN /\ visible \in Authors
      /\ By(hop) \in Authors /\ Rewrite(filterHop) \in Authors
      /\ told \in {"none", "final", "error"}
  BY PlanFacts, PlanKept, FrameFacts, AuthorTypes DEF TypeOK
<1>1. CASE Start
  <2>1. Frames' = 0 /\ bubbles' = <<>>
    BY <1>1 DEF Start, Frames
  <2>2. Chained'
    BY <2>1 DEF Chained
  <2>3. Standing'
    BY <1>0, <1>1, <2>1 DEF Start, Standing, Concluded
  <2> QED
    BY <2>2, <2>3
<1>2. CASE AlreadyServed
  <2>1. bubbles' = bubbles /\ drive' = drive
    BY <1>2 DEF AlreadyServed, wire
  <2>2. Frames' = Frames /\ Current' = Current /\ Chained'
    BY <1>0, <2>1, FramesSame
  <2>3. Standing'
    BY <1>0, <1>2, <2>2 DEF AlreadyServed, wire, attempt, Standing, StageInv, Concluded, Working
  <2> QED
    BY <2>2, <2>3
<1>3. CASE Open
  <2>1. /\ pc = "open" /\ pc' = "reading" /\ told' = told /\ told = "none" /\ drive' = drive
        /\ drive # 0 /\ (Replying \/ Asking)
    BY <1>3 DEF Open, StageInv, Working
  <2>2. CASE bubbles' = bubbles /\ ~(Live \/ (Asking /\ bubbles = <<>>))
    <3>1. Frames' = Frames /\ Current' = Current /\ Chained'
      BY <1>0, <2>1, <2>2, FramesSame
    <3>2. Standing'
      BY <1>0, <2>1, <2>2, <3>1 DEF Standing, Concluded
    <3> QED
      BY <3>1, <3>2
  <2>3. CASE bubbles' = Append(bubbles, Opened(FreshId, LastId)) /\ (Live \/ (Asking /\ Frames = 0))
    <3>1. Frames # 0 => Current.state = "cut"
      BY <1>0, <2>1, <2>3 DEF Standing
    <3>2. LastId \in Ids \cup {NoId} /\ LastId = IF Live THEN LastId ELSE NoId
      BY <1>0, <2>1, <2>3, IdTypes DEF LastId
    <3>3. /\ Frames' = Frames + 1 /\ Chained' /\ Current'.state = "open"
      BY <1>0, <2>1, <2>3, <3>1, <3>2, FrameOpens
    <3>4. Standing'
      BY <1>0, <2>1, <2>3, <3>3 DEF Standing, Concluded
    <3> QED
      BY <3>3, <3>4
  <2> QED
    BY <1>0, <1>3, <2>2, <2>3 DEF Open
<1>4. ASSUME NEW p \in Pieces, Chunk(p) PROVE Chained' /\ Standing'
  <2>1. /\ pc = "reading" /\ pc' = pc /\ told' = told /\ told = "none" /\ drive' = drive
    BY <1>4 DEF Chunk, StageInv, Working
  <2>2. Frames' = Frames /\ Chained' /\ Current'.state = Current.state
    <3>1. CASE bubbles' = bubbles
      BY <1>0, <2>1, <3>1, FramesSame
    <3>2. CASE ~turn.filtered /\ bubbles' = OnLast(Said(Current, By(hop)))
      <4>1. Frames # 0
        BY <2>1, <3>2 DEF Standing
      <4> QED
        BY <1>0, <2>1, <3>2, <4>1, FrameSays
    <3> QED
      BY <1>4, <3>1, <3>2 DEF Chunk
  <2>3. Standing'
    BY <1>0, <2>1, <2>2 DEF Standing, Concluded
  <2> QED
    BY <2>2, <2>3
<1>5. CASE FinishCut
  <2>1. bubbles' = bubbles /\ drive' = drive
    BY <1>5 DEF FinishCut, wire
  <2>2. Frames' = Frames /\ Current' = Current /\ Chained'
    BY <1>0, <2>1, FramesSame
  <2>3. Standing'
    BY <1>0, <1>5, <2>2 DEF FinishCut, wire, Standing, StageInv, Concluded, Working
  <2> QED
    BY <2>2, <2>3
<1>6. CASE AttemptFails
  <2>1. bubbles' = bubbles /\ drive' = drive
    BY <1>6 DEF AttemptFails, wire
  <2>2. Frames' = Frames /\ Current' = Current /\ Chained'
    BY <1>0, <2>1, FramesSame
  <2>3. Standing'
    BY <1>0, <1>6, <2>2 DEF AttemptFails, wire, Standing, StageInv, Concluded, Working
  <2> QED
    BY <2>2, <2>3
<1>7. CASE EndOfStream
  <2>1. bubbles' = bubbles /\ drive' = drive
    BY <1>7 DEF EndOfStream, wire
  <2>2. Frames' = Frames /\ Current' = Current /\ Chained'
    BY <1>0, <2>1, FramesSame
  <2>3. Standing'
    BY <1>0, <1>7, <2>2 DEF EndOfStream, wire, attempt, Standing, StageInv, Concluded, Working
  <2> QED
    BY <2>2, <2>3
<1>8. CASE Persist
  <2>1. bubbles' = bubbles /\ drive' = drive
    BY <1>8 DEF Persist, wire
  <2>2. Frames' = Frames /\ Current' = Current /\ Chained'
    BY <1>0, <2>1, FramesSame
  <2>3. Standing'
    BY <1>0, <1>8, <2>2 DEF Persist, wire, Standing, StageInv, Concluded, Working
  <2> QED
    BY <2>2, <2>3
<1>9. CASE Done
  <2>a. /\ pc = "closing" /\ told' = told /\ drive' = drive
        /\ \/ pc' = "over" /\ (~cut \/ Asking)
           \/ pc' \in {"exhausted", "open"} /\ cut /\ Live
        /\ bubbles' = OnLast(Closed(Current, cut, ghost))
    BY <1>9 DEF Done
  <2>b. told = "none" /\ Frames # 0 /\ cut \in BOOLEAN /\ ghost \in BOOLEAN
    BY <1>0, <2>a DEF StageInv, Working, Standing
  <2>1. /\ pc = "closing" /\ told' = told /\ told = "none" /\ drive' = drive
        /\ \/ pc' = "over" /\ (~cut \/ Asking)
           \/ pc' \in {"exhausted", "open"} /\ cut /\ Live
        /\ Frames # 0 /\ cut \in BOOLEAN /\ ghost \in BOOLEAN
        /\ bubbles' = OnLast(Closed(Current, cut, ghost))
    BY <2>a, <2>b
  <2>2. Frames' = Frames /\ Chained' /\ Current'.state = (IF cut THEN "cut" ELSE "served")
    BY <1>0, <2>1, FrameCloses
  <2>3. Standing'
    BY <1>0, <2>1, <2>2 DEF Standing, Concluded
  <2> QED
    BY <2>2, <2>3
<1>10. CASE EmptyBuffered
  <2>1. /\ pc = "read" /\ turn.filtered /\ told' = told /\ told = "none" /\ drive' = drive
        /\ drive # 0 /\ Frames = 0 /\ NoId \in Ids \cup {NoId}
    BY <1>10 DEF EmptyBuffered, StageInv, Working, Standing
  <2>2. CASE pc' = "open" /\ bubbles' = bubbles
    <3>1. Frames' = Frames /\ Current' = Current /\ Chained'
      BY <1>0, <2>1, <2>2, FramesSame
    <3>2. Standing'
      BY <1>0, <2>1, <2>2, <3>1 DEF Standing, Concluded
    <3> QED
      BY <3>1, <3>2
  <2>3. CASE pc' = "closing" /\ bubbles' = Append(bubbles, Opened(FreshId, NoId))
    <3>1. Frames' = Frames + 1 /\ Chained' /\ Current'.state = "open"
      BY <1>0, <2>1, <2>3, FrameOpens
    <3>2. Standing'
      BY <1>0, <2>1, <2>3, <3>1 DEF Standing, Concluded
    <3> QED
      BY <3>1, <3>2
  <2> QED
    BY <1>10, <2>2, <2>3 DEF EmptyBuffered
<1>11. CASE CutBuffered
  <2>1. bubbles' = bubbles /\ drive' = drive
    BY <1>11 DEF CutBuffered, NextHop, wire
  <2>2. Frames' = Frames /\ Current' = Current /\ Chained'
    BY <1>0, <2>1, FramesSame
  <2>3. Standing'
    BY <1>0, <1>11, <2>2 DEF CutBuffered, NextHop, wire, attempt, Standing, StageInv, Concluded,
         Working
  <2> QED
    BY <2>2, <2>3
<1>12. CASE ServeBuffered
  <2>1. /\ pc = "read" /\ turn.filtered /\ told' = told /\ told = "none" /\ drive' = drive
        /\ drive # 0 /\ Frames = 0 /\ NoId \in Ids \cup {NoId}
        /\ pc' \in {"filtering", "concluding"} /\ bubbles' = Append(bubbles, Opened(FreshId, NoId))
    BY <1>12 DEF ServeBuffered, StageInv, Working, Standing
  <2>2. Frames' = Frames + 1 /\ Chained' /\ Current'.state = "open"
    BY <1>0, <2>1, FrameOpens
  <2>3. Standing'
    BY <1>0, <2>1, <2>2 DEF Standing, Concluded
  <2> QED
    BY <2>2, <2>3
<1>13. CASE FilterPassesHead
  <2>1. /\ pc = "filtering" /\ pc' = "filtering" /\ told' = told /\ told = "none" /\ drive' = drive
        /\ Frames # 0 /\ Current.state = "open" /\ ~Asking /\ Rewrite(filterHop) \in Authors
        /\ bubbles' = OnLast(Said(Current, Rewrite(filterHop)))
    BY <1>0, <1>13, AuthorTypes DEF FilterPassesHead, StageInv, Working, Standing
  <2>2. Frames' = Frames /\ Chained' /\ Current'.state = Current.state
    BY <1>0, <2>1, FrameSays
  <2>3. Standing'
    BY <1>0, <2>1, <2>2 DEF Standing, Concluded
  <2> QED
    BY <2>2, <2>3
<1>14. CASE FilterServes
  <2>1. /\ pc = "filtering" /\ pc' = "concluding" /\ told' = told /\ told = "none" /\ drive' = drive
        /\ Frames # 0 /\ Current.state = "open" /\ ~Asking /\ Rewrite(filterHop) \in Authors
        /\ bubbles' = OnLast(Said(Current, Rewrite(filterHop)))
    BY <1>0, <1>14, AuthorTypes DEF FilterServes, StageInv, Working, Standing
  <2>2. Frames' = Frames /\ Chained' /\ Current'.state = Current.state
    BY <1>0, <2>1, FrameSays
  <2>3. Standing'
    BY <1>0, <2>1, <2>2 DEF Standing, Concluded
  <2> QED
    BY <2>2, <2>3
<1>15. CASE Conclude
  <2>1. /\ pc = "concluding" /\ pc' = "closing" /\ told' = told /\ told = "none" /\ drive' = drive
        /\ Frames # 0 /\ Current.state = "open" /\ ~Asking /\ visible \in Authors
        /\ bubbles' = OnLast(Said(Current, visible))
    BY <1>0, <1>15, AuthorTypes DEF Conclude, StageInv, Working, Standing
  <2>2. Frames' = Frames /\ Chained' /\ Current'.state = Current.state
    BY <1>0, <2>1, FrameSays
  <2>3. Standing'
    BY <1>0, <2>1, <2>2 DEF Standing, Concluded
  <2> QED
    BY <2>2, <2>3
<1>16. ASSUME NEW isFailure \in BOOLEAN, FilterAborts(isFailure) PROVE Chained' /\ Standing'
  <2>1. /\ pc = "filtering" /\ pc' \in {"filtering", "concluding"} /\ told' = told /\ told = "none"
        /\ drive' = drive /\ drive # 0 /\ Frames # 0 /\ Current.state = "open"
        /\ turn.filtered /\ ~Live /\ ~Asking
    BY <1>0, <1>16 DEF FilterAborts, StageInv, Working, Standing
  <2>2. Frames' # 0 /\ Frames' \in Nat /\ Chained' /\ Current'.state = "open"
    <3>1. CASE bubbles' = bubbles
      BY <1>0, <2>1, <3>1, FramesSame
    <3>2. CASE bubbles' = Supersede
      <4>1. Frames' = Frames + 1 /\ Chained' /\ Current'.state = "open"
        BY <1>0, <2>1, <3>2, FrameSuperseded
      <4> QED
        BY <1>0, <4>1
    <3>3. bubbles' = bubbles \/ bubbles' = Supersede
      BY <1>16 DEF FilterAborts
    <3> QED
      BY <3>1, <3>2, <3>3
  <2>3. Standing'
    BY <1>0, <2>1, <2>2 DEF Standing, Concluded
  <2> QED
    BY <2>2, <2>3
<1>17. CASE Ghost
  <2>1. /\ pc = "open" /\ pc' = "over" /\ told' = told /\ told = "none" /\ drive' = drive
        /\ drive # 0 /\ ~Replying /\ ~Asking /\ Frames = 0
        /\ bubbles' = <<Closed(Opened(FreshId, NoId), FALSE, FALSE)>>
    BY <1>0, <1>17 DEF Ghost, StageInv, Working, Standing
  <2>2. Frames' = 1 /\ Chained' /\ Current'.state = "served"
    BY <1>0, <2>1, FrameAlone
  <2>3. Standing'
    BY <1>0, <2>1, <2>2 DEF Standing, Concluded
  <2> QED
    BY <2>2, <2>3
<1>18. CASE ImageOnly
  <2>1. /\ pc = "open" /\ pc' = "over" /\ told' = told /\ told = "none" /\ drive' = drive
        /\ drive # 0 /\ ~Replying /\ ~Asking /\ Frames = 0
        /\ bubbles' = <<Closed(Opened(FreshId, NoId), FALSE, FALSE)>>
    BY <1>0, <1>18 DEF ImageOnly, StageInv, Working, Standing
  <2>2. Frames' = 1 /\ Chained' /\ Current'.state = "served"
    BY <1>0, <2>1, FrameAlone
  <2>3. Standing'
    BY <1>0, <2>1, <2>2 DEF Standing, Concluded
  <2> QED
    BY <2>2, <2>3
<1>19. CASE AnswerGoesOn
  <2>1. bubbles' = bubbles /\ drive' = drive
    BY <1>19 DEF AnswerGoesOn, NextHop, wire
  <2>2. Frames' = Frames /\ Current' = Current /\ Chained'
    BY <1>0, <2>1, FramesSame
  <2>3. Standing'
    BY <1>0, <1>19, <2>2 DEF AnswerGoesOn, NextHop, wire, attempt, Standing, StageInv, Concluded,
         Working
  <2> QED
    BY <2>2, <2>3
<1>20. CASE AnswerEnds
  <2>1. bubbles' = bubbles /\ drive' = drive
    BY <1>20 DEF AnswerEnds, wire
  <2>2. Frames' = Frames /\ Current' = Current /\ Chained'
    BY <1>0, <2>1, FramesSame
  <2>3. Standing'
    BY <1>0, <1>20, <2>2 DEF AnswerEnds, wire, attempt, Standing, StageInv, Concluded, Working
  <2> QED
    BY <2>2, <2>3
<1>21. CASE AnswerByPhrase
  <2>1. /\ pc = "exhausted" /\ pc' = "closing" /\ told' = told /\ told = "none" /\ drive' = drive
        /\ Frames # 0 /\ Current.state = "open" /\ Asking /\ Phrase \in Authors
        /\ bubbles' = OnLast(Said(Current, Phrase))
    BY <1>0, <1>21, AuthorTypes DEF AnswerByPhrase, StageInv, Working, Standing
  <2>2. Frames' = Frames /\ Chained' /\ Current'.state = Current.state
    BY <1>0, <2>1, FrameSays
  <2>3. Standing'
    BY <1>0, <2>1, <2>2 DEF Standing, Concluded
  <2> QED
    BY <2>2, <2>3
<1>22. ASSUME NEW author \in Authors, Replying, pc = "exhausted", StandIn(author)
       PROVE  Chained' /\ Standing'
  <2>1. bubbles' = bubbles /\ drive' = drive
    BY <1>22 DEF StandIn, wire
  <2>2. Frames' = Frames /\ Current' = Current /\ Chained'
    BY <1>0, <2>1, FramesSame
  <2>3. Standing'
    BY <1>0, <1>22, <2>2 DEF StandIn, wire, Standing, StageInv, Concluded, Working
  <2> QED
    BY <2>2, <2>3
<1>23. CASE Exhausted
  <2>1. bubbles' = bubbles /\ drive' = drive
    BY <1>23 DEF Exhausted
  <2>2. Frames' = Frames /\ Current' = Current /\ Chained'
    BY <1>0, <2>1, FramesSame
  <2>3. Standing'
    BY <1>0, <1>23, <2>2 DEF Exhausted, attempt, Standing, StageInv, Concluded, Working
  <2> QED
    BY <2>2, <2>3
<1>24. CASE Replace
  <2>1. /\ pc = "replacing" /\ pc' = "over" /\ told' = told /\ told = "none" /\ drive' = drive
        /\ drive # 0 /\ Replying /\ ~Asking /\ visible \in Authors /\ (Live \/ Frames = 0)
        /\ Frames # 0 => Current.state = "cut"
        /\ bubbles' = Append(bubbles,
                        Closed(Said(Opened(FreshId, LastId), visible), FALSE, FALSE))
    BY <1>0, <1>24 DEF Replace, StageInv, Working, Standing
  <2>2. Frames' = Frames + 1 /\ Chained' /\ Current'.state = "served"
    BY <1>0, <2>1, FrameShown
  <2>3. Standing'
    BY <1>0, <2>1, <2>2 DEF Standing, Concluded
  <2> QED
    BY <2>2, <2>3
<1>25. CASE Final
  <2>1. bubbles' = bubbles /\ drive' = drive
    BY <1>25 DEF Final
  <2>2. Frames' = Frames /\ Current' = Current /\ Chained'
    BY <1>0, <2>1, FramesSame
  <2>3. Standing'
    BY <1>0, <1>25, <2>2 DEF Final, attempt, Standing, StageInv, Concluded, Working
  <2> QED
    BY <2>2, <2>3
<1>26. CASE Settle
  <2>1. bubbles' = bubbles /\ drive' = drive
    BY <1>26 DEF Settle, Fails, wire
  <2>2. Frames' = Frames /\ Current' = Current /\ Chained'
    BY <1>0, <2>1, FramesSame
  <2>3. Standing'
    BY <1>0, <1>26, <2>2 DEF Settle, Fails, wire, attempt, Standing, StageInv, Concluded, Working
  <2> QED
    BY <2>2, <2>3
<1>27. CASE Timeout
  <2>1. bubbles' = bubbles /\ drive' = drive
    BY <1>27 DEF Timeout, Fails, wire
  <2>2. Frames' = Frames /\ Current' = Current /\ Chained'
    BY <1>0, <2>1, FramesSame
  <2>3. Standing'
    BY <1>0, <1>27, <2>2 DEF Timeout, Fails, wire, attempt, Standing, StageInv, Concluded, Working
  <2> QED
    BY <2>2, <2>3
<1>28. CASE UNCHANGED vars
  <2>1. bubbles' = bubbles /\ drive' = drive
    BY <1>28 DEF vars, wire
  <2>2. Frames' = Frames /\ Current' = Current /\ Chained'
    BY <1>0, <2>1, FramesSame
  <2>3. Standing'
    BY <1>0, <1>28, <2>2 DEF vars, wire, attempt, Standing, StageInv, Concluded, Working
  <2> QED
    BY <2>2, <2>3
<1>30. CASE HandOver
  <2>1. bubbles' = bubbles /\ drive' = drive
    BY <1>30 DEF HandOver, wire
  <2>2. Frames' = Frames /\ Current' = Current /\ Chained'
    BY <1>0, <2>1, FramesSame
  <2>3. Standing'
    BY <1>0, <1>30, <2>2 DEF HandOver, wire, attempt, Standing, StageInv, Concluded, Working
  <2> QED
    BY <2>2, <2>3
<1>29. CASE Salvage \/ PseudoGhost
  <2>1. garble # 0 => By(garble) \in Authors
    BY AuthorTypes DEF TypeOK
  <2> QED
    BY <1>22, <1>29, <2>1, AuthorTypes DEF Salvage, PseudoGhost
<1> QED
  BY <1>1, <1>2, <1>3, <1>4, <1>5, <1>6, <1>7, <1>8, <1>9, <1>10, <1>11, <1>12, <1>13, <1>14,
     <1>15, <1>16, <1>17, <1>18, <1>19, <1>20, <1>21, <1>23, <1>24, <1>25, <1>26, <1>27, <1>28,
     <1>29, <1>30 DEF Next


-----------------------------------------------------------------------------
(***************************************************************************)
(* One voice to a bubble                                                   *)
(***************************************************************************)

LEMMA VoicesSame ==
    ASSUME Voices, bubbles' = bubbles
    PROVE  Frames' = Frames /\ Current' = Current /\ Voices'
  BY DEF Voices, Frames, Current

LEMMA VoicesLast ==
    ASSUME Voices, Frames' = Frames, Voiced(bubbles'[Frames]),
           \A i \in 1..Frames : i # Frames => bubbles'[i] = bubbles[i]
    PROVE  Voices'
<1>1. ASSUME NEW i \in 1..Frames' PROVE Voiced(bubbles'[i])
  BY DEF Voices
<1> QED
  BY <1>1 DEF Voices

LEMMA VoicesMore ==
    ASSUME Voices, Frames \in Nat, Frames' = Frames + 1, Voiced(bubbles'[Frames + 1]),
           \A i \in 1..Frames : bubbles'[i] = bubbles[i]
    PROVE  Voices'
<1>1. ASSUME NEW i \in 1..Frames' PROVE Voiced(bubbles'[i])
  <2>1. i \in 1..Frames \/ i = Frames + 1
    OBVIOUS
  <2> QED
    BY <2>1 DEF Voices
<1> QED
  BY <1>1 DEF Voices

LEMMA LastVoiced ==
    ASSUME TypeOK, Voices, Frames # 0
    PROVE  Voiced(Current)
  BY FrameFacts DEF Voices

LEMMA StillOpen ==
    ASSUME TypeOK, Voices, Frames # 0, Current.state = "open"
    PROVE  ~Current.ghost
  BY LastVoiced DEF Voiced

LEMMA VoiceStep ==
    ASSUME TypeOK, StageInv, Chained, Standing, Voices, Speaker, [Next]_vars
    PROVE  Voices' /\ Speaker'
<1>0. /\ turn' = turn /\ (Live' <=> Live) /\ (Replying' <=> Replying) /\ (Asking' <=> Asking)
      /\ turn.filtered => Replying
      /\ Replying => ~Asking
      /\ Live <=> Replying /\ ~turn.filtered
      /\ turn.action \in {"ghost", "image"} => ~Replying /\ ~Asking
      /\ Frames \in Nat /\ (bubbles = <<>> <=> Frames = 0)
      /\ cut \in BOOLEAN /\ ghost \in BOOLEAN /\ visible \in Authors /\ Nobody \in Authors
      /\ By(hop) \in Authors /\ Rewrite(filterHop) \in Authors
      /\ By(hop) # Nobody /\ Rewrite(filterHop) # Nobody
  BY PlanFacts, PlanKept, FrameFacts, AuthorTypes DEF TypeOK
<1>1. CASE Start
  <2>1. Frames' = 0 /\ pc' = "open"
    BY <1>1 DEF Start, Frames
  <2> QED
    BY <2>1 DEF Voices, Speaker
<1>2. CASE AlreadyServed
  <2>1. Frames' = Frames /\ Current' = Current /\ Voices'
    BY <1>0, <1>2, VoicesSame DEF AlreadyServed, wire
  <2>2. Speaker'
    BY <1>0, <1>2, <2>1 DEF AlreadyServed, wire, attempt, outcome, Speaker, StageInv
  <2> QED
    BY <2>1, <2>2
<1>3. CASE Open
  <2>1. /\ pc = "open" /\ pc' = "reading" /\ drive' = drive /\ drive # 0 /\ (Replying \/ Asking)
        /\ acc' = acc /\ acc = {}
    BY <1>3 DEF Open, StageInv, attempt
  <2>2. CASE bubbles' = bubbles /\ ~(Live \/ (Asking /\ bubbles = <<>>))
    <3>1. Frames' = Frames /\ Current' = Current /\ Voices'
      BY <1>0, <2>2, VoicesSame
    <3>2. Speaker'
      BY <1>0, <2>1, <2>2, <3>1 DEF Speaker
    <3> QED
      BY <3>1, <3>2
  <2>3. CASE bubbles' = Append(bubbles, Opened(FreshId, LastId)) /\ (Live \/ (Asking /\ Frames = 0))
    <3>1. Frames # 0 => Current.state = "cut"
      BY <1>0, <2>1, <2>3 DEF Standing
    <3>2. LastId \in Ids \cup {NoId} /\ LastId = IF Live THEN LastId ELSE NoId
      BY <1>0, <2>1, <2>3, IdTypes DEF LastId
    <3>3. /\ Frames' = Frames + 1 /\ Current' = bubbles'[Frames + 1]
          /\ Current'.by = {} /\ Current'.ghost = FALSE
          /\ \A i \in 1..Frames : bubbles'[i] = bubbles[i]
      BY <1>0, <2>1, <2>3, <3>1, <3>2, FrameOpens
    <3>4. Voices'
      BY <1>0, <3>3, VoicesMore DEF Voiced
    <3>5. Speaker'
      BY <1>0, <2>1, <3>3 DEF Speaker
    <3> QED
      BY <3>4, <3>5
  <2> QED
    BY <1>0, <1>3, <2>2, <2>3 DEF Open
<1>4. ASSUME NEW p \in Pieces, Chunk(p) PROVE Voices' /\ Speaker'
  <2>1. /\ pc = "reading" /\ pc' = pc /\ drive' = drive /\ hop' = hop /\ acc' = acc \cup {p}
    BY <1>4 DEF Chunk
  <2>2. CASE bubbles' = bubbles /\ (turn.filtered \/ p = "artifact")
    <3>1. Frames' = Frames /\ Current' = Current /\ Voices'
      BY <1>0, <2>2, VoicesSame
    <3>2. ~turn.filtered => (acc' \subseteq {"artifact"} <=> acc \subseteq {"artifact"})
      BY <2>1, <2>2
    <3>3. Speaker'
      BY <1>0, <2>1, <2>2, <3>1, <3>2 DEF Speaker
    <3> QED
      BY <3>1, <3>3
  <2>3. CASE bubbles' = OnLast(Said(Current, By(hop))) /\ ~turn.filtered /\ p # "artifact"
    <3>1. Frames # 0 /\ Current.state = "open"
      BY <2>1, <2>3 DEF Standing
    <3>2. Current.by = IF acc \subseteq {"artifact"} THEN {} ELSE {By(hop)}
      BY <2>1, <2>3 DEF Speaker
    <3>3. /\ Frames' = Frames /\ Current' = bubbles'[Frames]
          /\ Current'.by = Current.by \cup ({By(hop)} \ {Nobody}) /\ Current'.ghost = Current.ghost
          /\ \A i \in 1..Frames : i # Frames => bubbles'[i] = bubbles[i]
      BY <1>0, <2>1, <2>3, <3>1, FrameSays
    <3>4. Current'.by = {By(hop)}
      BY <1>0, <3>2, <3>3
    <3>5. Voices'
      BY <1>0, <3>1, <3>3, <3>4, VoicesLast, StillOpen DEF Voiced
    <3>6. ~(acc' \subseteq {"artifact"})
      BY <2>1, <2>3
    <3>7. Speaker'
      BY <1>0, <2>1, <3>3, <3>4, <3>6 DEF Speaker
    <3> QED
      BY <3>5, <3>7
  <2> QED
    BY <1>4, <2>2, <2>3 DEF Chunk
<1>5. CASE FinishCut
  <2>1. Frames' = Frames /\ Current' = Current /\ Voices'
    BY <1>0, <1>5, VoicesSame DEF FinishCut, wire
  <2>2. Speaker'
    BY <1>0, <1>5, <2>1 DEF FinishCut, wire, outcome, Speaker, StageInv
  <2> QED
    BY <2>1, <2>2
<1>6. CASE AttemptFails
  <2>1. Frames' = Frames /\ Current' = Current /\ Voices'
    BY <1>0, <1>6, VoicesSame DEF AttemptFails, wire
  <2>2. Speaker'
    BY <1>0, <1>6, <2>1 DEF AttemptFails, wire, outcome, Speaker, StageInv
  <2> QED
    BY <2>1, <2>2
<1>7. CASE EndOfStream
  <2>1. Frames' = Frames /\ Current' = Current /\ Voices'
    BY <1>0, <1>7, VoicesSame DEF EndOfStream, wire
  <2>2. Speaker'
    BY <1>0, <1>7, <2>1 DEF EndOfStream, wire, attempt, outcome, Speaker, StageInv
  <2> QED
    BY <2>1, <2>2
<1>8. CASE Persist
  <2>1. Frames' = Frames /\ Current' = Current /\ Voices'
    BY <1>0, <1>8, VoicesSame DEF Persist, wire
  <2>2. Speaker'
    BY <1>0, <1>8, <2>1 DEF Persist, wire, Speaker, StageInv, LiveGhost, Superseded, Empty,
         ArtifactOnly
  <2> QED
    BY <2>1, <2>2
<1>9. CASE Done
  <2>1. /\ pc = "closing" /\ drive' = drive /\ ghost' = ghost
        /\ pc' \in {"over", "exhausted", "open"} /\ (pc' # "over" => ~Asking)
        /\ bubbles' = OnLast(Closed(Current, cut, ghost))
    BY <1>0, <1>9 DEF Done
  <2>2. Frames # 0 /\ (ghost => Current.by = {})
    BY <2>1 DEF Standing, Speaker
  <2>3. /\ Frames' = Frames /\ Current' = bubbles'[Frames] /\ Current'.by = Current.by
        /\ Current'.ghost = ghost /\ Current'.state # "open"
        /\ \A i \in 1..Frames : i # Frames => bubbles'[i] = bubbles[i]
    BY <1>0, <2>1, <2>2, FrameCloses
  <2>4. Voices'
    BY <1>0, <2>2, <2>3, VoicesLast, LastVoiced DEF Voiced
  <2>5. Speaker'
    BY <1>0, <2>1 DEF Speaker
  <2> QED
    BY <2>4, <2>5
<1>10. CASE EmptyBuffered
  <2>1. /\ pc = "read" /\ turn.filtered /\ drive' = drive
        /\ drive # 0 /\ Frames = 0 /\ NoId \in Ids \cup {NoId}
    BY <1>10 DEF EmptyBuffered, StageInv, Standing
  <2>2. CASE pc' = "open" /\ bubbles' = bubbles
    <3>1. Frames' = Frames /\ Current' = Current /\ Voices'
      BY <1>0, <2>2, VoicesSame
    <3>2. Speaker'
      BY <1>0, <2>1, <2>2, <3>1 DEF Speaker
    <3> QED
      BY <3>1, <3>2
  <2>3. CASE pc' = "closing" /\ bubbles' = Append(bubbles, Opened(FreshId, NoId))
    <3>1. /\ Frames' = Frames + 1 /\ Current' = bubbles'[Frames + 1]
          /\ Current'.by = {} /\ Current'.ghost = FALSE
          /\ \A i \in 1..Frames : bubbles'[i] = bubbles[i]
      BY <1>0, <2>1, <2>3, FrameOpens
    <3>2. Voices'
      BY <1>0, <3>1, VoicesMore DEF Voiced
    <3>3. Speaker'
      BY <1>0, <2>3, <3>1 DEF Speaker
    <3> QED
      BY <3>2, <3>3
  <2> QED
    BY <1>10, <2>2, <2>3 DEF EmptyBuffered
<1>11. CASE CutBuffered
  <2>1. Frames' = Frames /\ Current' = Current /\ Voices'
    BY <1>0, <1>11, VoicesSame DEF CutBuffered, NextHop, wire
  <2>2. Speaker'
    BY <1>0, <1>11, <2>1 DEF CutBuffered, NextHop, wire, attempt, outcome, Speaker, StageInv
  <2> QED
    BY <2>1, <2>2
<1>12. CASE ServeBuffered
  <2>1. /\ pc = "read" /\ turn.filtered /\ drive' = drive
        /\ drive # 0 /\ Frames = 0 /\ NoId \in Ids \cup {NoId} /\ go' = FALSE
        /\ pc' \in {"filtering", "concluding"} /\ bubbles' = Append(bubbles, Opened(FreshId, NoId))
    BY <1>12 DEF ServeBuffered, StageInv, Standing
  <2>2. /\ Frames' = Frames + 1 /\ Current' = bubbles'[Frames + 1]
        /\ Current'.by = {} /\ Current'.ghost = FALSE
        /\ \A i \in 1..Frames : bubbles'[i] = bubbles[i]
    BY <1>0, <2>1, FrameOpens
  <2>3. Voices'
    BY <1>0, <2>2, VoicesMore DEF Voiced
  <2>4. Speaker'
    BY <1>0, <2>1, <2>2 DEF Speaker
  <2> QED
    BY <2>3, <2>4
<1>13. CASE FilterPassesHead
  <2>1. /\ pc = "filtering" /\ pc' = "filtering" /\ drive' = drive
        /\ Frames # 0 /\ Current.state = "open" /\ Rewrite(filterHop) \in Authors
        /\ Current.by = {} /\ go' = TRUE /\ filterHop' = filterHop
        /\ bubbles' = OnLast(Said(Current, Rewrite(filterHop)))
    BY <1>0, <1>13, AuthorTypes DEF FilterPassesHead, StageInv, Standing, Speaker
  <2>2. /\ Frames' = Frames /\ Current' = bubbles'[Frames]
        /\ Current'.by = Current.by \cup ({Rewrite(filterHop)} \ {Nobody})
        /\ Current'.ghost = Current.ghost
        /\ \A i \in 1..Frames : i # Frames => bubbles'[i] = bubbles[i]
    BY <1>0, <2>1, FrameSays
  <2>3. Current'.by = {Rewrite(filterHop)} \ {Nobody}
    BY <2>1, <2>2
  <2>4. Voices'
    BY <1>0, <2>1, <2>2, <2>3, VoicesLast, StillOpen DEF Voiced
  <2>5. Speaker'
    BY <1>0, <1>13, <2>1, <2>3 DEF FilterPassesHead, Speaker
  <2> QED
    BY <2>4, <2>5
<1>14. CASE FilterServes
  <2>1. /\ pc = "filtering" /\ pc' = "concluding" /\ drive' = drive
        /\ Frames # 0 /\ Current.state = "open" /\ Rewrite(filterHop) \in Authors
        /\ Current.by \subseteq {Rewrite(filterHop)}
        /\ visible' = Rewrite(filterHop)
        /\ bubbles' = OnLast(Said(Current, Rewrite(filterHop)))
    BY <1>0, <1>14, AuthorTypes DEF FilterServes, StageInv, Standing, Speaker
  <2>2. /\ Frames' = Frames /\ Current' = bubbles'[Frames]
        /\ Current'.by = Current.by \cup ({Rewrite(filterHop)} \ {Nobody})
        /\ Current'.ghost = Current.ghost
        /\ \A i \in 1..Frames : i # Frames => bubbles'[i] = bubbles[i]
    BY <1>0, <2>1, FrameSays
  <2>3. Current'.by = {Rewrite(filterHop)} \ {Nobody}
    BY <1>0, <2>1, <2>2
  <2>4. Voices'
    BY <1>0, <2>1, <2>2, <2>3, VoicesLast, StillOpen DEF Voiced
  <2>5. Speaker'
    BY <1>0, <1>14, <2>1, <2>3 DEF FilterServes, Speaker
  <2> QED
    BY <2>4, <2>5
<1>15. CASE Conclude
  <2>1. /\ pc = "concluding" /\ pc' = "closing" /\ drive' = drive
        /\ Frames # 0 /\ Current.state = "open" /\ visible \in Authors
        /\ Current.by \subseteq {visible} \ {Nobody}
        /\ (ghost' => visible = Nobody)
        /\ bubbles' = OnLast(Said(Current, visible))
    BY <1>0, <1>15, AuthorTypes DEF Conclude, StageInv, Standing, Speaker
  <2>2. /\ Frames' = Frames /\ Current' = bubbles'[Frames]
        /\ Current'.by = Current.by \cup ({visible} \ {Nobody}) /\ Current'.ghost = Current.ghost
        /\ \A i \in 1..Frames : i # Frames => bubbles'[i] = bubbles[i]
    BY <1>0, <2>1, FrameSays
  <2>3. Current'.by = {visible} \ {Nobody}
    BY <2>1, <2>2
  <2>4. Voices'
    BY <1>0, <2>1, <2>2, <2>3, VoicesLast, StillOpen DEF Voiced
  <2>5. Speaker'
    BY <1>0, <1>15, <2>1, <2>3 DEF Conclude, Speaker
  <2> QED
    BY <2>4, <2>5
<1>16. ASSUME NEW isFailure \in BOOLEAN, FilterAborts(isFailure) PROVE Voices' /\ Speaker'
  <2>1. /\ pc = "filtering" /\ pc' \in {"filtering", "concluding"} /\ drive' = drive /\ drive # 0
        /\ Frames # 0 /\ ~Live /\ go' = FALSE
        /\ Current.by = IF go THEN {Rewrite(filterHop)} ELSE {}
    BY <1>0, <1>16 DEF FilterAborts, StageInv, Standing, Speaker
  <2>2. Current'.by = {} /\ Voices'
    <3>1. CASE bubbles' = bubbles /\ ~go
      BY <1>0, <2>1, <3>1, VoicesSame
    <3>2. CASE bubbles' = Supersede
      <4>1. /\ Frames' = Frames + 1 /\ Current' = bubbles'[Frames + 1] /\ Current'.by = {}
            /\ Current'.ghost = FALSE
            /\ bubbles'[Frames].by = Current.by /\ bubbles'[Frames].ghost = FALSE
            /\ \A i \in 1..Frames : i # Frames => bubbles'[i] = bubbles[i]
        BY <1>0, <2>1, <3>2, FrameSuperseded
      <4>2. ASSUME NEW i \in 1..Frames' PROVE Voiced(bubbles'[i])
        <5>1. CASE i \in 1..Frames /\ i # Frames
          BY <4>1, <5>1 DEF Voices
        <5>2. CASE i = Frames
          BY <2>1, <4>1, <5>2, LastVoiced DEF Voiced
        <5>3. CASE i = Frames + 1
          BY <1>0, <4>1, <5>3 DEF Voiced
        <5> QED
          BY <1>0, <4>1, <5>1, <5>2, <5>3
      <4> QED
        BY <4>1, <4>2 DEF Voices
    <3>3. \/ bubbles' = bubbles /\ ~go
          \/ bubbles' = Supersede
      BY <1>16 DEF FilterAborts
    <3> QED
      BY <3>1, <3>2, <3>3
  <2>3. Speaker'
    BY <1>0, <2>1, <2>2 DEF Speaker
  <2> QED
    BY <2>2, <2>3
<1>17. CASE Ghost
  <2>1. /\ pc = "open" /\ pc' = "over" /\ drive' = drive /\ drive # 0 /\ Frames = 0
        /\ bubbles' = <<Closed(Opened(FreshId, NoId), FALSE, FALSE)>>
    BY <1>0, <1>17 DEF Ghost, StageInv, Standing
  <2>2. Frames' = 1 /\ Current' = bubbles'[1] /\ Current'.by = {} /\ Current'.ghost = FALSE
    BY <1>0, <2>1, FrameAlone
  <2>3. \A i \in 1..Frames' : Voiced(bubbles'[i])
    BY <1>0, <2>2 DEF Voiced
  <2>4. Voices' /\ Speaker'
    BY <1>0, <2>1, <2>3 DEF Voices, Speaker
  <2> QED
    BY <2>4
<1>18. CASE ImageOnly
  <2>1. /\ pc = "open" /\ pc' = "over" /\ drive' = drive /\ drive # 0 /\ Frames = 0
        /\ bubbles' = <<Closed(Opened(FreshId, NoId), FALSE, FALSE)>>
    BY <1>0, <1>18 DEF ImageOnly, StageInv, Standing
  <2>2. Frames' = 1 /\ Current' = bubbles'[1] /\ Current'.by = {} /\ Current'.ghost = FALSE
    BY <1>0, <2>1, FrameAlone
  <2>3. \A i \in 1..Frames' : Voiced(bubbles'[i])
    BY <1>0, <2>2 DEF Voiced
  <2>4. Voices' /\ Speaker'
    BY <1>0, <2>1, <2>3 DEF Voices, Speaker
  <2> QED
    BY <2>4
<1>19. CASE AnswerGoesOn
  <2>1. Frames' = Frames /\ Current' = Current /\ Voices'
    BY <1>0, <1>19, VoicesSame DEF AnswerGoesOn, NextHop, wire
  <2>2. Speaker'
    BY <1>0, <1>19, <2>1 DEF AnswerGoesOn, NextHop, wire, attempt, outcome, Speaker, StageInv
  <2> QED
    BY <2>1, <2>2
<1>20. CASE AnswerEnds
  <2>1. Frames' = Frames /\ Current' = Current /\ Voices'
    BY <1>0, <1>20, VoicesSame DEF AnswerEnds, wire
  <2>2. Speaker'
    BY <1>0, <1>20, <2>1 DEF AnswerEnds, wire, attempt, outcome, Speaker, StageInv
  <2> QED
    BY <2>1, <2>2
<1>21. CASE AnswerByPhrase
  <2>1. /\ pc = "exhausted" /\ pc' = "closing" /\ drive' = drive
        /\ Frames # 0 /\ Current.state = "open" /\ Phrase \in Authors
        /\ Current.by = {} /\ ghost' = ghost /\ ~ghost
        /\ bubbles' = OnLast(Said(Current, Phrase))
    BY <1>0, <1>21, AuthorTypes DEF AnswerByPhrase, outcome, StageInv, Standing, Speaker
  <2>2. /\ Frames' = Frames /\ Current' = bubbles'[Frames]
        /\ Current'.by = Current.by \cup ({Phrase} \ {Nobody}) /\ Current'.ghost = Current.ghost
        /\ \A i \in 1..Frames : i # Frames => bubbles'[i] = bubbles[i]
    BY <1>0, <2>1, FrameSays
  <2>3. Current'.by = {Phrase} \ {Nobody}
    BY <2>1, <2>2
  <2>4. Voices'
    BY <1>0, <2>1, <2>2, <2>3, VoicesLast, StillOpen DEF Voiced
  <2>5. Speaker'
    BY <1>0, <1>21, <2>1, <2>3 DEF AnswerByPhrase, Speaker
  <2> QED
    BY <2>4, <2>5
<1>22. ASSUME NEW author \in Authors, Replying, pc = "exhausted", StandIn(author)
       PROVE  Voices' /\ Speaker'
  <2>1. Frames' = Frames /\ Current' = Current /\ Voices'
    BY <1>0, <1>22, VoicesSame DEF StandIn, wire
  <2>2. Speaker'
    BY <1>0, <1>22, <2>1 DEF StandIn, wire, Speaker, StageInv
  <2> QED
    BY <2>1, <2>2
<1>23. CASE Exhausted
  <2>1. Frames' = Frames /\ Current' = Current /\ Voices'
    BY <1>0, <1>23, VoicesSame DEF Exhausted
  <2>2. Speaker'
    BY <1>0, <1>23, <2>1 DEF Exhausted, attempt, outcome, Speaker, StageInv
  <2> QED
    BY <2>1, <2>2
<1>24. CASE Replace
  <2>1. /\ pc = "replacing" /\ pc' = "over" /\ drive' = drive
        /\ drive # 0 /\ visible \in Authors /\ (Live \/ Frames = 0)
        /\ Frames # 0 => Current.state = "cut"
        /\ bubbles' = Append(bubbles,
                        Closed(Said(Opened(FreshId, LastId), visible), FALSE, FALSE))
    BY <1>0, <1>24 DEF Replace, StageInv, Standing
  <2>2. /\ Frames' = Frames + 1 /\ Current' = bubbles'[Frames + 1]
        /\ Current'.by = {visible} \ {Nobody} /\ Current'.ghost = FALSE
        /\ \A i \in 1..Frames : bubbles'[i] = bubbles[i]
    BY <1>0, <2>1, FrameShown
  <2>3. Voices'
    BY <1>0, <2>1, <2>2, VoicesMore DEF Voiced
  <2>4. Speaker'
    BY <1>0, <2>1 DEF Speaker
  <2> QED
    BY <2>3, <2>4
<1>25. CASE Final
  <2>1. Frames' = Frames /\ Current' = Current /\ Voices'
    BY <1>0, <1>25, VoicesSame DEF Final
  <2>2. Speaker'
    BY <1>0, <1>25, <2>1 DEF Final, attempt, outcome, Speaker, StageInv
  <2> QED
    BY <2>1, <2>2
<1>26. CASE Settle
  <2>1. Frames' = Frames /\ Current' = Current /\ Voices'
    BY <1>0, <1>26, VoicesSame DEF Settle, Fails, wire
  <2>2. Speaker'
    BY <1>0, <1>26, <2>1 DEF Settle, Fails, wire, attempt, outcome, Speaker, StageInv
  <2> QED
    BY <2>1, <2>2
<1>27. CASE Timeout
  <2>1. Frames' = Frames /\ Current' = Current /\ Voices'
    BY <1>0, <1>27, VoicesSame DEF Timeout, Fails, wire
  <2>2. Speaker'
    BY <1>0, <1>27, <2>1 DEF Timeout, Fails, wire, attempt, outcome, Speaker, StageInv
  <2> QED
    BY <2>1, <2>2
<1>28. CASE UNCHANGED vars
  <2>1. Frames' = Frames /\ Current' = Current /\ Voices'
    BY <1>0, <1>28, VoicesSame DEF vars, wire
  <2>2. Speaker'
    BY <1>0, <1>28, <2>1 DEF vars, wire, attempt, outcome, Speaker, StageInv
  <2> QED
    BY <2>1, <2>2
<1>30. CASE HandOver
  <2>1. Frames' = Frames /\ Current' = Current /\ Voices'
    BY <1>0, <1>30, VoicesSame DEF HandOver, wire
  <2>2. Speaker'
    BY <1>0, <1>30, <2>1 DEF HandOver, wire, attempt, outcome, Speaker, StageInv
  <2> QED
    BY <2>1, <2>2
<1>29. CASE Salvage \/ PseudoGhost
  <2>1. garble # 0 => By(garble) \in Authors
    BY AuthorTypes DEF TypeOK
  <2> QED
    BY <1>22, <1>29, <2>1, AuthorTypes DEF Salvage, PseudoGhost
<1> QED
  BY <1>1, <1>2, <1>3, <1>4, <1>5, <1>6, <1>7, <1>8, <1>9, <1>10, <1>11, <1>12, <1>13, <1>14,
     <1>15, <1>16, <1>17, <1>18, <1>19, <1>20, <1>21, <1>23, <1>24, <1>25, <1>26, <1>27, <1>28,
     <1>29, <1>30 DEF Next


-----------------------------------------------------------------------------
(***************************************************************************)
(* What a drive produces                                                   *)
(***************************************************************************)

LEMMA ProducedStep ==
    ASSUME TypeOK, StageInv, Chained, Standing, Attempts, Offered, Taught, [Next]_vars
    PROVE  Attempts' /\ Offered' /\ Taught'
<1>0. /\ turn' = turn /\ (Live' <=> Live) /\ (Replying' <=> Replying) /\ (Asking' <=> Asking)
      /\ (PromisesImage' <=> PromisesImage)
      /\ turn.filtered => Replying
      /\ Replying => ~Asking
      /\ Live <=> Replying /\ ~turn.filtered
      /\ turn.action \in {"ghost", "image"} => ~Replying /\ ~Asking
      /\ Replying <=> turn.action \in {"reply", "reply_with_image"}
      /\ Asking <=> turn.action = "product_qa"
      /\ (Silent' <=> Silent)
      /\ Frames \in Nat /\ (bubbles = <<>> <=> Frames = 0)
      /\ produced \in Seq(Ids) /\ Len(produced) \in Nat
      /\ cut \in BOOLEAN /\ ghost \in BOOLEAN /\ visible \in Authors /\ By(hop) \in Authors
  BY PlanFacts, PlanKept, FrameFacts, AuthorTypes, NotEmpty DEF TypeOK, Silent
<1>1. CASE Start
  <2>1. /\ bubbles' = <<>> /\ produced' = <<>> /\ pc = "idle" /\ pc' = "open" /\ told' = "none"
        /\ learned' = learned
    BY <1>1 DEF Start
  <2>2. Frames' = 0 /\ Len(produced') = 0
    BY <2>1 DEF Frames
  <2>3. Attempts'
    BY <2>1, <2>2 DEF Attempts
  <2>4. Offered' /\ Taught'
    BY <1>0, <2>1 DEF Offered, Taught, Undecided
  <2> QED
    BY <2>3, <2>4
<1>2. CASE AlreadyServed
  <2>1. /\ bubbles' = bubbles /\ drive' = drive /\ produced' = produced /\ learned' = learned
        /\ pictured' = pictured
        /\ pc = "idle" /\ pc' = pc /\ told' = told
    BY <1>0, <1>2 DEF AlreadyServed, wire, outcome
  <2>2. Frames' = Frames /\ Current' = Current /\ FreshId' = FreshId
    BY <2>1, FramesSame DEF FreshId
  <2> QED
    BY <1>0, <2>1, <2>2 DEF Attempts, Offered, Taught, Ended, Undecided
<1>3. CASE Open
  <2>1. /\ pc = "open" /\ pc' = "reading" /\ drive' = drive /\ drive # 0 /\ produced' = produced
        /\ learned' = learned /\ pictured' = pictured /\ told' = told /\ told = "none"
    BY <1>3 DEF Open, StageInv, Working, outcome
  <2>2. Live => Frames' = Frames + 1
    <3> SUFFICES ASSUME Live PROVE Frames' = Frames + 1
      OBVIOUS
    <3>1. bubbles' = Append(bubbles, Opened(FreshId, LastId)) /\ LastId \in Ids \cup {NoId}
      BY <1>3, <2>1, IdTypes DEF Open
    <3> QED
      BY <2>1, <3>1, Opening DEF Longer, Frames
  <2>3. Attempts'
    BY <1>0, <2>1, <2>2 DEF Attempts, Undecided
  <2>4. Offered' /\ Taught'
    BY <1>0, <2>1 DEF Offered, Taught, Undecided
  <2> QED
    BY <2>3, <2>4
<1>4. ASSUME NEW p \in Pieces, Chunk(p) PROVE Attempts' /\ Offered' /\ Taught'
  <2>1. /\ pc = "reading" /\ pc' = pc /\ drive' = drive /\ produced' = produced
        /\ learned' = learned /\ told' = told /\ told = "none"
    BY <1>4 DEF Chunk, StageInv, Working, outcome
  <2>2. Live => Frames' = Frames
    <3>1. CASE bubbles' = bubbles
      BY <3>1, FramesSame
    <3>2. CASE bubbles' = OnLast(Said(Current, By(hop))) /\ Live
      <4>1. Frames # 0
        BY <1>0, <2>1, <3>2 DEF Standing
      <4> QED
        BY <1>0, <3>2, <4>1, Speaking DEF Changed, Frames
    <3> QED
      BY <1>4, <3>1, <3>2 DEF Chunk
  <2>3. Attempts'
    BY <1>0, <2>1, <2>2 DEF Attempts, Undecided
  <2>4. Offered' /\ Taught'
    BY <1>0, <2>1 DEF Offered, Taught, Undecided
  <2> QED
    BY <2>3, <2>4
<1>5. CASE FinishCut
  <2>1. /\ bubbles' = bubbles /\ drive' = drive /\ produced' = produced /\ learned' = learned
        /\ pictured' = pictured
        /\ pc = "reading" /\ pc' = "reading" /\ told' = told /\ told = "none"
    BY <1>0, <1>5 DEF FinishCut, wire, outcome, StageInv, Working
  <2>2. Frames' = Frames /\ Current' = Current /\ FreshId' = FreshId
    BY <2>1, FramesSame DEF FreshId
  <2> QED
    BY <1>0, <2>1, <2>2 DEF Attempts, Offered, Taught, Undecided
<1>6. CASE AttemptFails
  <2>1. /\ bubbles' = bubbles /\ drive' = drive /\ produced' = produced /\ learned' = learned
        /\ pictured' = pictured
        /\ pc = "reading" /\ pc' = "read" /\ told' = told /\ told = "none"
    BY <1>0, <1>6 DEF AttemptFails, wire, outcome, StageInv, Working
  <2>2. Frames' = Frames /\ Current' = Current /\ FreshId' = FreshId
    BY <2>1, FramesSame DEF FreshId
  <2> QED
    BY <1>0, <2>1, <2>2 DEF Attempts, Offered, Taught, Undecided
<1>7. CASE EndOfStream
  <2>1. /\ bubbles' = bubbles /\ drive' = drive /\ produced' = produced /\ learned' = learned
        /\ pictured' = pictured
        /\ pc = "reading" /\ pc' = "read" /\ told' = told /\ told = "none"
    BY <1>0, <1>7 DEF EndOfStream, wire, outcome, StageInv, Working
  <2>2. Frames' = Frames /\ Current' = Current /\ FreshId' = FreshId
    BY <2>1, FramesSame DEF FreshId
  <2> QED
    BY <1>0, <2>1, <2>2 DEF Attempts, Offered, Taught, Undecided
<1>8. CASE Persist
  <2>1. /\ bubbles' = bubbles /\ drive' = drive /\ produced' = Append(produced, Current.id)
        /\ learned' = learned /\ pictured' = pictured /\ told' = told
        /\ pc = "read" /\ pc' = "closing" /\ Live
    BY <1>8 DEF Persist, wire
  <2>2. Frames' = Frames /\ Current' = Current
    BY <2>1, FramesSame
  <2>3. /\ Frames \in 1..Frames /\ Current.id = <<drive, Frames>>
    BY <1>0, <2>1, FrameFacts DEF Standing, Chained
  <2>4. Current.id \in Ids
    BY <1>0, <2>1, FrameFacts DEF Standing, Bubbles
  <2>5. Longer(produced', produced, Current.id)
    BY <1>0, <2>1, <2>4, Appended
  <2>6. Len(produced) = Frames - 1 /\ \A i \in 1..Len(produced) : produced[i] = <<drive, i>>
    BY <2>1 DEF Attempts, Undecided
  <2>7. Len(produced') = Frames
    BY <1>0, <2>5, <2>6 DEF Longer
  <2>8. ASSUME NEW i \in 1..Len(produced') PROVE produced'[i] = <<drive, i>>
    <3>1. CASE i = Frames
      BY <2>3, <2>5, <2>7, <3>1 DEF Longer
    <3>2. CASE i # Frames
      <4>1. i \in 1..Len(produced)
        BY <1>0, <2>6, <2>7, <3>2
      <4> QED
        BY <2>5, <2>6, <4>1 DEF Longer
    <3> QED
      BY <3>1, <3>2
  <2>9. Attempts'
    <3>1. \A i \in 1..Len(produced') : produced'[i] = <<drive', i>>
      BY <2>1, <2>8
    <3>2. pc' = "closing" /\ Len(produced') = Frames'
      BY <2>1, <2>2, <2>7
    <3> QED
      BY <3>1, <3>2 DEF Attempts
  <2>10. told = "none"
    BY <2>1 DEF StageInv, Working
  <2>11. Offered' /\ Taught'
    BY <1>0, <2>1, <2>10 DEF Offered, Taught, Undecided
  <2> QED
    BY <2>9, <2>11
<1>9. CASE Done
  <2>1. /\ pc = "closing" /\ drive' = drive
        /\ \/ pc' = "over" /\ (~cut \/ Asking)
           \/ pc' \in {"exhausted", "open"} /\ cut /\ Live
        /\ IF cut THEN produced' = produced ELSE produced' = Retained
        /\ learned' = learned /\ told' = told /\ bubbles' = OnLast(Closed(Current, cut, ghost))
    BY <1>9 DEF Done
  <2>2. Frames # 0 /\ told = "none"
    BY <2>1 DEF Standing, StageInv, Working
  <2>3. Frames' = Frames /\ Current'.id = Current.id
    BY <1>0, <2>1, <2>2, FrameCloses
  <2>4. Retained = IF Asking THEN <<>> ELSE <<Current.id>>
    BY <2>1, RetainedIs DEF FrameInv, ProducedInv
  <2>5. Silent <=> Asking
    BY <1>0, <2>1 DEF StageInv, Silent
  <2>6. CASE pc' = "over"
    <3>1. produced' = IF Asking THEN <<>> ELSE <<Current.id>>
      <4>1. CASE Asking
        BY <2>1, <2>4, <4>1 DEF Offered
      <4>2. CASE ~Asking
        BY <2>1, <2>4, <2>6, <4>2
      <4> QED
        BY <4>1, <4>2
    <3>2. Silent' <=> Asking
      BY <1>0, <2>5 DEF Silent
    <3>3. Attempts' /\ Offered'
      BY <1>0, <2>3, <2>6, <3>1, <3>2 DEF Attempts, Offered, Undecided
    <3>4. Taught'
      BY <2>1, <2>2 DEF Taught
    <3> QED
      BY <3>3, <3>4
  <2>7. CASE pc' \in {"exhausted", "open"} /\ cut /\ Live
    <3>1. produced' = produced
      BY <2>1, <2>7
    <3>2. Attempts' /\ Offered'
      BY <1>0, <2>1, <2>3, <2>7, <3>1 DEF Attempts, Offered, Undecided
    <3>3. Taught'
      BY <2>1, <2>2 DEF Taught
    <3> QED
      BY <3>2, <3>3
  <2> QED
    BY <2>1, <2>6, <2>7
<1>10. CASE EmptyBuffered
  <2>1. /\ pc = "read" /\ turn.filtered /\ drive' = drive /\ drive # 0 /\ ~Live /\ ~Asking
        /\ told' = told /\ told = "none" /\ learned' = learned /\ produced = <<>> /\ Frames = 0
        /\ NoId \in Ids \cup {NoId}
    BY <1>0, <1>10 DEF EmptyBuffered, StageInv, Working, Standing, Offered, Undecided
  <2>2. CASE pc' = "open" /\ produced' = produced
    BY <1>0, <2>1, <2>2 DEF Attempts, Offered, Taught, Undecided
  <2>3. CASE /\ pc' = "closing" /\ bubbles' = Append(bubbles, Opened(FreshId, NoId))
             /\ produced' = Append(produced, FreshId)
    <3>1. Current'.id = FreshId
      BY <1>0, <2>1, <2>3, FrameOpens
    <3>2. produced' = <<FreshId>>
      BY <2>1, <2>3
    <3>3. Attempts' /\ Offered' /\ Taught'
      BY <1>0, <2>1, <2>3, <3>1, <3>2 DEF Attempts, Offered, Taught, Undecided
    <3> QED
      BY <3>3
  <2> QED
    BY <1>10, <2>2, <2>3 DEF EmptyBuffered, outcome
<1>11. CASE CutBuffered
  <2>1. /\ bubbles' = bubbles /\ drive' = drive /\ produced' = produced /\ learned' = learned
        /\ pictured' = pictured
        /\ pc = "read" /\ turn.filtered /\ pc' \in {"open", "exhausted"}
        /\ told' = told /\ told = "none"
    BY <1>0, <1>11 DEF CutBuffered, NextHop, wire, outcome, StageInv, Working
  <2>2. Frames' = Frames /\ Current' = Current /\ FreshId' = FreshId
    BY <2>1, FramesSame DEF FreshId
  <2> QED
    BY <1>0, <2>1, <2>2 DEF Attempts, Offered, Taught, Undecided
<1>12. CASE ServeBuffered
  <2>1. /\ pc = "read" /\ pc' \in {"filtering", "concluding"} /\ drive' = drive
        /\ produced' = produced
        /\ learned' = learned /\ told' = told /\ told = "none" /\ ~Live
    BY <1>0, <1>12 DEF ServeBuffered, StageInv, Working, outcome
  <2> QED
    BY <1>0, <2>1 DEF Attempts, Offered, Taught, Undecided
<1>13. CASE FilterPassesHead
  <2>1. /\ pc = "filtering" /\ pc' = pc /\ drive' = drive /\ produced' = produced
        /\ learned' = learned /\ told' = told /\ told = "none" /\ ~Live
    BY <1>0, <1>13 DEF FilterPassesHead, StageInv, Working, outcome
  <2> QED
    BY <1>0, <2>1 DEF Attempts, Offered, Taught, Undecided
<1>14. CASE FilterServes
  <2>1. /\ pc = "filtering" /\ pc' = "concluding" /\ drive' = drive /\ produced' = produced
        /\ learned' = learned /\ told' = told /\ told = "none" /\ ~Live
    BY <1>0, <1>14 DEF FilterServes, StageInv, Working, outcome
  <2> QED
    BY <1>0, <2>1 DEF Attempts, Offered, Taught, Undecided
<1>15. CASE Conclude
  <2>1. /\ pc = "concluding" /\ pc' = "closing" /\ drive' = drive /\ ~Live /\ ~Asking
        /\ told' = told /\ told = "none" /\ learned' = learned
        /\ bubbles' = OnLast(Said(Current, visible)) /\ produced' = Append(produced, Current.id)
    BY <1>0, <1>15 DEF Conclude, StageInv, Working
  <2>2. Frames # 0 /\ produced = <<>>
    BY <2>1 DEF Standing, Offered, Undecided
  <2>3. Current'.id = Current.id
    BY <1>0, <2>1, <2>2, FrameSays
  <2>4. produced' = <<Current.id>>
    BY <2>1, <2>2
  <2> QED
    BY <1>0, <2>1, <2>3, <2>4 DEF Attempts, Offered, Taught, Undecided
<1>16. ASSUME NEW isFailure \in BOOLEAN, FilterAborts(isFailure)
       PROVE  Attempts' /\ Offered' /\ Taught'
  <2>1. /\ pc = "filtering" /\ pc' \in {"filtering", "concluding"} /\ drive' = drive
        /\ produced' = produced
        /\ learned' = learned /\ told' = told /\ told = "none" /\ ~Live
    BY <1>0, <1>16 DEF FilterAborts, StageInv, Working, outcome
  <2> QED
    BY <1>0, <2>1 DEF Attempts, Offered, Taught, Undecided
<1>17. CASE Ghost
  <2>1. /\ pc = "open" /\ pc' = "over" /\ drive' = drive /\ produced' = produced
        /\ told' = told /\ told = "none" /\ learned' = learned /\ turn.action = "ghost"
    BY <1>17 DEF Ghost, StageInv, Working, outcome
  <2>2. produced = <<>> /\ Silent'
    BY <1>0, <2>1 DEF Offered, Undecided, Silent
  <2> QED
    BY <1>0, <2>1, <2>2 DEF Attempts, Offered, Taught, Undecided
<1>18. CASE ImageOnly
  <2>1. /\ pc = "open" /\ pc' = "over" /\ drive' = drive /\ produced' = <<FreshId>>
        /\ told' = told /\ told = "none" /\ learned' = learned /\ turn.action = "image"
        /\ drive # 0 /\ ~Replying /\ ~Asking /\ Frames = 0
        /\ bubbles' = <<Closed(Opened(FreshId, NoId), FALSE, FALSE)>>
    BY <1>0, <1>18 DEF ImageOnly, StageInv, Working, Standing
  <2>2. Current'.id = FreshId /\ ~Silent'
    BY <1>0, <2>1, FrameAlone DEF Silent
  <2> QED
    BY <1>0, <2>1, <2>2 DEF Attempts, Offered, Taught, Undecided
<1>19. CASE AnswerGoesOn
  <2>1. /\ bubbles' = bubbles /\ drive' = drive /\ produced' = produced /\ learned' = learned
        /\ pictured' = pictured
        /\ pc = "read" /\ Asking /\ pc' \in {"open", "exhausted"} /\ told' = told /\ told = "none"
    BY <1>0, <1>19 DEF AnswerGoesOn, NextHop, wire, outcome, StageInv, Working
  <2>2. Frames' = Frames /\ Current' = Current /\ FreshId' = FreshId
    BY <2>1, FramesSame DEF FreshId
  <2> QED
    BY <1>0, <2>1, <2>2 DEF Attempts, Offered, Taught, Undecided
<1>20. CASE AnswerEnds
  <2>1. /\ bubbles' = bubbles /\ drive' = drive /\ produced' = produced /\ learned' = learned
        /\ pictured' = pictured
        /\ pc = "read" /\ Asking /\ pc' = "closing" /\ told' = told /\ told = "none"
    BY <1>0, <1>20 DEF AnswerEnds, wire, outcome, StageInv, Working
  <2>2. Frames' = Frames /\ Current' = Current /\ FreshId' = FreshId
    BY <2>1, FramesSame DEF FreshId
  <2> QED
    BY <1>0, <2>1, <2>2 DEF Attempts, Offered, Taught, Undecided
<1>21. CASE AnswerByPhrase
  <2>1. /\ pc = "exhausted" /\ pc' = "closing" /\ Asking /\ drive' = drive /\ produced' = produced
        /\ learned' = learned /\ told' = told /\ told = "none" /\ ~Live
    BY <1>0, <1>21 DEF AnswerByPhrase, StageInv, Working, outcome
  <2> QED
    BY <1>0, <2>1 DEF Attempts, Offered, Taught, Undecided
<1>22. ASSUME NEW author \in Authors, Replying, pc = "exhausted", StandIn(author)
       PROVE  Attempts' /\ Offered' /\ Taught'
  <2>1. /\ pc' = "replacing" /\ drive' = drive /\ produced' = <<FreshId>> /\ bubbles' = bubbles
        /\ told' = told /\ told = "none" /\ learned' = learned
    BY <1>22 DEF StandIn, StageInv, Working, wire
  <2>2. FreshId' = FreshId
    BY <2>1 DEF FreshId
  <2> QED
    BY <1>0, <1>22, <2>1, <2>2 DEF Attempts, Offered, Taught, Undecided
<1>23. CASE Exhausted
  <2>1. /\ bubbles' = bubbles /\ drive' = drive /\ produced' = produced /\ learned' = learned
        /\ pictured' = pictured
        /\ pc' = "settling" /\ told' = "error" /\ told = "none"
    BY <1>0, <1>23 DEF Exhausted, outcome, StageInv, Working
  <2>2. Frames' = Frames /\ Current' = Current /\ FreshId' = FreshId
    BY <2>1, FramesSame DEF FreshId
  <2> QED
    BY <1>0, <2>1, <2>2 DEF Attempts, Offered, Taught, Undecided
<1>24. CASE Replace
  <2>1. /\ pc = "replacing" /\ pc' = "over" /\ drive' = drive /\ produced' = produced
        /\ told' = told /\ told = "none" /\ learned' = learned
        /\ drive # 0 /\ Replying /\ visible \in Authors /\ (Live \/ Frames = 0)
        /\ Frames # 0 => Current.state = "cut"
        /\ bubbles' = Append(bubbles,
                        Closed(Said(Opened(FreshId, LastId), visible), FALSE, FALSE))
    BY <1>0, <1>24 DEF Replace, StageInv, Working, Standing, outcome
  <2>2. Current'.id = FreshId /\ produced' = <<FreshId>>
    BY <1>0, <2>1, FrameShown DEF Offered
  <2>3. ~Silent'
    BY <1>0, <2>1 DEF Silent
  <2> QED
    BY <1>0, <2>1, <2>2, <2>3 DEF Attempts, Offered, Taught, Undecided
<1>25. CASE Final
  <2>1. /\ pc = "over" /\ told' = "final" /\ bubbles' = bubbles
        /\ pictured' = IF PromisesImage THEN produced[Len(produced)] ELSE NoId
        /\ produced' = produced /\ told = "none"
        /\ IF turn.responds
             THEN pc' = "responding" /\ learned' = learned
             ELSE pc' = "settling" /\ learned' = learned \cup Range(produced)
    BY <1>25 DEF Final, outcome, StageInv, Working
  <2>2. Current' = Current /\ (Silent' <=> Silent) /\ (PromisesImage => ~Silent)
    BY <1>0, <2>1, FramesSame, PlanFacts DEF Silent
  <2>3. learned = {} /\ produced = IF Silent THEN <<>> ELSE <<Current.id>>
    BY <2>1 DEF Taught, Offered
  <2>4. /\ Range(produced) = IF Silent THEN {} ELSE {Current.id}
        /\ ~Silent => produced[Len(produced)] = Current.id
    BY <2>3 DEF Range
  <2>5. Asking => Silent
    BY <1>0 DEF Silent
  <2>6. Attempts' /\ Offered'
    BY <1>0, <2>1, <2>2, <2>3, <2>5 DEF Attempts, Offered, Undecided
  <2>7. pictured' = IF PromisesImage' THEN Current'.id ELSE NoId
    BY <1>0, <2>1, <2>2, <2>4
  <2>8. Taught'
    <3>1. CASE turn.responds
      BY <1>0, <2>1, <2>3, <2>7, <3>1 DEF Taught, Ended
    <3>2. CASE ~turn.responds
      BY <1>0, <2>1, <2>2, <2>3, <2>4, <2>7, <3>2 DEF Taught
    <3> QED
      BY <3>1, <3>2
  <2> QED
    BY <2>6, <2>8
<1>26. CASE Settle
  <2>1. /\ bubbles' = bubbles /\ drive' = drive /\ produced' = produced /\ learned' = learned
        /\ pictured' = pictured
        /\ told' = told /\ pc = "settling" /\ pc' \in {"idle", "settling"}
        /\ told = "final" => pc' = "settling" /\ verdict' = "done"
    BY <1>0, <1>26 DEF Settle, Fails, wire, outcome, DoneSeen
  <2>2. Frames' = Frames /\ Current' = Current /\ FreshId' = FreshId
    BY <2>1, FramesSame DEF FreshId
  <2>3. Attempts' /\ Offered'
    BY <1>0, <2>1, <2>2 DEF Attempts, Offered, Undecided
  <2>4. Taught'
    BY <1>0, <2>1, <2>2 DEF Taught, Ended
  <2> QED
    BY <2>3, <2>4
<1>27. CASE Timeout
  <2>1. /\ bubbles' = bubbles /\ drive' = drive /\ produced' = produced /\ learned' = learned
        /\ pictured' = pictured
        /\ told' = told /\ pc # "settling" /\ pc' \in {"idle", "settling"}
        /\ pc' = "settling" => verdict' # "open"
        /\ told = "final" => turn.responds
    BY <1>0, <1>27 DEF Timeout, Fails, wire, outcome, StageInv, Working
  <2>2. Frames' = Frames /\ Current' = Current /\ FreshId' = FreshId
    BY <2>1, FramesSame DEF FreshId
  <2>3. Attempts' /\ Offered'
    BY <1>0, <2>1, <2>2 DEF Attempts, Offered, Undecided
  <2>4. Taught'
    BY <1>0, <2>1, <2>2 DEF Taught, Ended
  <2> QED
    BY <2>3, <2>4
<1>28. CASE UNCHANGED vars
  <2>1. /\ bubbles' = bubbles /\ drive' = drive /\ produced' = produced /\ learned' = learned
        /\ pictured' = pictured
        /\ pc' = pc /\ told' = told /\ verdict' = verdict
    BY <1>0, <1>28 DEF vars, wire, outcome
  <2>2. Frames' = Frames /\ Current' = Current /\ FreshId' = FreshId
    BY <2>1, FramesSame DEF FreshId
  <2> QED
    BY <1>0, <2>1, <2>2 DEF Attempts, Offered, Taught, Ended, Undecided
<1>30. CASE HandOver
  <2>1. /\ bubbles' = bubbles /\ drive' = drive /\ produced' = produced
        /\ learned' = learned \cup Range(produced) /\ pictured' = pictured
        /\ pc = "responding" /\ pc' = "settling" /\ told' = told /\ told = "final"
    BY <1>30 DEF HandOver, wire, outcome, StageInv
  <2>2. Frames' = Frames /\ Current' = Current /\ FreshId' = FreshId
    BY <2>1, FramesSame DEF FreshId
  <2>3. learned = {} /\ produced = IF Silent THEN <<>> ELSE <<Current.id>>
    BY <2>1 DEF Taught, Offered
  <2>4. Range(produced) = IF Silent THEN {} ELSE {Current.id}
    BY <2>3 DEF Range
  <2>5. Attempts' /\ Offered'
    BY <1>0, <2>1, <2>2 DEF Attempts, Offered, Undecided
  <2>6. Taught'
    BY <1>0, <2>1, <2>2, <2>3, <2>4 DEF Taught
  <2> QED
    BY <2>5, <2>6
<1>29. CASE Salvage \/ PseudoGhost
  <2>1. garble # 0 => By(garble) \in Authors
    BY AuthorTypes DEF TypeOK
  <2> QED
    BY <1>22, <1>29, <2>1, AuthorTypes DEF Salvage, PseudoGhost
<1> QED
  BY <1>1, <1>2, <1>3, <1>4, <1>5, <1>6, <1>7, <1>8, <1>9, <1>10, <1>11, <1>12, <1>13, <1>14,
     <1>15, <1>16, <1>17, <1>18, <1>19, <1>20, <1>21, <1>23, <1>24, <1>25, <1>26, <1>27, <1>28,
     <1>29, <1>30 DEF Next


-----------------------------------------------------------------------------
(***************************************************************************)
(* The rows of the turn                                                    *)
(***************************************************************************)

LEMMA RowsKept ==
    ASSUME RowsAgree, rows' = rows, Asking' <=> Asking
    PROVE  RowsAgree' /\ Answers' = Answers
  BY DEF RowsAgree, Answers

\* Before the reply no row answers: the one that is stored for it does.
LEMMA RowsMore ==
    ASSUME TypeOK, RowsAgree, Asking' <=> Asking, Answers = {},
           NEW r \in AssistantRows, Insert(r), (r.cut /\ ~Asking) => r.failures = {}
    PROVE  /\ RowsAgree'
           /\ \A i \in Answers' : rows'[i].failures = r.failures
           /\ r.cut /\ ~Asking => Answers' = {}
<1>0. /\ Len(rows) \in Nat /\ DOMAIN rows = 1..Len(rows) /\ DOMAIN rows' = 1..Len(rows')
      /\ rows' = rows \/ Longer(rows', rows, r)
  BY Inserting, NotEmpty DEF TypeOK
<1>1. CASE rows' = rows
  BY <1>1, RowsKept
<1>2. CASE Longer(rows', rows, r)
  <2>1. /\ Len(rows') = Len(rows) + 1 /\ rows'[Len(rows')] = r
        /\ \A i \in 1..Len(rows) : rows'[i] = rows[i]
    BY <1>2 DEF Longer
  <2>2. \A i \in 1..Len(rows) : rows[i].cut /\ ~Asking /\ rows[i].failures = {}
    BY <1>0 DEF RowsAgree, Answers
  <2>3. \A i \in DOMAIN rows' : i \in 1..Len(rows) \/ i = Len(rows')
    BY <1>0, <2>1
  <2>4. \A i \in Answers' : i = Len(rows') /\ ~(r.cut /\ ~Asking)
    BY <1>0, <2>1, <2>2, <2>3 DEF Answers
  <2>5. ASSUME NEW i \in DOMAIN rows' \ Answers' PROVE rows'[i].failures = {}
    <3>1. CASE i \in 1..Len(rows)
      BY <2>1, <2>2, <3>1
    <3>2. CASE i = Len(rows')
      BY <2>1, <3>2 DEF Answers
    <3> QED
      BY <2>3, <3>1, <3>2
  <2>6. RowsAgree'
    BY <2>4, <2>5 DEF RowsAgree
  <2> QED
    BY <2>1, <2>4, <2>6
<1> QED
  BY <1>0, <1>1, <1>2

LEMMA RowStep ==
    ASSUME TypeOK, StageInv, Standing, RowsAgree, Accounted, [Next]_vars
    PROVE  RowsAgree' /\ Accounted'
<1>0. /\ turn' = turn /\ (Live' <=> Live) /\ (Replying' <=> Replying) /\ (Asking' <=> Asking)
      /\ turn.filtered => Replying
      /\ Replying => ~Asking
      /\ Live <=> Replying /\ ~turn.filtered
      /\ turn.action \in {"ghost", "image"} => ~Replying /\ ~Asking
      /\ By(hop) # ChainExhausted /\ Rewrite(filterHop) # ChainExhausted
      /\ DOMAIN rows = 1..Len(rows)
  BY PlanFacts, PlanKept, AuthorTypes, NotEmpty DEF TypeOK
<1>1. CASE Start
  <2>1. /\ rows' = rows /\ failures' = {} /\ failed' = {} /\ told' = "none" /\ pc' = "open"
        /\ rows = <<>>
    BY <1>1 DEF Start, stored, Answered
  <2>2. Answers = {}
    BY <1>0, <2>1, EmptySeq DEF Answers
  <2>3. RowsAgree' /\ Answers' = Answers
    BY <1>0, <2>1, RowsKept
  <2>4. Accounted'
    BY <1>0, <2>1, <2>2, <2>3 DEF Accounted, Concluded, Undecided
  <2> QED
    BY <2>3, <2>4
<1>2. CASE AlreadyServed
  <2>1. /\ rows' = rows /\ failures' = failures /\ failed' = failed /\ reported' = reported
        /\ pc' = pc /\ told' = told /\ cut' = cut
    BY <1>0, <1>2 DEF AlreadyServed, wire, attempt, chain, stored
  <2>2. RowsAgree'
    BY <1>0, <2>1, RowsKept
  <2>3. Accounted'
    BY <1>0, <2>1, RowsKept DEF Accounted, Concluded, Undecided
  <2> QED
    BY <2>2, <2>3
<1>3. CASE Open
  <2>1. /\ rows' = rows /\ failures' = failures /\ failed' = failed /\ reported' = reported
        /\ pc = "open" /\ pc' = "reading" /\ told' = told
    BY <1>0, <1>3 DEF Open, stored, chain
  <2>2. RowsAgree'
    BY <1>0, <2>1, RowsKept
  <2>3. Accounted'
    BY <1>0, <2>1, RowsKept DEF Accounted, Concluded, Undecided
  <2> QED
    BY <2>2, <2>3
<1>4. ASSUME NEW p \in Pieces, Chunk(p) PROVE RowsAgree' /\ Accounted'
  <2>1. /\ rows' = rows /\ failures' = failures /\ failed' = failed /\ reported' = reported
        /\ pc = "reading" /\ pc' = pc /\ told' = told
    BY <1>0, <1>4 DEF Chunk, stored, chain
  <2>2. RowsAgree'
    BY <1>0, <2>1, RowsKept
  <2>3. Accounted'
    BY <1>0, <2>1, RowsKept DEF Accounted, Concluded, Undecided
  <2> QED
    BY <2>2, <2>3
<1>5. CASE FinishCut
  <2>1. /\ rows' = rows /\ failures' = failures /\ failed' = failed /\ reported' = reported
        /\ pc = "reading" /\ pc' = "reading" /\ told' = told
    BY <1>0, <1>5 DEF FinishCut, stored, wire, chain
  <2>2. RowsAgree'
    BY <1>0, <2>1, RowsKept
  <2>3. Accounted'
    BY <1>0, <2>1, RowsKept DEF Accounted, Concluded, Undecided
  <2> QED
    BY <2>2, <2>3
<1>6. CASE AttemptFails
  <2>1. /\ rows' = rows /\ pc = "reading" /\ pc' = "read" /\ told' = told
        /\ failures' = failures \cup {By(hop)} /\ failed' = failed \cup {By(hop)}
    BY <1>6 DEF AttemptFails, stored, wire
  <2>2. (Replying \/ Asking) /\ told = "none"
    BY <2>1 DEF StageInv, Working
  <2>3. RowsAgree' /\ Answers' = Answers
    BY <1>0, <2>1, RowsKept
  <2>4. failures' \ {ChainExhausted} = failed'
    BY <1>0, <2>1 DEF Accounted
  <2>5. Accounted'
    BY <1>0, <2>1, <2>2, <2>3, <2>4 DEF Accounted, Concluded, Undecided
  <2> QED
    BY <2>3, <2>5
<1>7. CASE EndOfStream
  <2>1. /\ rows' = rows /\ failures' = failures /\ failed' = failed /\ reported' = reported
        /\ pc = "reading" /\ pc' = "read" /\ told' = told
    BY <1>0, <1>7 DEF EndOfStream, stored, wire, chain
  <2>2. RowsAgree'
    BY <1>0, <2>1, RowsKept
  <2>3. Accounted'
    BY <1>0, <2>1, RowsKept DEF Accounted, Concluded, Undecided
  <2> QED
    BY <2>2, <2>3
<1>8. CASE Persist
  <2> DEFINE r == Row(Current.id, LiveText, Superseded, LiveGhost, Current.from, Listed)
  <2>1. /\ pc = "read" /\ pc' = "closing" /\ told' = told /\ failed' = failed
        /\ failures' = failures /\ Insert(r) /\ cut' = Superseded /\ Live
    BY <1>0, <1>8 DEF Persist, wire
  <2>2. drive # 0 /\ Frames # 0 /\ told = "none" /\ (Replying \/ Asking)
    BY <1>0, <2>1 DEF StageInv, Standing, Working, Accounted
  <2>3. r \in AssistantRows
    BY <1>0, <2>1, <2>2, RowTypes
  <2>4. r.cut = Superseded /\ r.failures = Listed
    BY DEF Row
  <2> HIDE DEF r
  <2>5. Answers = {} /\ failures \ {ChainExhausted} = failed
    BY <2>1 DEF Accounted, Undecided
  <2>6. (r.cut /\ ~Asking) => r.failures = {}
    BY <1>0, <2>1, <2>4 DEF Listed
  <2>7. /\ RowsAgree' /\ (\A i \in Answers' : rows'[i].failures = r.failures)
        /\ r.cut /\ ~Asking => Answers' = {}
    BY <1>0, <2>1, <2>3, <2>5, <2>6, RowsMore
  <2>8. \A i \in Answers' : rows'[i].failures = failures'
    BY <1>0, <2>1, <2>2, <2>4, <2>5, <2>7 DEF Listed
  <2>9. Accounted'
    BY <1>0, <2>1, <2>2, <2>4, <2>5, <2>7, <2>8 DEF Accounted, Concluded, Undecided
  <2> QED
    BY <2>7, <2>9
<1>9. CASE Done
  <2>1. /\ rows' = rows /\ failures' = failures /\ failed' = failed /\ reported' = reported
        /\ pc = "closing" /\ told' = told
        /\ \/ pc' = "over"
           \/ pc' \in {"exhausted", "open"} /\ cut /\ ~Asking
    BY <1>0, <1>9 DEF Done, stored, chain
  <2>2. RowsAgree'
    BY <1>0, <2>1, RowsKept
  <2>3. Accounted'
    BY <1>0, <2>1, RowsKept DEF Accounted, Concluded, Undecided
  <2> QED
    BY <2>2, <2>3
<1>10. CASE EmptyBuffered
  <2>1. /\ told' = told /\ failed' = failed /\ failures' = failures /\ pc = "read"
        /\ told = "none" /\ Replying
    BY <1>0, <1>10 DEF EmptyBuffered, chain, StageInv, Working
  <2>2. CASE pc' = "open" /\ rows' = rows
    <3>1. RowsAgree' /\ Answers' = Answers
      BY <1>0, <2>2, RowsKept
    <3>2. Accounted'
      BY <1>0, <2>1, <2>2, <3>1 DEF Accounted, Concluded, Undecided
    <3> QED
      BY <3>1, <3>2
  <2>3. ASSUME pc' = "closing", ~cut',
               Insert(Row(FreshId, Nobody, FALSE, ~PromisesImage, NoId, failures))
        PROVE  RowsAgree' /\ Accounted'
    <3>1. /\ pc' = "closing" /\ ~cut'
          /\ Insert(Row(FreshId, Nobody, FALSE, ~PromisesImage, NoId, failures))
      BY <2>3
    <3>2. RowsAgree' /\ Accounted'
      <4> DEFINE r == Row(FreshId, Nobody, FALSE, ~PromisesImage, NoId, failures)
      <4>1. /\ pc = "read" /\ pc' = "closing" /\ told' = told /\ failed' = failed
            /\ failures' = failures /\ Insert(r) /\ ~cut'
        BY <2>1, <3>1
      <4>2. drive # 0 /\ told = "none" /\ (Replying \/ Asking)
        BY <1>0, <4>1 DEF StageInv, Standing, Working, Accounted
      <4>3. r \in AssistantRows
        BY <1>0, <4>1, <4>2, RowTypes
      <4>4. r.cut = FALSE /\ r.failures = failures
        BY DEF Row
      <4> HIDE DEF r
      <4>5. Answers = {} /\ failures \ {ChainExhausted} = failed
        BY <4>1 DEF Accounted, Undecided
      <4>6. (r.cut /\ ~Asking) => r.failures = {}
        BY <1>0, <4>1, <4>4 DEF Listed
      <4>7. /\ RowsAgree' /\ (\A i \in Answers' : rows'[i].failures = r.failures)
            /\ r.cut /\ ~Asking => Answers' = {}
        BY <1>0, <4>1, <4>3, <4>5, <4>6, RowsMore
      <4>8. \A i \in Answers' : rows'[i].failures = failures'
        BY <1>0, <4>1, <4>2, <4>4, <4>5, <4>7 DEF Listed
      <4>9. Accounted'
        BY <1>0, <4>1, <4>2, <4>4, <4>5, <4>7, <4>8 DEF Accounted, Concluded, Undecided
      <4> QED
        BY <4>7, <4>9
    <3> QED
      BY <3>2
  <2> QED
    <3>1. \/ pc' = "open" /\ rows' = rows
          \/ /\ pc' = "closing" /\ cut' = cut /\ ~cut
             /\ Insert(Row(FreshId, Nobody, FALSE, ~PromisesImage, NoId, failures))
      BY <1>10 DEF EmptyBuffered, Empty, stored, attempt
    <3> QED
      BY <2>2, <2>3, <3>1
<1>11. CASE CutBuffered
  <2>1. /\ rows' = rows /\ failures' = failures /\ failed' = failed /\ reported' = reported
        /\ pc = "read" /\ pc' \in {"open", "exhausted"} /\ told' = told
    BY <1>0, <1>11 DEF CutBuffered, stored, wire, chain
  <2>2. RowsAgree'
    BY <1>0, <2>1, RowsKept
  <2>3. Accounted'
    BY <1>0, <2>1, RowsKept DEF Accounted, Concluded, Undecided
  <2> QED
    BY <2>2, <2>3
<1>12. CASE ServeBuffered
  <2>1. /\ rows' = rows /\ failures' = failures /\ failed' = failed /\ reported' = reported
        /\ pc = "read" /\ pc' \in {"filtering", "concluding"} /\ told' = told
    BY <1>0, <1>12 DEF ServeBuffered, stored, chain
  <2>2. RowsAgree'
    BY <1>0, <2>1, RowsKept
  <2>3. Accounted'
    BY <1>0, <2>1, RowsKept DEF Accounted, Concluded, Undecided
  <2> QED
    BY <2>2, <2>3
<1>13. CASE FilterPassesHead
  <2>1. /\ rows' = rows /\ failures' = failures /\ failed' = failed /\ reported' = reported
        /\ pc = "filtering" /\ pc' = "filtering" /\ told' = told
    BY <1>0, <1>13 DEF FilterPassesHead, stored, chain
  <2>2. RowsAgree'
    BY <1>0, <2>1, RowsKept
  <2>3. Accounted'
    BY <1>0, <2>1, RowsKept DEF Accounted, Concluded, Undecided
  <2> QED
    BY <2>2, <2>3
<1>14. CASE FilterServes
  <2>1. /\ rows' = rows /\ failures' = failures /\ failed' = failed /\ reported' = reported
        /\ pc = "filtering" /\ pc' = "concluding" /\ told' = told
    BY <1>0, <1>14 DEF FilterServes, stored, chain
  <2>2. RowsAgree'
    BY <1>0, <2>1, RowsKept
  <2>3. Accounted'
    BY <1>0, <2>1, RowsKept DEF Accounted, Concluded, Undecided
  <2> QED
    BY <2>2, <2>3
<1>15. CASE Conclude
  <2> DEFINE r == Row(Current.id, visible, FALSE, visible = Nobody /\ ~PromisesImage, NoId,
                      failures)
  <2>1. /\ pc = "concluding" /\ pc' = "closing" /\ told' = told /\ failed' = failed
        /\ failures' = failures /\ Insert(r) /\ cut' = cut
    BY <1>0, <1>15 DEF Conclude, attempt, chain
  <2>2. drive # 0 /\ Frames # 0 /\ told = "none" /\ ~cut /\ (Replying \/ Asking)
    BY <1>0, <2>1 DEF StageInv, Standing, Working, Accounted
  <2>3. r \in AssistantRows
    BY <1>0, <2>1, <2>2, RowTypes
  <2>4. r.cut = FALSE /\ r.failures = failures
    BY DEF Row
  <2> HIDE DEF r
  <2>5. Answers = {} /\ failures \ {ChainExhausted} = failed
    BY <2>1 DEF Accounted, Undecided
  <2>6. (r.cut /\ ~Asking) => r.failures = {}
    BY <1>0, <2>1, <2>4 DEF Listed
  <2>7. /\ RowsAgree' /\ (\A i \in Answers' : rows'[i].failures = r.failures)
        /\ r.cut /\ ~Asking => Answers' = {}
    BY <1>0, <2>1, <2>3, <2>5, <2>6, RowsMore
  <2>8. \A i \in Answers' : rows'[i].failures = failures'
    BY <1>0, <2>1, <2>2, <2>4, <2>5, <2>7 DEF Listed
  <2>9. Accounted'
    BY <1>0, <2>1, <2>2, <2>4, <2>5, <2>7, <2>8 DEF Accounted, Concluded, Undecided
  <2> QED
    BY <2>7, <2>9
<1>16. ASSUME NEW isFailure \in BOOLEAN, FilterAborts(isFailure) PROVE RowsAgree' /\ Accounted'
  <2> DEFINE fs == IF isFailure THEN {Rewrite(filterHop)} ELSE {}
  <2>1. /\ rows' = rows /\ pc = "filtering" /\ pc' \in {"filtering", "concluding"} /\ told' = told
        /\ failures' = failures \cup fs /\ failed' = failed \cup fs
    BY <1>16 DEF FilterAborts, Joined, stored
  <2>2. Replying /\ told = "none" /\ ChainExhausted \notin fs
    BY <1>0, <2>1 DEF StageInv, Working
  <2> HIDE DEF fs
  <2>3. RowsAgree' /\ Answers' = Answers
    BY <1>0, <2>1, RowsKept
  <2>4. failures' \ {ChainExhausted} = failed'
    BY <1>0, <2>1, <2>2 DEF Accounted
  <2>5. Accounted'
    BY <1>0, <2>1, <2>2, <2>3, <2>4 DEF Accounted, Concluded, Undecided
  <2> QED
    BY <2>3, <2>5
<1>17. CASE Ghost
  <2>1. /\ rows' = rows /\ failures' = failures /\ failed' = failed /\ reported' = reported
        /\ pc = "open" /\ pc' = "over" /\ told' = told
    BY <1>0, <1>17 DEF Ghost, chain
  <2>2. RowsAgree'
    BY <1>0, <2>1, RowsKept
  <2>3. Accounted'
    BY <1>0, <2>1, RowsKept DEF Accounted, Concluded, Undecided
  <2> QED
    BY <2>2, <2>3
<1>18. CASE ImageOnly
  <2> DEFINE r == Row(FreshId, Nobody, FALSE, FALSE, NoId, {})
  <2>1. /\ pc = "open" /\ pc' = "over" /\ told' = told /\ failed' = failed
        /\ failures' = failures /\ Insert(r) /\ ~Replying /\ ~Asking
    BY <1>0, <1>18 DEF ImageOnly, chain
  <2>2. drive # 0 /\ told = "none" /\ failures = {}
    BY <1>0, <2>1 DEF StageInv, Standing, Working, Accounted
  <2>3. r \in AssistantRows
    BY <1>0, <2>1, <2>2, RowTypes
  <2>4. r.cut = FALSE /\ r.failures = {}
    BY DEF Row
  <2> HIDE DEF r
  <2>5. Answers = {} /\ failures \ {ChainExhausted} = failed
    BY <2>1 DEF Accounted, Undecided
  <2>6. (r.cut /\ ~Asking) => r.failures = {}
    BY <1>0, <2>1, <2>4 DEF Listed
  <2>7. /\ RowsAgree' /\ (\A i \in Answers' : rows'[i].failures = r.failures)
        /\ r.cut /\ ~Asking => Answers' = {}
    BY <1>0, <2>1, <2>3, <2>5, <2>6, RowsMore
  <2>8. \A i \in Answers' : rows'[i].failures = failures'
    BY <1>0, <2>1, <2>2, <2>4, <2>5, <2>7 DEF Listed
  <2>9. Accounted'
    BY <1>0, <2>1, <2>2, <2>4, <2>5, <2>7, <2>8 DEF Accounted, Concluded, Undecided
  <2> QED
    BY <2>7, <2>9
<1>19. CASE AnswerGoesOn
  <2>1. /\ rows' = rows /\ failures' = failures /\ failed' = failed /\ reported' = reported
        /\ pc = "read" /\ pc' \in {"open", "exhausted"} /\ told' = told
    BY <1>0, <1>19 DEF AnswerGoesOn, stored, wire, chain
  <2>2. RowsAgree'
    BY <1>0, <2>1, RowsKept
  <2>3. Accounted'
    BY <1>0, <2>1, RowsKept DEF Accounted, Concluded, Undecided
  <2> QED
    BY <2>2, <2>3
<1>20. CASE AnswerEnds
  <2> DEFINE r == Row(Current.id, By(hop), cut, FALSE, NoId, failures)
  <2>1. /\ pc = "read" /\ pc' = "closing" /\ told' = told /\ failed' = failed
        /\ failures' = failures /\ Insert(r) /\ Asking
    BY <1>0, <1>20 DEF AnswerEnds, wire, chain
  <2>2. drive # 0 /\ Frames # 0 /\ told = "none" /\ (Replying \/ Asking)
    BY <1>0, <2>1 DEF StageInv, Standing, Working, Accounted
  <2>3. r \in AssistantRows
    BY <1>0, <2>1, <2>2, RowTypes
  <2>4. r.cut = cut /\ r.failures = failures
    BY DEF Row
  <2> HIDE DEF r
  <2>5. Answers = {} /\ failures \ {ChainExhausted} = failed
    BY <2>1 DEF Accounted, Undecided
  <2>6. (r.cut /\ ~Asking) => r.failures = {}
    BY <1>0, <2>1, <2>4 DEF Listed
  <2>7. /\ RowsAgree' /\ (\A i \in Answers' : rows'[i].failures = r.failures)
        /\ r.cut /\ ~Asking => Answers' = {}
    BY <1>0, <2>1, <2>3, <2>5, <2>6, RowsMore
  <2>8. \A i \in Answers' : rows'[i].failures = failures'
    BY <1>0, <2>1, <2>2, <2>4, <2>5, <2>7 DEF Listed
  <2>9. Accounted'
    BY <1>0, <2>1, <2>2, <2>4, <2>5, <2>7, <2>8 DEF Accounted, Concluded, Undecided
  <2> QED
    BY <2>7, <2>9
<1>21. CASE AnswerByPhrase
  <2> DEFINE r == Row(Current.id, Phrase, FALSE, FALSE, NoId, failures \cup {ChainExhausted})
  <2>1. /\ pc = "exhausted" /\ pc' = "closing" /\ told' = told /\ failed' = failed
        /\ failures' = failures \cup {ChainExhausted} /\ Insert(r) /\ Asking
    BY <1>0, <1>21 DEF AnswerByPhrase
  <2>2. drive # 0 /\ Frames # 0 /\ told = "none" /\ (Replying \/ Asking)
    BY <1>0, <2>1 DEF StageInv, Standing, Working, Accounted
  <2>3. r \in AssistantRows
    BY <1>0, <2>1, <2>2, RowTypes
  <2>4. r.cut = FALSE /\ r.failures = failures \cup {ChainExhausted}
    BY DEF Row
  <2> HIDE DEF r
  <2>5. Answers = {} /\ failures \ {ChainExhausted} = failed
    BY <2>1 DEF Accounted, Undecided
  <2>6. (r.cut /\ ~Asking) => r.failures = {}
    BY <1>0, <2>1, <2>4 DEF Listed
  <2>7. /\ RowsAgree' /\ (\A i \in Answers' : rows'[i].failures = r.failures)
        /\ r.cut /\ ~Asking => Answers' = {}
    BY <1>0, <2>1, <2>3, <2>5, <2>6, RowsMore
  <2>8. \A i \in Answers' : rows'[i].failures = failures'
    BY <1>0, <2>1, <2>2, <2>4, <2>5, <2>7 DEF Listed
  <2>9. Accounted'
    BY <1>0, <2>1, <2>2, <2>4, <2>5, <2>7, <2>8 DEF Accounted, Concluded, Undecided
  <2> QED
    BY <2>7, <2>9
<1>22. ASSUME NEW author \in Authors, Replying, pc = "exhausted", StandIn(author)
       PROVE  RowsAgree' /\ Accounted'
  <2> DEFINE r == Row(FreshId, author, FALSE, FALSE, LastId, failures \cup {ChainExhausted})
  <2>1. /\ pc = "exhausted" /\ pc' = "replacing" /\ told' = told /\ failed' = failed
        /\ failures' = failures \cup {ChainExhausted} /\ Insert(r)
    BY <1>0, <1>22 DEF StandIn, wire
  <2>2. drive # 0 /\ told = "none" /\ (Replying \/ Asking)
    BY <1>0, <2>1 DEF StageInv, Standing, Working, Accounted
  <2>3. r \in AssistantRows
    BY <1>0, <2>1, <2>2, RowTypes
  <2>4. r.cut = FALSE /\ r.failures = failures \cup {ChainExhausted}
    BY DEF Row
  <2> HIDE DEF r
  <2>5. Answers = {} /\ failures \ {ChainExhausted} = failed
    BY <2>1 DEF Accounted, Undecided
  <2>6. (r.cut /\ ~Asking) => r.failures = {}
    BY <1>0, <2>1, <2>4 DEF Listed
  <2>7. /\ RowsAgree' /\ (\A i \in Answers' : rows'[i].failures = r.failures)
        /\ r.cut /\ ~Asking => Answers' = {}
    BY <1>0, <2>1, <2>3, <2>5, <2>6, RowsMore
  <2>8. \A i \in Answers' : rows'[i].failures = failures'
    BY <1>0, <2>1, <2>2, <2>4, <2>5, <2>7 DEF Listed
  <2>9. Accounted'
    BY <1>0, <2>1, <2>2, <2>4, <2>5, <2>7, <2>8 DEF Accounted, Concluded, Undecided
  <2> QED
    BY <2>7, <2>9
<1>23. CASE Exhausted
  <2>1. /\ rows' = rows /\ failures' = failures /\ failed' = failed /\ reported' = reported
        /\ pc = "exhausted" /\ pc' = "settling" /\ told' = "error"
    BY <1>0, <1>23 DEF Exhausted, stored, chain
  <2>2. RowsAgree'
    BY <1>0, <2>1, RowsKept
  <2>3. Accounted'
    BY <1>0, <2>1, RowsKept DEF Accounted, Concluded, Undecided
  <2> QED
    BY <2>2, <2>3
<1>24. CASE Replace
  <2>1. /\ rows' = rows /\ failures' = failures /\ failed' = failed /\ reported' = reported
        /\ pc = "replacing" /\ pc' = "over" /\ told' = told
    BY <1>0, <1>24 DEF Replace, stored, chain
  <2>2. RowsAgree'
    BY <1>0, <2>1, RowsKept
  <2>3. Accounted'
    BY <1>0, <2>1, RowsKept DEF Accounted, Concluded, Undecided
  <2> QED
    BY <2>2, <2>3
<1>25. CASE Final
  <2>1. /\ rows' = rows /\ failures' = failures /\ failed' = failed /\ reported' = failures
        /\ pc = "over" /\ pc' \in {"responding", "settling"} /\ told' = "final"
    BY <1>0, <1>25 DEF Final, stored, chain
  <2>2. RowsAgree'
    BY <1>0, <2>1, RowsKept
  <2>3. Accounted'
    BY <1>0, <2>1, RowsKept DEF Accounted, Concluded, Undecided
  <2> QED
    BY <2>2, <2>3
<1>26. CASE Settle
  <2>1. /\ rows' = rows /\ failures' = failures /\ failed' = failed /\ reported' = reported
        /\ pc' \in {"idle", "settling"} /\ told' = told
    BY <1>0, <1>26 DEF Settle, Fails, stored, wire, chain
  <2>2. RowsAgree'
    BY <1>0, <2>1, RowsKept
  <2>3. Accounted'
    BY <1>0, <2>1, RowsKept DEF Accounted, Concluded, Undecided
  <2> QED
    BY <2>2, <2>3
<1>27. CASE Timeout
  <2>1. /\ rows' = rows /\ failures' = failures /\ failed' = failed /\ reported' = reported
        /\ pc' \in {"idle", "settling"} /\ told' = told
    BY <1>0, <1>27 DEF Timeout, Fails, stored, wire, chain
  <2>2. RowsAgree'
    BY <1>0, <2>1, RowsKept
  <2>3. Accounted'
    BY <1>0, <2>1, RowsKept DEF Accounted, Concluded, Undecided
  <2> QED
    BY <2>2, <2>3
<1>28. CASE UNCHANGED vars
  <2>1. /\ rows' = rows /\ failures' = failures /\ failed' = failed /\ reported' = reported
        /\ pc' = pc /\ cut' = cut /\ told' = told
    BY <1>0, <1>28 DEF vars, stored, wire, attempt, chain
  <2>2. RowsAgree'
    BY <1>0, <2>1, RowsKept
  <2>3. Accounted'
    BY <1>0, <2>1, RowsKept DEF Accounted, Concluded, Undecided
  <2> QED
    BY <2>2, <2>3
<1>30. CASE HandOver
  <2>1. /\ rows' = rows /\ failures' = failures /\ failed' = failed /\ reported' = reported
        /\ pc' = "settling" /\ told' = told
    BY <1>0, <1>30 DEF HandOver, stored, wire, chain
  <2>2. RowsAgree'
    BY <1>0, <2>1, RowsKept
  <2>3. Accounted'
    BY <1>0, <2>1, RowsKept DEF Accounted, Concluded, Undecided
  <2> QED
    BY <2>2, <2>3
<1>29. CASE Salvage \/ PseudoGhost
  <2>1. garble # 0 => By(garble) \in Authors
    BY AuthorTypes DEF TypeOK
  <2> QED
    BY <1>22, <1>29, <2>1, AuthorTypes DEF Salvage, PseudoGhost
<1> QED
  BY <1>1, <1>2, <1>3, <1>4, <1>5, <1>6, <1>7, <1>8, <1>9, <1>10, <1>11, <1>12, <1>13, <1>14,
     <1>15, <1>16, <1>17, <1>18, <1>19, <1>20, <1>21, <1>23, <1>24, <1>25, <1>26, <1>27, <1>28,
     <1>29, <1>30 DEF Next


-----------------------------------------------------------------------------
(***************************************************************************)
(* While no insert fails, the rows are the bubbles                         *)
(***************************************************************************)

LEMMA MirrorSame ==
    ASSUME bubbles' = bubbles, rows' = rows
    PROVE  /\ Frames' = Frames /\ Current' = Current /\ Stored' = Stored /\ Newest' = Newest
           /\ LivePairs => LivePairs'
  BY DEF Frames, Current, Stored, Newest, LivePairs

LEMMA RowsLonger ==
    ASSUME Len(rows) \in Nat, NEW r, Longer(rows', rows, r)
    PROVE  /\ Stored' = Stored + 1 /\ Newest' = r
           /\ \A i \in 1..Stored : rows'[i] = rows[i]
  BY DEF Longer, Stored, Newest

LEMMA PairsLast ==
    ASSUME LivePairs, rows' = rows, Frames' = Frames,
           \A i \in 1..Frames : i # Frames => bubbles'[i] = bubbles[i],
           bubbles'[Frames].state # "open" => Tells(rows[Frames], bubbles'[Frames])
    PROVE  LivePairs'
<1>1. Stored' = Stored
  BY DEF Stored
<1>2. ASSUME NEW i \in 1..Frames, i <= Stored, bubbles'[i].state # "open"
      PROVE  Tells(rows'[i], bubbles'[i])
  <2>1. CASE i = Frames
    BY <1>2, <2>1
  <2>2. CASE i # Frames
    BY <1>2, <2>2 DEF LivePairs
  <2> QED
    BY <2>1, <2>2
<1> QED
  BY <1>1, <1>2 DEF LivePairs

LEMMA PairsMore ==
    ASSUME LivePairs, rows' = rows, Frames \in Nat, Frames' = Frames + 1,
           \A i \in 1..Frames : bubbles'[i] = bubbles[i],
           bubbles'[Frames + 1].state # "open" => Tells(rows[Frames + 1], bubbles'[Frames + 1])
    PROVE  LivePairs'
<1>1. Stored' = Stored
  BY DEF Stored
<1>2. ASSUME NEW i \in 1..(Frames + 1), i <= Stored, bubbles'[i].state # "open"
      PROVE  Tells(rows'[i], bubbles'[i])
  <2>1. CASE i = Frames + 1
    BY <1>2, <2>1
  <2>2. CASE i \in 1..Frames
    BY <1>2, <2>2 DEF LivePairs
  <2> QED
    BY <2>1, <2>2
<1> QED
  BY <1>1, <1>2 DEF LivePairs

LEMMA FaultsGrow ==
    ASSUME TypeOK, [Next]_vars, faults' = 0
    PROVE  faults = 0
<1>0. faults \in Nat /\ (\A r : Insert(r) => faults = 0)
  BY ChainFacts DEF TypeOK, Insert
<1>1. CASE Start
  BY <1>0, <1>1 DEF Start
<1>2. CASE AlreadyServed
  BY <1>0, <1>2 DEF AlreadyServed
<1>3. CASE Open
  BY <1>0, <1>3 DEF Open
<1>4. ASSUME NEW p \in Pieces, Chunk(p) PROVE faults = 0
  BY <1>0, <1>4 DEF Chunk
<1>5. CASE FinishCut
  BY <1>0, <1>5 DEF FinishCut
<1>6. CASE AttemptFails
  BY <1>0, <1>6 DEF AttemptFails
<1>7. CASE EndOfStream
  BY <1>0, <1>7 DEF EndOfStream
<1>8. CASE Persist
  BY <1>0, <1>8 DEF Persist
<1>9. CASE Done
  BY <1>0, <1>9 DEF Done, NextHop
<1>10. CASE EmptyBuffered
  BY <1>0, <1>10 DEF EmptyBuffered, NextHop
<1>11. CASE CutBuffered
  BY <1>0, <1>11 DEF CutBuffered, NextHop
<1>12. CASE ServeBuffered
  BY <1>0, <1>12 DEF ServeBuffered
<1>13. CASE FilterPassesHead
  BY <1>0, <1>13 DEF FilterPassesHead
<1>14. CASE FilterServes
  BY <1>0, <1>14 DEF FilterServes
<1>15. CASE Conclude
  BY <1>0, <1>15 DEF Conclude
<1>16. ASSUME NEW isFailure \in BOOLEAN, FilterAborts(isFailure) PROVE faults = 0
  BY <1>0, <1>16 DEF FilterAborts
<1>17. CASE Ghost
  BY <1>0, <1>17 DEF Ghost
<1>18. CASE ImageOnly
  BY <1>0, <1>18 DEF ImageOnly
<1>19. CASE AnswerGoesOn
  BY <1>0, <1>19 DEF AnswerGoesOn, NextHop
<1>20. CASE AnswerEnds
  BY <1>0, <1>20 DEF AnswerEnds
<1>21. CASE AnswerByPhrase
  BY <1>0, <1>21 DEF AnswerByPhrase
<1>22. ASSUME NEW author \in Authors, Replying, pc = "exhausted", StandIn(author)
       PROVE  faults = 0
  BY <1>0, <1>22 DEF StandIn
<1>23. CASE Exhausted
  BY <1>0, <1>23 DEF Exhausted
<1>24. CASE Replace
  BY <1>0, <1>24 DEF Replace
<1>25. CASE Final
  BY <1>0, <1>25 DEF Final
<1>26. CASE Settle
  BY <1>0, <1>26 DEF Settle, Fails
<1>27. CASE Timeout
  BY <1>0, <1>27 DEF Timeout, Fails
<1>28. CASE UNCHANGED vars
  BY <1>0, <1>28 DEF vars
<1>30. CASE HandOver
  BY <1>0, <1>30 DEF HandOver
<1>29. CASE Salvage \/ PseudoGhost
  <2>1. garble # 0 => By(garble) \in Authors
    BY AuthorTypes DEF TypeOK
  <2> QED
    BY <1>22, <1>29, <2>1, AuthorTypes DEF Salvage, PseudoGhost
<1> QED
  BY <1>1, <1>2, <1>3, <1>4, <1>5, <1>6, <1>7, <1>8, <1>9, <1>10, <1>11, <1>12, <1>13, <1>14,
     <1>15, <1>16, <1>17, <1>18, <1>19, <1>20, <1>21, <1>23, <1>24, <1>25, <1>26, <1>27, <1>28,
     <1>29, <1>30 DEF Next

LEMMA MirrorStep ==
    ASSUME TypeOK, StageInv, Chained, Standing, Speaker, faults = 0, faults' = 0,
           Counted, Paired, Pending, Silenced, [Next]_vars
    PROVE  Mirrored'
<1>0. /\ turn' = turn /\ (Live' <=> Live) /\ (Replying' <=> Replying) /\ (Asking' <=> Asking)
      /\ turn.filtered => Replying
      /\ Replying => ~Asking
      /\ Live <=> Replying /\ ~turn.filtered
      /\ turn.action \in {"ghost", "image"} => ~Replying /\ ~Asking
      /\ Frames \in Nat /\ (bubbles = <<>> <=> Frames = 0)
      /\ Stored \in Nat /\ Len(rows) \in Nat
      /\ cut \in BOOLEAN /\ ghost \in BOOLEAN /\ visible \in Authors
      /\ By(hop) \in Authors /\ By(hop) # Nobody
  BY PlanFacts, PlanKept, FrameFacts, AuthorTypes, NotEmpty DEF TypeOK, Stored
<1>1. CASE Start
  <2>1. /\ bubbles' = <<>> /\ rows' = rows /\ rows = <<>> /\ ghosted' = ghosted /\ told' = "none"
        /\ pc' = "open" /\ pc = "idle"
    BY <1>1 DEF Start, stored, Answered
  <2>2. Stored' = 0 /\ Frames' = 0
    BY <2>1 DEF Stored, Frames
  <2>3. LivePairs'
    BY <2>2 DEF LivePairs
  <2> QED
    BY <1>0, <2>1, <2>2, <2>3 DEF Mirrored, Counted, Paired, Pending, Silenced, Concluded, Undecided
<1>2. CASE AlreadyServed
  <2>1. /\ bubbles' = bubbles /\ rows' = rows /\ ghosted' = ghosted
        /\ pc = "idle" /\ pc' = pc /\ told' = told
    BY <1>0, <1>2 DEF AlreadyServed, wire, stored
  <2>2. /\ Frames' = Frames /\ Current' = Current /\ Stored' = Stored /\ Newest' = Newest
        /\ LivePairs => LivePairs'
    BY <2>1, MirrorSame
  <2> QED
    BY <1>0, <2>1, <2>2 DEF Mirrored, Counted, Paired, Pending, Silenced, Concluded, Undecided
<1>3. CASE Open
  <2>1. /\ pc = "open" /\ pc' = "reading" /\ drive' = drive /\ drive # 0 /\ (Replying \/ Asking)
        /\ rows' = rows /\ ghosted' = ghosted /\ told' = told /\ told = "none"
    BY <1>3 DEF Open, StageInv, Working, stored
  <2>2. Stored' = Stored
    BY <2>1 DEF Stored
  <2>3. CASE Live
    <3>1. bubbles' = Append(bubbles, Opened(FreshId, LastId)) /\ LastId \in Ids \cup {NoId}
      BY <1>3, <2>1, <2>3, IdTypes DEF Open
    <3>2. Frames # 0 => Current.state = "cut"
      BY <2>1, <2>3 DEF Standing
    <3>3. /\ Frames' = Frames + 1 /\ Current' = bubbles'[Frames + 1] /\ Current'.state = "open"
          /\ \A i \in 1..Frames : bubbles'[i] = bubbles[i]
      BY <1>0, <2>1, <2>3, <3>1, <3>2, FrameOpens
    <3>4. LivePairs'
      BY <1>0, <2>1, <2>2, <2>3, <3>3, PairsMore DEF Paired
    <3> QED
      BY <1>0, <2>1, <2>2, <2>3, <3>3, <3>4 DEF Mirrored, Counted, Paired, Pending, Silenced,
             Concluded, Undecided
  <2>4. CASE ~Live
    BY <1>0, <2>1, <2>2, <2>4 DEF Mirrored, Counted, Paired, Pending, Silenced, Concluded, Undecided
  <2> QED
    BY <2>3, <2>4
<1>4. ASSUME NEW p \in Pieces, Chunk(p) PROVE Mirrored'
  <2>1. /\ pc = "reading" /\ pc' = pc /\ drive' = drive
        /\ rows' = rows /\ ghosted' = ghosted /\ told' = told /\ told = "none"
    BY <1>4 DEF Chunk, StageInv, Working, stored
  <2>2. Stored' = Stored
    BY <2>1 DEF Stored
  <2>3. CASE bubbles' = bubbles
    <3>1. /\ Frames' = Frames /\ Current' = Current /\ Stored' = Stored /\ Newest' = Newest
          /\ LivePairs => LivePairs'
      BY <2>1, <2>3, MirrorSame
    <3> QED
      BY <1>0, <2>1, <3>1 DEF Mirrored, Counted, Paired, Pending, Silenced, Concluded, Undecided
  <2>4. CASE Live /\ bubbles' = OnLast(Said(Current, By(hop)))
    <3>1. Frames # 0 /\ Current.state = "open"
      BY <1>0, <2>1, <2>4 DEF Standing
    <3>2. /\ Frames' = Frames /\ Current' = bubbles'[Frames] /\ Current'.state = Current.state
          /\ \A i \in 1..Frames : i # Frames => bubbles'[i] = bubbles[i]
      BY <1>0, <2>1, <2>4, <3>1, FrameSays
    <3>3. LivePairs'
      BY <1>0, <2>1, <2>2, <2>4, <3>1, <3>2, PairsLast DEF Paired
    <3> QED
      BY <1>0, <2>1, <2>2, <2>4, <3>2, <3>3 DEF Mirrored, Counted, Paired, Pending, Silenced,
             Concluded, Undecided
  <2>5. CASE ~Live
    BY <1>0, <2>1, <2>2, <2>5 DEF Mirrored, Counted, Paired, Pending, Silenced, Concluded, Undecided
  <2>6. bubbles' = bubbles \/ bubbles' = OnLast(Said(Current, By(hop)))
    BY <1>4 DEF Chunk
  <2> QED
    BY <2>3, <2>4, <2>5, <2>6
<1>5. CASE FinishCut
  <2>1. /\ bubbles' = bubbles /\ rows' = rows /\ ghosted' = ghosted
        /\ pc = "reading" /\ pc' = "reading" /\ told' = told
    BY <1>0, <1>5 DEF FinishCut, stored, wire
  <2>2. /\ Frames' = Frames /\ Current' = Current /\ Stored' = Stored /\ Newest' = Newest
        /\ LivePairs => LivePairs'
    BY <2>1, MirrorSame
  <2> QED
    BY <1>0, <2>1, <2>2 DEF Mirrored, Counted, Paired, Pending, Silenced, Concluded, Undecided
<1>6. CASE AttemptFails
  <2>1. /\ bubbles' = bubbles /\ rows' = rows /\ ghosted' = ghosted
        /\ pc = "reading" /\ pc' = "read" /\ told' = told
    BY <1>0, <1>6 DEF AttemptFails, stored, wire
  <2>2. /\ Frames' = Frames /\ Current' = Current /\ Stored' = Stored /\ Newest' = Newest
        /\ LivePairs => LivePairs'
    BY <2>1, MirrorSame
  <2> QED
    BY <1>0, <2>1, <2>2 DEF Mirrored, Counted, Paired, Pending, Silenced, Concluded, Undecided
<1>7. CASE EndOfStream
  <2>1. /\ bubbles' = bubbles /\ rows' = rows /\ ghosted' = ghosted
        /\ pc = "reading" /\ pc' = "read" /\ told' = told
    BY <1>0, <1>7 DEF EndOfStream, stored, wire
  <2>2. /\ Frames' = Frames /\ Current' = Current /\ Stored' = Stored /\ Newest' = Newest
        /\ LivePairs => LivePairs'
    BY <2>1, MirrorSame
  <2> QED
    BY <1>0, <2>1, <2>2 DEF Mirrored, Counted, Paired, Pending, Silenced, Concluded, Undecided
<1>8. CASE Persist
  <2> DEFINE r == Row(Current.id, LiveText, Superseded, LiveGhost, Current.from, Listed)
  <2>1. /\ pc = "read" /\ pc' = "closing" /\ told' = told /\ bubbles' = bubbles /\ Insert(r) /\ Live
        /\ cut' = Superseded /\ ghost' = LiveGhost
    BY <1>8 DEF Persist, wire
  <2>2. drive # 0 /\ Frames # 0 /\ told = "none" /\ Current.state = "open"
    BY <1>0, <2>1 DEF StageInv, Standing, Working
  <2>3. r \in AssistantRows
    BY <1>0, <2>1, <2>2, RowTypes
  <2>4. /\ r.id = Current.id /\ r.text = LiveText /\ r.cut = Superseded /\ r.ghost = LiveGhost
        /\ r.from = Current.from
    BY DEF Row
  <2> HIDE DEF r
  <2>5. Stored = Frames - 1 /\ Frames \in 1..Frames /\ Current = bubbles[Frames]
    BY <1>0, <2>1, <2>2, FrameFacts DEF Counted
  <2>6. r.from = NoId \/ \E i \in 1..Len(rows) : rows[i].id = r.from
    <3>1. CASE Frames = 1
      BY <2>1, <2>4, <2>5, <3>1 DEF Chained
    <3>2. CASE Frames # 1
      <4>1. Frames - 1 \in 1..Frames /\ Frames - 1 # Frames /\ Frames > 1 /\ Frames - 1 <= Stored
        BY <1>0, <2>5, <3>2
      <4>2. /\ Current.from = <<drive, Frames - 1>>
            /\ bubbles[Frames - 1].id = <<drive, Frames - 1>>
            /\ bubbles[Frames - 1].state = "cut"
        BY <2>1, <2>5, <4>1 DEF Chained
      <4>3. Tells(rows[Frames - 1], bubbles[Frames - 1])
        BY <2>1, <4>1, <4>2 DEF Paired, LivePairs
      <4>4. rows[Frames - 1].id = r.from /\ Frames - 1 \in 1..Len(rows)
        BY <1>0, <2>4, <2>5, <4>1, <4>2, <4>3 DEF Tells, Mirrors, Stored
      <4> QED
        BY <4>4
    <3> QED
      BY <3>1, <3>2
  <2>7. /\ Stored' = Stored + 1 /\ Newest' = r /\ ghosted' = ghosted
        /\ \A i \in 1..Stored : rows'[i] = rows[i]
    BY <1>0, <2>1, <2>3, <2>6, Inserting, RowsLonger
  <2>8. Frames' = Frames /\ Current' = Current
    BY <2>1, FramesSame
  <2>9. LivePairs'
    <3> SUFFICES ASSUME NEW i \in 1..Frames, i <= Stored + 1, bubbles[i].state # "open"
                 PROVE  Tells(rows'[i], bubbles[i])
      BY <2>1, <2>7, <2>8 DEF LivePairs
    <3>1. i # Frames /\ i \in 1..Stored
      BY <1>0, <2>2, <2>5
    <3> QED
      BY <2>1, <2>7, <3>1 DEF Paired, LivePairs
  <2>10. ~Superseded => Speaks(r, Current)
    <3> SUFFICES ASSUME ~Superseded PROVE Current.by = {LiveText} \ {Nobody}
      BY <2>4 DEF Speaks
    <3>1. Current.by = IF acc \subseteq {"artifact"} THEN {} ELSE {By(hop)}
      BY <1>0, <2>1 DEF Speaker
    <3>2. LiveText = IF acc = {} \/ acc = {"artifact"} THEN Nobody ELSE By(hop)
      BY DEF LiveText, ArtifactOnly
    <3>3. acc = {} \/ acc = {"artifact"} <=> acc \subseteq {"artifact"}
      OBVIOUS
    <3> QED
      BY <1>0, <3>1, <3>2, <3>3
  <2>11. Pending'
    BY <1>0, <2>1, <2>4, <2>7, <2>8, <2>10 DEF Pending
  <2>12. Stored' = Frames'
    BY <1>0, <2>5, <2>7, <2>8
  <2> QED
    BY <1>0, <2>1, <2>2, <2>7, <2>9, <2>11, <2>12 DEF Mirrored, Counted, Paired, Silenced,
           Concluded,
       Undecided
<1>9. CASE Done
  <2>1. /\ pc = "closing" /\ drive' = drive /\ rows' = rows /\ ghosted' = ghosted /\ told' = told
        /\ \/ pc' = "over" /\ (~cut \/ Asking)
           \/ pc' \in {"exhausted", "open"} /\ cut /\ Live
        /\ bubbles' = OnLast(Closed(Current, cut, ghost))
    BY <1>9 DEF Done, stored
  <2>2. Frames # 0 /\ told = "none" /\ (Replying \/ Asking)
    BY <2>1 DEF Standing, StageInv, Working
  <2>3. /\ Frames' = Frames /\ Current' = bubbles'[Frames] /\ Current'.id = Current.id
        /\ Current'.by = Current.by /\ Current'.state = (IF cut THEN "cut" ELSE "served")
        /\ Current'.ghost = ghost /\ Current'.from = Current.from
        /\ \A i \in 1..Frames : i # Frames => bubbles'[i] = bubbles[i]
    BY <1>0, <2>1, <2>2, FrameCloses
  <2>4. Stored' = Stored /\ Newest' = Newest
    BY <2>1 DEF Stored, Newest
  <2>5. /\ Mirrors(Newest, Current')
        /\ (~cut \/ Asking => Speaks(Newest, Current')) /\ Newest.cut = cut
    BY <2>1, <2>3 DEF Pending, Mirrors, Speaks
  <2>6. CASE Live
    <3>1. Tells(rows[Frames], bubbles'[Frames]) /\ Stored = Frames
      BY <2>1, <2>3, <2>5, <2>6 DEF Counted, Newest, Tells
    <3>2. LivePairs'
      BY <1>0, <2>1, <2>3, <2>4, <2>6, <3>1, PairsLast DEF Paired
    <3> QED
      BY <1>0, <2>1, <2>2, <2>3, <2>4, <2>6, <3>1, <3>2 DEF Mirrored, Counted, Paired, Pending,
             Silenced, Concluded, Undecided
  <2>7. CASE ~Live
    BY <1>0, <2>1, <2>2, <2>4, <2>5, <2>7 DEF Mirrored, Counted, Paired, Pending, Silenced,
           Concluded, Undecided
  <2> QED
    BY <2>6, <2>7
<1>10. CASE EmptyBuffered
  <2> DEFINE r == Row(FreshId, Nobody, FALSE, ~PromisesImage, NoId, failures)
  <2>1. /\ pc = "read" /\ told' = told /\ told = "none" /\ drive' = drive /\ drive # 0
        /\ Replying /\ ~Live /\ Frames = 0 /\ NoId \in Ids \cup {NoId}
    BY <1>0, <1>10 DEF EmptyBuffered, StageInv, Working, Standing
  <2>2. Stored = 0
    BY <2>1 DEF Counted, Undecided
  <2>3. CASE pc' = "open" /\ rows' = rows /\ ghosted' = ghosted
    <3>1. Stored' = Stored
      BY <2>3 DEF Stored
    <3> QED
      BY <1>0, <2>1, <2>2, <2>3, <3>1 DEF Mirrored, Counted, Paired, Pending, Silenced, Concluded,
             Undecided
  <2>4. CASE /\ pc' = "closing" /\ Insert(r) /\ ghost' = ~PromisesImage /\ cut' = FALSE
             /\ bubbles' = Append(bubbles, Opened(FreshId, NoId))
    <3>1. r \in AssistantRows
      BY <2>1, RowTypes
    <3>2. /\ r.id = FreshId /\ r.text = Nobody /\ r.cut = FALSE /\ r.from = NoId
          /\ r.ghost = ~PromisesImage
      BY DEF Row
    <3>3. Insert(r)
      BY <2>4
    <3> HIDE DEF r
    <3>4. Stored' = Stored + 1 /\ Newest' = r /\ ghosted' = ghosted
      BY <1>0, <3>1, <3>2, <3>3, Inserting, RowsLonger
    <3>5. Current'.id = FreshId /\ Current'.by = {} /\ Current'.from = NoId
      BY <1>0, <2>1, <2>4, FrameOpens
    <3>6. Speaks(r, Current')
      BY <3>2, <3>5 DEF Speaks
    <3>7. Pending'
      BY <1>0, <2>4, <3>2, <3>4, <3>5, <3>6 DEF Pending
    <3> QED
      BY <1>0, <2>1, <2>2, <2>4, <3>4, <3>7 DEF Mirrored, Counted, Paired, Silenced, Concluded,
       Undecided
  <2>5. \/ pc' = "open" /\ rows' = rows /\ ghosted' = ghosted
        \/ /\ pc' = "closing" /\ Insert(r) /\ ghost' = ~PromisesImage /\ cut' = cut /\ ~cut
           /\ bubbles' = Append(bubbles, Opened(FreshId, NoId))
    BY <1>10 DEF EmptyBuffered, Empty, stored, attempt
  <2> HIDE DEF r
  <2> QED
    BY <1>0, <2>3, <2>4, <2>5
<1>11. CASE CutBuffered
  <2>1. /\ bubbles' = bubbles /\ rows' = rows /\ ghosted' = ghosted
        /\ pc = "read" /\ ~Live /\ pc' \in {"open", "exhausted"} /\ told' = told
    BY <1>0, <1>11 DEF CutBuffered, stored, wire
  <2>2. /\ Frames' = Frames /\ Current' = Current /\ Stored' = Stored /\ Newest' = Newest
        /\ LivePairs => LivePairs'
    BY <2>1, MirrorSame
  <2> QED
    BY <1>0, <2>1, <2>2 DEF Mirrored, Counted, Paired, Pending, Silenced, Concluded, Undecided
<1>12. CASE ServeBuffered
  <2>1. /\ pc = "read" /\ pc' \in {"filtering", "concluding"} /\ rows' = rows /\ ghosted' = ghosted
        /\ told' = told /\ told = "none" /\ ~Live
    BY <1>0, <1>12 DEF ServeBuffered, StageInv, Working, stored
  <2>2. Stored' = Stored
    BY <2>1 DEF Stored
  <2> QED
    BY <1>0, <2>1, <2>2 DEF Mirrored, Counted, Paired, Pending, Silenced, Concluded, Undecided
<1>13. CASE FilterPassesHead
  <2>1. /\ pc = "filtering" /\ pc' = pc /\ rows' = rows /\ ghosted' = ghosted
        /\ told' = told /\ told = "none" /\ ~Live
    BY <1>0, <1>13 DEF FilterPassesHead, StageInv, Working, stored
  <2>2. Stored' = Stored
    BY <2>1 DEF Stored
  <2> QED
    BY <1>0, <2>1, <2>2 DEF Mirrored, Counted, Paired, Pending, Silenced, Concluded, Undecided
<1>14. CASE FilterServes
  <2>1. /\ pc = "filtering" /\ pc' = "concluding" /\ rows' = rows /\ ghosted' = ghosted
        /\ told' = told /\ told = "none" /\ ~Live
    BY <1>0, <1>14 DEF FilterServes, StageInv, Working, stored
  <2>2. Stored' = Stored
    BY <2>1 DEF Stored
  <2> QED
    BY <1>0, <2>1, <2>2 DEF Mirrored, Counted, Paired, Pending, Silenced, Concluded, Undecided
<1>15. CASE Conclude
  <2> DEFINE r == Row(Current.id, visible, FALSE, visible = Nobody /\ ~PromisesImage, NoId,
                      failures)
  <2>1. /\ pc = "concluding" /\ ~cut /\ pc' = "closing" /\ drive' = drive /\ Insert(r)
        /\ told' = told /\ told = "none" /\ drive # 0 /\ ~Live /\ turn.action # "ghost"
        /\ Frames # 0
        /\ cut' = cut /\ ghost' = (visible = Nobody /\ ~PromisesImage)
        /\ bubbles' = OnLast(Said(Current, visible))
    BY <1>0, <1>15, AuthorTypes DEF Conclude, attempt, StageInv, Working, Standing
  <2>2. r \in AssistantRows
    BY <2>1, RowTypes
  <2>3. /\ r.id = Current.id /\ r.text = visible /\ r.cut = FALSE /\ r.from = NoId
        /\ r.ghost = (visible = Nobody /\ ~PromisesImage)
    BY DEF Row
  <2> HIDE DEF r
  <2>4. Stored' = Stored + 1 /\ Newest' = r /\ ghosted' = ghosted
    BY <1>0, <2>1, <2>2, <2>3, Inserting, RowsLonger
  <2>5. Stored = 0 /\ Current.from = NoId
    BY <1>0, <2>1, FrameFacts DEF Counted, Undecided, Chained
  <2>6. /\ Current'.id = Current.id /\ Current'.by = Current.by \cup ({visible} \ {Nobody})
        /\ Current'.from = Current.from
    BY <1>0, <2>1, FrameSays
  <2>7. Speaks(r, Current')
    BY <1>0, <2>1, <2>3, <2>6 DEF Speaks, Speaker
  <2>8. Pending'
    BY <1>0, <2>1, <2>3, <2>4, <2>5, <2>6, <2>7 DEF Pending
  <2> QED
    BY <1>0, <2>1, <2>4, <2>5, <2>8 DEF Mirrored, Counted, Paired, Silenced, Concluded,
       Undecided
<1>16. ASSUME NEW isFailure \in BOOLEAN, FilterAborts(isFailure) PROVE Mirrored'
  <2>1. /\ pc = "filtering" /\ pc' \in {"filtering", "concluding"} /\ rows' = rows
        /\ ghosted' = ghosted
        /\ told' = told /\ told = "none" /\ ~Live
    BY <1>0, <1>16 DEF FilterAborts, StageInv, Working, stored
  <2>2. Stored' = Stored
    BY <2>1 DEF Stored
  <2> QED
    BY <1>0, <2>1, <2>2 DEF Mirrored, Counted, Paired, Pending, Silenced, Concluded, Undecided
<1>17. CASE Ghost
  <2>1. /\ pc = "open" /\ pc' = "over" /\ rows' = rows /\ ghosted' /\ told' = told
        /\ turn.action = "ghost" /\ ~Live
    BY <1>0, <1>17 DEF Ghost
  <2>2. Stored' = Stored /\ Stored = 0
    BY <2>1 DEF Stored, Silenced
  <2> QED
    BY <1>0, <2>1, <2>2 DEF Mirrored, Counted, Paired, Pending, Silenced, Concluded, Undecided
<1>18. CASE ImageOnly
  <2> DEFINE r == Row(FreshId, Nobody, FALSE, FALSE, NoId, {})
  <2>1. /\ pc = "open" /\ pc' = "over" /\ drive' = drive /\ Insert(r) /\ told' = told
        /\ told = "none"
        /\ drive # 0 /\ ~Replying /\ ~Asking /\ Frames = 0 /\ turn.action = "image"
        /\ bubbles' = <<Closed(Opened(FreshId, NoId), FALSE, FALSE)>>
    BY <1>0, <1>18 DEF ImageOnly, StageInv, Working, Standing
  <2>2. r \in AssistantRows
    BY <2>1, RowTypes
  <2>3. r.id = FreshId /\ r.text = Nobody /\ r.cut = FALSE /\ r.ghost = FALSE /\ r.from = NoId
    BY DEF Row
  <2> HIDE DEF r
  <2>4. Stored' = Stored + 1 /\ Newest' = r /\ ghosted' = ghosted
    BY <1>0, <2>1, <2>2, <2>3, Inserting, RowsLonger
  <2>5. Stored = 0
    BY <1>0, <2>1 DEF Counted, Undecided
  <2>6. /\ Current'.id = FreshId /\ Current'.by = {} /\ Current'.state = "served"
        /\ Current'.ghost = FALSE /\ Current'.from = NoId
    BY <1>0, <2>1, FrameAlone
  <2>7. Mirrors(r, Current') /\ Speaks(r, Current')
    BY <2>3, <2>6 DEF Mirrors, Speaks
  <2> QED
    BY <1>0, <2>1, <2>4, <2>5, <2>7 DEF Mirrored, Counted, Paired, Pending, Silenced, Concluded,
           Undecided
<1>19. CASE AnswerGoesOn
  <2>1. /\ bubbles' = bubbles /\ rows' = rows /\ ghosted' = ghosted
        /\ pc = "read" /\ ~Live /\ pc' \in {"open", "exhausted"} /\ told' = told
    BY <1>0, <1>19 DEF AnswerGoesOn, stored, wire
  <2>2. /\ Frames' = Frames /\ Current' = Current /\ Stored' = Stored /\ Newest' = Newest
        /\ LivePairs => LivePairs'
    BY <2>1, MirrorSame
  <2> QED
    BY <1>0, <2>1, <2>2 DEF Mirrored, Counted, Paired, Pending, Silenced, Concluded, Undecided
<1>20. CASE AnswerEnds
  <2> DEFINE r == Row(Current.id, By(hop), cut, FALSE, NoId, failures)
  <2>1. /\ pc = "read" /\ Asking /\ acc # {} /\ pc' = "closing" /\ drive' = drive /\ Insert(r)
        /\ told' = told /\ told = "none" /\ drive # 0 /\ ~Live /\ turn.action # "ghost"
        /\ Frames # 0
        /\ cut' = cut /\ ghost' = ghost /\ ghost = FALSE /\ bubbles' = bubbles
        /\ Current.by = {By(hop)}
    BY <1>0, <1>20, AuthorTypes DEF AnswerEnds, wire, attempt, outcome, Speaker, StageInv, Working,
           Standing
  <2>2. r \in AssistantRows
    BY <2>1, RowTypes
  <2>3. /\ r.id = Current.id /\ r.text = By(hop) /\ r.cut = cut /\ r.from = NoId /\ r.ghost = FALSE
    BY DEF Row
  <2> HIDE DEF r
  <2>4. Stored' = Stored + 1 /\ Newest' = r /\ ghosted' = ghosted
    BY <1>0, <2>1, <2>2, <2>3, Inserting, RowsLonger
  <2>5. Stored = 0 /\ Current.from = NoId
    BY <1>0, <2>1, FrameFacts DEF Counted, Undecided, Chained
  <2>6. Current' = Current
    BY <1>0, <2>1, FramesSame
  <2>7. Speaks(r, Current')
    BY <1>0, <2>1, <2>3, <2>6 DEF Speaks, Speaker
  <2>8. Pending'
    BY <1>0, <2>1, <2>3, <2>4, <2>5, <2>6, <2>7 DEF Pending
  <2> QED
    BY <1>0, <2>1, <2>4, <2>5, <2>8 DEF Mirrored, Counted, Paired, Silenced, Concluded,
       Undecided
<1>21. CASE AnswerByPhrase
  <2> DEFINE r == Row(Current.id, Phrase, FALSE, FALSE, NoId, failures \cup {ChainExhausted})
  <2>a. /\ pc = "exhausted" /\ Asking /\ pc' = "closing" /\ drive' = drive /\ Insert(r)
        /\ told' = told /\ cut' = FALSE /\ ghost' = ghost
        /\ bubbles' = OnLast(Said(Current, Phrase))
    BY <1>21 DEF AnswerByPhrase, outcome
  <2> HIDE DEF r
  <2>b. told = "none" /\ drive # 0 /\ Frames # 0
    BY <2>a DEF StageInv, Working, Standing
  <2>c. Current.by = {} /\ ghost = FALSE
    BY <1>0, <2>a, <2>b DEF Speaker, StageInv
  <2> USE DEF r
  <2>1. /\ pc = "exhausted" /\ Asking /\ pc' = "closing" /\ drive' = drive /\ Insert(r)
        /\ told' = told /\ told = "none" /\ drive # 0 /\ ~Live /\ turn.action # "ghost"
        /\ Frames # 0
        /\ cut' = FALSE /\ ghost' = ghost /\ ghost = FALSE /\ Phrase \in Authors /\ Current.by = {}
        /\ bubbles' = OnLast(Said(Current, Phrase))
    BY <1>0, <2>a, <2>b, <2>c, AuthorTypes
  <2>2. r \in AssistantRows
    BY <2>1, RowTypes
  <2>3. /\ r.id = Current.id /\ r.text = Phrase /\ r.cut = FALSE /\ r.from = NoId /\ r.ghost = FALSE
    BY DEF Row
  <2> HIDE DEF r
  <2>4. Stored' = Stored + 1 /\ Newest' = r /\ ghosted' = ghosted
    BY <1>0, <2>1, <2>2, <2>3, Inserting, RowsLonger
  <2>5. Stored = 0 /\ Current.from = NoId
    BY <1>0, <2>1, FrameFacts DEF Counted, Undecided, Chained
  <2>6. /\ Current'.id = Current.id /\ Current'.by = Current.by \cup ({Phrase} \ {Nobody})
        /\ Current'.from = Current.from
    BY <1>0, <2>1, FrameSays
  <2>7. Speaks(r, Current')
    BY <1>0, <2>1, <2>3, <2>6 DEF Speaks, Speaker
  <2>8. Pending'
    BY <1>0, <2>1, <2>3, <2>4, <2>5, <2>6, <2>7 DEF Pending
  <2> QED
    BY <1>0, <2>1, <2>4, <2>5, <2>8 DEF Mirrored, Counted, Paired, Silenced, Concluded,
       Undecided
<1>22. ASSUME NEW author \in Authors, Replying, pc = "exhausted", StandIn(author)
       PROVE  Mirrored'
  <2> DEFINE r == Row(FreshId, author, FALSE, FALSE, LastId, failures \cup {ChainExhausted})
  <2>1. /\ pc = "exhausted" /\ pc' = "replacing" /\ drive' = drive /\ Insert(r)
        /\ bubbles' = bubbles
        /\ told' = told /\ told = "none" /\ drive # 0 /\ Replying /\ visible' = author
        /\ turn.action # "ghost"
    BY <1>0, <1>22 DEF StandIn, wire, StageInv, Working
  <2>2. r \in AssistantRows
    BY <1>22, <2>1, RowTypes
  <2>3. /\ r.id = FreshId /\ r.text = author /\ r.cut = FALSE /\ r.ghost = FALSE
        /\ r.from = LastId
    BY DEF Row
  <2> HIDE DEF r
  <2>4. r.from = NoId \/ \E i \in 1..Len(rows) : rows[i].id = r.from
    <3>1. CASE Frames = 0
      BY <1>0, <2>3, <3>1 DEF LastId
    <3>2. CASE Frames # 0
      <4>1. Live
        BY <1>0, <2>1, <3>2 DEF Standing
      <4>2. /\ Stored = Frames /\ Current.state = "cut"
            /\ Frames \in 1..Frames /\ Current = bubbles[Frames]
        BY <1>0, <2>1, <3>2, <4>1, FrameFacts DEF Counted, Standing
      <4>3. Tells(rows[Frames], Current)
        BY <1>0, <4>1, <4>2 DEF Paired, LivePairs
      <4>4. rows[Frames].id = r.from /\ Frames \in 1..Len(rows)
        BY <1>0, <2>3, <3>2, <4>2, <4>3 DEF LastId, Tells, Mirrors, Stored
      <4> QED
        BY <4>4
    <3> QED
      BY <3>1, <3>2
  <2>5. /\ Stored' = Stored + 1 /\ Newest' = r /\ ghosted' = ghosted
        /\ \A i \in 1..Stored : rows'[i] = rows[i]
    BY <1>0, <2>1, <2>2, <2>4, Inserting, RowsLonger
  <2>6. Frames' = Frames /\ FreshId' = FreshId /\ LastId' = LastId
    BY <2>1 DEF Frames, FreshId, LastId, Current
  <2>7. Pending'
    BY <2>1, <2>3, <2>5, <2>6 DEF Pending
  <2>8. Live => Stored = Frames
    BY <2>1 DEF Counted
  <2>9. ~Live => Stored = 0
    BY <2>1 DEF Counted, Undecided
  <2>10. Live => LivePairs'
    <3> SUFFICES ASSUME Live, NEW i \in 1..Frames, bubbles[i].state # "open"
                 PROVE  Tells(rows'[i], bubbles[i])
      BY <2>1, <2>6 DEF LivePairs
    <3>1. i \in 1..Stored /\ i <= Stored
      BY <1>0, <2>8
    <3> QED
      BY <2>5, <3>1 DEF Paired, LivePairs
  <2> QED
    BY <1>0, <2>1, <2>5, <2>6, <2>7, <2>8, <2>9, <2>10
    DEF Mirrored, Counted, Paired, Silenced, Concluded,
       Undecided
<1>23. CASE Exhausted
  <2>1. /\ bubbles' = bubbles /\ rows' = rows /\ ghosted' = ghosted
        /\ pc = "exhausted" /\ pc' = "settling" /\ told' = "error"
    BY <1>0, <1>23 DEF Exhausted, stored
  <2>2. /\ Frames' = Frames /\ Current' = Current /\ Stored' = Stored /\ Newest' = Newest
        /\ LivePairs => LivePairs'
    BY <2>1, MirrorSame
  <2> QED
    BY <1>0, <2>1, <2>2 DEF Mirrored, Counted, Paired, Pending, Silenced, Concluded, Undecided
<1>24. CASE Replace
  <2>1. /\ pc = "replacing" /\ pc' = "over" /\ drive' = drive /\ rows' = rows
        /\ ghosted' = ghosted /\ told' = told /\ told = "none"
        /\ drive # 0 /\ Replying /\ visible \in Authors /\ (Live \/ Frames = 0)
        /\ Frames # 0 => Current.state = "cut"
        /\ bubbles' = Append(bubbles,
                        Closed(Said(Opened(FreshId, LastId), visible), FALSE, FALSE))
    BY <1>0, <1>24 DEF Replace, StageInv, Working, Standing, stored
  <2>2. /\ Frames' = Frames + 1 /\ Current' = bubbles'[Frames + 1]
        /\ Current'.id = FreshId /\ Current'.by = {visible} \ {Nobody} /\ Current'.state = "served"
        /\ Current'.ghost = FALSE /\ Current'.from = LastId
        /\ \A i \in 1..Frames : bubbles'[i] = bubbles[i]
    BY <1>0, <2>1, FrameShown
  <2>3. Stored' = Stored /\ Newest' = Newest
    BY <2>1 DEF Stored, Newest
  <2>4. Mirrors(Newest, Current') /\ Speaks(Newest, Current')
    BY <2>1, <2>2 DEF Pending, Mirrors, Speaks
  <2>5. CASE Live
    <3>1. Stored = Frames + 1
      BY <2>1, <2>5 DEF Counted
    <3>2. Tells(rows[Frames + 1], bubbles'[Frames + 1])
      BY <2>2, <2>4, <3>1 DEF Newest, Tells
    <3>3. LivePairs'
      BY <1>0, <2>1, <2>2, <2>3, <2>5, <3>2, PairsMore DEF Paired
    <3> QED
      BY <1>0, <2>1, <2>2, <2>3, <2>5, <3>1, <3>3 DEF Mirrored, Counted, Paired, Pending, Silenced,
             Concluded, Undecided
  <2>6. CASE ~Live
    BY <1>0, <2>1, <2>3, <2>4, <2>6 DEF Mirrored, Counted, Paired, Pending, Silenced, Concluded,
           Undecided
  <2> QED
    BY <2>5, <2>6
<1>25. CASE Final
  <2>1. /\ bubbles' = bubbles /\ rows' = rows /\ ghosted' = ghosted
        /\ pc = "over" /\ pc' \in {"responding", "settling"} /\ told' = "final"
    BY <1>0, <1>25 DEF Final, stored
  <2>2. /\ Frames' = Frames /\ Current' = Current /\ Stored' = Stored /\ Newest' = Newest
        /\ LivePairs => LivePairs'
    BY <2>1, MirrorSame
  <2> QED
    BY <1>0, <2>1, <2>2 DEF Mirrored, Counted, Paired, Pending, Silenced, Concluded, Undecided
<1>26. CASE Settle
  <2>1. /\ bubbles' = bubbles /\ rows' = rows /\ ghosted' = ghosted
        /\ pc' \in {"idle", "settling"} /\ told' = told
    BY <1>0, <1>26 DEF Settle, Fails, stored, wire
  <2>2. /\ Frames' = Frames /\ Current' = Current /\ Stored' = Stored /\ Newest' = Newest
        /\ LivePairs => LivePairs'
    BY <2>1, MirrorSame
  <2> QED
    BY <1>0, <2>1, <2>2 DEF Mirrored, Counted, Paired, Pending, Silenced, Concluded, Undecided
<1>27. CASE Timeout
  <2>1. /\ bubbles' = bubbles /\ rows' = rows /\ ghosted' = ghosted
        /\ pc' \in {"idle", "settling"} /\ told' = told
    BY <1>0, <1>27 DEF Timeout, Fails, stored, wire
  <2>2. /\ Frames' = Frames /\ Current' = Current /\ Stored' = Stored /\ Newest' = Newest
        /\ LivePairs => LivePairs'
    BY <2>1, MirrorSame
  <2> QED
    BY <1>0, <2>1, <2>2 DEF Mirrored, Counted, Paired, Pending, Silenced, Concluded, Undecided
<1>28. CASE UNCHANGED vars
  <2>1. /\ bubbles' = bubbles /\ rows' = rows /\ ghosted' = ghosted
        /\ pc' = pc /\ told' = told /\ cut' = cut /\ ghost' = ghost /\ visible' = visible
        /\ FreshId' = FreshId /\ LastId' = LastId
    BY <1>0, <1>28 DEF vars, stored, wire, attempt, outcome, chain, FreshId, LastId, Current
  <2>2. /\ Frames' = Frames /\ Current' = Current /\ Stored' = Stored /\ Newest' = Newest
        /\ LivePairs => LivePairs'
    BY <2>1, MirrorSame
  <2> QED
    BY <1>0, <2>1, <2>2 DEF Mirrored, Counted, Paired, Pending, Silenced, Concluded, Undecided
<1>30. CASE HandOver
  <2>1. /\ bubbles' = bubbles /\ rows' = rows /\ ghosted' = ghosted
        /\ pc = "responding" /\ pc' = "settling" /\ told' = told
    BY <1>0, <1>30 DEF HandOver, stored, wire
  <2>2. /\ Frames' = Frames /\ Current' = Current /\ Stored' = Stored /\ Newest' = Newest
        /\ LivePairs => LivePairs'
    BY <2>1, MirrorSame
  <2> QED
    BY <1>0, <2>1, <2>2 DEF Mirrored, Counted, Paired, Pending, Silenced, Concluded, Undecided
<1>29. CASE Salvage \/ PseudoGhost
  <2>1. garble # 0 => By(garble) \in Authors
    BY AuthorTypes DEF TypeOK
  <2> QED
    BY <1>22, <1>29, <2>1, AuthorTypes DEF Salvage, PseudoGhost
<1> QED
  BY <1>1, <1>2, <1>3, <1>4, <1>5, <1>6, <1>7, <1>8, <1>9, <1>10, <1>11, <1>12, <1>13, <1>14,
     <1>15, <1>16, <1>17, <1>18, <1>19, <1>20, <1>21, <1>23, <1>24, <1>25, <1>26, <1>27, <1>28,
     <1>29, <1>30 DEF Next

-----------------------------------------------------------------------------
(***************************************************************************)
(* The invariant                                                           *)
(***************************************************************************)

LEMMA BurstInitially == Init => BurstInv
<1> SUFFICES ASSUME Init PROVE BurstInv
  OBVIOUS
<1>1. /\ rows = <<>> /\ bubbles = <<>> /\ produced = <<>> /\ turn \in Plans
      /\ told = "none" /\ pc = "idle" /\ verdict = "open"
      /\ reported = {} /\ failures = {} /\ failed = {} /\ learned = {} /\ acc = {}
      /\ pictured = NoId /\ visible = Nobody
      /\ drive = 0 /\ garble = 0 /\ faults = 0 /\ hop = 1 /\ filterHop = 1
      /\ cut = FALSE /\ go = FALSE /\ ghost = FALSE /\ ghosted = FALSE
  BY DEF Init
<1>2. TypeOK
  <2>1. <<>> \in Seq(AssistantRows) /\ <<>> \in Seq(Bubbles) /\ <<>> \in Seq(Ids)
    BY EmptySeq
  <2>2. ScalarsOK
    <3>1. /\ 0 \in 0..MaxDrives /\ 0 \in 0..MaxFaults /\ 0 \in Hops \cup {0}
          /\ 1 \in Hops /\ 1 \in FilterHops /\ Nobody \in Authors
          /\ NoId \in Ids \cup {NoId}
      BY ChainFacts, AuthorTypes
    <3>2. /\ turn \in Plans /\ ghosted \in BOOLEAN /\ told \in {"none", "final", "error"}
          /\ reported \subseteq Failures /\ pictured \in Ids \cup {NoId}
          /\ drive \in 0..MaxDrives /\ pc \in Working \cup {"responding", "idle", "settling"}
      BY <1>1, <3>1
    <3>3. /\ hop \in Hops /\ filterHop \in FilterHops /\ garble \in Hops \cup {0}
          /\ acc \subseteq Pieces /\ cut \in BOOLEAN /\ go \in BOOLEAN /\ ghost \in BOOLEAN
          /\ visible \in Authors
      BY <1>1, <3>1
    <3>4. /\ failures \subseteq Failures /\ failed \subseteq Failures /\ learned \subseteq Ids
          /\ verdict \in {"open", "done", "failed"} /\ faults \in 0..MaxFaults
      BY <1>1, <3>1
    <3> QED
      BY <3>2, <3>3, <3>4 DEF ScalarsOK
  <2> QED
    BY <1>1, <2>1, <2>2, TypeParts
<1>3. Frames = 0 /\ Stored = 0 /\ DOMAIN rows = {} /\ Answers = {}
  <2>1. Frames = 0 /\ Stored = 0
    BY <1>1 DEF Frames, Stored
  <2>2. DOMAIN rows = {}
    BY <1>1
  <2> QED
    BY <2>1, <2>2 DEF Answers
<1>4. StageInv
  BY <1>1 DEF StageInv, Working, Undecided
<1>5. FrameInv
  BY <1>1, <1>3 DEF FrameInv, Chained, Standing, Concluded
<1>6. VoiceInv
  BY <1>1, <1>3 DEF VoiceInv, Voices, Speaker
<1>7. ProducedInv
  BY <1>1, PlanFacts, <1>2 DEF ProducedInv, Attempts, Offered, Taught, Undecided
<1>8. RowInv
  BY <1>1, <1>3 DEF RowInv, RowsAgree, Accounted, Concluded, Undecided
<1>9. MirrorInv
  BY <1>1, <1>3 DEF MirrorInv, Mirrored, Counted, Paired, LivePairs, Pending, Silenced, Concluded,
     Undecided
<1> QED
  BY <1>2, <1>4, <1>5, <1>6, <1>7, <1>8, <1>9 DEF BurstInv

LEMMA BurstStep == BurstInv /\ [Next]_vars => BurstInv'
<1> SUFFICES ASSUME BurstInv, [Next]_vars PROVE BurstInv'
  OBVIOUS
<1>1. /\ TypeOK /\ StageInv /\ FrameInv /\ VoiceInv /\ ProducedInv /\ RowInv /\ MirrorInv
      /\ Chained /\ Standing /\ Voices /\ Speaker /\ Attempts /\ Offered /\ Taught
      /\ RowsAgree /\ Accounted
  BY DEF BurstInv, FrameInv, VoiceInv, ProducedInv, RowInv
<1>2. TypeOK' /\ StageInv'
  BY <1>1, TypeStep, StageStep
<1>3. FrameInv'
  BY <1>1, FrameStep DEF FrameInv
<1>4. VoiceInv'
  BY <1>1, VoiceStep DEF VoiceInv
<1>5. ProducedInv'
  BY <1>1, ProducedStep DEF ProducedInv
<1>6. RowInv'
  BY <1>1, RowStep DEF RowInv
<1>7. MirrorInv'
  <2> SUFFICES ASSUME faults' = 0 PROVE Mirrored'
    BY DEF MirrorInv
  <2>1. faults = 0 /\ Mirrored
    BY <1>1, FaultsGrow DEF MirrorInv
  <2>2. Counted /\ Paired /\ Pending /\ Silenced
    BY <2>1 DEF Mirrored
  <2> QED
    BY <1>1, <2>1, <2>2, MirrorStep
<1> QED
  BY <1>2, <1>3, <1>4, <1>5, <1>6, <1>7 DEF BurstInv

LEMMA BurstInvariance == Spec => []BurstInv
<1>1. Init => BurstInv
  BY BurstInitially
<1>2. BurstInv /\ [Next]_vars => BurstInv'
  BY BurstStep
<1> QED
  BY <1>1, <1>2, PTL DEF Spec

-----------------------------------------------------------------------------
(***************************************************************************)
(* What the turn promises                                                  *)
(***************************************************************************)

\* Rows, frames and the state of a drive have their types, whatever the chain,
\* the plan and the failed inserts.
THEOREM TypeCorrectness == Spec => []TypeOK
<1>1. BurstInv => TypeOK
  BY DEF BurstInv
<1> QED
  BY <1>1, BurstInvariance, PTL

\* Over all the drives of a turn at most one stored row answers it: a superseded
\* attempt does not, and a turn with any row is never driven again.
THEOREM AnsweredOnce == Spec => []OneAnswer
<1>1. BurstInv => OneAnswer
  <2> SUFFICES ASSUME BurstInv PROVE Cardinality(Answers) <= 1
    BY DEF OneAnswer
  <2>1. \A i, j \in Answers : i = j
    BY DEF BurstInv, RowInv, RowsAgree
  <2>2. CASE Answers = {}
    BY <2>2, FS_EmptySet
  <2>3. CASE Answers # {}
    <3>1. PICK i \in Answers : Answers = {i}
      BY <2>1, <2>3
    <3> QED
      BY <3>1, FS_Singleton
  <2> QED
    BY <2>2, <2>3
<1> QED
  BY <1>1, BurstInvariance, PTL

\* A bubble holds one author's text, a ghost's none; a turn that ends well
\* leaves its last bubble standing and the others withdrawn, one that ends in
\* Error leaves none.
THEOREM OneTextAtATime == Spec => []OneVoice
<1>1. BurstInv => OneVoice
  <2> SUFFICES ASSUME BurstInv PROVE OneVoice
    OBVIOUS
  <2>0. /\ TypeOK /\ Chained /\ Standing /\ Voices
        /\ DOMAIN bubbles = 1..Frames /\ Frames \in Nat /\ Frames = Len(bubbles)
        /\ Current = bubbles[Frames]
    BY FrameFacts DEF BurstInv, FrameInv, VoiceInv, Frames
  <2>1. ASSUME NEW i \in DOMAIN bubbles
        PROVE  /\ Cardinality(bubbles[i].by) <= 1
               /\ bubbles[i].ghost => bubbles[i].by = {}
    <3>1. Voiced(bubbles[i])
      BY <2>0 DEF Voices
    <3>2. PICK a \in Authors : bubbles[i].by \subseteq {a}
      BY <3>1 DEF Voiced
    <3>3. bubbles[i].by = {} \/ bubbles[i].by = {a}
      BY <3>2
    <3>4. Cardinality(bubbles[i].by) <= 1
      <4>1. CASE bubbles[i].by = {}
        BY <4>1, FS_EmptySet
      <4>2. CASE bubbles[i].by = {a}
        <5>1. Cardinality({a}) = 1
          BY FS_Singleton
        <5> QED
          BY <4>2, <5>1
      <4> QED
        BY <3>3, <4>1, <4>2
    <3> QED
      BY <3>1, <3>4 DEF Voiced
  <2>2. told = "final" =>
          \A i \in DOMAIN bubbles :
            Asking \/ bubbles[i].state = IF i = Len(bubbles) THEN "served" ELSE "cut"
    <3>1. /\ \A i \in 1..Frames : i # Frames => bubbles[i].state = "cut"
          /\ told = "final" => Asking \/ bubbles[Frames].state = "served"
      BY <2>0 DEF Chained, Standing, Concluded
    <3>2. ASSUME told = "final", NEW i \in DOMAIN bubbles, ~Asking
          PROVE  bubbles[i].state = IF i = Len(bubbles) THEN "served" ELSE "cut"
      <4>1. CASE i = Frames
        BY <2>0, <3>1, <3>2, <4>1
      <4>2. CASE i # Frames
        BY <2>0, <3>1, <3>2, <4>2
      <4> QED
        BY <4>1, <4>2
    <3> QED
      BY <3>2
  <2>3. told = "error" => \A i \in DOMAIN bubbles : bubbles[i].state # "served"
    <3>1. /\ \A i \in 1..Frames : i # Frames => bubbles[i].state = "cut"
          /\ told = "error" /\ Frames # 0 => bubbles[Frames].state # "served"
      BY <2>0 DEF Chained, Standing
    <3>2. ASSUME told = "error", NEW i \in DOMAIN bubbles
          PROVE  bubbles[i].state # "served"
      <4>1. CASE i = Frames
        <5>1. Frames # 0
          BY <2>0
        <5> QED
          BY <3>1, <3>2, <4>1, <5>1
      <4>2. CASE i # Frames
        BY <2>0, <3>1, <4>2
      <4> QED
        BY <4>1, <4>2
    <3> QED
      BY <3>2
  <2> QED
    BY <2>1, <2>2, <2>3 DEF OneVoice
<1> QED
  BY <1>1, BurstInvariance, PTL

\* Every genuine failure of a drive is in the final frame and, unless an insert
\* failed, on the row that answers; on no superseded row.
THEOREM FailuresAreKept == Spec => []FailuresKept
<1>1. BurstInv => FailuresKept
  BY DEF BurstInv, RowInv, RowsAgree, Accounted, Concluded, FailuresKept
<1> QED
  BY <1>1, BurstInvariance, PTL

\* The row that answers a turn which ended well is the bubble left standing.
LEMMA ReplyRow ==
    ASSUME BurstInv, told = "final", faults = 0, turn.action # "ghost"
    PROVE  /\ Stored \in DOMAIN rows /\ Frames \in 1..Frames
           /\ Mirrors(Newest, Current) /\ Speaks(Newest, Current)
           /\ ~Newest.cut \/ Asking
           /\ Live => Stored = Frames
           /\ ~Live => Stored = 1
<1>0. /\ TypeOK /\ Standing /\ Counted /\ Paired /\ Len(rows) \in Nat
      /\ DOMAIN rows = 1..Len(rows) /\ Stored = Len(rows) /\ Frames \in Nat
      /\ Live => ~Asking
      /\ Current = bubbles[Frames]
  BY NotEmpty, FrameFacts, PlanFacts DEF BurstInv, FrameInv, MirrorInv, Mirrored, TypeOK, Stored
<1>1. Frames \in 1..Frames /\ (Asking \/ Current.state = "served")
  BY <1>0 DEF Standing, Concluded
<1>2. (Live => Stored = Frames) /\ (~Live => Stored = 1)
  BY <1>0 DEF Counted, Concluded
<1>3. Stored \in DOMAIN rows
  BY <1>0, <1>1, <1>2
<1>4. Newest.cut \in BOOLEAN
  <2>1. Newest \in AssistantRows
    BY <1>0, <1>3, NotEmpty DEF TypeOK, Newest
  <2> QED
    BY <2>1 DEF AssistantRows
<1>5. CASE Live
  <2>1. Tells(Newest, Current)
    BY <1>0, <1>1, <1>2, <1>5 DEF Paired, LivePairs, Newest
  <2>2. ~Newest.cut
    BY <1>0, <1>1, <1>5, <2>1 DEF Tells, Mirrors
  <2> QED
    BY <1>1, <1>2, <1>3, <2>1, <2>2 DEF Tells
<1>6. CASE ~Live
  <2>1. Mirrors(Newest, Current) /\ Speaks(Newest, Current)
    BY <1>0, <1>6 DEF Paired, Concluded
  <2>2. ~Newest.cut \/ Asking
    BY <1>1, <2>1 DEF Mirrors
  <2> QED
    BY <1>1, <1>2, <1>3, <2>1, <2>2
<1> QED
  BY <1>5, <1>6

\* What is learned and pictured is the message left standing, nothing of a
\* silence or a product answer, and it was stored unless an insert failed; only
\* a drive dropped between its final frame and the hand-over, on a turn that
\* responds to an action, leaves it unlearned.
THEOREM ShownIsLearned == Spec => []LearnedIsShown
<1>1. BurstInv => LearnedIsShown
  <2> SUFFICES ASSUME BurstInv PROVE LearnedIsShown
    OBVIOUS
  <2>0. Taught
    BY DEF BurstInv, ProducedInv
  <2>1. told = "final" =>
          LET taught == IF turn.action \in {"ghost", "product_qa"} THEN {} ELSE {Current.id}
          IN  /\ learned = taught \/ (turn.responds /\ learned = {} /\ ~Ended)
              /\ pictured = IF PromisesImage THEN Current.id ELSE NoId
    BY <2>0 DEF Taught, Silent
  <2>2. ASSUME faults = 0 PROVE learned \subseteq {rows[i].id : i \in Answers}
    <3>1. CASE told # "final" \/ Silent
      BY <2>0, <3>1 DEF Taught, Silent
    <3>2. CASE told = "final" /\ ~Silent
      <4>1. Stored \in DOMAIN rows /\ Mirrors(Newest, Current) /\ (~Newest.cut \/ Asking)
        BY <2>2, <3>2, ReplyRow DEF Silent
      <4>2. Stored \in Answers /\ rows[Stored].id = Current.id
        BY <4>1 DEF Answers, Newest, Mirrors
      <4> QED
        BY <2>0, <3>2, <4>2 DEF Taught
    <3> QED
      BY <3>1, <3>2
  <2> QED
    BY <2>1, <2>2 DEF LearnedIsShown
<1> QED
  BY <1>1, BurstInvariance, PTL

\* A stored row is retold as the bubble it mirrors.
LEMMA RetoldIs ==
    ASSUME NEW r \in AssistantRows, NEW b \in Bubbles, Mirrors(r, b)
    PROVE  /\ Retold(r).id = b.id /\ Retold(r).state = b.state /\ Retold(r).from = b.from
           /\ Speaks(r, b) => Retold(r) = b
  BY DEF Retold, Mirrors, Speaks, Bubbles

LEMMA RetoldType ==
    ASSUME NEW r \in AssistantRows
    PROVE  Retold(r) \in Bubbles
<1>1. /\ r.id \in Ids /\ {r.text} \ {Nobody} \in SUBSET Authors /\ r.ghost \in BOOLEAN
      /\ r.from \in Ids \cup {NoId}
      /\ (IF r.cut THEN "cut" ELSE "served") \in {"open", "cut", "served"}
  BY DEF AssistantRows
<1> QED
  BY <1>1 DEF Retold, Bubbles

\* A repeated request is told what the first one was, unless an insert failed:
\* the reply, every attempt of a live burst in order, the same ending.
THEOREM ReplayIsFaithful == Spec => []ReplayAgrees
<1>1. BurstInv => ReplayAgrees
  <2> SUFFICES ASSUME BurstInv, told # "none", faults = 0, Answered
               PROVE  /\ ghosted \/ Served(Replayed) = Served(bubbles)
                      /\ Live => Skeleton(Replayed) = Skeleton(bubbles)
                      /\ ReplayedEnd = told
    BY DEF ReplayAgrees
  <2>0. /\ TypeOK /\ StageInv /\ Chained /\ Standing /\ Counted /\ Paired /\ Silenced
        /\ rows \in Seq(AssistantRows) /\ bubbles \in Seq(Bubbles)
        /\ Stored \in Nat /\ Stored = Len(rows) /\ DOMAIN rows = 1..Stored
        /\ (rows = <<>> <=> Stored = 0)
        /\ Frames \in Nat /\ Frames = Len(bubbles) /\ DOMAIN bubbles = 1..Frames
        /\ Current = bubbles[Frames]
        /\ told \in {"final", "error"}
        /\ \A i \in 1..Stored : rows[i] \in AssistantRows /\ rows[i].cut \in BOOLEAN
        /\ \A i \in 1..Frames : bubbles[i] \in Bubbles
    <3>1. /\ TypeOK /\ StageInv /\ Chained /\ Standing /\ Counted /\ Paired /\ Silenced
      BY DEF BurstInv, FrameInv, MirrorInv, Mirrored
    <3>2. /\ rows \in Seq(AssistantRows) /\ bubbles \in Seq(Bubbles)
          /\ told \in {"none", "final", "error"}
      BY <3>1 DEF TypeOK
    <3>3. \A r \in AssistantRows : r.cut \in BOOLEAN
      BY DEF AssistantRows
    <3> QED
      BY <3>1, <3>2, <3>3, NotEmpty, FrameFacts DEF Stored, Frames
  <2>1. /\ turn.action = "ghost" <=> ghosted
        /\ told = "error" => Live
        /\ Live => ~Asking /\ turn.action # "ghost"
        /\ ~ghosted => Stored # 0
    <3>1. /\ Live <=> Replying /\ ~turn.filtered
          /\ Replying => turn.action # "ghost" /\ ~Asking
          /\ Asking => turn.action # "ghost"
      BY <2>0, PlanFacts
    <3>2. ~ghosted => Stored # 0
      BY <2>0 DEF Answered
    <3>3. told = "error" => Live
      BY <2>0, <3>1, <3>2 DEF StageInv, Silenced, Counted
    <3>4. turn.action = "ghost" <=> ghosted
      BY <2>0, <3>1, <3>3 DEF Silenced, Concluded
    <3> QED
      BY <3>1, <3>2, <3>3, <3>4
  <2>2. Live => Stored = Frames
    BY <2>0 DEF Counted
  <2>3. /\ Replayed \in Seq(Bubbles) /\ Len(Replayed) = Stored /\ DOMAIN Replayed = 1..Stored
        /\ \A i \in 1..Stored : Replayed[i] = Retold(rows[i])
    <3>1. \A i \in 1..Stored : Retold(rows[i]) \in Bubbles
      BY <2>0, RetoldType
    <3>2. Replayed = [i \in 1..Stored |-> Retold(rows[i])]
      BY <2>0 DEF Replayed
    <3> QED
      BY <2>0, <3>1, <3>2
  <2>4. Live => \A i \in 1..Frames : bubbles[i].state # "open"
    <3>1. \A i \in 1..Frames : i # Frames => bubbles[i].state = "cut"
      BY <2>0 DEF Chained
    <3>2. Live /\ Frames # 0 => bubbles[Frames].state \in {"cut", "served"}
      BY <2>0, <2>1 DEF Standing, Concluded
    <3>3. ASSUME Live, NEW i \in 1..Frames PROVE bubbles[i].state # "open"
      <4>1. Frames # 0
        BY <2>0
      <4>2. CASE i = Frames
        BY <3>2, <3>3, <4>1, <4>2
      <4>3. CASE i # Frames
        BY <3>1, <4>3
      <4> QED
        BY <4>2, <4>3
    <3> QED
      BY <3>3
  <2>5. Live => \A i \in 1..Frames : Tells(rows[i], bubbles[i])
    BY <2>0, <2>2, <2>4 DEF Paired, LivePairs
  <2>6. Live => Skeleton(Replayed) = Skeleton(bubbles)
    <3> SUFFICES ASSUME Live PROVE Skeleton(Replayed) = Skeleton(bubbles)
      OBVIOUS
    <3>1. ASSUME NEW i \in 1..Frames
          PROVE  /\ Replayed[i].id = bubbles[i].id /\ Replayed[i].state = bubbles[i].state
                 /\ Replayed[i].from = bubbles[i].from
      BY <2>0, <2>2, <2>3, <2>5, RetoldIs DEF Tells
    <3> QED
      BY <2>0, <2>2, <2>3, <3>1 DEF Skeleton
  <2>7. CASE turn.action = "ghost"
    <3>1. told = "final" /\ rows = <<>>
      BY <2>0, <2>1, <2>7 DEF Silenced
    <3> QED
      BY <2>1, <2>7, <3>1 DEF ReplayedEnd
  <2>8. CASE told = "final" /\ turn.action # "ghost"
    <3>1. /\ Stored \in 1..Stored /\ Frames \in 1..Frames
          /\ Mirrors(Newest, Current) /\ Speaks(Newest, Current)
          /\ ~Newest.cut \/ Asking
          /\ ~Live => Stored = 1
      BY <2>0, <2>8, ReplyRow
    <3>2. Replayed[Stored] = bubbles[Frames]
      BY <2>0, <2>3, <3>1, RetoldIs DEF Newest
    <3>3. \A i \in 1..Frames : bubbles[i].state = "served" \/ Asking <=> i = Frames
      <4>1. /\ \A i \in 1..Frames : i # Frames => bubbles[i].state = "cut"
            /\ bubbles[Frames].state = "served" \/ Asking
            /\ Asking => Frames <= 1
        BY <2>0, <2>8 DEF Chained, Standing, Concluded
      <4>2. Asking => \A i \in 1..Frames : i = Frames
        BY <2>0, <4>1
      <4>3. ASSUME NEW i \in 1..Frames PROVE bubbles[i].state = "served" \/ Asking <=> i = Frames
        <5>1. CASE i = Frames
          BY <4>1, <5>1
        <5>2. CASE i # Frames
          BY <4>1, <4>2, <5>2
        <5> QED
          BY <5>1, <5>2
      <4> QED
        BY <4>3
    <3>4. \A i \in 1..Stored : Replayed[i].state = "served" \/ Asking <=> i = Stored
      <4>1. CASE Live
        <5>1. \A i \in 1..Stored : Replayed[i].state = bubbles[i].state
          BY <2>0, <2>2, <2>3, <2>5, <4>1, RetoldIs DEF Tells
        <5> QED
          BY <2>2, <3>3, <4>1, <5>1
      <4>2. CASE ~Live
        BY <3>1, <3>2, <3>3, <4>2
      <4> QED
        BY <4>1, <4>2
    <3>5. Served(bubbles) = <<bubbles[Frames]>>
      <4>1. \A i \in 1..Len(bubbles) :
              i \in {j \in DOMAIN bubbles : bubbles[j].state = "served" \/ Asking} <=> i = Frames
        BY <2>0, <3>3
      <4> QED
        BY <2>0, <3>1, <4>1, AtOne DEF Served
    <3>6. Served(Replayed) = <<Replayed[Stored]>>
      <4>1. \A i \in 1..Len(Replayed) :
              i \in {j \in DOMAIN Replayed : Replayed[j].state = "served" \/ Asking} <=> i = Stored
        BY <2>3, <3>4
      <4> QED
        BY <2>3, <3>1, <4>1, AtOne DEF Served
    <3>7. ReplayedEnd = "final"
      BY <2>0, <3>1 DEF ReplayedEnd, Newest
    <3> QED
      BY <2>6, <2>8, <3>2, <3>5, <3>6, <3>7
  <2>9. CASE told = "error" /\ turn.action # "ghost"
    <3>1. Live /\ ~Asking /\ Stored = Frames /\ rows # <<>>
      BY <2>0, <2>1, <2>2, <2>9
    <3>2. \A i \in 1..Frames : bubbles[i].state = "cut"
      BY <2>0, <2>9, <3>1 DEF Chained, Standing
    <3>3. \A i \in 1..Frames : Replayed[i].state = "cut" /\ rows[i].cut
      BY <2>0, <2>3, <2>5, <3>1, <3>2, RetoldIs DEF Tells, Mirrors
    <3>4. Served(bubbles) = <<>>
      <4>1. \A i \in 1..Len(bubbles) :
              i \notin {j \in DOMAIN bubbles : bubbles[j].state = "served" \/ Asking}
        BY <2>0, <3>1, <3>2
      <4> QED
        BY <2>0, <4>1, AtNone DEF Served
    <3>5. Served(Replayed) = <<>>
      <4>1. \A i \in 1..Len(Replayed) :
              i \notin {j \in DOMAIN Replayed : Replayed[j].state = "served" \/ Asking}
        BY <2>3, <3>1, <3>3
      <4> QED
        BY <2>3, <4>1, AtNone DEF Served
    <3>6. ReplayedEnd = "error"
      BY <2>0, <3>1, <3>3 DEF ReplayedEnd
    <3> QED
      BY <2>6, <2>9, <3>4, <3>5, <3>6
  <2> QED
    BY <2>0, <2>7, <2>8, <2>9
<1> QED
  BY <1>1, BurstInvariance, PTL

=============================================================================
