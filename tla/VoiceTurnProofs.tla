--------------------------- MODULE VoiceTurnProofs ---------------------------
(***************************************************************************)
(* Theorems about VoiceTurn for any turns, calls, interrupts and chain.    *)
(*                                                                         *)
(* A call is read off its stage: how far down the chain it is, that its    *)
(* turn is a voice turn once it speaks, that what it is about to store as  *)
(* its generation is recorded.  The turns' properties follow from their    *)
(* two writers, both of which work under the lock of the user row.         *)
(***************************************************************************)
EXTENDS VoiceTurn, FiniteSetTheorems, TLAPS

Opening == {"none", "post", "repair", "load", "freeze", "reload"}
Speaking == {"load", "freeze", "reload", "open", "stream", "record", "persist"}

\* A call has a turn, has tried no candidate before the chain is open, has
\* tried one once it streams, and speaks on a voice turn only.
CallInv(c) ==
    /\ stage[c] # "none" => turnOf[c] \in Turns
    /\ stage[c] \in Opening => candidate[c] = 0
    /\ stage[c] \in {"stream", "record", "persist"} \/ answered[c] => candidate[c] # 0
    /\ stage[c] \in Speaking => row[turnOf[c]] = "voice"

BargeInv(b) ==
    barge[b] = "resolved" => bargeOn[b] \in Turns /\ row[bargeOn[b]] = "voice"

VoiceInv ==
    /\ TypeOK
    /\ \A c \in Calls : CallInv(c)
    /\ \A b \in Interrupts : BargeInv(b)

-----------------------------------------------------------------------------
\* The next sent_at is a number: there are finitely many turns.
LEMMA NextSentAtType == NextSentAt \in Nat
  <1> DEFINE stored == {t \in Turns : row[t] # "absent"}
  <1>1. IsFiniteSet(stored)
    BY TurnsAssumption, FS_Subset
  <1>2. Cardinality(stored) \in Nat
    BY <1>1, FS_CardinalityType
  <1> QED
    BY <1>2 DEF NextSentAt

LEMMA NoReplyType == NoReply \in Replies
  BY DEF NoReply, Replies

\* What a call stores as its own is a reply.
LEMMA SpokenType ==
    ASSUME VoiceInv, NEW c \in Calls, stage[c] = "persist"
    PROVE  Spoken(c) \in Replies /\ GenerationId(c) \in Generations \cup {None}
  <1>1. candidate[c] \in 1..Candidates
    BY KnobAssumption DEF VoiceInv, CallInv, TypeOK
  <1>2. CurrentGeneration(c) \in Generations
    BY <1>1 DEF CurrentGeneration, Generations
  <1>3. cut[c] \in BOOLEAN
    BY DEF VoiceInv, TypeOK
  <1> QED
    BY <1>2, <1>3 DEF Spoken, GenerationId, Replies

\* A reply with another generation id is a reply.
LEMMA RelabelType ==
    ASSUME NEW r \in Replies, NEW g \in Generations \cup {None}
    PROVE  [r EXCEPT !.generation = g] \in Replies
  BY DEF Replies

\* A database call of a call fails, or does not.
LEMMA FaultType ==
    ASSUME TypeOK, NEW c \in Calls, NoFault \/ Fault(c)
    PROVE  degraded' \in [Calls -> BOOLEAN] /\ faults' \in 0..MaxFaults
  <1>1. degraded \in [Calls -> BOOLEAN] /\ faults \in 0..MaxFaults /\ MaxFaults \in Nat
    BY KnobAssumption DEF TypeOK
  <1>2. CASE NoFault
    BY <1>1, <1>2 DEF NoFault
  <1>3. CASE Fault(c)
    <2>1. faults' \in 0..MaxFaults
      BY <1>1, <1>3 DEF Fault
    <2>2. degraded' \in [Calls -> BOOLEAN]
      BY <1>1, <1>3 DEF Fault
    <2> QED
      BY <2>1, <2>2
  <1> QED
    BY <1>2, <1>3

-----------------------------------------------------------------------------
LEMMA VoiceInit == Init => VoiceInv
  BY KnobAssumption, NoReplyType
  DEF Init, VoiceInv, TypeOK, CallInv, BargeInv, Rows, Stages, LiveStages, Opening, Speaking

\* Every step keeps the types.
LEMMA TypeStep ==
    ASSUME VoiceInv, [Next]_vars
    PROVE  TypeOK'
<1> USE KnobAssumption
<1> USE DEF TypeOK, turnVars, sessionVars, chainVars, bargeVars, MoveTo,
        Stages, LiveStages, Rows
<1>0. TypeOK
  BY DEF VoiceInv
<1>1. ASSUME NEW t \in Turns, PostText(t) PROVE TypeOK'
  BY <1>0, <1>1, NextSentAtType DEF PostText
<1>2. ASSUME NEW c \in Calls, NEW t \in Turns, Admit(c, t) PROVE TypeOK'
  BY <1>0, <1>2 DEF Admit
<1>3. ASSUME NEW c \in Calls, PostAndDrop(c) PROVE TypeOK'
  BY <1>0, <1>3, NextSentAtType DEF PostAndDrop
<1>4. ASSUME NEW c \in Calls, Chunk(c) PROVE TypeOK'
  <2>1. candidate[c] \in 1..Candidates
    BY <1>4 DEF Chunk, VoiceInv, CallInv
  <2>2. CurrentGeneration(c) \in Generations
    BY <2>1 DEF CurrentGeneration, Generations
  <2> QED
    BY <1>0, <1>4, <2>2 DEF Chunk
<1>5. ASSUME NEW c \in Calls, Drop(c) PROVE TypeOK'
  BY <1>0, <1>5 DEF Drop
<1>6. ASSUME NEW b \in Interrupts, NEW t \in Turns, Resolve(b, t) PROVE TypeOK'
  BY <1>0, <1>6 DEF Resolve
<1>7. ASSUME NEW b \in Interrupts, Interrupt(b) PROVE TypeOK'
  <2>1. bargeOn[b] \in Turns
    BY <1>7 DEF Interrupt, VoiceInv, BargeInv
  <2>2. reply[bargeOn[b]] \in Replies
    BY <1>0, <2>1
  <2>3. Heard(b, bargeOn[b]) \in Replies
    BY <2>2 DEF Heard, Replies
  <2>4. [reply[bargeOn[b]] EXCEPT !.marked = TRUE] \in Replies
    BY <2>2 DEF Replies
  <2>5. Unheard(bargeOn[b]) \in Replies
    BY <2>4, NoReplyType DEF Unheard
  <2>6. reply' \in [Turns -> Replies]
    BY <1>0, <1>7, <2>3, <2>5 DEF Interrupt
  <2>7. /\ interrupted' \in [Turns -> BOOLEAN]
        /\ barge' \in [Interrupts -> {"none", "resolved", "ended"}]
    BY <1>0, <1>7 DEF Interrupt
  <2> QED
    BY <1>0, <1>7, <2>6, <2>7 DEF Interrupt
<1>8. ASSUME NEW c \in Calls, Progress(c) PROVE TypeOK'
  <2>0. answered[c] \/ stage[c] \in {"stream", "record"} => CurrentGeneration(c) \in Generations
    BY <1>0 DEF VoiceInv, CallInv, CurrentGeneration, Generations
  <2>1. CASE Post(c)
    <3>1. \A t \in Turns : counted[t] + 1 \in Nat
      BY <1>0
    <3> QED
      BY <1>0, <2>1, <3>1, NextSentAtType DEF Post
  <2>2. CASE Repair(c)
    BY <1>0, <2>2 DEF Repair
  <2>3. CASE Load(c)
    <3>1. NoFault \/ Fault(c)
      BY <2>3 DEF Load
    <3>2. degraded' \in [Calls -> BOOLEAN] /\ faults' \in 0..MaxFaults
      BY <1>0, <3>1, FaultType
    <3> QED
      BY <1>0, <2>3, <3>2 DEF Load
  <2>4. CASE Freeze(c)
    <3>1. NoFault \/ Fault(c)
      BY <2>4 DEF Freeze
    <3>2. degraded' \in [Calls -> BOOLEAN] /\ faults' \in 0..MaxFaults
      BY <1>0, <3>1, FaultType
    <3> QED
      BY <1>0, <2>4, <3>2 DEF Freeze
  <2>5. CASE Reload(c)
    <3>1. NoFault \/ Fault(c)
      BY <2>5 DEF Reload
    <3>2. degraded' \in [Calls -> BOOLEAN] /\ faults' \in 0..MaxFaults
      BY <1>0, <3>1, FaultType
    <3> QED
      BY <1>0, <2>5, <3>2 DEF Reload
  <2>6. CASE NextCandidate(c)
    <3>1. NoFault \/ Fault(c)
      BY <2>6 DEF NextCandidate, RecordGeneration
    <3>2. degraded' \in [Calls -> BOOLEAN] /\ faults' \in 0..MaxFaults
      BY <1>0, <3>1, FaultType
    <3>3. recorded' \subseteq Generations
      BY <1>0, <2>0, <2>6 DEF NextCandidate, RecordGeneration
    <3>4. /\ candidate' \in [Calls -> 0..Candidates]
          /\ stage' \in [Calls -> Stages]
      BY <1>0, <2>6 DEF NextCandidate
    <3> QED
      BY <1>0, <2>6, <3>2, <3>3, <3>4 DEF NextCandidate
  <2>7. CASE ChainExhausted(c)
    BY <1>0, <2>7 DEF ChainExhausted
  <2>8. CASE EndStream(c)
    BY <1>0, <2>8 DEF EndStream
  <2>9. CASE Record(c)
    <3>1. NoFault \/ Fault(c)
      BY <2>9 DEF Record, RecordGeneration
    <3>2. degraded' \in [Calls -> BOOLEAN] /\ faults' \in 0..MaxFaults
      BY <1>0, <3>1, FaultType
    <3>3. recorded' \subseteq Generations
      BY <1>0, <2>0, <2>9 DEF Record, RecordGeneration
    <3>4. answered' \in [Calls -> BOOLEAN]
      <4> DEFINE kept == CurrentGeneration(c) \in recorded'
      <4>1. kept \in BOOLEAN
        OBVIOUS
      <4>2. answered' = [answered EXCEPT ![c] = kept]
        BY <2>9 DEF Record
      <4> HIDE DEF kept
      <4> QED
        BY <1>0, <4>1, <4>2
    <3> QED
      BY <1>0, <2>9, <3>2, <3>3, <3>4 DEF Record
  <2>10. CASE Persist(c)
    <3>1. Spoken(c) \in Replies /\ GenerationId(c) \in Generations \cup {None}
      BY <2>10, SpokenType DEF Persist
    <3>2. turnOf[c] \in Turns
      BY <2>10 DEF Persist, VoiceInv, CallInv
    <3>3. Merged(c) \in Replies
      <4>1. reply[turnOf[c]] \in Replies
        BY <1>0, <3>2
      <4>2. [reply[turnOf[c]] EXCEPT !.generation = GenerationId(c)] \in Replies
        BY <3>1, <4>1, RelabelType
      <4> QED
        BY <3>1, <4>2 DEF Merged
    <3>4. NoFault \/ Fault(c)
      BY <2>10 DEF Persist
    <3>5. degraded' \in [Calls -> BOOLEAN] /\ faults' \in 0..MaxFaults
      BY <1>0, <3>4, FaultType
    <3> QED
      BY <1>0, <2>10, <3>1, <3>3, <3>5 DEF Persist
  <2> QED
    BY <1>8, <2>1, <2>2, <2>3, <2>4, <2>5, <2>6, <2>7, <2>8, <2>9, <2>10 DEF Progress
<1>9. CASE UNCHANGED vars
  BY <1>0, <1>9 DEF vars
<1> QED
  BY <1>1, <1>2, <1>3, <1>4, <1>5, <1>6, <1>7, <1>8, <1>9 DEF Next

\* A voice turn stays one.
LEMMA RowKept ==
    ASSUME VoiceInv, [Next]_vars, NEW t \in Turns, row[t] = "voice"
    PROVE  row'[t] = "voice"
<1>1. CASE UNCHANGED row
  BY <1>1
<1>2. ASSUME NEW u \in Turns, PostText(u) PROVE row'[t] = "voice"
  BY <1>2 DEF PostText, VoiceInv, TypeOK
<1>3. ASSUME NEW c \in Calls, Post(c) \/ PostAndDrop(c) PROVE row'[t] = "voice"
  BY <1>3 DEF Post, PostAndDrop, VoiceInv, TypeOK
<1> QED
  BY <1>1, <1>2, <1>3
  DEF Next, vars, turnVars, Admit, Chunk, Drop, Resolve, Interrupt, Progress, Repair, Load,
      Freeze, Reload, NextCandidate, ChainExhausted, EndStream, Record, Persist

\* A call its step leaves alone keeps its invariant.
LEMMA CallUntouched ==
    ASSUME VoiceInv, [Next]_vars, NEW c \in Calls,
           stage'[c] = stage[c], turnOf'[c] = turnOf[c], candidate'[c] = candidate[c],
           answered'[c] = answered[c]
    PROVE  CallInv(c)'
  BY RowKept DEF VoiceInv, CallInv, Speaking

LEMMA CallStep ==
    ASSUME VoiceInv, [Next]_vars, NEW c \in Calls
    PROVE  CallInv(c)'
<1> USE DEF turnVars, sessionVars, chainVars, bargeVars, MoveTo
<1>0. /\ TypeOK
      /\ CallInv(c)
  BY DEF VoiceInv
<1>1. CASE UNCHANGED <<stage, turnOf, candidate, answered>>
  BY <1>1, CallUntouched
<1>2. ASSUME NEW d \in Calls, NEW t \in Turns, Admit(d, t) PROVE CallInv(c)'
  <2>1. CASE d = c
    BY <1>0, <1>2, <2>1 DEF Admit, CallInv, Opening, Speaking, TypeOK
  <2>2. CASE d # c
    BY <1>0, <1>2, <2>2, CallUntouched DEF Admit, TypeOK
  <2> QED
    BY <2>1, <2>2
<1>3. ASSUME NEW d \in Calls, PostAndDrop(d) \/ Drop(d) PROVE CallInv(c)'
  <2>1. CASE d = c
    BY <1>0, <1>3, <2>1 DEF PostAndDrop, Drop, Live, LiveStages, CallInv, Opening, Speaking,
       TypeOK
  <2>2. CASE d # c
    BY <1>0, <1>3, <2>2, CallUntouched DEF PostAndDrop, Drop, TypeOK
  <2> QED
    BY <2>1, <2>2
<1>4. ASSUME NEW d \in Calls, Chunk(d) PROVE CallInv(c)'
  <2>1. CASE d = c
    BY <1>0, <1>4, <2>1 DEF Chunk, CallInv, Opening, Speaking, TypeOK
  <2>2. CASE d # c
    BY <1>0, <1>4, <2>2, CallUntouched DEF Chunk, TypeOK
  <2> QED
    BY <2>1, <2>2
<1>5. ASSUME NEW d \in Calls, Progress(d) PROVE CallInv(c)'
  <2>1. CASE d # c
    <3>1. stage'[c] = stage[c]
      BY <1>0, <1>5, <2>1
      DEF Progress, Post, Repair, Load, Freeze, Reload, NextCandidate, ChainExhausted,
          EndStream, Record, Persist, TypeOK
    <3>2. turnOf'[c] = turnOf[c] /\ candidate'[c] = candidate[c] /\ answered'[c] = answered[c]
      BY <1>0, <1>5, <2>1
      DEF Progress, Post, Repair, Load, Freeze, Reload, NextCandidate, ChainExhausted,
          EndStream, Record, Persist, TypeOK
    <3> QED
      BY <3>1, <3>2, CallUntouched
  <2>2. CASE d = c /\ Post(c)
    BY <1>0, <2>2 DEF Post, CallInv, Opening, Speaking, TypeOK
  <2>3. CASE d = c /\ Repair(c)
    BY <1>0, <2>3 DEF Repair, CallInv, Opening, Speaking, TypeOK
  <2>4. CASE d = c /\ Load(c)
    BY <1>0, <2>4 DEF Load, CallInv, Opening, Speaking, TypeOK
  <2>5. CASE d = c /\ (Freeze(c) \/ Reload(c))
    BY <1>0, <2>5 DEF Freeze, Reload, CallInv, Opening, Speaking, TypeOK
  <2>6. CASE d = c /\ NextCandidate(c)
    BY <1>0, <2>6 DEF NextCandidate, CallInv, Opening, Speaking, TypeOK
  <2>7. CASE d = c /\ (ChainExhausted(c) \/ EndStream(c))
    BY <1>0, <2>7, KnobAssumption
    DEF ChainExhausted, EndStream, CallInv, Opening, Speaking, TypeOK
  <2>8. CASE d = c /\ Record(c)
    BY <1>0, <2>8 DEF Record, CallInv, Opening, Speaking, TypeOK
  <2>9. CASE d = c /\ Persist(c)
    BY <1>0, <2>9 DEF Persist, CallInv, Opening, Speaking, TypeOK
  <2> QED
    BY <1>5, <2>1, <2>2, <2>3, <2>4, <2>5, <2>6, <2>7, <2>8, <2>9 DEF Progress
<1> QED
  BY <1>1, <1>2, <1>3, <1>4, <1>5 DEF Next, vars, PostText, Resolve, Interrupt

LEMMA BargeStep ==
    ASSUME VoiceInv, [Next]_vars, NEW b \in Interrupts
    PROVE  BargeInv(b)'
<1>0. TypeOK /\ BargeInv(b)
  BY DEF VoiceInv
<1>1. CASE UNCHANGED bargeVars
  BY <1>0, <1>1, RowKept DEF BargeInv, bargeVars
<1>2. ASSUME NEW d \in Interrupts, NEW t \in Turns, Resolve(d, t) PROVE BargeInv(b)'
  BY <1>0, <1>2 DEF Resolve, BargeInv, LatestVoiceTurn, TypeOK, turnVars
<1>3. ASSUME NEW d \in Interrupts, Interrupt(d) PROVE BargeInv(b)'
  BY <1>0, <1>3 DEF Interrupt, BargeInv, TypeOK
<1> QED
  BY <1>1, <1>2, <1>3
  DEF Next, vars, PostText, Admit, PostAndDrop, Chunk, Drop, Progress, Post, Repair, Load,
      Freeze, Reload, NextCandidate, ChainExhausted, EndStream, Record, Persist

LEMMA VoiceStep == VoiceInv /\ [Next]_vars => VoiceInv'
  <1> SUFFICES ASSUME VoiceInv, [Next]_vars PROVE VoiceInv'
    OBVIOUS
  <1> QED
    BY TypeStep, CallStep, BargeStep DEF VoiceInv

LEMMA VoiceInvariant == Spec => []VoiceInv
  BY VoiceInit, VoiceStep, PTL DEF Spec

\* Every reachable state of a voice session is well typed, for any number of
\* turns, calls, interrupts and candidates.
THEOREM TypeCorrectness == Spec => []TypeOK
  <1>1. VoiceInv => TypeOK
    BY DEF VoiceInv
  <1> QED
    BY <1>1, VoiceInvariant, PTL

-----------------------------------------------------------------------------
\* The actions that leave the turns' replies and interrupts alone.
LEMMA RepliesUntouched ==
    ASSUME VoiceInv, [Next]_vars,
           \A c \in Calls : ~Persist(c), \A b \in Interrupts : ~Interrupt(b)
    PROVE  UNCHANGED <<reply, interrupted>>
  BY DEF Next, vars, turnVars, PostText, Admit, PostAndDrop, Chunk, Drop, Resolve, Progress,
         Post, Repair, Load, Freeze, Reload, NextCandidate, ChainExhausted, EndStream, Record

\* What a generator's insert makes of the reply of its turn: nothing, its own
\* text in place of one that no interrupt reported, or its generation id in one
\* an interrupt did report; and never a reply to a turn interrupted unheard.
LEMMA PersistWrites ==
    ASSUME VoiceInv, NEW c \in Calls, Persist(c)
    PROVE  /\ turnOf[c] \in Turns
           /\ UNCHANGED <<interrupted, row>>
           /\ \/ UNCHANGED reply
              \/ /\ ~interrupted[turnOf[c]] \/ Replied(turnOf[c])
                 /\ reply' = [reply EXCEPT ![turnOf[c]] = IF reply[turnOf[c]].marked
                                THEN [@ EXCEPT !.generation = GenerationId(c)]
                                ELSE Spoken(c)]
<1>1. turnOf[c] \in Turns
  BY DEF Persist, VoiceInv, CallInv
<1>2. ~Replied(turnOf[c]) => ~reply[turnOf[c]].marked
  BY DEF Replied, NoReply
<1> QED
  BY <1>1, <1>2 DEF Persist, Merged

\* What an interrupt makes of it.
LEMMA InterruptWrites ==
    ASSUME VoiceInv, NEW b \in Interrupts, Interrupt(b)
    PROVE  /\ bargeOn[b] \in Turns
           /\ row[bargeOn[b]] = "voice" /\ row' = row
           /\ barge'[b] # barge[b]
           /\ interrupted' = [interrupted EXCEPT ![bargeOn[b]] = TRUE]
           /\ \E r \in Replies :
                /\ reply' = [reply EXCEPT ![bargeOn[b]] = r]
                /\ \/ r.marked /\ r.text = b
                   \/ Replied(bargeOn[b]) /\ r.marked /\ r.text = reply[bargeOn[b]].text
                   \/ ~Replied(bargeOn[b]) /\ r = NoReply
                /\ r.generation = reply[bargeOn[b]].generation
<1> DEFINE t == bargeOn[b]
<1>1. t \in Turns /\ row[t] = "voice"
  BY DEF Interrupt, VoiceInv, BargeInv
<1>2. barge' = [barge EXCEPT ![b] = "ended"] /\ barge[b] = "resolved"
  BY DEF Interrupt
<1>3. barge'[b] # barge[b]
  BY <1>2 DEF VoiceInv, TypeOK
<1>4. reply[t] \in Replies
  BY <1>1 DEF VoiceInv, TypeOK
<1>5. /\ Heard(b, t) \in Replies /\ Heard(b, t).marked /\ Heard(b, t).text = b
      /\ Heard(b, t).generation = reply[t].generation
  BY <1>4 DEF Heard, Replies
<1>6. /\ Unheard(t) \in Replies
      /\ Unheard(t).generation = reply[t].generation
      /\ Replied(t) => Unheard(t).marked /\ Unheard(t).text = reply[t].text
      /\ ~Replied(t) => Unheard(t) = NoReply
  BY <1>4, NoReplyType DEF Unheard, Replies, Replied
<1>7. reply' = [reply EXCEPT ![t] = Heard(b, t)] \/ reply' = [reply EXCEPT ![t] = Unheard(t)]
  BY DEF Interrupt
<1>8. interrupted' = [interrupted EXCEPT ![t] = TRUE] /\ row' = row
  BY DEF Interrupt
<1> QED
  BY <1>1, <1>3, <1>5, <1>6, <1>7, <1>8

-----------------------------------------------------------------------------
(***************************************************************************)
(* The turns' properties, each step of each writer.                        *)
(***************************************************************************)
LEMMA MarkedStep ==
    ASSUME VoiceInv, InterruptedReplyIsMarked, [Next]_vars
    PROVE  InterruptedReplyIsMarked'
<1> SUFFICES ASSUME NEW t \in Turns, interrupted'[t], Replied(t)' PROVE reply'[t].marked
  BY DEF InterruptedReplyIsMarked
<1>0. /\ TypeOK
      /\ interrupted[t] /\ Replied(t) => reply[t].marked
      /\ reply[t] \in Replies
  BY DEF VoiceInv, TypeOK, InterruptedReplyIsMarked
<1>1. ASSUME NEW c \in Calls, Persist(c) PROVE reply'[t].marked
  <2>1. interrupted[t] /\ (reply'[t] = reply[t] => Replied(t))
    BY <1>1, PersistWrites DEF Replied
  <2>2. CASE reply'[t] = reply[t]
    BY <1>0, <2>1, <2>2
  <2>3. CASE reply'[t] # reply[t]
    <3>1. t = turnOf[c] /\ Replied(t)
      BY <1>0, <1>1, <2>1, <2>3, PersistWrites DEF TypeOK
    <3>2. reply[t].marked
      BY <1>0, <2>1, <3>1
    <3>3. reply'[t] = [reply[t] EXCEPT !.generation = GenerationId(c)]
      BY <1>0, <1>1, <2>3, <3>1, <3>2, PersistWrites DEF TypeOK
    <3> QED
      BY <1>0, <3>2, <3>3 DEF Replies
  <2> QED
    BY <2>2, <2>3
<1>2. ASSUME NEW b \in Interrupts, Interrupt(b) PROVE reply'[t].marked
  <2>1. CASE bargeOn[b] = t
    BY <1>0, <1>2, <2>1, InterruptWrites DEF TypeOK, Replied
  <2>2. CASE bargeOn[b] # t
    BY <1>0, <1>2, <2>2, InterruptWrites DEF TypeOK, Replied
  <2> QED
    BY <2>1, <2>2
<1>3. CASE UNCHANGED <<reply, interrupted>>
  BY <1>0, <1>3 DEF Replied
<1> QED
  BY <1>1, <1>2, <1>3, RepliesUntouched

\* An interrupt that reports silence is never followed by a reply that looks
\* completed, in whatever order the interrupt and the generators take the lock.
THEOREM SilenceIsKept == Spec => []InterruptedReplyIsMarked
  <1>1. Init => InterruptedReplyIsMarked
    BY DEF Init, InterruptedReplyIsMarked
  <1> QED
    BY <1>1, VoiceInvariant, MarkedStep, PTL DEF Spec

LEMMA AgreeStep ==
    ASSUME VoiceInv, TextAndSpendAgree, [Next]_vars
    PROVE  TextAndSpendAgree'
<1> SUFFICES ASSUME NEW t \in Turns, Replied(t)', ~reply'[t].marked
             PROVE  reply'[t].generation \in {reply'[t].text, None}
  BY DEF TextAndSpendAgree
<1>0. /\ TypeOK
      /\ reply[t] \in Replies
      /\ Replied(t) /\ ~reply[t].marked => reply[t].generation \in {reply[t].text, None}
  BY DEF VoiceInv, TypeOK, TextAndSpendAgree
<1>1. ASSUME NEW c \in Calls, Persist(c) PROVE reply'[t].generation \in {reply'[t].text, None}
  <2>1. CASE reply'[t] = reply[t]
    BY <1>0, <2>1 DEF Replied
  <2>2. CASE reply'[t] # reply[t]
    <3>1. t = turnOf[c]
      BY <1>0, <1>1, <2>2, PersistWrites DEF TypeOK
    <3>2. ~reply[t].marked
      BY <1>0, <1>1, <2>2, <3>1, PersistWrites DEF TypeOK, Replies
    <3>3. reply'[t] = Spoken(c)
      BY <1>0, <1>1, <2>2, <3>1, <3>2, PersistWrites DEF TypeOK
    <3> QED
      BY <3>3 DEF Spoken, GenerationId
  <2> QED
    BY <2>1, <2>2
<1>2. ASSUME NEW b \in Interrupts, Interrupt(b)
      PROVE  reply'[t].generation \in {reply'[t].text, None}
  <2>1. CASE bargeOn[b] = t
    BY <1>0, <1>2, <2>1, InterruptWrites DEF TypeOK, Replied
  <2>2. CASE bargeOn[b] # t
    BY <1>0, <1>2, <2>2, InterruptWrites DEF TypeOK, Replied
  <2> QED
    BY <2>1, <2>2
<1>3. CASE UNCHANGED <<reply, interrupted>>
  BY <1>0, <1>3 DEF Replied
<1> QED
  BY <1>1, <1>2, <1>3, RepliesUntouched

\* The spend of a spoken reply is never attributed to another generation's
\* text, however many generators of a turn race.
THEOREM SpendMatchesText == Spec => []TextAndSpendAgree
  <1>1. Init => TextAndSpendAgree
    BY DEF Init, TextAndSpendAgree, Replied
  <1> QED
    BY <1>1, VoiceInvariant, AgreeStep, PTL DEF Spec

LEMMA HeardStep ==
    ASSUME VoiceInv, [Next]_vars, NEW t \in Turns, reply[t].marked
    PROVE  /\ reply'[t].marked
           /\ reply'[t].text \in {reply[t].text} \cup {b \in Interrupts : barge'[b] # barge[b]}
<1> DEFINE reporting == {b \in Interrupts : barge'[b] # barge[b]}
<1>0. TypeOK /\ reply[t] \in Replies
  BY DEF VoiceInv, TypeOK
<1>1. ASSUME NEW c \in Calls, Persist(c)
      PROVE  reply'[t].marked /\ reply'[t].text = reply[t].text
  <2>1. CASE reply'[t] = reply[t]
    BY <2>1
  <2>2. CASE reply'[t] # reply[t]
    <3>1. t = turnOf[c]
      BY <1>0, <1>1, <2>2, PersistWrites DEF TypeOK
    <3>2. reply'[t] = [reply[t] EXCEPT !.generation = GenerationId(c)]
      BY <1>0, <1>1, <2>2, <3>1, PersistWrites DEF TypeOK
    <3> QED
      BY <1>0, <3>2 DEF Replies
  <2> QED
    BY <2>1, <2>2
<1>2. ASSUME NEW b \in Interrupts, Interrupt(b)
      PROVE  reply'[t].marked /\ reply'[t].text \in {reply[t].text} \cup reporting
  <2>1. Replied(t)
    BY DEF Replied, NoReply
  <2>2. b \in reporting
    BY <1>2, InterruptWrites
  <2>3. reply'[t].marked /\ reply'[t].text \in {reply[t].text, b}
    BY <1>0, <1>2, <2>1, InterruptWrites DEF TypeOK
  <2> QED
    BY <2>2, <2>3
<1>3. CASE UNCHANGED <<reply, interrupted>>
  BY <1>0, <1>3
<1> QED
  BY <1>1, <1>2, <1>3, RepliesUntouched

\* A generator that stores its reply late never puts back text that the user
\* did not hear.
THEOREM HeardIsKept == Spec => HeardTextStands
  <1>1. VoiceInv /\ [Next]_vars =>
          [\A t \in Turns : reply[t].marked =>
             /\ reply'[t].marked
             /\ reply'[t].text \in
                  {reply[t].text} \cup {b \in Interrupts : barge'[b] # barge[b]}]_vars
    BY HeardStep
  <1> QED
    BY <1>1, VoiceInvariant, PTL DEF Spec, HeardTextStands

LEMMA OnlyVoiceStep ==
    ASSUME VoiceInv, OnlyVoiceTurnsReplied, [Next]_vars
    PROVE  OnlyVoiceTurnsReplied'
<1> SUFFICES ASSUME NEW t \in Turns, Replied(t)' PROVE row'[t] = "voice"
  BY DEF OnlyVoiceTurnsReplied
<1>0. TypeOK /\ (Replied(t) => row[t] = "voice")
  BY DEF VoiceInv, OnlyVoiceTurnsReplied
<1>1. ASSUME NEW c \in Calls, Persist(c) PROVE row[t] = "voice"
  <2>1. CASE reply'[t] = reply[t]
    BY <1>0, <2>1 DEF Replied
  <2>2. CASE reply'[t] # reply[t]
    <3>1. t = turnOf[c]
      BY <1>0, <1>1, <2>2, PersistWrites DEF TypeOK
    <3> QED
      BY <1>1, <3>1 DEF Persist, VoiceInv, CallInv, Speaking
  <2> QED
    BY <2>1, <2>2
<1>2. ASSUME NEW b \in Interrupts, Interrupt(b) PROVE row[t] = "voice"
  BY <1>0, <1>2, InterruptWrites DEF TypeOK, Replied
<1>3. ASSUME UNCHANGED <<reply, interrupted>> PROVE row[t] = "voice"
  BY <1>0, <1>3 DEF Replied
<1> QED
  BY <1>1, <1>2, <1>3, RepliesUntouched, RowKept

\* A text message posted under a turn's client_msg_id never gets a voice reply.
THEOREM TextTurnsUnanswered == Spec => []OnlyVoiceTurnsReplied
  <1>1. Init => OnlyVoiceTurnsReplied
    BY DEF Init, OnlyVoiceTurnsReplied, Replied
  <1> QED
    BY <1>1, VoiceInvariant, OnlyVoiceStep, PTL DEF Spec

-----------------------------------------------------------------------------
(***************************************************************************)
(* The snapshot: a call that has one and lost no query holds the frozen    *)
(* one, and a frozen one stays.                                            *)
(***************************************************************************)
LEMMA SnapshotStep ==
    ASSUME TypeOK, OneSnapshot, [Next]_vars
    PROVE  OneSnapshot'
<1> USE DEF sessionVars, chainVars, turnVars, bargeVars
<1> SUFFICES ASSUME NEW c \in Calls, injected'[c] # None, ~degraded'[c]
             PROVE  injected'[c] = frozen'
  BY DEF OneSnapshot
<1>0. injected[c] # None /\ ~degraded[c] => injected[c] = frozen
  BY DEF OneSnapshot
<1>1. CASE UNCHANGED <<injected, frozen, degraded>>
  BY <1>0, <1>1
<1>2. ASSUME NEW d \in Calls, Fault(d), d # c PROVE degraded'[c] = degraded[c]
  BY <1>2 DEF Fault, TypeOK
<1>3. ASSUME NEW d \in Calls, Fault(d) PROVE d # c
  BY <1>3 DEF Fault, TypeOK
<1>4. ASSUME NEW d \in Calls, NEW t \in Turns, Admit(d, t) PROVE injected'[c] = frozen'
  BY <1>0, <1>4 DEF Admit, TypeOK
<1>5. ASSUME NEW d \in Calls, Load(d) PROVE injected'[c] = frozen'
  BY <1>0, <1>2, <1>3, <1>5 DEF Load, NoFault, TypeOK
<1>6. ASSUME NEW d \in Calls, Freeze(d) PROVE injected'[c] = frozen'
  BY <1>0, <1>2, <1>3, <1>6 DEF Freeze, NoFault, TypeOK
<1>7. ASSUME NEW d \in Calls, Reload(d) PROVE injected'[c] = frozen'
  BY <1>0, <1>2, <1>3, <1>7 DEF Reload, NoFault, TypeOK
<1>8. ASSUME NEW d \in Calls, NextCandidate(d) \/ Record(d) \/ Persist(d)
      PROVE  injected'[c] = frozen'
  <2>1. NoFault \/ Fault(d)
    BY <1>8 DEF NextCandidate, Record, Persist, RecordGeneration
  <2>2. UNCHANGED <<injected, frozen>>
    BY <1>8 DEF NextCandidate, Record, Persist
  <2> QED
    BY <1>0, <1>2, <1>3, <2>1, <2>2 DEF NoFault
<1> QED
  BY <1>1, <1>4, <1>5, <1>6, <1>7, <1>8
  DEF Next, vars, PostText, PostAndDrop, Chunk, Drop, Resolve, Interrupt, Progress, Post,
      Repair, ChainExhausted, EndStream

\* However many first turns race to freeze their snapshot, all turns speak from
\* the one that won.
THEOREM SnapshotIsShared == Spec => []OneSnapshot
  <1>1. Init => OneSnapshot
    BY DEF Init, OneSnapshot
  <1> QED
    BY <1>1, TypeCorrectness, SnapshotStep, PTL DEF Spec

-----------------------------------------------------------------------------
(***************************************************************************)
(* The spend: a call has spent no generation beyond its candidate, those   *)
(* before are recorded unless a write failed, and its candidate is recorded*)
(* by the time it stores the reply.                                        *)
(***************************************************************************)
SpendInv(c) ==
    /\ stage[c] = "persist" /\ answered[c] => CurrentGeneration(c) \in recorded
    /\ \A i \in 1..Candidates : <<c, i>> \in spent =>
        /\ i <= candidate[c]
        /\ <<c, i>> \notin recorded /\ ~degraded[c] =>
            \/ stage[c] = "dropped"
            \/ i = candidate[c] /\ answered[c] /\ stage[c] \in {"open", "stream", "record"}

LEMMA SpendInit == Init => \A c \in Calls : SpendInv(c)
  BY DEF Init, SpendInv

\* No step but a call's own touches what its spend invariant says, and none
\* takes a record back.
LEMMA SpendUntouched ==
    ASSUME VoiceInv, NEW c \in Calls, SpendInv(c), recorded \subseteq recorded',
           stage'[c] = stage[c], candidate'[c] = candidate[c], answered'[c] = answered[c],
           degraded'[c] = degraded[c],
           \A i \in 1..Candidates : <<c, i>> \in spent' => <<c, i>> \in spent
    PROVE  SpendInv(c)'
  BY DEF SpendInv, CurrentGeneration

\* Recording a candidate settles all that its call has spent.
LEMMA RecordSettles ==
    ASSUME VoiceInv, NEW c \in Calls, SpendInv(c), RecordGeneration(c),
           stage[c] \in {"open", "record"}, NEW i \in 1..Candidates, <<c, i>> \in spent
    PROVE  <<c, i>> \in recorded' \/ degraded'[c]
<1>0. degraded \in [Calls -> BOOLEAN]
  BY DEF VoiceInv, TypeOK
<1>1. CASE <<c, i>> \in recorded
  BY <1>1 DEF RecordGeneration
<1>2. CASE degraded[c]
  BY <1>0, <1>2 DEF RecordGeneration, NoFault, Fault
<1>3. CASE <<c, i>> \notin recorded /\ ~degraded[c]
  <2>1. i = candidate[c] /\ answered[c]
    BY <1>3 DEF SpendInv
  <2>2. CASE <<c, i>> \in recorded'
    BY <2>2
  <2>3. CASE Fault(c)
    BY <1>0, <2>3 DEF Fault
  <2> QED
    BY <2>1, <2>2, <2>3 DEF RecordGeneration, CurrentGeneration
<1> QED
  BY <1>1, <1>2, <1>3

\* The steps of a call on its own invariant.
LEMMA SpendOwnStep ==
    ASSUME VoiceInv, NEW c \in Calls, SpendInv(c),
           \/ \E t \in Turns : Admit(c, t)
           \/ PostAndDrop(c) \/ Chunk(c) \/ Progress(c) \/ Drop(c)
    PROVE  SpendInv(c)'
<1> USE DEF turnVars, sessionVars, chainVars, bargeVars, MoveTo
<1>0. /\ TypeOK
      /\ CallInv(c)
      /\ candidate[c] \in Nat
  BY KnobAssumption DEF VoiceInv, TypeOK
<1>1. ASSUME stage[c] \in Opening, NEW i \in 1..Candidates PROVE <<c, i>> \notin spent
  BY <1>0, <1>1 DEF CallInv, SpendInv
<1>2. CASE \E t \in Turns : Admit(c, t)
  BY <1>0, <1>1, <1>2 DEF Admit, SpendInv, Opening, TypeOK
<1>3. CASE PostAndDrop(c)
  BY <1>0, <1>1, <1>3 DEF PostAndDrop, SpendInv, Opening, TypeOK
<1>4. CASE Drop(c)
  BY <1>0, <1>4 DEF Drop, SpendInv, TypeOK
<1>5. CASE Chunk(c)
  <2>1. stage[c] = "stream" /\ stage' = stage /\ UNCHANGED <<recorded, degraded, candidate>>
    BY <1>5 DEF Chunk
  <2>2. \A i \in 1..Candidates : <<c, i>> \in spent' =>
          <<c, i>> \in spent \/ (i = candidate[c] /\ answered'[c])
    BY <1>0, <1>5 DEF Chunk, CurrentGeneration, TypeOK
  <2>3. answered[c] => answered'[c]
    BY <1>0, <1>5 DEF Chunk, TypeOK
  <2> QED
    BY <1>0, <2>1, <2>2, <2>3 DEF SpendInv
<1>6. CASE Post(c) \/ Repair(c) \/ Load(c) \/ Freeze(c) \/ Reload(c)
  <2>1. stage[c] \in Opening /\ spent' = spent
    BY <1>6 DEF Post, Repair, Load, Freeze, Reload, Opening
  <2>2. stage'[c] # "persist"
    BY <1>0, <1>6 DEF Post, Repair, Load, Freeze, Reload, TypeOK
  <2> QED
    BY <1>1, <2>1, <2>2 DEF SpendInv
<1>7. CASE NextCandidate(c)
  <2>1. candidate'[c] = candidate[c] + 1 /\ stage'[c] # "persist" /\ spent' = spent
    BY <1>0, <1>7 DEF NextCandidate, TypeOK
  <2>2. \A i \in 1..Candidates : <<c, i>> \in spent =>
          i <= candidate[c] /\ (<<c, i>> \in recorded' \/ degraded'[c])
    BY <1>7, RecordSettles DEF NextCandidate, SpendInv
  <2> QED
    BY <1>0, <2>1, <2>2 DEF SpendInv
<1>8. CASE ChainExhausted(c) \/ EndStream(c)
  <2>1. /\ stage[c] \in {"open", "stream"} /\ stage'[c] \in {"open", "record"}
        /\ UNCHANGED <<recorded, spent, candidate, answered, degraded>>
    BY <1>0, <1>8 DEF ChainExhausted, EndStream, TypeOK
  <2> QED
    BY <2>1 DEF SpendInv
<1>9. CASE Record(c)
  <2>1. stage[c] = "record" /\ candidate' = candidate /\ spent' = spent
    BY <1>9 DEF Record
  <2>2. answered'[c] => CurrentGeneration(c) \in recorded'
    BY <1>0, <1>9 DEF Record, TypeOK
  <2>3. \A i \in 1..Candidates : <<c, i>> \in spent =>
          i <= candidate[c] /\ (<<c, i>> \in recorded' \/ degraded'[c])
    BY <1>9, RecordSettles DEF Record, SpendInv
  <2> QED
    BY <2>1, <2>2, <2>3 DEF SpendInv, CurrentGeneration
<1>10. CASE Persist(c)
  <2>1. /\ stage[c] = "persist" /\ stage'[c] = "ended"
        /\ UNCHANGED <<recorded, spent, candidate, answered>>
    BY <1>0, <1>10 DEF Persist, TypeOK
  <2>2. degraded[c] => degraded'[c]
    BY <1>0, <1>10 DEF Persist, NoFault, Fault, TypeOK
  <2> QED
    BY <2>1, <2>2 DEF SpendInv
<1> QED
  BY <1>2, <1>3, <1>4, <1>5, <1>6, <1>7, <1>8, <1>9, <1>10 DEF Progress

LEMMA RecordedGrows ==
    ASSUME [Next]_vars
    PROVE  recorded \subseteq recorded'
  BY DEF Next, vars, turnVars, sessionVars, PostText, Admit, PostAndDrop, Chunk, Drop, Resolve,
         Interrupt, Progress, Post, Repair, Load, Freeze, Reload, NextCandidate,
         ChainExhausted, EndStream, Record, Persist, RecordGeneration

LEMMA SpendStep ==
    ASSUME VoiceInv, [Next]_vars, NEW c \in Calls, SpendInv(c)
    PROVE  SpendInv(c)'
<1> USE DEF turnVars, sessionVars, chainVars, bargeVars, MoveTo
<1>0. TypeOK
  BY DEF VoiceInv
<1>1. CASE UNCHANGED <<stage, candidate, answered, spent, degraded>>
  BY <1>1, SpendUntouched, RecordedGrows
<1>2. ASSUME NEW d \in Calls, d # c,
             \/ \E t \in Turns : Admit(d, t)
             \/ PostAndDrop(d) \/ Chunk(d) \/ Progress(d) \/ Drop(d)
      PROVE  SpendInv(c)'
  <2>1. stage'[c] = stage[c]
    BY <1>0, <1>2
    DEF Admit, PostAndDrop, Chunk, Drop, Progress, Post, Repair, Load, Freeze, Reload,
        NextCandidate, ChainExhausted, EndStream, Record, Persist, TypeOK
  <2>2. candidate'[c] = candidate[c] /\ answered'[c] = answered[c]
    BY <1>0, <1>2
    DEF Admit, PostAndDrop, Chunk, Drop, Progress, Post, Repair, Load, Freeze, Reload,
        NextCandidate, ChainExhausted, EndStream, Record, Persist, TypeOK
  <2>3. NoFault \/ Fault(d)
    BY <1>2
    DEF NoFault, Admit, PostAndDrop, Chunk, Drop, Progress, Post, Repair, Load, Freeze, Reload,
        NextCandidate, ChainExhausted, EndStream, Record, Persist, RecordGeneration
  <2>4. degraded'[c] = degraded[c]
    BY <1>0, <1>2, <2>3 DEF NoFault, Fault, TypeOK
  <2>5. spent' = spent \/ spent' = spent \cup {CurrentGeneration(d)}
    BY <1>2
    DEF Admit, PostAndDrop, Chunk, Drop, Progress, Post, Repair, Load, Freeze, Reload,
        NextCandidate, ChainExhausted, EndStream, Record, Persist
  <2>6. \A i \in 1..Candidates : <<c, i>> \in spent' => <<c, i>> \in spent
    BY <1>2, <2>5 DEF CurrentGeneration
  <2> QED
    BY <2>1, <2>2, <2>4, <2>6, SpendUntouched, RecordedGrows
<1> QED
  BY <1>1, <1>2, SpendOwnStep DEF Next, vars, PostText, Resolve, Interrupt

LEMMA SpendInvariant == Spec => [](\A c \in Calls : SpendInv(c))
  <1>1. VoiceInv /\ (\A c \in Calls : SpendInv(c)) /\ [Next]_vars
          => (\A c \in Calls : SpendInv(c))'
    BY SpendStep
  <1> QED
    BY <1>1, SpendInit, VoiceInvariant, PTL DEF Spec

\* No spend is forgotten: whatever the chain fell through, a generation the
\* provider billed has its row once the call is over, unless its client left or
\* a database call failed under it.
THEOREM SpendIsKept == Spec => []SpendIsRecorded
  <1>1. VoiceInv /\ (\A c \in Calls : SpendInv(c)) => SpendIsRecorded
    BY DEF SpendInv, SpendIsRecorded, Live, LiveStages
  <1> QED
    BY <1>1, SpendInvariant, VoiceInvariant, PTL

LEMMA RefersStep ==
    ASSUME VoiceInv, \A c \in Calls : SpendInv(c), ReplyRefersToRecorded, [Next]_vars
    PROVE  ReplyRefersToRecorded'
<1> SUFFICES ASSUME NEW t \in Turns PROVE reply'[t].generation \in recorded \cup {None}
  BY RecordedGrows DEF ReplyRefersToRecorded
<1>0. /\ TypeOK
      /\ reply[t] \in Replies
      /\ reply[t].generation \in recorded \cup {None}
  BY DEF VoiceInv, TypeOK, ReplyRefersToRecorded
<1>1. ASSUME NEW c \in Calls, Persist(c) PROVE reply'[t].generation \in recorded \cup {None}
  <2>1. GenerationId(c) \in recorded \cup {None}
    BY <1>1 DEF Persist, SpendInv, GenerationId
  <2>2. CASE reply'[t] = reply[t]
    BY <1>0, <2>2
  <2>3. CASE reply'[t] # reply[t]
    <3>1. t = turnOf[c]
      BY <1>0, <1>1, <2>3, PersistWrites DEF TypeOK
    <3>2. \/ reply'[t] = [reply[t] EXCEPT !.generation = GenerationId(c)]
          \/ reply'[t] = Spoken(c)
      BY <1>0, <1>1, <2>3, <3>1, PersistWrites DEF TypeOK
    <3> QED
      BY <1>0, <2>1, <3>2 DEF Replies, Spoken
  <2> QED
    BY <2>2, <2>3
<1>2. ASSUME NEW b \in Interrupts, Interrupt(b)
      PROVE  reply'[t].generation \in recorded \cup {None}
  BY <1>0, <1>2, InterruptWrites DEF TypeOK
<1>3. ASSUME UNCHANGED <<reply, interrupted>>
      PROVE  reply'[t].generation \in recorded \cup {None}
  BY <1>0, <1>3
<1> QED
  BY <1>1, <1>2, <1>3, RepliesUntouched

\* A reply refers to no generation that was not recorded before it.
THEOREM RecordBeforeReply == Spec => []ReplyRefersToRecorded
  <1>1. Init => ReplyRefersToRecorded
    BY DEF Init, ReplyRefersToRecorded, NoReply
  <1> QED
    BY <1>1, VoiceInvariant, SpendInvariant, RefersStep, PTL DEF Spec

-----------------------------------------------------------------------------
CountInv == \A t \in Turns : counted[t] <= 1 /\ (row[t] = "absent" => counted[t] = 0)

LEMMA CountStep ==
    ASSUME VoiceInv, CountInv, [Next]_vars
    PROVE  CountInv'
<1> USE DEF turnVars
<1>0. TypeOK
  BY DEF VoiceInv
<1>1. CASE UNCHANGED <<row, counted>>
  BY <1>1 DEF CountInv
<1>2. ASSUME NEW u \in Turns, PostText(u) PROVE CountInv'
  BY <1>0, <1>2 DEF PostText, CountInv, TypeOK
<1>3. ASSUME NEW c \in Calls, PostAndDrop(c) PROVE CountInv'
  BY <1>0, <1>3 DEF PostAndDrop, CountInv, TypeOK
<1>4. ASSUME NEW c \in Calls, Post(c) PROVE CountInv'
  BY <1>0, <1>4 DEF Post, CountInv, TypeOK
<1> QED
  BY <1>1, <1>2, <1>3, <1>4
  DEF Next, vars, Admit, Chunk, Drop, Resolve, Interrupt, Progress, Repair, Load, Freeze,
      Reload, NextCandidate, ChainExhausted, EndStream, Record, Persist

\* Retries and repairs of a turn do not bring the relationship's scan forward.
THEOREM TurnsCountOnce == Spec => []CountedOnce
  <1>1. Init => CountInv
    BY DEF Init, CountInv
  <1>2. CountInv => CountedOnce
    BY DEF CountInv, CountedOnce
  <1> QED
    BY <1>1, <1>2, VoiceInvariant, CountStep, PTL DEF Spec
=============================================================================
