--------------------------- MODULE AgentLoopProofs ---------------------------
(***************************************************************************)
(* Machine-checked proofs about AgentLoop: the write gate, the             *)
(* serialisation of unsafe calls and the shape of the conversation, for    *)
(* any tool set, any size of a batch and any setting of the compaction.    *)
(***************************************************************************)
EXTENDS AgentLoop, FiniteSetTheorems, SequenceTheorems, WellFoundedInduction, TLAPS

-----------------------------------------------------------------------------
(* Lemmas about the operators *)

LEMMA MinIsLeast ==
  ASSUME NEW S \in SUBSET Nat, S # {}
  PROVE  Min(S) \in S /\ \A y \in S : Min(S) <= y
<1> DEFINE R == OpToRel(<, Nat)
<1>1. IsWellFoundedOn(R, Nat)
  BY NatLessThanWellFounded, Zenon
<1>2. \A x, y \in S : y < x => <<y, x>> \in R
  BY DEF OpToRel
<1> HIDE DEF R
<1>3. PICK x \in S : \A y \in S : ~(<<y, x>> \in R)
  BY <1>1, WFMin
<1>4. \A y \in S : ~(y < x)
  BY <1>2, <1>3
<1>5. \A y \in S : x <= y
  BY <1>4
<1> QED
  BY <1>5 DEF Min

LEMMA MaxOfTwo ==
  ASSUME NEW a \in Int, NEW b \in Int
  PROVE  Max({a, b}) \in {a, b} /\ Max({a, b}) >= a /\ Max({a, b}) >= b
<1>1. \E x \in {a, b} : \A y \in {a, b} : x >= y
  <2>1. CASE a >= b
    BY <2>1
  <2>2. CASE ~(a >= b)
    BY <2>2
  <2> QED
    BY <2>1, <2>2
<1> QED
  BY <1>1 DEF Max

\* A reply holds at least one call.
LEMMA CallsAreSequences ==
  ASSUME NEW calls \in Calls
  PROVE  calls \in Seq(Names) /\ Len(calls) \in Nat /\ Len(calls) > 0
<1>1. PICK k \in Indices : calls \in [1..k -> Names]
  BY DEF Calls
<1>2. k \in Nat /\ k > 0
  BY LoopConstants DEF Indices
<1>3. calls \in Seq(Names)
  BY <1>1, <1>2
<1>4. Len(calls) = k
  BY <1>1, <1>2, <1>3
<1> QED
  BY <1>2, <1>3, <1>4

\* The calls are split between the running and the waiting ones, and an unsafe
\* call is started only if there is no safe one.
LEMMA BeginSplits ==
  ASSUME NEW calls \in Seq(Names), Len(calls) > 0, Begin(calls)
  PROVE  /\ running' \cup waiting' = 1..Len(calls)
         /\ running' \cap waiting' = {}
         /\ \A i \in running' : calls[i] \in Unsafe => running' = {i}
<1> DEFINE unsafe == {i \in 1..Len(calls) : calls[i] \in Unsafe}
           safe   == (1..Len(calls)) \ unsafe
<1>0. Len(calls) \in Nat /\ 1 \in 1..Len(calls) /\ 1..Len(calls) \subseteq Nat
  BY LenProperties
<1>1. CASE safe # {}
  BY <1>0, <1>1 DEF Begin
<1>2. CASE safe = {}
  <2>1. running' = {Min(unsafe)} /\ waiting' = unsafe \ {Min(unsafe)} 
    BY <1>2 DEF Begin
  <2>2. unsafe = 1..Len(calls)
    BY <1>2
  <2>3. Min(unsafe) \in unsafe
    BY <1>0, <2>2, MinIsLeast
  <2> HIDE DEF unsafe, safe
  <2> QED
    BY <2>1, <2>2, <2>3
<1> QED
  BY <1>1, <1>2

-----------------------------------------------------------------------------
(* The batch being executed *)

\* The calls that run or wait are calls of the batch; an unsafe one runs alone;
\* and a batch that runs behind the gate was approved or holds no write.
BatchInv ==
  /\ batches \in Nat
  /\ batch \in Seq(Names)
  /\ pc \in {"paused", "tools"} => Len(batch) > 0
  /\ running \subseteq 1..Len(batch) /\ waiting \subseteq 1..Len(batch)
  /\ running \cap waiting = {}
  /\ pc # "tools" => running = {} /\ waiting = {}
  /\ \A i \in running : batch[i] \in Unsafe => running = {i}
  /\ gate = "write" /\ pc = "tools" =>
       approved = batches \/ \A i \in 1..Len(batch) : batch[i] \notin Registered \ ReadOnly

LEMMA InitBatch == Init => BatchInv
BY EmptySeq DEF Init, BatchInv

\* The steps of a round that touch no tool call.
Elsewhere ==
  \/ StartRound \/ Summarised \/ SafetyLimit \/ AttemptTimesOut \/ Malformed
  \/ \E status \in {401, 404, 429, 500} : Refuses(status)
  \/ \E length \in BOOLEAN : ReplyText(length) \/ Continued(length)
  \/ \E empty \in BOOLEAN, finish \in {"stop", "length", "content_filter"} :
       Repaired(empty, finish)
  \/ Deny \/ Done \/ UNCHANGED vars

LEMMA ElsewhereIsQuiet ==
  ASSUME Elsewhere
  PROVE  /\ UNCHANGED <<gate, approved, batch, batches, running, waiting, finished>>
         /\ pc' = pc \/ (pc # "tools" /\ pc' \notin {"tools", "paused"})
         /\ ~Summarised => UNCHANGED messages
         /\ pc' = "summarise" => pc = "summarise" \/ Compactable
<1>1. CASE StartRound \/ Summarised \/ SafetyLimit
  BY <1>1 DEF StartRound, Summarised, SafetyLimit, AskModel, Finish, exec, ctx
<1>2. ASSUME NEW r, AttemptFails(r)
      PROVE  /\ UNCHANGED <<gate, approved, batch, batches, running, waiting, finished,
                            messages>>
             /\ pc' = pc \/ (pc # "tools" /\ pc' = "done")
  BY <1>2 DEF AttemptFails, Finish, exec, ctx
<1>3. CASE AttemptTimesOut \/ Malformed \/ \E status \in {401, 404, 429, 500} : Refuses(status)
  BY <1>2, <1>3 DEF AttemptTimesOut, Malformed, Refuses
<1>4. CASE \E length \in BOOLEAN : ReplyText(length) \/ Continued(length)
  BY <1>4 DEF ReplyText, Continued, Finish, exec, ctx
<1>5. CASE \E empty \in BOOLEAN, finish \in {"stop", "length", "content_filter"} :
             Repaired(empty, finish)
  BY <1>5 DEF Repaired, Finish, exec, ctx
<1>6. CASE Deny \/ Done \/ UNCHANGED vars
  BY <1>6 DEF Deny, Done, Finish, vars, exec, ctx
<1> QED
  BY <1>1, <1>3, <1>4, <1>5, <1>6 DEF Elsewhere

LEMMA NextBatch == BatchInv /\ [Next]_vars => BatchInv'
<1> SUFFICES ASSUME BatchInv, [Next]_vars PROVE BatchInv'
  OBVIOUS
<1>0. /\ batches \in Nat /\ batch \in Seq(Names)
      /\ running \subseteq 1..Len(batch) /\ waiting \subseteq 1..Len(batch)
      /\ running \cap waiting = {}
      /\ pc # "tools" => running = {} /\ waiting = {}
  BY DEF BatchInv
<1>1. CASE Elsewhere
  BY <1>1, ElsewhereIsQuiet DEF BatchInv
<1>2. ASSUME NEW calls \in Calls, ReplyTools(calls) PROVE BatchInv'
  <2>1. calls \in Seq(Names) /\ Len(calls) \in Nat /\ Len(calls) > 0
    BY CallsAreSequences
  <2>2. /\ pc = "infer" /\ batch' = calls /\ batches' = batches + 1
        /\ UNCHANGED <<gate, approved>> /\ batches' \in Nat
    BY <1>0, <1>2 DEF ReplyTools
  <2>3. CASE NeedsApproval(calls)
    <3>1. pc' = "paused" /\ UNCHANGED <<running, waiting>>
      BY <1>2, <2>3 DEF ReplyTools
    <3> QED
      BY <1>0, <2>1, <2>2, <3>1 DEF BatchInv
  <2>4. CASE ~NeedsApproval(calls)
    <3>1. pc' = "tools" /\ Begin(calls)
      BY <1>2, <2>4 DEF ReplyTools, Execute
    <3>2. gate = "write" => \A i \in 1..Len(calls) : calls[i] \notin Registered \ ReadOnly
      BY <2>4 DEF NeedsApproval, Refused, WriteCalls, Tools
    <3>3. /\ running' \cup waiting' = 1..Len(calls) /\ running' \cap waiting' = {}
          /\ \A i \in running' : calls[i] \in Unsafe => running' = {i}
      BY <2>1, <3>1, BeginSplits
    <3> QED
      BY <2>1, <2>2, <3>1, <3>2, <3>3 DEF BatchInv
  <2> QED
    BY <2>3, <2>4
<1>3. ASSUME NEW i \in Indices, ToolEnds(i) PROVE BatchInv'
  <2>1. /\ pc = "tools" /\ i \in running
        /\ UNCHANGED <<gate, batch, batches, approved>>
    BY <1>3 DEF ToolEnds
  <2>2. CASE running = {i} /\ waiting = {}
    <3>1. pc' = "round" /\ running' = {} /\ waiting' = {}
      BY <1>3, <2>2 DEF ToolEnds
    <3> QED
      BY <1>0, <2>1, <3>1 DEF BatchInv
  <2>3. CASE running = {i} /\ waiting # {}
    <3>1. pc' = "tools" /\ running' = {Min(waiting)} /\ waiting' = waiting \ {Min(waiting)}
      BY <1>3, <2>1, <2>3 DEF ToolEnds
    <3>2. Min(waiting) \in waiting
      BY <1>0, <2>3, MinIsLeast, LenProperties
    <3> QED
      BY <1>0, <2>1, <3>1, <3>2 DEF BatchInv
  <2>4. CASE running # {i}
    <3>1. pc' = "tools" /\ running' = running \ {i} /\ waiting' = waiting
      BY <1>3, <2>1, <2>4 DEF ToolEnds
    <3>2. \A j \in running : batch[j] \notin Unsafe
      BY <2>1, <2>4 DEF BatchInv
    <3> QED
      BY <1>0, <2>1, <3>1, <3>2 DEF BatchInv
  <2> QED
    BY <2>2, <2>3, <2>4
<1>4. CASE Approve
  <2>1. /\ pc = "paused" /\ pc' = "tools" /\ approved' = batches /\ Begin(batch)
        /\ UNCHANGED <<gate, batch, batches>>
    BY <1>4 DEF Approve, Execute
  <2>2. Len(batch) > 0
    BY <2>1 DEF BatchInv
  <2>3. /\ running' \cup waiting' = 1..Len(batch) /\ running' \cap waiting' = {}
        /\ \A i \in running' : batch[i] \in Unsafe => running' = {i}
    BY <1>0, <2>1, <2>2, BeginSplits
  <2> QED
    BY <1>0, <2>1, <2>2, <2>3 DEF BatchInv
<1> QED
  BY <1>1, <1>2, <1>3, <1>4 DEF Next, LoopStep, Elsewhere

\* Behind the write gate no write runs unless the user approved that very batch:
\* execute_tool_calls is entered with a batch the gate let through as a whole, or
\* by the Approve click for the batch that paused the turn.
THEOREM NoWriteUnapproved == Spec => []WritesAreApproved
<1>1. BatchInv => WritesAreApproved
  BY DEF BatchInv, WritesAreApproved
<1> QED
  BY <1>1, InitBatch, NextBatch, PTL DEF Spec

\* An unsafe call never runs beside another call of its batch, in whatever order
\* the concurrent ones finish.
THEOREM UnsafeCallsSerialised == Spec => []UnsafeRunsAlone
<1>1. BatchInv => UnsafeRunsAlone
  BY DEF BatchInv, UnsafeRunsAlone
<1> QED
  BY <1>1, InitBatch, NextBatch, PTL DEF Spec

-----------------------------------------------------------------------------
(* Every call of a batch finishes once *)

CountInv ==
  /\ finished \in Seq(Nat)
  /\ pc = "tools" => Len(finished) + Cardinality(running) + Cardinality(waiting) = Len(batch)

LEMMA InitCount == Init => CountInv
BY EmptySeq DEF Init, CountInv

\* Starting a batch leaves as many calls running or waiting as it has.
LEMMA BeginCounts ==
  ASSUME NEW calls \in Seq(Names), Len(calls) > 0, Begin(calls)
  PROVE  Cardinality(running') + Cardinality(waiting') = Len(calls)
<1>1. /\ running' \cup waiting' = 1..Len(calls) /\ running' \cap waiting' = {}
      /\ Len(calls) \in Nat
  BY BeginSplits, LenProperties
<1>2. IsFiniteSet(1..Len(calls)) /\ Cardinality(1..Len(calls)) = Len(calls)
  BY <1>1, FS_Interval
<1>3. IsFiniteSet(running') /\ IsFiniteSet(waiting')
  BY <1>1, <1>2, FS_Subset
<1>4. /\ Cardinality(running') \in Nat /\ Cardinality(waiting') \in Nat
      /\ Cardinality(running' \cap waiting') = 0
  BY <1>1, <1>3, FS_CardinalityType, FS_EmptySet
<1>5. Len(calls) = Cardinality(running') + Cardinality(waiting')
                   - Cardinality(running' \cap waiting')
  BY <1>1, <1>2, <1>3, FS_Union
<1> QED
  BY <1>1, <1>4, <1>5

LEMMA NextCount == BatchInv /\ CountInv /\ [Next]_vars => CountInv'
<1> SUFFICES ASSUME BatchInv, CountInv, [Next]_vars PROVE CountInv'
  OBVIOUS
<1>0. /\ finished \in Seq(Nat) /\ batch \in Seq(Names) /\ Len(finished) \in Nat
      /\ Len(batch) \in Nat
  BY LenProperties DEF BatchInv, CountInv
<1>1. CASE Elsewhere
  BY <1>1, ElsewhereIsQuiet DEF CountInv
<1>2. ASSUME NEW calls \in Seq(Names), Len(calls) > 0, Begin(calls), batch' = calls,
             finished' = <<>>
      PROVE  CountInv'
  <2>1. Cardinality(running') + Cardinality(waiting') = Len(calls)
    BY <1>2, BeginCounts
  <2>2. IsFiniteSet(running') /\ IsFiniteSet(waiting')
    <3>1. /\ running' \cup waiting' = 1..Len(calls) /\ Len(calls) \in Nat
      BY <1>2, BeginSplits, LenProperties
    <3>2. IsFiniteSet(1..Len(calls))
      BY <3>1, FS_Interval
    <3> QED
      BY <3>1, <3>2, FS_Subset
  <2>3. Cardinality(running') \in Nat /\ Cardinality(waiting') \in Nat
    BY <2>2, FS_CardinalityType
  <2>4. finished' \in Seq(Nat) /\ Len(finished') = 0
    BY <1>2, EmptySeq
  <2> QED
    BY <1>2, <2>1, <2>3, <2>4 DEF CountInv
<1>3. ASSUME NEW calls \in Calls, ReplyTools(calls) PROVE CountInv'
  <2>1. CASE NeedsApproval(calls)
    BY <1>0, <1>3, <2>1 DEF ReplyTools, CountInv
  <2>2. CASE ~NeedsApproval(calls)
    BY <1>2, <1>3, <2>2, CallsAreSequences DEF ReplyTools, Execute
  <2> QED
    BY <2>1, <2>2
<1>4. CASE Approve
  BY <1>0, <1>2, <1>4 DEF Approve, Execute, BatchInv
<1>5. ASSUME NEW i \in Indices, ToolEnds(i) PROVE CountInv'
  <2>1. /\ pc = "tools" /\ i \in running /\ finished' = Append(finished, i)
        /\ batch' = batch
    BY <1>5 DEF ToolEnds
  <2>2. running \subseteq 1..Len(batch) /\ waiting \subseteq 1..Len(batch) /\ i \in Nat
    BY <1>0, <2>1 DEF BatchInv
  <2>3. finished' \in Seq(Nat) /\ Len(finished') = Len(finished) + 1
    BY <1>0, <2>1, <2>2, AppendProperties
  <2>4. IsFiniteSet(running) /\ IsFiniteSet(waiting)
    <3>1. IsFiniteSet(1..Len(batch))
      BY <1>0, FS_Interval
    <3> QED
      BY <2>2, <3>1, FS_Subset
  <2>5. /\ Cardinality(running) \in Nat /\ Cardinality(waiting) \in Nat
        /\ Len(finished) + Cardinality(running) + Cardinality(waiting) = Len(batch)
    BY <2>1, <2>4, FS_CardinalityType DEF CountInv
  <2>6. CASE running = {i} /\ waiting = {}
    <3>1. pc' = "round"
      BY <1>5, <2>6 DEF ToolEnds
    <3> QED
      BY <2>3, <3>1 DEF CountInv
  <2>7. CASE running = {i} /\ waiting # {}
    <3>1. running' = {Min(waiting)} /\ waiting' = waiting \ {Min(waiting)}
      BY <1>5, <2>7 DEF ToolEnds
    <3>2. Min(waiting) \in waiting
      BY <1>0, <2>2, <2>7, MinIsLeast
    <3>3. /\ Cardinality(running') = 1 /\ Cardinality(running) = 1
          /\ Cardinality(waiting') = Cardinality(waiting) - 1
      BY <2>4, <2>7, <3>1, <3>2, FS_Singleton, FS_RemoveElement
    <3> QED
      BY <1>0, <2>1, <2>3, <2>5, <3>3 DEF CountInv
  <2>8. CASE running # {i}
    <3>1. running' = running \ {i} /\ waiting' = waiting
      BY <1>5, <2>8 DEF ToolEnds
    <3>2. Cardinality(running') = Cardinality(running) - 1
      BY <2>1, <2>4, <3>1, FS_RemoveElement
    <3> QED
      BY <1>0, <2>1, <2>3, <2>5, <3>1, <3>2 DEF CountInv
  <2> QED
    BY <2>6, <2>7, <2>8
<1> QED
  BY <1>1, <1>3, <1>4, <1>5 DEF Next, LoopStep, Elsewhere

-----------------------------------------------------------------------------
(* The conversation *)

\* Every message of the first m that holds calls is directly followed by their
\* results, in input order.
Answered(ms, m) ==
  \A k \in 1..m :
    ms[k].role = "call" =>
      /\ k + ms[k].n <= m
      /\ \A i \in 1..ms[k].n : ms[k + i] = [role |-> "tool", batch |-> ms[k].batch, n |-> i]

\* While tools run, only the last message is not answered yet.
MessageInv ==
  /\ messages \in Seq(Message)
  /\ Len(messages) >= 1 /\ messages[1].role # "call"
  /\ pc = "summarise" => Compactable
  /\ pc # "tools" => Answered(messages, Len(messages))
  /\ pc = "tools" =>
       /\ messages[Len(messages)] = [role |-> "call", batch |-> batches, n |-> Len(batch)]
       /\ Answered(messages, Len(messages) - 1)

LEMMA InitMessages == Init => MessageInv
<1> SUFFICES ASSUME Init PROVE MessageInv
  OBVIOUS
<1>1. messages = <<Plain("system"), Plain("user")>> /\ pc \in {"repair", "round"}
  BY DEF Init
<1>2. Plain("system") \in Message /\ Plain("user") \in Message
  BY DEF Plain, Message
<1>3. /\ messages \in Seq(Message) /\ Len(messages) = 2
      /\ messages[1] = Plain("system") /\ messages[2] = Plain("user")
  BY <1>1, <1>2
<1>4. \A k \in 1..2 : messages[k].role # "call"
  BY <1>3 DEF Plain
<1> QED
  BY <1>1, <1>3, <1>4 DEF MessageInv, Answered

\* compact() leaves at least MinKeep messages and takes at least two.
LEMMA CompressCountRange ==
  ASSUME NEW n \in Nat, n >= MinKeep + 2
  PROVE  CompressCount(n) \in 2..(n - 1)
<1> DEFINE share  == (n * CompressPercent) \div 100
           wanted == Max({2, share})
           kept   == Max({MinKeep, n - wanted})
<1>1. share \in Int
  <2>1. n * CompressPercent \in Int
    BY LoopConstants
  <2> QED
    BY <2>1
<1> HIDE DEF share
<1>2. wanted \in Int /\ wanted >= 2
  BY <1>1, MaxOfTwo
<1> HIDE DEF wanted
<1>3. MinKeep \in Nat /\ MinKeep >= 1
  BY LoopConstants
<1>4. kept \in {MinKeep, n - wanted} /\ kept >= MinKeep
  <2>1. n - wanted \in Int /\ MinKeep \in Int
    BY <1>2, <1>3
  <2> QED
    BY <2>1, MaxOfTwo
<1> HIDE DEF kept
<1>5. n - kept \in 2..(n - 1)
  BY <1>2, <1>3, <1>4
<1>6. CompressCount(n) = n - kept
  BY DEF CompressCount, kept, wanted, share
<1> QED
  BY <1>5, <1>6

\* Cutting the oldest messages off and putting a summary in their place keeps
\* every call that is left together with its results.
LEMMA CompactedAnswered ==
  ASSUME NEW ms \in Seq(Message), Len(ms) - 1 >= MinKeep + 2, ms[1].role # "call",
         Answered(ms, Len(ms))
  PROVE  /\ Compacted(ms) \in Seq(Message)
         /\ Len(Compacted(ms)) >= 1 /\ Compacted(ms)[1].role # "call"
         /\ Answered(Compacted(ms), Len(Compacted(ms)))
<1> DEFINE L == Len(ms)
           c == CompressCount(Len(ms) - 1)
           h == <<ms[1], Plain("user"), Plain("assistant")>>
           t == SubSeq(ms, c + 2, Len(ms))
           r == h \o t
<1>0. L \in Nat /\ MinKeep \in Nat /\ L - 1 \in Nat
  BY LenProperties, LoopConstants
<1>1. c \in 2..(L - 2)
  BY <1>0, CompressCountRange
<1>2. \A i \in 1..L : ms[i] \in Message
  BY ElementOfSeq
<1>3. Plain("user") \in Message /\ Plain("assistant") \in Message /\ ms[1] \in Message
  BY <1>0, <1>1, <1>2 DEF Plain, Message
<1>4. h \in Seq(Message) /\ Len(h) = 3 /\ \A i \in 1..3 : h[i].role # "call"
  BY <1>3 DEF Plain
<1> HIDE DEF c, h, L
<1>5. /\ t \in Seq(Message) /\ Len(t) = L - c - 1
      /\ \A i \in 1..Len(t) : t[i] = ms[c + 1 + i]
  <2>1. c + 2 \in Int /\ L \in Int /\ c + 2 <= L /\ \A i \in (c + 2)..L : ms[i] \in Message
    BY <1>0, <1>1, <1>2
  <2>2. /\ t \in Seq(Message)
        /\ Len(t) = IF c + 2 <= L THEN L - (c + 2) + 1 ELSE 0
        /\ \A i \in 1..(L - (c + 2) + 1) : t[i] = ms[(c + 2) + i - 1]
    BY <2>1, SubSeqProperties DEF L
  <2>3. Len(t) = L - (c + 2) + 1 /\ L - (c + 2) + 1 = L - c - 1
    BY <1>0, <1>1, <2>1, <2>2
  <2>4. \A i \in 1..Len(t) : (c + 2) + i - 1 = c + 1 + i
    BY <1>0, <1>1, <2>3
  <2> QED
    BY <2>2, <2>3, <2>4
<1> HIDE DEF t
<1>6. /\ r \in Seq(Message) /\ Len(r) = 3 + Len(t)
      /\ \A i \in 1..(3 + Len(t)) : r[i] = IF i <= 3 THEN h[i] ELSE t[i - 3]
  <2>1. /\ r \in Seq(Message) /\ Len(r) = Len(h) + Len(t)
        /\ \A i \in 1..(Len(h) + Len(t)) :
             r[i] = IF i <= Len(h) THEN h[i] ELSE t[i - Len(h)]
    BY <1>4, <1>5, ConcatProperties
  <2> HIDE DEF r
  <2> QED
    BY <1>4, <2>1
<1> HIDE DEF r
<1>7. Len(t) \in Nat /\ Len(r) = L - c + 2
  BY <1>0, <1>1, <1>5, <1>6
<1>8. \A i \in 4..Len(r) : r[i] = ms[i + c - 2] /\ i + c - 2 \in 1..L
  <2> TAKE i \in 4..Len(r)
  <2>1. /\ i - 3 \in 1..Len(t) /\ i \in 1..(3 + Len(t)) /\ ~(i <= 3)
        /\ c + 1 + (i - 3) = i + c - 2 /\ i + c - 2 \in 1..L
    BY <1>0, <1>1, <1>5, <1>7
  <2> QED
    BY <1>5, <1>6, <2>1
<1>9. \A i \in 1..3 : r[i] = h[i]
  BY <1>6, <1>7
<1>10. ASSUME NEW k \in 1..Len(r), r[k].role = "call"
       PROVE  /\ k + r[k].n <= Len(r)
              /\ \A i \in 1..r[k].n :
                   r[k + i] = [role |-> "tool", batch |-> r[k].batch, n |-> i]
  <2>1. k \in 4..Len(r)
    BY <1>4, <1>7, <1>9, <1>10
  <2> DEFINE j == k + c - 2
  <2>2. r[k] = ms[j] /\ j \in 1..L
    BY <1>8, <2>1
  <2>3. r[k].n \in Nat
    BY <1>2, <2>2 DEF Message
  <2>4. /\ j + r[k].n <= L
        /\ \A i \in 1..r[k].n : ms[j + i] = [role |-> "tool", batch |-> r[k].batch, n |-> i]
    BY <1>10, <2>2 DEF Answered, L
  <2>5. k + r[k].n <= Len(r)
    BY <1>0, <1>1, <1>7, <2>1, <2>3, <2>4
  <2>6. ASSUME NEW i \in 1..r[k].n PROVE r[k + i] = ms[j + i]
    <3>1. k + i \in 4..Len(r) /\ (k + i) + c - 2 = j + i
      BY <1>0, <1>1, <1>7, <2>1, <2>3, <2>5
    <3> QED
      BY <1>8, <3>1
  <2> QED
    BY <2>4, <2>5, <2>6
<1>11. Answered(r, Len(r))
  BY <1>10 DEF Answered
<1>12. Len(r) >= 1 /\ r[1].role # "call"
  BY <1>4, <1>6, <1>7, <1>9
<1>13. Compacted(ms) = r
  BY DEF Compacted, r, h, t, c
<1> QED
  BY <1>6, <1>11, <1>12, <1>13

\* A message with calls is appended to an answered conversation.
LEMMA ExecuteMessages ==
  ASSUME MessageInv, pc # "tools", NEW calls \in Seq(Names), batch' = calls,
         NEW number \in Nat, batches' = number, Execute(calls, number)
  PROVE  MessageInv'
<1> DEFINE m == [role |-> "call", batch |-> number, n |-> Len(calls)]
           ms == Append(messages, m)
<1>0. /\ messages \in Seq(Message) /\ Len(messages) \in Nat /\ Len(messages) >= 1
      /\ messages[1].role # "call" /\ Answered(messages, Len(messages))
  BY LenProperties DEF MessageInv
<1>1. m \in Message
  BY LenProperties DEF Message
<1>2. messages' = ms /\ pc' = "tools"
  BY DEF Execute
<1> HIDE DEF m
<1>3. /\ ms \in Seq(Message) /\ Len(ms) = Len(messages) + 1
      /\ \A i \in 1..Len(messages) : ms[i] = messages[i]
      /\ ms[Len(messages) + 1] = m
  BY <1>0, <1>1, AppendProperties
<1> HIDE DEF ms
<1>4. Answered(ms, Len(messages))
  <2> SUFFICES ASSUME NEW k \in 1..Len(messages), ms[k].role = "call"
               PROVE  /\ k + ms[k].n <= Len(messages)
                      /\ \A i \in 1..ms[k].n :
                           ms[k + i] = [role |-> "tool", batch |-> ms[k].batch, n |-> i]
    BY DEF Answered
  <2>1. ms[k] = messages[k] /\ messages[k] \in Message
    BY <1>0, <1>3, ElementOfSeq
  <2>2. /\ k + ms[k].n <= Len(messages)
        /\ \A i \in 1..ms[k].n :
             messages[k + i] = [role |-> "tool", batch |-> ms[k].batch, n |-> i]
    BY <1>0, <2>1 DEF Answered
  <2>3. ms[k].n \in Nat
    BY <2>1 DEF Message
  <2>4. \A i \in 1..ms[k].n : k + i \in 1..Len(messages)
    BY <1>0, <2>2, <2>3
  <2> QED
    BY <1>3, <2>2, <2>4
<1>5. /\ Len(ms) - 1 = Len(messages) /\ Len(ms) >= 1 /\ ms[1].role # "call"
      /\ ms[Len(ms)] = m
  BY <1>0, <1>3
<1> QED
  BY <1>2, <1>3, <1>4, <1>5 DEF MessageInv, m

\* The results of a batch in input order answer its message.
LEMMA ResultsAnswer ==
  ASSUME MessageInv, BatchInv, pc = "tools",
         NEW order \in Seq(Nat), Len(order) = Len(batch),
         messages' = messages \o Results(order), pc' = "round"
  PROVE  MessageInv'
<1> DEFINE L == Len(messages)
           N == Len(batch)
           rs == Results(order)
           ms == messages \o rs
<1>0. /\ messages \in Seq(Message) /\ L \in Nat /\ L >= 1 /\ messages[1].role # "call"
      /\ Answered(messages, L - 1)
      /\ messages[L] = [role |-> "call", batch |-> batches, n |-> N]
      /\ batches \in Nat /\ N \in Nat
  BY LenProperties DEF MessageInv, BatchInv
<1>1. /\ rs \in Seq(Message) /\ Len(rs) = N
      /\ \A k \in 1..N : rs[k] = [role |-> "tool", batch |-> batches, n |-> k]
  <2>1. rs = [k \in 1..N |-> [role |-> "tool", batch |-> batches, n |-> k]]
    BY DEF Results
  <2>2. \A k \in 1..N : [role |-> "tool", batch |-> batches, n |-> k] \in Message
    BY <1>0 DEF Message
  <2>3. rs \in [1..N -> Message]
    BY <2>1, <2>2
  <2> HIDE DEF rs, N
  <2>4. rs \in Seq(Message)
    BY <1>0, <2>3
  <2>5. Len(rs) = N
    BY <1>0, <2>3, <2>4
  <2> QED
    BY <2>1, <2>4, <2>5
<1> HIDE DEF rs, N
<1>2. /\ ms \in Seq(Message) /\ Len(ms) = L + N
      /\ \A i \in 1..(L + N) : ms[i] = IF i <= L THEN messages[i] ELSE rs[i - L]
  BY <1>0, <1>1, ConcatProperties
<1> HIDE DEF ms, L
<1>3. \A i \in 1..L : ms[i] = messages[i]
  BY <1>0, <1>2
<1>4. \A i \in 1..N : ms[L + i] = [role |-> "tool", batch |-> batches, n |-> i]
  <2> TAKE i \in 1..N
  <2>1. L + i \in 1..(L + N) /\ ~(L + i <= L) /\ (L + i) - L = i
    BY <1>0
  <2> QED
    BY <1>1, <1>2, <2>1
<1>5. ASSUME NEW k \in 1..Len(ms), ms[k].role = "call"
      PROVE  /\ k + ms[k].n <= Len(ms)
             /\ \A i \in 1..ms[k].n :
                  ms[k + i] = [role |-> "tool", batch |-> ms[k].batch, n |-> i]
  <2>1. CASE k \in 1..(L - 1)
    <3>1. k \in 1..L /\ ms[k] = messages[k] /\ messages[k] \in Message
      BY <1>0, <1>3, <2>1, ElementOfSeq DEF L
    <3>2. /\ k + ms[k].n <= L - 1 /\ ms[k].n \in Nat
          /\ \A i \in 1..ms[k].n :
               messages[k + i] = [role |-> "tool", batch |-> ms[k].batch, n |-> i]
      BY <1>0, <1>5, <2>1, <3>1 DEF Answered, Message
    <3>3. \A i \in 1..ms[k].n : k + i \in 1..L
      <4>1. PICK n \in Nat : n = ms[k].n
        BY <3>2
      <4>2. k + n <= L - 1 /\ k \in Nat
        BY <3>1, <3>2, <4>1
      <4>3. \A i \in 1..n : k + i \in 1..L
        BY <1>0, <4>2
      <4> QED
        BY <4>1, <4>3
    <3>4. k + ms[k].n <= Len(ms)
      BY <1>0, <1>2, <3>1, <3>2
    <3> QED
      BY <1>3, <3>2, <3>3, <3>4
  <2>2. CASE k = L
    BY <1>0, <1>2, <1>3, <1>4, <2>2
  <2>3. CASE k \in (L + 1)..(L + N)
    <3>1. PICK i \in 1..N : L + i = k
      <4>1. k - L \in 1..N /\ L + (k - L) = k
        BY <1>0, <2>3
      <4> QED
        BY <4>1
    <3>2. ms[L + i] = [role |-> "tool", batch |-> batches, n |-> i]
      BY <1>4
    <3> QED
      BY <1>5, <3>1, <3>2
  <2> QED
    BY <1>0, <1>2, <2>1, <2>2, <2>3
<1>6. Answered(ms, Len(ms)) /\ Len(ms) >= 1 /\ ms[1].role # "call"
  BY <1>0, <1>2, <1>3, <1>5 DEF Answered
<1>7. messages' = ms
  BY DEF ms, rs
<1> QED
  BY <1>2, <1>6, <1>7 DEF MessageInv

LEMMA NextMessages == BatchInv /\ CountInv /\ MessageInv /\ [Next]_vars => MessageInv'
<1> SUFFICES ASSUME BatchInv, CountInv, MessageInv, [Next]_vars PROVE MessageInv'
  OBVIOUS
<1>1. CASE Summarised
  <2>1. pc = "summarise" /\ messages' = Compacted(messages) /\ pc' = "infer"
    BY <1>1 DEF Summarised, AskModel
  <2> QED
    BY <2>1, CompactedAnswered DEF MessageInv, Compactable
<1>2. CASE Elsewhere /\ ~Summarised
  BY <1>2, ElsewhereIsQuiet DEF MessageInv, Compactable
<1>3. ASSUME NEW calls \in Calls, ReplyTools(calls) PROVE MessageInv'
  <2>1. pc = "infer" /\ batch' = calls /\ batches' = batches + 1 /\ batches' \in Nat
    BY <1>3 DEF ReplyTools, BatchInv
  <2>2. CASE NeedsApproval(calls)
    <3>1. pc' = "paused" /\ UNCHANGED messages
      BY <1>3, <2>2 DEF ReplyTools
    <3> QED
      BY <2>1, <3>1 DEF MessageInv
  <2>3. CASE ~NeedsApproval(calls)
    <3>1. Execute(calls, batches + 1)
      BY <1>3, <2>1, <2>3 DEF ReplyTools
    <3>2. calls \in Seq(Names)
      BY CallsAreSequences
    <3> QED
      BY <2>1, <3>1, <3>2, ExecuteMessages
  <2> QED
    BY <2>2, <2>3
<1>4. CASE Approve
  BY <1>4, ExecuteMessages DEF Approve, BatchInv
<1>5. ASSUME NEW i \in Indices, ToolEnds(i) PROVE MessageInv'
  <2>1. pc = "tools" /\ i \in running /\ UNCHANGED <<batch, batches>>
        /\ finished' = Append(finished, i)
    BY <1>5 DEF ToolEnds
  <2>2. CASE running = {i} /\ waiting = {}
    <3>1. pc' = "round" /\ messages' = messages \o Results(finished')
      BY <1>5, <2>2 DEF ToolEnds
    <3>2. Cardinality(running) = 1 /\ Cardinality(waiting) = 0
      BY <2>2, FS_Singleton, FS_EmptySet
    <3>3. finished \in Seq(Nat) /\ Len(finished) \in Nat /\ i \in Nat
          /\ Len(finished) + 1 + 0 = Len(batch)
      BY <2>1, <3>2, LenProperties DEF CountInv, BatchInv
    <3>4. finished' \in Seq(Nat) /\ Len(finished') = Len(batch)
      BY <2>1, <3>3, AppendProperties
    <3> QED
      BY <2>1, <3>1, <3>4, ResultsAnswer
  <2>3. CASE ~(running = {i} /\ waiting = {})
    <3>1. UNCHANGED <<pc, messages>>
      BY <1>5, <2>3 DEF ToolEnds
    <3> QED
      BY <2>1, <3>1 DEF MessageInv
  <2> QED
    BY <2>2, <2>3
<1> QED
  BY <1>1, <1>2, <1>3, <1>4, <1>5 DEF Next, LoopStep, Elsewhere

\* In every inference request the loop makes, each message with tool calls is
\* directly followed by one result per call, in input order, in whatever order the
\* calls finished and wherever compaction cut.
THEOREM CallsAnswered == Spec => []EveryCallAnswered
<1>1. MessageInv => EveryCallAnswered
  BY DEF MessageInv, Answered, EveryCallAnswered
<1> QED
  BY <1>1, InitBatch, NextBatch, InitCount, NextCount, InitMessages, NextMessages, PTL DEF Spec
=============================================================================
