------------------------ MODULE MessageBusClientProofs ------------------------
(***************************************************************************)
(* Machine-checked proofs about MessageBusClient, for any set of calls and *)
(* any queue size, number of retries and number of delivered messages.     *)
(***************************************************************************)
EXTENDS MessageBusClient, SequenceTheorems, TLAPS

-----------------------------------------------------------------------------
(* The bounded queues *)

\* A queue holds the newest of the p messages put into it, the consumer has seen
\* only older ones, and skipped some only if the queue is full.
Good(s, p, g) ==
    /\ s \in Seq(Nat) /\ p \in Nat /\ g \in Nat
    /\ Len(s) <= QueueSize
    /\ \A i \in 1..Len(s) : s[i] = p - Len(s) + i
    /\ g <= p - Len(s)
    /\ g < p - Len(s) => Len(s) = QueueSize

LEMMA GoodFacts ==
    ASSUME NEW s, NEW p, NEW g, Good(s, p, g)
    PROVE  /\ s \in Seq(Nat) /\ p \in Nat /\ g \in Nat
           /\ Len(s) \in Nat /\ QueueSize \in Nat \ {0}
           /\ Len(s) <= QueueSize
           /\ \A i \in 1..Len(s) : s[i] = p - Len(s) + i
           /\ g <= p - Len(s)
           /\ g < p - Len(s) => Len(s) = QueueSize
<1>1. s \in Seq(Nat)
  BY DEF Good
<1>2. Len(s) \in Nat
  BY <1>1, LenProperties
<1> QED
  BY <1>1, <1>2, BusAssumption DEF Good

LEMMA PutGood ==
    ASSUME NEW s, NEW p, NEW g, Good(s, p, g)
    PROVE  Good(PutOrDropOldest(s, p + 1), p + 1, g)
<1> DEFINE t == IF Len(s) = QueueSize THEN Tail(s) ELSE s
           u == Append(t, p + 1)
<1>f. /\ s \in Seq(Nat) /\ p \in Nat /\ g \in Nat
      /\ Len(s) \in Nat /\ QueueSize \in Nat \ {0}
      /\ Len(s) <= QueueSize
      /\ \A i \in 1..Len(s) : s[i] = p - Len(s) + i
      /\ g <= p - Len(s)
      /\ g < p - Len(s) => Len(s) = QueueSize
  BY GoodFacts
<1>1. /\ t \in Seq(Nat) /\ Len(t) \in Nat /\ Len(t) < QueueSize
      /\ Len(t) = IF Len(s) = QueueSize THEN Len(s) - 1 ELSE Len(s)
      /\ \A i \in 1..Len(t) : t[i] = p - Len(t) + i
  <2>1. CASE Len(s) = QueueSize
    <3>1. s # <<>>
      BY <1>f, <2>1, EmptySeq
    <3>2. /\ t \in Seq(Nat) /\ Len(t) = Len(s) - 1
          /\ \A i \in 1..Len(t) : t[i] = s[i + 1]
      BY <1>f, <2>1, <3>1, HeadTailProperties
    <3> HIDE DEF t
    <3>3. Len(t) \in Nat /\ Len(t) < QueueSize
      BY <1>f, <2>1, <3>2
    <3>4. ASSUME NEW i \in 1..Len(t) PROVE t[i] = p - Len(t) + i
      <4>1. i + 1 \in 1..Len(s) /\ i \in Nat
        BY <1>f, <3>2
      <4>2. s[i + 1] = p - Len(s) + (i + 1)
        BY <1>f, <4>1
      <4> QED
        BY <1>f, <3>2, <4>1, <4>2
    <3> QED
      BY <2>1, <3>2, <3>3, <3>4
  <2>2. CASE Len(s) # QueueSize
    <3>1. t = s
      BY <2>2
    <3> HIDE DEF t
    <3>2. Len(s) < QueueSize
      BY <1>f, <2>2
    <3> QED
      BY <1>f, <2>2, <3>1, <3>2
  <2> QED
    BY <2>1, <2>2
<1> HIDE DEF t
<1>2. /\ u \in Seq(Nat) /\ Len(u) = Len(t) + 1
      /\ \A i \in 1..Len(t) : u[i] = t[i]
      /\ u[Len(t) + 1] = p + 1
  <2>1. p + 1 \in Nat
    BY <1>f
  <2> QED
    BY <1>1, <2>1, AppendProperties
<1> HIDE DEF u
<1>3. ASSUME NEW i \in 1..Len(u) PROVE u[i] = (p + 1) - Len(u) + i
  <2>1. CASE i = Len(t) + 1
    <3>1. u[i] = p + 1 /\ Len(u) = i
      BY <1>2, <2>1
    <3>2. i \in Nat /\ p \in Nat
      BY <1>f, <1>1, <2>1
    <3> HIDE <2>1
    <3> QED
      BY <3>1, <3>2
  <2>2. CASE i \in 1..Len(t)
    <3>1. u[i] = p - Len(t) + i
      BY <1>1, <1>2, <2>2
    <3> QED
      BY <1>f, <1>1, <1>2, <2>2, <3>1
  <2> QED
    BY <1>1, <1>2, <2>1, <2>2
<1>4. /\ Len(u) <= QueueSize
      /\ g <= (p + 1) - Len(u)
      /\ g < (p + 1) - Len(u) => Len(u) = QueueSize
  <2>1. CASE Len(s) = QueueSize
    BY <1>f, <1>1, <1>2, <2>1
  <2>2. CASE Len(s) # QueueSize
    <3>0. g <= p - Len(s) /\ ~(g < p - Len(s))
      BY <1>f, <2>2
    <3>1. g = p - Len(s) /\ Len(t) = Len(s) /\ Len(u) = Len(s) + 1
      <4>1. g = p - Len(s)
        BY <1>f, <3>0
      <4>2. Len(t) = Len(s)
        BY <1>1, <2>2
      <4> QED
        BY <1>2, <4>1, <4>2
    <3>2. Len(s) < QueueSize
      BY <1>f, <2>2
    <3>3. (p + 1) - Len(u) = g
      BY <1>f, <3>1
    <3> QED
      BY <1>f, <3>1, <3>2, <3>3
  <2> QED
    BY <2>1, <2>2
<1>5. PutOrDropOldest(s, p + 1) = u
  BY DEF PutOrDropOldest, t, u
<1>6. p + 1 \in Nat
  BY <1>f
<1> QED
  BY <1>f, <1>2, <1>3, <1>4, <1>5, <1>6 DEF Good

LEMMA TakeGood ==
    ASSUME NEW s, NEW p, NEW g, Good(s, p, g), s # <<>>
    PROVE  Good(Tail(s), p, Head(s))
<1> DEFINE t == Tail(s)
<1>f. /\ s \in Seq(Nat) /\ p \in Nat /\ g \in Nat
      /\ Len(s) \in Nat /\ QueueSize \in Nat \ {0}
      /\ Len(s) <= QueueSize
      /\ \A i \in 1..Len(s) : s[i] = p - Len(s) + i
      /\ g <= p - Len(s)
  BY GoodFacts
<1>1. /\ t \in Seq(Nat) /\ Len(t) = Len(s) - 1
      /\ \A i \in 1..Len(t) : t[i] = s[i + 1]
      /\ Head(s) = s[1] /\ Head(s) \in Nat
  BY <1>f, HeadTailProperties
<1>2. Len(s) # 0
  BY <1>f, EmptySeq
<1> HIDE DEF t
<1>3. Head(s) = p - Len(t)
  BY <1>f, <1>1, <1>2
<1>4. ASSUME NEW i \in 1..Len(t) PROVE t[i] = p - Len(t) + i
  <2>1. i + 1 \in 1..Len(s) /\ i \in Nat
    BY <1>f, <1>1
  <2>2. s[i + 1] = p - Len(s) + (i + 1)
    BY <1>f, <2>1
  <2> QED
    BY <1>f, <1>1, <2>1, <2>2
<1>5. Len(t) <= QueueSize /\ Head(s) <= p - Len(t) /\ ~(Head(s) < p - Len(t))
  BY <1>f, <1>1, <1>3
<1>6. Good(t, p, Head(s))
  BY <1>f, <1>1, <1>4, <1>5 DEF Good
<1> QED
  BY <1>6 DEF t

LEMMA EmptyGood == Good(<<>>, 0, 0)
BY BusAssumption DEF Good

MsgInv ==
    /\ queue \in [Queues -> Seq(Nat)]
    /\ put \in [Queues -> Nat] /\ got \in [Queues -> Nat]
    /\ frames \in 0..MaxFrames
    /\ \A q \in Queues : Good(queue[q], put[q], got[q]) /\ put[q] <= frames

LEMMA PutAllMsg == ASSUME MsgInv, NEW qs, PutAll(qs) PROVE MsgInv'
<1>1. /\ frames' = frames + 1 /\ frames' \in 0..MaxFrames /\ frames \in Nat
  BY BusAssumption DEF MsgInv, PutAll
<1>2. ASSUME NEW q \in Queues
      PROVE  /\ queue'[q] \in Seq(Nat) /\ put'[q] \in Nat /\ got'[q] \in Nat
             /\ Good(queue'[q], put'[q], got'[q]) /\ put'[q] <= frames'
  <2>1. /\ Good(queue[q], put[q], got[q]) /\ put[q] <= frames /\ put[q] \in Nat
        /\ got'[q] = got[q]
    BY DEF MsgInv, PutAll
  <2>2. CASE q \in qs
    <3>1. put'[q] = put[q] + 1 /\ queue'[q] = PutOrDropOldest(queue[q], put[q] + 1)
      BY <2>2 DEF PutAll
    <3>2. Good(queue'[q], put'[q], got'[q])
      BY <2>1, <3>1, PutGood
    <3> QED
      BY <1>1, <2>1, <3>1, <3>2 DEF Good
  <2>3. CASE q \notin qs
    <3>1. put'[q] = put[q] /\ queue'[q] = queue[q]
      BY <2>1, <2>3 DEF PutAll
    <3> QED
      BY <1>1, <2>1, <3>1 DEF Good
  <2> QED
    BY <2>2, <2>3
<1>3. /\ queue' = [q \in Queues |-> queue'[q]] /\ put' = [q \in Queues |-> put'[q]]
      /\ got' = [q \in Queues |-> got'[q]]
  BY DEF PutAll, MsgInv
<1> QED
  BY <1>1, <1>2, <1>3 DEF MsgInv

LEMMA TakeMsg == ASSUME MsgInv, NEW q \in Queues, Take(q) PROVE MsgInv'
<1>1. /\ queue' = [queue EXCEPT ![q] = Tail(queue[q])]
      /\ got' = [got EXCEPT ![q] = Head(queue[q])]
      /\ UNCHANGED <<put, frames>>
      /\ Good(Tail(queue[q]), put[q], Head(queue[q]))
  BY TakeGood DEF Take, MsgInv
<1> QED
  BY <1>1 DEF MsgInv, Good

\* A subscriber's queue goes with its call.
LEMMA EndsMsg == ASSUME MsgInv, NEW c \in Calls, NEW how, Ends(c, how) PROVE MsgInv'
<1>1. CASE UNCHANGED msgVars
  BY <1>1 DEF MsgInv, msgVars
<1>2. CASE /\ queue' = [queue EXCEPT ![c] = <<>>]
           /\ put' = [put EXCEPT ![c] = 0] /\ got' = [got EXCEPT ![c] = 0]
           /\ UNCHANGED frames
  <2>1. <<>> \in Seq(Nat) /\ c \in Queues
    BY DEF Queues
  <2>2. frames \in Nat
    BY BusAssumption DEF MsgInv
  <2> QED
    BY <1>2, <2>1, <2>2, EmptyGood DEF MsgInv
<1> QED
  BY <1>1, <1>2 DEF Ends

LEMMA InitMsgInv == Init => MsgInv
BY EmptyGood, BusAssumption DEF Init, MsgInv

LEMMA NextMsgInv == MsgInv /\ [Next]_vars => MsgInv'
<1> SUFFICES ASSUME MsgInv, [Next]_vars PROVE MsgInv'
  OBVIOUS
<1>u. ASSUME UNCHANGED msgVars PROVE MsgInv'
  BY <1>u DEF MsgInv, msgVars
<1>1. CASE \/ Connect \/ LoseLink \/ ReaderEnds \/ CloseBegins \/ CloseSocket \/ CloseEnds
           \/ StopLoop \/ BrokerTakes \/ ListenBegins \/ UNCHANGED vars
  BY <1>1, <1>u DEF Connect, LoseLink, ReaderEnds, CloseBegins, CloseSocket, CloseEnds,
     StopLoop, BrokerTakes, ListenBegins, vars, msgVars
<1>2. ASSUME NEW c \in Calls, Begin(c) \/ Post(c) PROVE MsgInv'
  BY <1>2, <1>u DEF Begin, Post
<1>3. ASSUME NEW c \in Calls, CallStep(c) \/ CancelCall(c) \/ SubscriberLeaves(c) PROVE MsgInv'
  BY <1>3, <1>u, EndsMsg DEF CallStep, SendReturns, Awaits, Timeout, CancelCall,
     SubscriberLeaves
<1>4. ASSUME NEW c \in Calls, Answer(c) PROVE MsgInv'
  BY <1>4, <1>u, PutAllMsg DEF Answer
<1>5. CASE Deliver
  BY <1>5, PutAllMsg DEF Deliver
<1>6. ASSUME NEW c \in Calls, SubscriberTakes(c) PROVE MsgInv'
  BY <1>6, EndsMsg, TakeMsg DEF SubscriberTakes, Queues
<1>7. CASE ListenPolls
  BY <1>7, <1>u, TakeMsg DEF ListenPolls, Queues
<1> QED
  BY <1>1, <1>2, <1>3, <1>4, <1>5, <1>6, <1>7 DEF Next

\* Every consumer sees the messages of its queue in order and misses one only when
\* QueueSize newer ones overtook it, whatever put_nowait, get and the end of a
\* subscription do in between.
THEOREM ConsumersMissOnlyOvertaken == Spec => []MissedOnlyIfOvertaken
<1>1. MsgInv => MissedOnlyIfOvertaken
  BY DEF MsgInv, Good, MissedOnlyIfOvertaken
<1> QED
  BY <1>1, InitMsgInv, NextMsgInv, PTL DEF Spec

-----------------------------------------------------------------------------
(* The calls and their futures *)

\* The reader and close() end one after the other.  A call's future is in the
\* tables as long as it is pending; what else is there is left of a call that
\* is over, and while the connection is up, of a cancelled one.
ConnInv ==
    /\ reader = "none" => ws = "none" /\ closer = "idle" /\ \A c \in Calls : pc[c] = "idle"
    /\ reader = "ended" /\ closer = "idle" => ws = "lost"
    /\ closer \in {"closing", "done"} => reader = "ended" /\ ws # "open"
    /\ ~Running => closer = "done"

CallInv(c) ==
    /\ fut[c] = "pending" => c \in pend
    /\ c \in pend => fut[c] \in {"none", "pending"}
    /\ pc[c] = "idle" => c \notin pend /\ fut[c] = "none"
    /\ pc[c] = "getting" => fut[c] = "ok"
    /\ reader = "ended" /\ closer \in {"idle", "done"} => fut[c] # "pending"
    /\ ws = "open" /\ ~closed /\ c \in pend => pc[c] \in {"sending", "waiting", "cancelled"}

FutureInv ==
    /\ pc \in [Calls -> PC]
    /\ fut \in [Calls -> {"none", "pending", "ok", "error"}]
    /\ pend \subseteq Calls
    /\ ConnInv
    /\ \A c \in Calls : CallInv(c)

LEMMA InitFuture == Init => FutureInv
BY DEF Init, FutureInv, ConnInv, CallInv, PC, Running

\* A call that is over leaves no entry unless it was cancelled or the
\* connection is down.
LEMMA EndsFuture ==
    ASSUME FutureInv, NEW c \in Calls, NEW how \in Over, Ends(c, how), pc[c] # "idle",
           UNCHANGED <<loop, connVars>>, pend' \in {pend, pend \ {c}},
           how = "cancelled" \/ c \notin pend' \/ ws # "open" \/ closed
    PROVE  FutureInv'
<1>1. /\ pc' = [pc EXCEPT ![c] = how] /\ fut' = [fut EXCEPT ![c] = "none"]
      /\ UNCHANGED <<loop, ws, reader, closed, closer>>
  BY DEF Ends, connVars
<1>2. pc' \in [Calls -> PC] /\ fut' \in [Calls -> {"none", "pending", "ok", "error"}]
  BY <1>1 DEF FutureInv, PC
<1>3. ConnInv'
  BY <1>1 DEF FutureInv, ConnInv, Running
<1>4. ASSUME NEW d \in Calls PROVE CallInv(d)'
  <2>1. CASE d = c
    BY <1>1, <2>1 DEF FutureInv, CallInv, Over
  <2>2. CASE d # c
    BY <1>1, <2>2 DEF FutureInv, CallInv
  <2> QED
    BY <2>1, <2>2
<1> QED
  BY <1>2, <1>3, <1>4 DEF FutureInv

LEMMA NextFuture == FutureInv /\ [Next]_vars => FutureInv'
<1> SUFFICES ASSUME FutureInv, [Next]_vars PROVE FutureInv'
  OBVIOUS
<1>q. ASSUME UNCHANGED <<loop, ws, reader, closed, closer, pc, fut, pend>> PROVE FutureInv'
  BY <1>q DEF FutureInv, ConnInv, CallInv, Running
<1>0. /\ pc \in [Calls -> PC] /\ fut \in [Calls -> {"none", "pending", "ok", "error"}]
      /\ pend \subseteq Calls /\ ConnInv /\ \A c \in Calls : CallInv(c)
  BY DEF FutureInv
<1>1. CASE Connect
  <2>1. UNCHANGED <<loop, closer, pc, fut, pend>>
    BY <1>1 DEF Connect, callVars
  <2>2. \A c \in Calls : pc[c] = "idle" /\ c \notin pend /\ fut[c] = "none"
    BY <1>0, <1>1 DEF Connect, ConnInv, CallInv
  <2>3. CASE ws' = "open" /\ reader' = "running"
    <3>1. ConnInv'
      BY <1>0, <1>1, <2>1, <2>3 DEF Connect, ConnInv, Running
    <3> QED
      BY <1>0, <2>1, <2>2, <2>3, <3>1 DEF FutureInv, CallInv
  <2>4. CASE UNCHANGED <<ws, reader, closed>>
    BY <1>q, <2>1, <2>4
  <2> QED
    BY <1>1, <2>3, <2>4 DEF Connect
<1>2. CASE LoseLink
  BY <1>0, <1>2 DEF LoseLink, FutureInv, ConnInv, CallInv, Running
<1>3. CASE ReaderEnds
  <2>1. /\ fut' = [c \in Calls |-> IF c \in Calls /\ c \in pend /\ fut[c] = "pending"
                                   THEN "error" ELSE fut[c]]
        /\ pend' = {} /\ UNCHANGED <<pc, loop, ws, closed, closer>> /\ reader' = "ended"
    BY <1>3 DEF ReaderEnds, FailPending
  <2>2. ConnInv'
    BY <1>0, <1>3, <2>1 DEF ReaderEnds, ConnInv, Running
  <2> QED
    BY <1>0, <2>1, <2>2 DEF FutureInv, CallInv
<1>4. CASE CloseBegins
  BY <1>0, <1>4 DEF CloseBegins, FutureInv, ConnInv, CallInv, Running, callVars
<1>5. CASE CloseSocket
  BY <1>0, <1>5 DEF CloseSocket, FutureInv, ConnInv, CallInv, Running
<1>6. CASE CloseEnds
  <2>1. /\ fut' = [c \in Calls |-> IF c \in pend /\ fut[c] = "pending"
                                   THEN "error" ELSE fut[c]]
        /\ pend' = {} /\ UNCHANGED <<pc, loop, reader, closed>>
        /\ ws' = "none" /\ closer' = "done"
    BY <1>6 DEF CloseEnds, FailPending
  <2>2. ConnInv'
    BY <1>0, <1>6, <2>1 DEF CloseEnds, ConnInv, Running
  <2> QED
    BY <1>0, <2>1, <2>2 DEF FutureInv, CallInv
<1>7. CASE StopLoop
  BY <1>0, <1>7 DEF StopLoop, FutureInv, ConnInv, CallInv, Running, connVars, callVars
<1>8. ASSUME NEW c \in Calls, Begin(c) PROVE FutureInv'
  <2>1. /\ pc[c] = "idle" /\ reader # "none"
        /\ UNCHANGED <<loop, ws, reader, closed, closer>>
        /\ pend' = IF Running THEN pend \cup {c} ELSE pend
    BY <1>8 DEF Begin, connVars
  <2>2. /\ pc' = [pc EXCEPT ![c] = IF ws = "open" THEN "sending" ELSE "over"]
        /\ fut' = [fut EXCEPT ![c] = IF ws = "open" THEN "pending" ELSE "none"]
    BY <1>8 DEF Begin
  <2>3. ws = "open" => Running /\ ~(reader = "ended" /\ closer \in {"idle", "done"})
    BY <1>0 DEF ConnInv
  <2>4. ConnInv'
    BY <1>0, <2>1 DEF ConnInv, Running
  <2>5. ASSUME NEW d \in Calls PROVE CallInv(d)'
    <3>1. CASE d = c
      BY <1>0, <2>1, <2>2, <2>3, <3>1 DEF CallInv
    <3>2. CASE d # c
      BY <1>0, <2>1, <2>2, <3>2 DEF CallInv
    <3> QED
      BY <3>1, <3>2
  <2>6. pc' \in [Calls -> PC] /\ fut' \in [Calls -> {"none", "pending", "ok", "error"}]
    <3>1. PICK x \in PC : pc' = [pc EXCEPT ![c] = x]
      BY <2>2 DEF PC, Over
    <3>2. PICK y \in {"none", "pending"} : fut' = [fut EXCEPT ![c] = y]
      BY <2>2
    <3> QED
      BY <1>0, <3>1, <3>2
  <2>7. pend' \subseteq Calls
    BY <1>0, <2>1
  <2> QED
    BY <2>4, <2>5, <2>6, <2>7 DEF FutureInv
<1>9. ASSUME NEW c \in Calls, Post(c) PROVE FutureInv'
  <2>1. /\ pc[c] = "idle" /\ reader # "none" /\ pc' = [pc EXCEPT ![c] = "over"]
        /\ UNCHANGED <<loop, ws, reader, closed, closer, fut, pend>>
    BY <1>9 DEF Post, connVars
  <2>2. ConnInv'
    BY <1>0, <2>1 DEF ConnInv, Running
  <2>3. ASSUME NEW d \in Calls PROVE CallInv(d)'
    BY <1>0, <2>1 DEF CallInv
  <2>4. "over" \in PC
    BY DEF PC, Over
  <2>5. pc' \in [Calls -> PC]
    BY <1>0, <2>1, <2>4
  <2> QED
    BY <1>0, <2>1, <2>2, <2>3, <2>5 DEF FutureInv
<1>10. ASSUME NEW c \in Calls, pc[c] \in {"sending", "waiting"},
              NEW next \in {"waiting", "getting"}, pc' = [pc EXCEPT ![c] = next],
              next = "getting" => fut[c] = "ok" /\ c \notin pend,
              UNCHANGED <<fut, pend, loop, connVars>>
       PROVE  FutureInv'
  <2>1. UNCHANGED <<loop, ws, reader, closed, closer>>
    BY <1>10 DEF connVars
  <2>2. ConnInv'
    BY <1>0, <1>10, <2>1 DEF ConnInv, Running
  <2>3. ASSUME NEW d \in Calls PROVE CallInv(d)'
    BY <1>0, <1>10, <2>1 DEF CallInv
  <2>4. pc' \in [Calls -> PC]
    BY <1>0, <1>10 DEF PC
  <2> QED
    BY <1>0, <1>10, <2>2, <2>3, <2>4 DEF FutureInv
<1>11. ASSUME NEW c \in Calls, SendReturns(c) PROVE FutureInv'
  <2>1. CASE pc' = [pc EXCEPT ![c] = "waiting"] /\ UNCHANGED fut
    BY <1>10, <1>11, <2>1 DEF SendReturns
  <2>2. CASE ws # "open" /\ Ends(c, "over")
    BY <1>11, <2>2, EndsFuture DEF SendReturns, Over
  <2> QED
    BY <1>11, <2>1, <2>2 DEF SendReturns
<1>12. ASSUME NEW c \in Calls, Awaits(c) PROVE FutureInv'
  <2>1. CASE pc' = [pc EXCEPT ![c] = "getting"] /\ fut[c] = "ok" /\ UNCHANGED fut
    BY <1>0, <1>10, <1>12, <2>1 DEF Awaits, CallInv
  <2>2. CASE Ends(c, "over")
    <3>1. c \notin pend /\ pend' = pend
      BY <1>0, <1>12 DEF Awaits, CallInv
    <3> QED
      BY <1>12, <2>2, <3>1, EndsFuture DEF Awaits, Over
  <2> QED
    BY <1>12, <2>1, <2>2 DEF Awaits
<1>13. ASSUME NEW c \in Calls, Timeout(c) PROVE FutureInv'
  BY <1>13, EndsFuture DEF Timeout, Over
<1>14. ASSUME NEW c \in Calls, CancelCall(c) PROVE FutureInv'
  BY <1>14, EndsFuture DEF CancelCall, Over
<1>15. ASSUME NEW c, NEW how \in {"ok", "error"},
              fut' = [fut EXCEPT ![c] = IF c \in pend /\ @ = "pending" THEN how ELSE @],
              pend' = pend \ {c}, UNCHANGED <<loop, connVars, pc>>
       PROVE  FutureInv'
  <2>1. UNCHANGED <<loop, ws, reader, closed, closer>>
    BY <1>15 DEF connVars
  <2>2. ConnInv'
    BY <1>0, <1>15, <2>1 DEF ConnInv, Running
  <2>3. ASSUME NEW d \in Calls PROVE CallInv(d)'
    <3>1. CASE d = c
      BY <1>0, <1>15, <2>1, <3>1 DEF CallInv
    <3>2. CASE d # c
      BY <1>0, <1>15, <2>1, <3>2 DEF CallInv
    <3> QED
      BY <3>1, <3>2
  <2>4. fut' \in [Calls -> {"none", "pending", "ok", "error"}]
    BY <1>0, <1>15
  <2> QED
    BY <1>0, <1>15, <2>2, <2>3, <2>4 DEF FutureInv
<1>16. ASSUME NEW c \in Calls, Answer(c) PROVE FutureInv'
  BY <1>15, <1>16 DEF Answer
<1>17. CASE BrokerTakes
  <2>1. CASE UNCHANGED <<fut, pend>>
    BY <1>q, <1>17, <2>1 DEF BrokerTakes, connVars
  <2>2. CASE ~UNCHANGED <<fut, pend>>
    BY <1>15, <1>17, <2>2 DEF BrokerTakes
  <2> QED
    BY <2>1, <2>2
<1>18. CASE Deliver
  BY <1>q, <1>18 DEF Deliver, connVars, callVars
<1>19. ASSUME NEW c \in Calls, SubscriberTakes(c) \/ SubscriberLeaves(c) PROVE FutureInv'
  <2>1. c \notin pend /\ pc[c] = "getting" /\ UNCHANGED <<loop, connVars, pend>>
    BY <1>0, <1>19 DEF SubscriberTakes, SubscriberLeaves, CallInv
  <2>2. CASE Ends(c, "over")
    BY <2>1, <2>2, EndsFuture DEF Over
  <2>3. CASE UNCHANGED <<pc, fut>>
    BY <1>q, <2>1, <2>3 DEF connVars
  <2> QED
    BY <1>19, <2>2, <2>3 DEF SubscriberTakes, SubscriberLeaves
<1>20. CASE ListenBegins \/ ListenPolls \/ UNCHANGED vars
  BY <1>q, <1>20 DEF ListenBegins, ListenPolls, connVars, callVars, vars
<1> QED
  BY <1>1, <1>2, <1>3, <1>4, <1>5, <1>6, <1>7, <1>8, <1>9, <1>11, <1>12, <1>13, <1>14,
     <1>16, <1>17, <1>18, <1>19, <1>20 DEF Next, CallStep

\* Nobody waits on a future nobody will resolve: the reader's finally block and
\* the end of close() fail every pending one, and a call can register between
\* the two only as long as the second is still to come.
THEOREM NoVainWait == Spec => []NobodyWaitsInVain
<1>1. FutureInv => NobodyWaitsInVain
  BY DEF FutureInv, CallInv, NobodyWaitsInVain
<1> QED
  BY <1>1, InitFuture, NextFuture, PTL DEF Spec

\* While the connection is up, the pending tables hold entries of live and of
\* cancelled calls only: answers and timeouts remove theirs.
THEOREM TablesOnlyLeakCancelled == Spec => []OnlyCancelledLeak
<1>1. FutureInv => OnlyCancelledLeak
  <2> SUFFICES ASSUME FutureInv, ws = "open", ~closed, NEW c \in pend
               PROVE  pc[c] \in {"sending", "waiting", "cancelled"}
    BY DEF OnlyCancelledLeak
  <2> QED
    BY DEF FutureInv, CallInv
<1> QED
  BY <1>1, InitFuture, NextFuture, PTL DEF Spec

-----------------------------------------------------------------------------
(* The SUBSCRIBE and UNSUBSCRIBE frames under way *)

\* Call c's frame is in w; no call's frame is in w twice; every UNSUBSCRIBE of w
\* is followed by call c's SUBSCRIBE.
On(w, c)  == \E i \in 1..Len(w) : w[i] = c
Once(w)   == \A i, j \in 1..Len(w) : w[i] = w[j] /\ w[i] # Unsub => i = j
Covers(w, c) ==
    \A i \in 1..Len(w) : w[i] = Unsub => \E j \in 1..Len(w) : j > i /\ w[j] = c

Frames == Calls \cup {Unsub}

LEMMA AppendFrame ==
    ASSUME NEW w \in Seq(Frames), NEW x \in Frames
    PROVE  /\ Append(w, x) \in Seq(Frames)
           /\ \A c : On(Append(w, x), c) => On(w, c) \/ c = x
           /\ \A c : x # Unsub /\ Covers(w, c) => Covers(Append(w, x), c)
           /\ x # Unsub => Covers(Append(w, x), x)
           /\ Once(w) /\ (x = Unsub \/ ~On(w, x)) => Once(Append(w, x))
<1> DEFINE u == Append(w, x)
<1>0. Len(w) \in Nat
  BY LenProperties
<1>1. /\ u \in Seq(Frames) /\ Len(u) = Len(w) + 1
      /\ \A i \in 1..Len(w) : u[i] = w[i]
      /\ u[Len(w) + 1] = x
  BY AppendProperties
<1> HIDE DEF u
<1>2. \A i \in 1..Len(u) : i \in 1..Len(w) \/ i = Len(u)
  BY <1>0, <1>1
<1>3. \A i \in 1..Len(w) : i \in 1..Len(u) /\ i < Len(u) /\ i # Len(u)
  BY <1>0, <1>1
<1>4. Len(u) \in 1..Len(u) /\ u[Len(u)] = x
  BY <1>0, <1>1
<1>5. \A c : On(u, c) => On(w, c) \/ c = x
  BY <1>1, <1>2, <1>4 DEF On
<1>6. ASSUME NEW c, x # Unsub, Covers(w, c) PROVE Covers(u, c)
  BY <1>1, <1>2, <1>3, <1>4, <1>6 DEF Covers
<1>7. ASSUME x # Unsub PROVE Covers(u, x)
  BY <1>1, <1>2, <1>3, <1>4, <1>7 DEF Covers
<1>8. ASSUME Once(w), x = Unsub \/ ~On(w, x) PROVE Once(u)
  BY <1>1, <1>2, <1>4, <1>8 DEF Once, On
<1> QED
  BY <1>1, <1>5, <1>6, <1>7, <1>8 DEF u

LEMMA TailFrame ==
    ASSUME NEW w \in Seq(Frames), w # <<>>
    PROVE  /\ Tail(w) \in Seq(Frames) /\ Head(w) \in Frames /\ On(w, Head(w))
           /\ \A c : On(Tail(w), c) => On(w, c)
           /\ \A c : Covers(w, c) => Covers(Tail(w), c)
           /\ \A c : Head(w) = Unsub /\ Covers(w, c) => On(w, c)
           /\ Once(w) => Once(Tail(w)) /\ (Head(w) # Unsub => ~On(Tail(w), Head(w)))
<1> DEFINE t == Tail(w)
<1>0. Len(w) \in Nat \ {0}
  BY EmptySeq
<1>1. /\ t \in Seq(Frames) /\ Len(t) = Len(w) - 1
      /\ \A i \in 1..Len(t) : t[i] = w[i + 1]
      /\ Head(w) = w[1] /\ Head(w) \in Frames
  BY HeadTailProperties
<1> HIDE DEF t
<1>2. /\ 1 \in 1..Len(w)
      /\ \A i \in 1..Len(t) : i \in Nat /\ i + 1 \in 1..Len(w) /\ i + 1 # 1
  BY <1>0, <1>1
<1>3. ASSUME NEW i \in 1..Len(t), NEW j \in 1..Len(w), j > i + 1
      PROVE  \E k \in 1..Len(t) : k > i /\ t[k] = w[j]
  <2>1. (j - 1) \in 1..Len(t) /\ j - 1 > i /\ (j - 1) + 1 = j
    BY <1>0, <1>1, <1>3
  <2> QED
    BY <1>1, <2>1
<1>4. \A c : On(t, c) => On(w, c)
  BY <1>1, <1>2 DEF On
<1>5. ASSUME NEW c, Covers(w, c) PROVE Covers(t, c)
  <2> SUFFICES ASSUME NEW i \in 1..Len(t), t[i] = Unsub
               PROVE  \E k \in 1..Len(t) : k > i /\ t[k] = c
    BY DEF Covers
  <2>1. w[i + 1] = Unsub /\ i + 1 \in 1..Len(w)
    BY <1>1, <1>2
  <2>2. PICK j \in 1..Len(w) : j > i + 1 /\ w[j] = c
    BY <1>5, <2>1 DEF Covers
  <2> QED
    BY <1>3, <2>2
<1>6. ASSUME NEW c, Head(w) = Unsub, Covers(w, c) PROVE On(w, c)
  BY <1>1, <1>2, <1>6 DEF Covers, On
<1>7. ASSUME Once(w) PROVE Once(t)
  <2> SUFFICES ASSUME NEW i \in 1..Len(t), NEW j \in 1..Len(t), t[i] = t[j], t[i] # Unsub
               PROVE  i = j
    BY DEF Once
  <2>1. i + 1 = j + 1
    BY <1>1, <1>2, <1>7 DEF Once
  <2> QED
    BY <1>2, <2>1
<1>8. ASSUME Once(w), Head(w) # Unsub, On(t, Head(w)) PROVE FALSE
  <2>1. PICK i \in 1..Len(t) : t[i] = w[1]
    BY <1>1, <1>8 DEF On
  <2>2. i + 1 = 1
    BY <1>1, <1>2, <1>8, <2>1 DEF Once
  <2> QED
    BY <1>2, <2>2
<1> QED
  BY <1>1, <1>2, <1>4, <1>5, <1>6, <1>7, <1>8 DEF t, On

LEMMA EmptyFrames == /\ <<>> \in Seq(Frames) /\ Once(<<>>)
                     /\ \A c : ~On(<<>>, c) /\ Covers(<<>>, c)
<1>1. <<>> \in Seq(Frames) /\ Len(<<>>) = 0
  BY EmptySeq
<1> QED
  BY <1>1 DEF Once, On, Covers

\* A call has a queue exactly while it is a subscription.  A frame under way is
\* not yet answered, and once a subscription was taken or answered the broker
\* routes the channel: an UNSUBSCRIBE that is still under way was written before
\* the SUBSCRIBE of every call that now has a queue, and is taken before it.
SubInv(c) ==
    /\ kind[c] = "subscribe" <=> c \in chan
    /\ pc[c] = "getting" => kind[c] = "subscribe"
    /\ pc[c] = "idle" => c \notin asked /\ ~On(wire, c) /\ kind[c] = "none"
    /\ On(wire, c) => c \notin asked /\ fut[c] # "ok"
    /\ ws = "open" /\ c \in chan =>
         /\ Covers(wire, c)
         /\ c \in asked \/ fut[c] = "ok" => routed

RouteInv ==
    /\ kind \in [Calls -> {"none", "ack", "request", "subscribe"}]
    /\ chan \subseteq Calls
    /\ wire \in Seq(Frames) /\ Once(wire)
    /\ \A c \in Calls : SubInv(c)

LEMMA InitRoute == Init => RouteInv
BY EmptyFrames DEF Init, RouteInv, SubInv

\* Only the last queue of the channel takes the subscription with it.
LEMMA EndsRoute ==
    ASSUME FutureInv, RouteInv, NEW c \in Calls, NEW how \in Over, Ends(c, how),
           UNCHANGED <<connVars, asked>>
    PROVE  RouteInv'
<1>0. /\ pc \in [Calls -> PC] /\ fut \in [Calls -> {"none", "pending", "ok", "error"}]
      /\ kind \in [Calls -> {"none", "ack", "request", "subscribe"}]
      /\ chan \subseteq Calls /\ wire \in Seq(Frames) /\ Once(wire)
      /\ \A d \in Calls : SubInv(d)
  BY DEF FutureInv, RouteInv
<1>1. /\ pc' = [pc EXCEPT ![c] = how] /\ fut' = [fut EXCEPT ![c] = "none"]
      /\ UNCHANGED <<ws, asked, routed>>
      /\ how \notin {"idle", "getting"}
  BY DEF Ends, Unsubscribe, subVars, connVars, Over
<1>2. PICK k \in {"none", "request"} : kind' = [kind EXCEPT ![c] = k]
  BY DEF Ends
<1>3. chan' = chan \ {c}
  BY <1>0 DEF Ends, Unsubscribe, subVars, SubInv
<1>4. wire' = wire \/ (chan' = {} /\ wire' = Append(wire, Unsub))
  BY DEF Ends, Unsubscribe, subVars
<1>5. /\ wire' \in Seq(Frames) /\ Once(wire')
      /\ \A d \in Calls : On(wire', d) => On(wire, d)
  <2>1. Unsub \in Frames /\ \A d \in Calls : d # Unsub
    BY BusAssumption DEF Frames, Unsub
  <2>2. CASE wire' = wire
    BY <1>0, <2>2
  <2>3. CASE wire' = Append(wire, Unsub)
    BY <1>0, <2>1, <2>3, AppendFrame
  <2> QED
    BY <1>4, <2>2, <2>3
<1>6. ASSUME NEW d \in Calls PROVE SubInv(d)'
  <2>1. CASE d = c
    BY <1>0, <1>1, <1>2, <1>3, <1>5, <2>1 DEF SubInv
  <2>2. CASE d # c
    BY <1>0, <1>1, <1>2, <1>3, <1>4, <1>5, <2>2 DEF SubInv
  <2> QED
    BY <2>1, <2>2
<1> QED
  BY <1>0, <1>2, <1>3, <1>5, <1>6 DEF RouteInv

LEMMA NextRoute == FutureInv /\ RouteInv /\ [Next]_vars => RouteInv'
<1> SUFFICES ASSUME FutureInv, RouteInv, [Next]_vars PROVE RouteInv'
  OBVIOUS
<1>0. /\ pc \in [Calls -> PC] /\ fut \in [Calls -> {"none", "pending", "ok", "error"}]
      /\ kind \in [Calls -> {"none", "ack", "request", "subscribe"}]
      /\ chan \subseteq Calls /\ wire \in Seq(Frames) /\ Once(wire)
      /\ \A d \in Calls : SubInv(d) /\ CallInv(d)
  BY DEF FutureInv, RouteInv
<1>q. ASSUME UNCHANGED <<ws, pc, kind, fut, asked, wire, routed, chan>> PROVE RouteInv'
  BY <1>q DEF RouteInv, SubInv
\* The connection goes down, or futures fail: nothing is routed in vain.
<1>d. ASSUME UNCHANGED <<pc, kind, chan>>, ws' # "open", wire' = <<>>, asked' = {},
             UNCHANGED fut
      PROVE  RouteInv'
  BY <1>0, <1>d, EmptyFrames DEF RouteInv, SubInv
<1>f. ASSUME UNCHANGED <<pc, kind, chan, wire, asked, routed>>, ws' = "open" => ws = "open",
             \A d \in Calls : fut'[d] = "ok" => fut[d] = "ok"
      PROVE  RouteInv'
  BY <1>0, <1>f DEF RouteInv, SubInv
<1>1. CASE Connect
  <2>1. \A c \in Calls : c \notin chan
    BY <1>0, <1>1 DEF Connect, FutureInv, ConnInv, SubInv
  <2>2. UNCHANGED <<pc, kind, fut, asked, wire, routed, chan>>
    BY <1>1 DEF Connect, callVars, subVars
  <2> QED
    BY <1>0, <2>1, <2>2 DEF RouteInv, SubInv
<1>2. CASE LoseLink \/ CloseSocket
  BY <1>d, <1>2 DEF LoseLink, CloseSocket
<1>3. CASE ReaderEnds \/ CloseEnds
  <2>1. \A d \in Calls : fut'[d] = "ok" => fut[d] = "ok"
    BY <1>3 DEF ReaderEnds, CloseEnds, FailPending
  <2> QED
    BY <1>f, <1>3, <2>1 DEF ReaderEnds, CloseEnds, subVars
<1>4. CASE CloseBegins \/ StopLoop \/ Deliver \/ ListenBegins \/ ListenPolls \/ UNCHANGED vars
  BY <1>q, <1>4 DEF CloseBegins, StopLoop, Deliver, ListenBegins, ListenPolls, connVars,
     callVars, subVars, vars
<1>5. ASSUME NEW c \in Calls, Begin(c) PROVE RouteInv'
  <2>1. PICK k \in {"ack", "request", "subscribe"} :
         LET sent == ws = "open"
         IN  /\ kind' = [kind EXCEPT ![c] = IF sent THEN k ELSE "none"]
             /\ pc' = [pc EXCEPT ![c] = IF sent THEN "sending" ELSE "over"]
             /\ fut' = [fut EXCEPT ![c] = IF sent THEN "pending" ELSE "none"]
             /\ asked' = IF sent /\ k # "subscribe" THEN asked \cup {c} ELSE asked
             /\ chan' = IF sent /\ k = "subscribe" THEN chan \cup {c} ELSE chan
             /\ wire' = IF sent /\ k = "subscribe" THEN Append(wire, c) ELSE wire
    BY <1>5 DEF Begin
  <2>2. pc[c] = "idle" /\ UNCHANGED <<ws, routed>>
    BY <1>5 DEF Begin, connVars
  <2>3. c \notin chan /\ c \notin asked /\ ~On(wire, c) /\ c # Unsub /\ c \in Frames
    BY <1>0, <2>2, BusAssumption DEF SubInv, Unsub, Frames
  <2>4. CASE ws # "open"
    <3>1. /\ kind' = [kind EXCEPT ![c] = "none"] /\ pc' = [pc EXCEPT ![c] = "over"]
          /\ fut' = [fut EXCEPT ![c] = "none"] /\ UNCHANGED <<asked, chan, wire, ws>>
      BY <2>1, <2>2, <2>4
    <3>2. ASSUME NEW d \in Calls PROVE SubInv(d)'
      BY <1>0, <2>3, <2>4, <3>1 DEF SubInv
    <3> QED
      BY <1>0, <3>1, <3>2 DEF RouteInv
  <2>5. CASE ws = "open" /\ k # "subscribe"
    <3>1. /\ kind' = [kind EXCEPT ![c] = k] /\ pc' = [pc EXCEPT ![c] = "sending"]
          /\ fut' = [fut EXCEPT ![c] = "pending"] /\ asked' = asked \cup {c}
          /\ UNCHANGED <<chan, wire, ws, routed>>
      BY <2>1, <2>2, <2>5
    <3>2. ASSUME NEW d \in Calls PROVE SubInv(d)'
      BY <1>0, <2>3, <2>5, <3>1 DEF SubInv
    <3> QED
      BY <1>0, <3>1, <3>2 DEF RouteInv
  <2>6. CASE ws = "open" /\ k = "subscribe"
    <3>1. /\ kind' = [kind EXCEPT ![c] = "subscribe"] /\ pc' = [pc EXCEPT ![c] = "sending"]
          /\ fut' = [fut EXCEPT ![c] = "pending"] /\ chan' = chan \cup {c}
          /\ wire' = Append(wire, c) /\ UNCHANGED <<asked, ws, routed>>
      BY <2>1, <2>2, <2>6
    <3>2. /\ wire' \in Seq(Frames) /\ Once(wire') /\ Covers(wire', c)
          /\ \A d : On(wire', d) => On(wire, d) \/ d = c
          /\ \A d : Covers(wire, d) => Covers(wire', d)
      BY <1>0, <2>3, <3>1, AppendFrame
    <3>3. ASSUME NEW d \in Calls PROVE SubInv(d)'
      <4>1. CASE d = c
        BY <1>0, <2>3, <2>6, <3>1, <3>2, <4>1 DEF SubInv
      <4>2. CASE d # c
        BY <1>0, <2>6, <3>1, <3>2, <4>2 DEF SubInv
      <4> QED
        BY <4>1, <4>2
    <3> QED
      BY <1>0, <3>1, <3>2, <3>3 DEF RouteInv
  <2> QED
    BY <2>4, <2>5, <2>6
<1>6. ASSUME NEW c \in Calls, NEW x \in {"over", "waiting", "getting"},
             pc' = [pc EXCEPT ![c] = x], x = "getting" => kind[c] = "subscribe",
             UNCHANGED <<ws, kind, fut, asked, wire, routed, chan>>
      PROVE  RouteInv'
  <2>1. ASSUME NEW d \in Calls PROVE SubInv(d)'
    BY <1>0, <1>6 DEF SubInv
  <2> QED
    BY <1>0, <1>6, <2>1 DEF RouteInv
<1>7. ASSUME NEW c \in Calls, Post(c) \/ SendReturns(c) \/ Awaits(c) \/ Timeout(c)
                \/ CancelCall(c) \/ SubscriberTakes(c) \/ SubscriberLeaves(c)
      PROVE  RouteInv'
  <2>1. CASE Post(c)
    BY <1>6, <2>1 DEF Post, connVars, subVars
  <2>2. CASE SendReturns(c)
    BY <1>6, <2>2, EndsRoute DEF SendReturns, Over, connVars, subVars
  <2>3. CASE Awaits(c)
    BY <1>6, <2>3, EndsRoute DEF Awaits, Over, connVars, subVars
  <2>4. CASE SubscriberTakes(c)
    BY <1>q, <2>4, EndsRoute DEF SubscriberTakes, Over, connVars, subVars
  <2>5. CASE Timeout(c) \/ CancelCall(c) \/ SubscriberLeaves(c)
    BY <2>5, EndsRoute DEF Timeout, CancelCall, SubscriberLeaves, Over
  <2> QED
    BY <1>7, <2>1, <2>2, <2>3, <2>4, <2>5
<1>8. ASSUME NEW c \in Calls, Answer(c) PROVE RouteInv'
  <2>1. /\ c \in asked /\ asked' = asked \ {c}
        /\ UNCHANGED <<ws, pc, kind, wire, routed, chan>>
        /\ \A d \in Calls : d # c => fut'[d] = fut[d]
    BY <1>0, <1>8 DEF Answer, connVars, subVars
  <2>2. ASSUME NEW d \in Calls PROVE SubInv(d)'
    <3>1. CASE d = c
      BY <1>0, <2>1, <3>1 DEF SubInv
    <3>2. CASE d # c
      BY <1>0, <2>1, <3>2 DEF SubInv
    <3> QED
      BY <3>1, <3>2
  <2> QED
    BY <1>0, <2>1, <2>2 DEF RouteInv
<1>9. CASE BrokerTakes
  <2>0. UNCHANGED <<ws, pc, kind, chan>> /\ wire # <<>> /\ wire' = Tail(wire) /\ ws = "open"
    BY <1>9 DEF BrokerTakes, connVars
  <2>1. PICK h \in Frames : h = Head(wire)
    BY <1>0, <2>0, TailFrame
  <2>2. /\ wire' \in Seq(Frames) /\ Once(wire') /\ On(wire, h)
        /\ \A d : On(wire', d) => On(wire, d)
        /\ \A d : Covers(wire, d) => Covers(wire', d)
        /\ h = Unsub => \A d : Covers(wire, d) => On(wire, d)
        /\ h # Unsub => ~On(wire', h)
    BY <1>0, <2>0, <2>1, TailFrame
  <2>3. CASE h = Unsub
    <3>1. UNCHANGED <<asked, fut>>
      BY <1>9, <2>1, <2>3 DEF BrokerTakes
    <3>2. ASSUME NEW d \in Calls PROVE SubInv(d)'
      BY <1>0, <2>0, <2>2, <2>3, <3>1 DEF SubInv
    <3> QED
      BY <1>0, <2>0, <2>2, <3>2 DEF RouteInv
  <2>4. CASE h # Unsub /\ routed' = TRUE /\ asked' = asked \cup {h} /\ UNCHANGED fut
    <3>1. h \in Calls /\ pc[h] # "idle"
      BY <1>0, <2>2, <2>4 DEF Frames, SubInv
    <3>2. ASSUME NEW d \in Calls PROVE SubInv(d)'
      <4>1. CASE d = h
        BY <1>0, <2>0, <2>2, <2>4, <3>1, <4>1 DEF SubInv
      <4>2. CASE d # h
        BY <1>0, <2>0, <2>2, <2>4, <4>2 DEF SubInv
      <4> QED
        BY <4>1, <4>2
    <3> QED
      BY <1>0, <2>0, <2>2, <3>2 DEF RouteInv
  <2>5. CASE UNCHANGED <<routed, asked>> /\ \A d \in Calls : fut'[d] = "ok" => fut[d] = "ok"
    <3>2. ASSUME NEW d \in Calls PROVE SubInv(d)'
      BY <1>0, <2>0, <2>2, <2>5 DEF SubInv
    <3> QED
      BY <1>0, <2>0, <2>2, <3>2 DEF RouteInv
  <2> QED
    <3>1. h # Unsub => \/ routed' = TRUE /\ asked' = asked \cup {h} /\ UNCHANGED fut
                       \/ /\ UNCHANGED <<routed, asked>>
                          /\ fut' = [fut EXCEPT ![h] =
                                       IF h \in pend /\ @ = "pending" THEN "error" ELSE @]
      BY <1>9, <2>1 DEF BrokerTakes
    <3> QED
      BY <1>0, <2>3, <2>4, <2>5, <3>1
<1> QED
  BY <1>1, <1>2, <1>3, <1>4, <1>5, <1>7, <1>8, <1>9 DEF Next, CallStep

\* An iterating subscriber is never cut off by another one's UNSUBSCRIBE: the
\* last queue alone writes it, and whoever subscribes afterwards writes a
\* SUBSCRIBE behind it.
THEOREM SubscribersStayRouted == Spec => []RoutedWhileSubscribed
<1>1. FutureInv /\ RouteInv => RoutedWhileSubscribed
  BY DEF FutureInv, CallInv, RouteInv, SubInv, RoutedWhileSubscribed
<1> QED
  BY <1>1, InitFuture, NextFuture, InitRoute, NextRoute, PTL DEF Spec
=============================================================================
