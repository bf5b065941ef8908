--------------------------- MODULE AuditTrailProofs ---------------------------
(***************************************************************************)
(* Machine-checked proofs about AuditTrail: the order of the sub-agent's   *)
(* audit rows and its report, that it reports, the connection history and  *)
(* the batch writer, for any number of tool calls, messages and            *)
(* connections and any queue and batch size.                               *)
(***************************************************************************)
EXTENDS AuditTrail, SequenceTheorems, TLAPS

-----------------------------------------------------------------------------
(* The exit code of a sub-agent *)

\* A process between its connection and its exit is linked or cut off, and has
\* neither a code nor a report before it is closing.
ExitInv ==
    /\ assign = "taken" => apc \notin {"connecting", "awaiting"}
    /\ apc \notin {"connecting", "exited"} => link \in {"up", "lost"}
    /\ apc \notin {"closing", "exited"} => code = -1 /\ ~replied
    /\ ReportedUnlessCutOff

LEMMA InitExit == Init => ExitInv
BY DEF Init, Agent!AgentInit, ExitInv, ReportedUnlessCutOff

LEMMA AgentActsExit == ExitInv /\ AgentActs => ExitInv'
<1> SUFFICES ASSUME ExitInv, AgentActs PROVE ExitInv'
  OBVIOUS
<1>1. CASE Agent!AgentConnects \/ Agent!Signal \/ Agent!AssignArrives \/ Agent!RunTool
  BY <1>1 DEF ExitInv, ReportedUnlessCutOff, Agent!AgentConnects, Agent!Signal,
     Agent!AssignArrives, Agent!RunTool
<1>2. CASE Agent!AgentLoses \/ Agent!AgentKilled
  BY <1>2 DEF ExitInv, ReportedUnlessCutOff, Agent!AgentLoses, Agent!AgentKilled
<1>3. CASE Agent!TakeAssign \/ Agent!TakeShutdown \/ Agent!FinishTask \/ Agent!FlushFile
  BY <1>3 DEF ExitInv, ReportedUnlessCutOff, Agent!TakeAssign, Agent!RejectAssign,
     Agent!TakeShutdown, Agent!FinishTask, Agent!FlushFile
<1>4. CASE Agent!FlushSend \/ Agent!Reply \/ Agent!AgentExits
  BY <1>4 DEF ExitInv, ReportedUnlessCutOff, Agent!FlushSend, Agent!Reply, Agent!AgentExits
<1> QED
  BY <1>1, <1>2, <1>3, <1>4 DEF AgentActs, Agent!AgentStep

LEMMA NextExit == ExitInv /\ [Next]_vars => ExitInv'
<1> SUFFICES ASSUME ExitInv, [Next]_vars PROVE ExitInv'
  OBVIOUS
<1>q. ASSUME UNCHANGED <<apc, assign, code, replied, link>> PROVE ExitInv'
  BY <1>q DEF ExitInv, ReportedUnlessCutOff
<1>1. CASE BrokerStep \/ DatabaseStep \/ Delegate \/ DelegateEnds \/ IngestRow
           \/ CloseDispatcher \/ OrchestratorStopsWriter \/ UNCHANGED vars
  BY <1>q, <1>1 DEF BrokerStep, DatabaseStep, Delegate, DelegateEnds, IngestRow,
     CloseDispatcher, OrchestratorStopsWriter, vars, agentVars
<1>2. CASE ConnectionStep
  BY <1>q, <1>2 DEF ConnectionStep, Connects, ConnectionLogged, Leaves, DisconnectionLogged,
     agentVars
<1>3. CASE DispatchFlush \/ DispatchReport
  BY <1>q, <1>3 DEF DispatchFlush, DispatchReport, Dispatch
<1> QED
  BY <1>1, <1>2, <1>3, AgentActsExit DEF Next

\* A sub-agent that took a task and was not killed has handed its outcome to the
\* connection and exits with 0, or it lost the connection and exits with 1; no
\* failure of the task, the audit path or the file system silences it.
THEOREM SilentOnlyWhenCutOff == Spec => []ReportedUnlessCutOff
<1>1. ExitInv => ReportedUnlessCutOff
  BY DEF ExitInv
<1> QED
  BY <1>1, InitExit, NextExit, PTL DEF Spec

-----------------------------------------------------------------------------
(* The audit rows and the report *)

Early == {"connecting", "awaiting", "running", "flushing", "sending"}
Open  == deleg \in {"none", "started", "aborted"}

\* Of an accepted flush, the frame is under way ahead of any report, or its rows
\* are being ingested or in the database, or frame and report are lost together.
Accounted ==
    \/ out # <<>> /\ Head(out) = "flush" /\ Open
    \/ buffer \subseteq toolRows \cup ingest /\ (Open \/ buffer \subseteq toolRows)
    \/ out = <<>> /\ link # "up" /\ Open

TrailInv ==
    /\ out \in Seq(Agent!Frames)
    /\ deleg \in {"none", "started", "complete", "error", "aborted"}
    /\ apc \in {"flushing", "sending", "replying"} => outcome \in {"complete", "error"}
    /\ apc \in Early => out = <<>> /\ flushed = "no" /\ Open
    /\ flushed = "sent" /\ ~cut => Accounted

LEMMA InitTrail == Init => TrailInv
BY EmptySeq DEF Init, DBInit, Agent!AgentInit, TrailInv, Open, Agent!Frames

LEMMA AgentActsTrail == TrailInv /\ AgentActs => TrailInv'
<1> SUFFICES ASSUME TrailInv, AgentActs PROVE TrailInv'
  OBVIOUS
<1>0. UNCHANGED <<toolRows, deleg, ingest, cut>> /\ Open' = Open
  BY DEF AgentActs, dbVars, hostVars, Open
<1>1. CASE Agent!AgentConnects \/ Agent!Signal \/ Agent!AssignArrives \/ Agent!RunTool
  BY <1>0, <1>1 DEF TrailInv, Accounted, Early, Agent!AgentConnects, Agent!Signal,
     Agent!AssignArrives, Agent!RunTool
<1>2. CASE Agent!TakeAssign \/ Agent!TakeShutdown \/ Agent!FinishTask \/ Agent!FlushFile
  BY <1>0, <1>2 DEF TrailInv, Accounted, Early, Agent!TakeAssign, Agent!RejectAssign,
     Agent!TakeShutdown, Agent!FinishTask, Agent!FlushFile
<1>3. CASE Agent!AgentKilled \/ Agent!AgentExits
  BY <1>0, <1>3 DEF TrailInv, Accounted, Early, Agent!AgentKilled, Agent!AgentExits
<1>4. CASE Agent!AgentLoses
  <2>1. PICK n \in 0..Len(out) : out' = SubSeq(out, 1, n)
    BY <1>4 DEF Agent!AgentLoses
  <2>2. /\ out' \in Seq(Agent!Frames)
        /\ out' # <<>> => out # <<>> /\ Head(out') = Head(out)
    <3>1. out \in Seq(Agent!Frames) /\ Len(out) \in Nat /\ n \in Nat
      BY LenProperties DEF TrailInv
    <3>2. CASE n = 0
      <4>1. out' = <<>>
        BY <2>1, <3>1, <3>2, SubSeqEmpty
      <4> QED
        BY <4>1, EmptySeq
    <3>3. CASE n # 0
      <4>1. 1 \in 1..n /\ n \in 1..Len(out) /\ Len(out) # 0
        BY <3>1, <3>3
      <4>2. /\ out' \in Seq(Agent!Frames) /\ Len(out') = n /\ out'[1] = out[1]
        BY <2>1, <3>1, <4>1, SubSeqProperties
      <4>3. out # <<>> /\ out' # <<>>
        BY <3>3, <4>1, <4>2, EmptySeq
      <4> QED
        BY <3>1, <4>2, <4>3, HeadTailProperties
    <3> QED
      BY <3>2, <3>3
  <2> QED
    BY <1>0, <1>4, <2>2 DEF TrailInv, Accounted, Early, Agent!AgentLoses
<1>5. ASSUME NEW f \in Agent!Frames, out' = Append(out, f)
      PROVE  out' \in Seq(Agent!Frames) /\ out' # <<>> /\ (out # <<>> => Head(out') = Head(out))
             /\ (out = <<>> => Head(out') = f)
  <2>1. out \in Seq(Agent!Frames)
    BY DEF TrailInv
  <2> QED
    BY <1>5, <2>1, AppendProperties
<1>6. CASE Agent!FlushSend
  BY <1>0, <1>5, <1>6 DEF TrailInv, Accounted, Early, Agent!FlushSend, Agent!Frames
<1>7. CASE Agent!Reply
  BY <1>0, <1>5, <1>7 DEF TrailInv, Accounted, Early, Agent!Reply, Agent!Frames
<1> QED
  BY <1>1, <1>2, <1>3, <1>4, <1>6, <1>7 DEF AgentActs, Agent!AgentStep

LEMMA NextTrail == TrailInv /\ [Next]_vars => TrailInv'
<1> SUFFICES ASSUME TrailInv, [Next]_vars PROVE TrailInv'
  OBVIOUS
<1>q. ASSUME UNCHANGED <<agentVars, toolRows, deleg, ingest, cut>> PROVE TrailInv'
  BY <1>q DEF TrailInv, Accounted, Open, agentVars
<1>1. CASE BrokerStep
  BY <1>q, <1>1 DEF BrokerStep, Enqueue, FlushTake, FlushWrite, StopWriter, hostVars
<1>2. CASE ConnectionStep
  BY <1>q, <1>2 DEF ConnectionStep, Connects, ConnectionLogged, Leaves, DisconnectionLogged,
     dbVars, hostVars
<1>3. CASE DatabaseStep \/ OrchestratorStopsWriter \/ UNCHANGED vars
  BY <1>q, <1>3 DEF DatabaseStep, OpenDB, Drain, CloseDB, OrchestratorStopsWriter, StopWriter,
     vars, dbVars, hostVars
<1>4. CASE Delegate
  BY <1>4 DEF Delegate, LogDelegation, TrailInv, Accounted, Open, agentVars, hostVars
<1>d. CASE DelegateEnds
  BY <1>d DEF DelegateEnds, LogDelegation, TrailInv, Accounted, Open, agentVars
<1>5. CASE DispatchFlush
  <2>1. /\ out # <<>> /\ Head(out) = "flush" /\ out' = Tail(out) /\ ingest' = buffer
        /\ UNCHANGED <<apc, link, outcome, buffer, flushed, toolRows, deleg, cut>>
    BY <1>5 DEF DispatchFlush, Dispatch, dbVars
  <2>2. Tail(out) \in Seq(Agent!Frames)
    BY <2>1, HeadTailProperties DEF TrailInv
  <2> QED
    BY <2>1, <2>2 DEF TrailInv, Accounted, Open
<1>6. CASE IngestRow
  <2>1. UNCHANGED <<agentVars, deleg>>
    BY <1>6 DEF IngestRow
  <2>2. CASE cut'
    BY <2>1, <2>2 DEF TrailInv, Open, agentVars
  <2>3. CASE \E r \in ingest : LogToolCall(r) /\ ingest' = ingest \ {r} /\ UNCHANGED cut
    BY <2>1, <2>3 DEF LogToolCall, TrailInv, Accounted, Open, agentVars
  <2> QED
    BY <1>6, <2>2, <2>3 DEF IngestRow
<1>7. CASE DispatchReport
  <2>1. PICK f \in {"complete", "error"} : Dispatch(f) /\ (LogDelegation(f) \/ UNCHANGED deleg)
    BY <1>7 DEF DispatchReport
  <2>2. /\ ingest = {} /\ out # <<>> /\ Head(out) # "flush" /\ out' = Tail(out)
        /\ UNCHANGED <<apc, link, outcome, buffer, flushed, toolRows, ingest, cut>>
        /\ deleg' \in {deleg, "complete", "error"}
    BY <1>7, <2>1 DEF Dispatch, DispatchReport, hostVars, LogDelegation
  <2>3. Tail(out) \in Seq(Agent!Frames)
    BY <2>2, HeadTailProperties DEF TrailInv
  <2> QED
    BY <2>2, <2>3 DEF TrailInv, Accounted, Open
<1>8. CASE CloseDispatcher
  BY <1>8 DEF CloseDispatcher, TrailInv, Accounted, Open, agentVars, dbVars
<1> QED
  BY <1>1, <1>2, <1>3, <1>4, <1>d, <1>5, <1>6, <1>7, <1>8, AgentActsTrail DEF Next

\* Once a report has closed the delegation row, every tool call of an accepted flush is in
\* the database unless its ingestion failed or was cancelled: the sub-agent
\* flushes before it replies, the bus keeps the order, and the dispatcher ingests
\* the one before it looks at the other.
THEOREM TrailBeforeReport == Spec => []AuditedBeforeReported
<1>1. TrailInv => AuditedBeforeReported
  BY DEF TrailInv, Accounted, Open, AuditedBeforeReported
<1> QED
  BY <1>1, InitTrail, NextTrail, PTL DEF Spec

-----------------------------------------------------------------------------
(* The connection history *)

\* A connection replaces its predecessors, so at most one is up; while one is up
\* that found no predecessor leaving, nobody is, and nobody closes its row.
ConnInv(c) ==
    /\ phase[c] = "off" => insert[c] = "none" /\ connRows[c] = "none"
    /\ insert[c] = "none" => phase[c] = "off"
    /\ phase[c] # "off" => \A d \in Conns : d < c => phase[d] \in {"leaving", "gone"}
    /\ phase[c] = "up" /\ c \notin blurred =>
         connRows[c] # "closed" /\ \A d \in Conns : phase[d] # "leaving"
    /\ phase[c] = "gone" /\ c \notin blurred => connRows[c] # "open" /\ insert[c] = "done"

HistoryInv ==
    /\ connRows \in [Conns -> {"none", "open", "closed"}]
    /\ phase \in [Conns -> {"off", "up", "leaving", "gone"}]
    /\ insert \in [Conns -> {"none", "spawned", "done"}]
    /\ \A c \in Conns : ConnInv(c)

LEMMA InitHistory == Init => HistoryInv
BY DEF Init, DBInit, HistoryInv, ConnInv

LEMMA ConnectionHistoryInv == HistoryInv /\ ConnectionStep => HistoryInv'
<1> SUFFICES ASSUME HistoryInv, NEW c \in Conns,
                    Connects(c) \/ ConnectionLogged(c) \/ Leaves(c) \/ DisconnectionLogged(c)
             PROVE  HistoryInv'
  BY DEF ConnectionStep
<1>0. /\ connRows \in [Conns -> {"none", "open", "closed"}]
      /\ phase \in [Conns -> {"off", "up", "leaving", "gone"}]
      /\ insert \in [Conns -> {"none", "spawned", "done"}]
      /\ \A d \in Conns : ConnInv(d)
      /\ Conns \subseteq Int
  BY DBAssumption DEF HistoryInv, Conns
<1>1. CASE Connects(c)
  <2>1. /\ phase[c] = "off" /\ phase' = [phase EXCEPT ![c] = "up"]
        /\ insert' = [insert EXCEPT ![c] = "spawned"] /\ UNCHANGED connRows
        /\ blurred' = blurred \cup (IF \E d \in Conns : phase[d] = "leaving" THEN {c} ELSE {})
        /\ \A d \in 1..(c - 1) : phase[d] \in {"leaving", "gone"}
    BY <1>1 DEF Connects, dbVars
  <2>2. \A d \in Conns : d < c => d \in 1..(c - 1)
    BY DBAssumption DEF Conns
  <2>3. \A d \in Conns : phase[d] # "off" /\ d # c => d < c
    BY <1>0, <2>1 DEF ConnInv
  <2>4. ASSUME NEW d \in Conns PROVE ConnInv(d)'
    <3>1. CASE d = c
      BY <1>0, <2>1, <2>2, <3>1 DEF ConnInv
    <3>2. CASE d # c
      BY <1>0, <2>1, <2>2, <2>3, <3>2 DEF ConnInv
    <3> QED
      BY <3>1, <3>2
  <2> QED
    BY <1>0, <2>1, <2>4 DEF HistoryInv
<1>2. CASE ConnectionLogged(c)
  <2>1. /\ insert[c] = "spawned" /\ insert' = [insert EXCEPT ![c] = "done"]
        /\ UNCHANGED <<phase, blurred>>
        /\ connRows' = [connRows EXCEPT ![c] = "open"] \/ UNCHANGED connRows
    BY <1>2 DEF ConnectionLogged, LogConnection
  <2>2. ASSUME NEW d \in Conns PROVE ConnInv(d)'
    <3>1. CASE d = c
      BY <1>0, <2>1, <3>1 DEF ConnInv
    <3>2. CASE d # c
      BY <1>0, <2>1, <3>2 DEF ConnInv
    <3> QED
      BY <3>1, <3>2
  <2> QED
    BY <1>0, <2>1, <2>2 DEF HistoryInv
<1>3. CASE Leaves(c)
  <2>1. /\ phase[c] = "up" /\ phase' = [phase EXCEPT ![c] = "leaving"]
        /\ UNCHANGED <<connRows, insert, blurred>>
    BY <1>3 DEF Leaves, dbVars
  <2>2. \A d \in Conns : d # c => phase[d] # "up"
    BY <1>0, <2>1 DEF ConnInv
  <2>3. ASSUME NEW d \in Conns PROVE ConnInv(d)'
    <3>1. CASE d = c
      BY <1>0, <2>1, <3>1 DEF ConnInv
    <3>2. CASE d # c
      BY <1>0, <2>1, <2>2, <3>2 DEF ConnInv
    <3> QED
      BY <3>1, <3>2
  <2> QED
    BY <1>0, <2>1, <2>3 DEF HistoryInv
<1>4. CASE DisconnectionLogged(c)
  <2>1. /\ phase[c] = "leaving" /\ phase' = [phase EXCEPT ![c] = "gone"] /\ UNCHANGED insert
        /\ \/ /\ connRows' = CloseOpen
              /\ blurred' = blurred \cup {d \in {c} : insert[d] = "spawned"}
           \/ blurred' = blurred \cup {c} /\ UNCHANGED connRows
    BY <1>4 DEF DisconnectionLogged, LogDisconnection
  <2>2. /\ connRows' \in [Conns -> {"none", "open", "closed"}]
        /\ \A d \in Conns : connRows[d] = "none" => connRows'[d] = "none"
        /\ \A d \in Conns : connRows[d] # "open" => connRows'[d] # "open"
    BY <1>0, <2>1 DEF CloseOpen
  <2>3. c \notin blurred' => connRows'[c] # "open" /\ insert[c] = "done"
    BY <1>0, <2>1 DEF CloseOpen, ConnInv
  <2>4. \A d \in Conns : phase[d] = "up" => d \in blurred
    BY <1>0, <2>1 DEF ConnInv
  <2>5. ASSUME NEW d \in Conns PROVE ConnInv(d)'
    <3>1. CASE d = c
      BY <1>0, <2>1, <2>3, <3>1 DEF ConnInv
    <3>2. CASE d # c
      BY <1>0, <2>1, <2>2, <2>4, <3>2 DEF ConnInv
    <3> QED
      BY <3>1, <3>2
  <2> QED
    BY <1>0, <2>1, <2>2, <2>5 DEF HistoryInv
<1> QED
  BY <1>1, <1>2, <1>3, <1>4

LEMMA NextHistory == HistoryInv /\ [Next]_vars => HistoryInv'
<1> SUFFICES ASSUME HistoryInv, [Next]_vars PROVE HistoryInv'
  OBVIOUS
<1>q. ASSUME UNCHANGED <<connRows, phase, insert, blurred>> PROVE HistoryInv'
  BY <1>q DEF HistoryInv, ConnInv
<1>1. CASE BrokerStep
  BY <1>q, <1>1 DEF BrokerStep, Enqueue, FlushTake, FlushWrite, StopWriter, connVars
<1>2. CASE DatabaseStep \/ OrchestratorStopsWriter \/ UNCHANGED vars
  BY <1>q, <1>2 DEF DatabaseStep, OpenDB, Drain, CloseDB, OrchestratorStopsWriter, StopWriter,
     vars, dbVars, connVars
<1>3. CASE Delegate \/ DelegateEnds \/ AgentActs \/ DispatchFlush \/ IngestRow
           \/ DispatchReport \/ CloseDispatcher
  BY <1>q, <1>3 DEF Delegate, DelegateEnds, AgentActs, DispatchFlush, IngestRow,
     DispatchReport, CloseDispatcher, dbVars, connVars
<1> QED
  BY <1>1, <1>2, <1>3, ConnectionHistoryInv DEF Next

\* The connection history is right unless audit calls of one sandbox id overlap:
\* the row of a live connection is not closed, and that of a gone one not open.
THEOREM HistoryRightUnlessBlurred == Spec => []ConnectionHistory
<1>1. HistoryInv => ConnectionHistory
  BY DEF HistoryInv, ConnInv, ConnectionHistory
<1> QED
  BY <1>1, InitHistory, NextHistory, PTL DEF Spec

-----------------------------------------------------------------------------
(* The batch writer *)

Distinct(s) == \A i, j \in 1..Len(s) : s[i] = s[j] => i = j

\* The insert of a message is ahead of its update.
InOrder(s) ==
    \A i, j \in 1..Len(s), m \in Msgs : s[i] = <<m, 1>> /\ s[j] = <<m, 2>> => i < j

Pending == Range(wq) \cup Range(batch)

\* The row shows nothing of an item that is pending, and what is due when none is.
MsgInv(m) ==
    /\ <<m, 1>> \in Pending => stored[m] = 0 /\ 1 <= enqueued[m] /\ ~Gone(m, 1)
    /\ <<m, 2>> \in Pending => enqueued[m] = 2 /\ ~Gone(m, 2)
    /\ Gone(m, 1) => 1 <= enqueued[m]
    /\ Gone(m, 2) => enqueued[m] = 2
    /\ <<m, 1>> \in Range(wq) => <<m, 2>> \notin Range(batch)
    /\ <<m, 1>> \in Pending /\ <<m, 2>> \notin Pending => enqueued[m] = 1 \/ Gone(m, 2)
    /\ <<m, 1>> \notin Pending /\ <<m, 2>> \in Pending =>
         stored[m] = IF Gone(m, 1) THEN 0 ELSE 1
    /\ <<m, 1>> \notin Pending /\ <<m, 2>> \notin Pending => stored[m] = Due(m)

QueueInv ==
    /\ wq \in Seq(Items) /\ batch \in Seq(Items)
    /\ stored \in [Msgs -> 0..2] /\ enqueued \in [Msgs -> 0..2]
    /\ writer # "writing" => batch = <<>>
    /\ Distinct(wq) /\ InOrder(wq) /\ Range(wq) \cap Range(batch) = {}
    /\ \A m \in Msgs : MsgInv(m)

LEMMA EmptyRange == Range(<<>>) = {}
BY DEF Range

LEMMA EmptyOrder == Distinct(<<>>) /\ InOrder(<<>>)
BY DEF Distinct, InOrder

LEMMA InitQueue == Init => QueueInv
<1> SUFFICES ASSUME Init PROVE QueueInv
  OBVIOUS
<1>1. /\ wq = <<>> /\ batch = <<>> /\ stored = [m \in Msgs |-> 0]
      /\ enqueued = [m \in Msgs |-> 0] /\ dropped = {} /\ lost = {}
  BY DEF Init, DBInit
<1>2. wq \in Seq(Items) /\ batch \in Seq(Items)
  BY <1>1, EmptySeq
<1>3. Pending = {} /\ Range(wq) = {} /\ Range(batch) = {}
  BY <1>1, EmptyRange DEF Pending
<1>4. \A m \in Msgs : MsgInv(m)
  BY <1>1, <1>3 DEF MsgInv, Gone, Due
<1> QED
  BY <1>1, <1>2, <1>3, <1>4, EmptyOrder DEF QueueInv

\* What a batch makes of the row of m.
LEMMA Written ==
    ASSUME NEW rows \in [Msgs -> 0..2], NEW b
    PROVE  /\ WriteBatch(rows, b) \in [Msgs -> 0..2]
           /\ \A m \in Msgs :
                WriteBatch(rows, b)[m] =
                  IF <<m, 2>> \in Range(b) /\ (<<m, 1>> \in Range(b) \/ rows[m] # 0) THEN 2
                  ELSE IF <<m, 1>> \in Range(b) THEN 1 ELSE rows[m]
BY DEF WriteBatch, Updated, Inserted

\* A batch with the items B is committed and those of R are still pending.
LEMMA CommitMsg ==
    ASSUME QueueInv, NEW m \in Msgs, NEW B, NEW R, Pending = B \cup R, Pending' = R,
           B \cap R = {}, <<m, 1>> \in R => <<m, 2>> \notin B,
           <<m, 1>> \in Range(wq)' => <<m, 2>> \notin Range(batch)',
           UNCHANGED <<enqueued, dropped, lost>>,
           stored'[m] = IF <<m, 2>> \in B /\ (<<m, 1>> \in B \/ stored[m] # 0) THEN 2
                        ELSE IF <<m, 1>> \in B THEN 1 ELSE stored[m]
    PROVE  MsgInv(m)'
<1>0. /\ stored[m] \in 0..2 /\ enqueued[m] \in 0..2 /\ MsgInv(m)
      /\ Gone(m, 1)' = Gone(m, 1) /\ Gone(m, 2)' = Gone(m, 2) /\ Due(m)' = Due(m)
  BY DEF QueueInv, Gone, Due
<1>1. CASE <<m, 2>> \in B /\ (<<m, 1>> \in B \/ stored[m] # 0)
  BY <1>0, <1>1 DEF MsgInv, Due
<1>2. CASE <<m, 2>> \in B /\ <<m, 1>> \notin B /\ stored[m] = 0
  BY <1>0, <1>2 DEF MsgInv, Due
<1>3. CASE <<m, 2>> \notin B /\ <<m, 1>> \in B
  BY <1>0, <1>3 DEF MsgInv, Due
<1>4. CASE <<m, 2>> \notin B /\ <<m, 1>> \notin B
  BY <1>0, <1>4 DEF MsgInv
<1> QED
  BY <1>0, <1>1, <1>2, <1>3, <1>4

\* A batch with the items B is not.
LEMMA RollbackMsg ==
    ASSUME QueueInv, NEW m \in Msgs, NEW B, NEW R, Pending = B \cup R, Pending' = R,
           <<m, 1>> \in Range(wq)' => <<m, 2>> \notin Range(batch)',
           B \cap R = {}, <<m, 1>> \in R => <<m, 2>> \notin B,
           UNCHANGED <<enqueued, dropped, stored>>, lost' = lost \cup B
    PROVE  MsgInv(m)'
<1>0. /\ stored[m] \in 0..2 /\ enqueued[m] \in 0..2 /\ MsgInv(m)
      /\ Gone(m, 1)' <=> Gone(m, 1) \/ <<m, 1>> \in B
      /\ Gone(m, 2)' <=> Gone(m, 2) \/ <<m, 2>> \in B
  BY DEF QueueInv, Gone
<1>1. CASE <<m, 1>> \in B
  BY <1>0, <1>1 DEF MsgInv, Due
<1>2. CASE <<m, 1>> \notin B /\ <<m, 2>> \in B
  BY <1>0, <1>2 DEF MsgInv, Due
<1>3. CASE <<m, 1>> \notin B /\ <<m, 2>> \notin B
  BY <1>0, <1>3 DEF MsgInv, Due
<1> QED
  BY <1>1, <1>2, <1>3

\* FlushWrite, or the end of the cancelled writer task.
LEMMA FlushQueue ==
    ASSUME QueueInv, Commit \/ Rollback, UNCHANGED <<wq, enqueued, dropped>>
    PROVE  QueueInv'
<1>1. batch' = <<>> /\ Range(batch') = {} /\ batch' \in Seq(Items) /\ Pending' = Range(wq)
  BY EmptyRange, EmptySeq DEF Commit, Rollback, Pending
<1>2. Distinct(wq)' /\ InOrder(wq)' /\ wq' \in Seq(Items)
  BY DEF QueueInv, Distinct, InOrder
<1>3. \A m \in Msgs : <<m, 1>> \in Range(wq) => <<m, 2>> \notin Range(batch)
  BY DEF QueueInv, MsgInv
<1>4. stored' \in [Msgs -> 0..2] /\ \A m \in Msgs : MsgInv(m)'
  <2>1. CASE Commit
    <3>1. stored' = WriteBatch(stored, batch) /\ UNCHANGED lost
      BY <2>1 DEF Commit
    <3>2. ASSUME NEW m \in Msgs PROVE MsgInv(m)'
      <4>1. stored'[m] = IF /\ <<m, 2>> \in Range(batch)
                            /\ <<m, 1>> \in Range(batch) \/ stored[m] # 0 THEN 2
                         ELSE IF <<m, 1>> \in Range(batch) THEN 1 ELSE stored[m]
        BY <3>1, Written DEF QueueInv
      <4>2. Pending = Range(batch) \cup Range(wq) /\ Range(batch) \cap Range(wq) = {}
        BY DEF Pending, QueueInv
      <4> QED
        BY <1>1, <1>3, <3>1, <4>1, <4>2, CommitMsg
    <3> QED
      BY <3>1, <3>2, Written DEF QueueInv
  <2>2. CASE Rollback
    <3>1. lost' = lost \cup Range(batch) /\ UNCHANGED stored
      BY <2>2 DEF Rollback
    <3>2. Pending = Range(batch) \cup Range(wq) /\ Range(batch) \cap Range(wq) = {}
      BY DEF Pending, QueueInv
    <3>3. ASSUME NEW m \in Msgs PROVE MsgInv(m)'
      BY <1>1, <1>3, <3>1, <3>2, RollbackMsg
    <3> QED
      BY <3>1, <3>3 DEF QueueInv
  <2> QED
    BY <2>1, <2>2
<1> QED
  BY <1>1, <1>2, <1>4 DEF QueueInv

LEMMA DrainQueue ==
    ASSUME QueueInv, Drain
    PROVE  QueueInv'
<1>1. /\ wq' = <<>> /\ batch = <<>> /\ UNCHANGED <<batch, enqueued, dropped>>
      /\ Range(wq') = {} /\ Range(batch) = {} /\ Pending' = {} /\ wq' \in Seq(Items)
  BY EmptyRange, EmptySeq DEF Drain, QueueInv, Pending
<1>2. Distinct(wq)' /\ InOrder(wq)'
  BY <1>1, EmptyOrder
<1>3. Pending = Range(wq) \cup {}
  BY <1>1 DEF Pending
<1>4. CASE stored' = WriteBatch(stored, wq) /\ UNCHANGED lost
  <2>1. ASSUME NEW m \in Msgs PROVE MsgInv(m)'
    <3>1. stored'[m] = IF <<m, 2>> \in Range(wq) /\ (<<m, 1>> \in Range(wq) \/ stored[m] # 0)
                       THEN 2 ELSE IF <<m, 1>> \in Range(wq) THEN 1 ELSE stored[m]
      BY <1>4, Written DEF QueueInv
    <3> QED
      BY <1>1, <1>3, <1>4, <3>1, CommitMsg
  <2> QED
    BY <1>1, <1>2, <1>4, <2>1, Written DEF QueueInv
<1>5. CASE lost' = lost \cup Range(wq) /\ UNCHANGED stored
  <2>1. ASSUME NEW m \in Msgs PROVE MsgInv(m)'
    BY <1>1, <1>3, <1>5, RollbackMsg
  <2> QED
    BY <1>1, <1>2, <1>5, <2>1 DEF QueueInv
<1> QED
  BY <1>4, <1>5 DEF Drain

LEMMA SplitOrder ==
    ASSUME NEW s \in Seq(Items), NEW n \in 1..Len(s), Distinct(s), InOrder(s)
    PROVE  LET b == SubSeq(s, 1, n)
               r == SubSeq(s, n + 1, Len(s))
           IN  /\ b \in Seq(Items) /\ r \in Seq(Items)
               /\ Range(b) \cup Range(r) = Range(s) /\ Range(b) \cap Range(r) = {}
               /\ Distinct(r) /\ InOrder(r)
               /\ \A m \in Msgs : <<m, 1>> \in Range(r) => <<m, 2>> \notin Range(b)
<1> DEFINE b == SubSeq(s, 1, n)
           r == SubSeq(s, n + 1, Len(s))
<1>0. Len(s) \in Nat /\ n \in Nat /\ n <= Len(s) /\ \A i \in 1..Len(s) : s[i] \in Items
  BY LenProperties
<1>1. b \in Seq(Items) /\ Len(b) = n /\ \A i \in 1..n : b[i] = s[i]
  BY <1>0, SubSeqProperties
<1>2. /\ r \in Seq(Items) /\ Len(r) = Len(s) - n
      /\ \A i \in 1..Len(s) - n : r[i] = s[n + i]
  <2>1. \A i \in n + 1 .. Len(s) : s[i] \in Items
    BY <1>0
  <2>2. /\ r \in Seq(Items)
        /\ Len(r) = IF n + 1 <= Len(s) THEN Len(s) - (n + 1) + 1 ELSE 0
        /\ \A i \in 1 .. Len(s) - (n + 1) + 1 : r[i] = s[n + 1 + i - 1]
    BY <1>0, <2>1, SubSeqProperties
  <2> QED
    BY <1>0, <2>2
<1>3. /\ Range(s) = {s[i] : i \in 1..Len(s)} /\ Range(b) = {b[i] : i \in 1..n}
      /\ Range(r) = {r[i] : i \in 1..Len(s) - n}
  BY <1>0, <1>1, <1>2, LenProperties DEF Range
<1> HIDE DEF b, r
<1>4. Range(b) = {s[i] : i \in 1..n} /\ Range(r) = {s[i] : i \in n + 1 .. Len(s)}
  <2>1. Range(b) = {s[i] : i \in 1..n}
    BY <1>1, <1>3
  <2>2. \A i \in 1..Len(s) - n : n + i \in n + 1 .. Len(s)
    BY <1>0
  <2>3. \A i \in n + 1 .. Len(s) : i - n \in 1..Len(s) - n /\ n + (i - n) = i
    BY <1>0
  <2>4. \A x : x \in Range(r) => \E i \in n + 1 .. Len(s) : x = s[i]
    BY <1>2, <1>3, <2>2
  <2>5. \A i \in n + 1 .. Len(s) : s[i] \in Range(r)
    BY <1>2, <1>3, <2>3
  <2> QED
    BY <2>1, <2>4, <2>5
<1>5. Range(b) \cup Range(r) = Range(s)
  <2>1. \A i : i \in 1..Len(s) <=> i \in 1..n \/ i \in n + 1 .. Len(s)
    BY <1>0
  <2> QED
    BY <1>3, <1>4, <2>1
<1>6. \A i \in 1..n, j \in n + 1 .. Len(s) : i \in 1..Len(s) /\ j \in 1..Len(s) /\ i < j
  BY <1>0
<1>7. Range(b) \cap Range(r) = {}
  BY <1>4, <1>6 DEF Distinct
<1>8. \A m \in Msgs : <<m, 1>> \in Range(r) => <<m, 2>> \notin Range(b)
  <2> SUFFICES ASSUME NEW m \in Msgs, NEW i \in 1..n, NEW j \in n + 1 .. Len(s),
                      s[j] = <<m, 1>>, s[i] = <<m, 2>>
               PROVE  FALSE
    BY <1>4
  <2>1. j < i
    BY <1>6 DEF InOrder
  <2> QED
    BY <1>0, <1>6, <2>1
<1>9. Distinct(r) /\ InOrder(r)
  <2>1. \A i \in 1..Len(r) : n + i \in 1..Len(s) /\ r[i] = s[n + i]
    BY <1>0, <1>2
  <2>2. Distinct(r)
    <3> SUFFICES ASSUME NEW i \in 1..Len(r), NEW j \in 1..Len(r), r[i] = r[j] PROVE i = j
      BY DEF Distinct
    <3>1. n + i = n + j
      BY <2>1 DEF Distinct
    <3> QED
      BY <1>0, <3>1
  <2>3. InOrder(r)
    <3> SUFFICES ASSUME NEW i \in 1..Len(r), NEW j \in 1..Len(r), NEW m \in Msgs,
                        r[i] = <<m, 1>>, r[j] = <<m, 2>>
                 PROVE  i < j
      BY DEF InOrder
    <3>1. n + i < n + j
      BY <2>1 DEF InOrder
    <3> QED
      BY <1>0, <3>1
  <2> QED
    BY <2>2, <2>3
<1> QED
  BY <1>1, <1>2, <1>5, <1>7, <1>8, <1>9 DEF b, r

LEMMA TakeQueue ==
    ASSUME QueueInv, FlushTake
    PROVE  QueueInv'
<1>1. wq \in Seq(Items) /\ wq # <<>> /\ Len(wq) \in Nat \ {0} /\ batch = <<>>
  BY EmptySeq DEF QueueInv, FlushTake
<1>2. PICK n \in 1..Len(wq) : batch' = SubSeq(wq, 1, n) /\ wq' = SubSeq(wq, n + 1, Len(wq))
  <2> DEFINE n == IF Len(wq) < BatchSize THEN Len(wq) ELSE BatchSize
  <2>1. n \in 1..Len(wq)
    BY <1>1, DBAssumption
  <2> QED
    BY <2>1 DEF FlushTake
<1>3. /\ batch' \in Seq(Items) /\ wq' \in Seq(Items)
      /\ Range(batch') \cup Range(wq') = Range(wq) /\ Range(batch') \cap Range(wq') = {}
      /\ Distinct(wq') /\ InOrder(wq')
      /\ \A m \in Msgs : <<m, 1>> \in Range(wq') => <<m, 2>> \notin Range(batch')
  BY <1>1, <1>2, SplitOrder DEF QueueInv
<1>4. Pending' = Pending
  BY <1>1, <1>3, EmptyRange DEF Pending
<1>5. UNCHANGED <<stored, enqueued, dropped, lost>> /\ writer' = "writing"
  BY DEF FlushTake
<1>6. \A m \in Msgs : MsgInv(m)'
  BY <1>3, <1>4, <1>5 DEF QueueInv, MsgInv, Gone, Due
<1> QED
  BY <1>3, <1>5, <1>6 DEF QueueInv

LEMMA AppendOrder ==
    ASSUME NEW s \in Seq(Items), NEW m \in Msgs, NEW e \in {1, 2}, Distinct(s), InOrder(s),
           <<m, e>> \notin Range(s), <<m, 2>> \notin Range(s)
    PROVE  LET t == Append(s, <<m, e>>)
           IN  /\ t \in Seq(Items) /\ Range(t) = Range(s) \cup {<<m, e>>}
               /\ Distinct(t) /\ InOrder(t)
<1> DEFINE item == <<m, e>>
           t == Append(s, item)
<1>0. item \in Items /\ Len(s) \in Nat /\ Range(s) = {s[i] : i \in 1..Len(s)}
  BY LenProperties DEF Items, Range
<1>1. /\ t \in Seq(Items) /\ Len(t) = Len(s) + 1 /\ t[Len(s) + 1] = item
      /\ \A i \in 1..Len(s) : t[i] = s[i]
  BY <1>0, AppendProperties
<1>2. Range(t) = {t[i] : i \in 1..Len(s) + 1}
  BY <1>1, LenProperties DEF Range
<1> HIDE DEF t
<1>3. \A i : i \in 1..Len(s) + 1 <=> i \in 1..Len(s) \/ i = Len(s) + 1
  BY <1>0
<1>4. Range(t) = Range(s) \cup {item}
  BY <1>0, <1>1, <1>2, <1>3
<1>5. \A i \in 1..Len(s) : s[i] # item /\ s[i] # <<m, 2>> /\ i < Len(s) + 1
  BY <1>0
<1>6. Distinct(t)
  BY <1>1, <1>3, <1>5 DEF Distinct
<1>7. InOrder(t)
  <2> SUFFICES ASSUME NEW i \in 1..Len(t), NEW j \in 1..Len(t), NEW q \in Msgs,
                      t[i] = <<q, 1>>, t[j] = <<q, 2>>
               PROVE  i < j
    BY DEF InOrder
  <2>1. CASE i \in 1..Len(s) /\ j \in 1..Len(s)
    <3>1. s[i] = <<q, 1>> /\ s[j] = <<q, 2>>
      BY <1>1, <2>1
    <3> QED
      BY <2>1, <3>1 DEF InOrder
  <2>2. CASE i \in 1..Len(s) /\ j = Len(s) + 1
    BY <1>5, <2>2
  <2>3. CASE i = Len(s) + 1 /\ j \in 1..Len(s)
    <3>1. q = m
      BY <1>1, <2>3
    <3> QED
      BY <1>1, <1>5, <2>3, <3>1
  <2>4. CASE i = Len(s) + 1 /\ j = Len(s) + 1
    BY <1>1, <2>4
  <2> QED
    BY <1>1, <1>3, <2>1, <2>2, <2>3, <2>4
<1> QED
  BY <1>1, <1>4, <1>6, <1>7 DEF t

LEMMA EnqueueQueue ==
    ASSUME QueueInv, NEW q \in Msgs, Enqueue(q)
    PROVE  QueueInv'
<1>1. /\ enqueued[q] \in 0..2 /\ enqueued[q] < 2
      /\ enqueued' = [enqueued EXCEPT ![q] = enqueued[q] + 1]
      /\ UNCHANGED <<writer, batch, stored, lost>>
  BY DEF Enqueue, QueueInv
<1>2. PICK e \in {1, 2} : e = enqueued[q] + 1
  BY <1>1
<1>3. enqueued'[q] = e /\ \A m \in Msgs : m # q => enqueued'[m] = enqueued[m]
  BY <1>1, <1>2 DEF QueueInv
<1>4. <<q, e>> \notin Pending /\ <<q, 2>> \notin Pending
  <2>1. /\ <<q, 1>> \in Pending => 1 <= enqueued[q]
        /\ <<q, 2>> \in Pending => enqueued[q] = 2
    BY DEF QueueInv, MsgInv
  <2>2. CASE e = 1
    BY <1>1, <1>2, <2>1, <2>2
  <2>3. CASE e = 2
    BY <1>1, <1>2, <2>1, <2>3
  <2> QED
    BY <2>2, <2>3
<1>5. enqueued' \in [Msgs -> 0..2]
  BY <1>1 DEF QueueInv
<1>6. \/ wq' = Append(wq, <<q, e>>) /\ UNCHANGED dropped
      \/ dropped' = dropped \cup {<<q, e>>} /\ UNCHANGED wq
  BY <1>3 DEF Enqueue
<1>7. CASE wq' = Append(wq, <<q, e>>) /\ UNCHANGED dropped
  <2>1. /\ wq' \in Seq(Items) /\ Range(wq') = Range(wq) \cup {<<q, e>>}
        /\ Distinct(wq') /\ InOrder(wq')
    BY <1>4, <1>7, AppendOrder DEF QueueInv, Pending
  <2>2. Pending' = Pending \cup {<<q, e>>} /\ Range(wq') \cap Range(batch') = {}
    BY <1>1, <1>4, <2>1 DEF Pending, QueueInv
  <2>3. ASSUME NEW m \in Msgs PROVE MsgInv(m)'
    <3>1. /\ MsgInv(m) /\ stored[m] \in 0..2 /\ enqueued[m] \in 0..2
          /\ Gone(m, 1)' = Gone(m, 1) /\ Gone(m, 2)' = Gone(m, 2)
      BY <1>1, <1>7 DEF QueueInv, Gone
    <3>2. CASE m # q
      <4>1. \A x \in {1, 2} : <<m, x>> # <<q, e>>
        BY <3>2
      <4> QED
        BY <1>1, <1>3, <2>1, <2>2, <3>1, <3>2, <4>1 DEF MsgInv, Due
    <3>3. CASE m = q /\ e = 1
      BY <1>1, <1>2, <1>3, <1>4, <2>1, <2>2, <3>1, <3>3 DEF MsgInv, Due, Pending
    <3>4. CASE m = q /\ e = 2
      BY <1>1, <1>2, <1>3, <1>4, <2>1, <2>2, <3>1, <3>4 DEF MsgInv, Due, Pending
    <3> QED
      BY <3>2, <3>3, <3>4
  <2> QED
    BY <1>1, <1>5, <2>1, <2>2, <2>3 DEF QueueInv
<1>8. CASE dropped' = dropped \cup {<<q, e>>} /\ UNCHANGED wq
  <2>1. Pending' = Pending
    BY <1>1, <1>8 DEF Pending
  <2>2. ASSUME NEW m \in Msgs PROVE MsgInv(m)'
    <3>1. /\ MsgInv(m) /\ stored[m] \in 0..2 /\ enqueued[m] \in 0..2
          /\ Gone(m, 1)' <=> Gone(m, 1) \/ (m = q /\ e = 1)
          /\ Gone(m, 2)' <=> Gone(m, 2) \/ (m = q /\ e = 2)
      BY <1>1, <1>8 DEF QueueInv, Gone
    <3>2. CASE m # q
      BY <1>1, <1>3, <1>8, <2>1, <3>1, <3>2 DEF MsgInv, Due
    <3>3. CASE m = q /\ e = 1
      BY <1>1, <1>2, <1>3, <1>4, <1>8, <2>1, <3>1, <3>3 DEF MsgInv, Due
    <3>4. CASE m = q /\ e = 2
      BY <1>1, <1>2, <1>3, <1>4, <1>8, <2>1, <3>1, <3>4 DEF MsgInv, Due
    <3> QED
      BY <3>2, <3>3, <3>4
  <2> QED
    BY <1>1, <1>5, <1>8, <2>2 DEF QueueInv
<1> QED
  BY <1>6, <1>7, <1>8

\* There is no writer before open().
WriterInv == engine = "none" => writer = "off"

LEMMA NextWriter == WriterInv /\ [Next]_vars => WriterInv'
<1> SUFFICES ASSUME WriterInv, [Next]_vars PROVE WriterInv'
  OBVIOUS
<1>1. CASE BrokerStep
  BY <1>1 DEF WriterInv, BrokerStep, Enqueue, FlushTake, FlushWrite, StopWriter
<1>2. CASE DatabaseStep
  BY <1>2 DEF WriterInv, DatabaseStep, OpenDB, Drain, CloseDB
<1>3. CASE OrchestratorStopsWriter
  BY <1>3 DEF WriterInv, OrchestratorStopsWriter, StopWriter
<1>4. CASE ConnectionStep
  BY <1>4 DEF WriterInv, ConnectionStep, Connects, ConnectionLogged, Leaves,
     DisconnectionLogged, dbVars
<1>5. CASE Delegate \/ DelegateEnds \/ AgentActs \/ DispatchFlush \/ IngestRow
           \/ DispatchReport \/ CloseDispatcher \/ UNCHANGED vars
  BY <1>5 DEF WriterInv, Delegate, DelegateEnds, AgentActs, DispatchFlush, IngestRow,
     DispatchReport, CloseDispatcher, dbVars, vars
<1> QED
  BY <1>1, <1>2, <1>3, <1>4, <1>5 DEF Next

LEMMA NextQueue == WriterInv /\ QueueInv /\ [Next]_vars => QueueInv'
<1> SUFFICES ASSUME WriterInv, QueueInv, [Next]_vars PROVE QueueInv'
  OBVIOUS
<1>q. ASSUME UNCHANGED queueVars, writer' # "writing" => writer # "writing" PROVE QueueInv'
  <2>1. /\ UNCHANGED <<wq, batch, stored, enqueued, dropped, lost>>
        /\ writer' # "writing" => batch' = <<>>
    BY <1>q DEF queueVars, QueueInv
  <2>2. Pending' = Pending
    BY <2>1 DEF Pending
  <2>3. \A m \in Msgs : MsgInv(m)'
    BY <2>1, <2>2 DEF QueueInv, MsgInv, Gone, Due
  <2>4. Distinct(wq)' /\ InOrder(wq)'
    BY <2>1 DEF QueueInv, Distinct, InOrder
  <2> QED
    BY <2>1, <2>3, <2>4 DEF QueueInv
<1>w. ASSUME StopWriter PROVE QueueInv'
  <2>1. CASE writer = "writing" /\ (Commit \/ Rollback)
    BY <1>w, <2>1, FlushQueue DEF StopWriter
  <2>2. CASE writer = "idle" /\ UNCHANGED <<batch, stored, lost>>
    BY <1>q, <1>w, <2>2 DEF StopWriter, queueVars
  <2> QED
    BY <1>w, <2>1, <2>2 DEF StopWriter
<1>1. CASE BrokerStep
  <2>1. CASE FlushWrite
    BY <2>1, FlushQueue DEF FlushWrite
  <2> QED
    BY <1>1, <1>w, <2>1, EnqueueQueue, TakeQueue DEF BrokerStep
<1>2. CASE DatabaseStep
  BY <1>q, <1>2, DrainQueue DEF DatabaseStep, OpenDB, CloseDB, WriterInv
<1>3. CASE OrchestratorStopsWriter
  BY <1>3, <1>w DEF OrchestratorStopsWriter
<1>4. CASE ConnectionStep
  BY <1>q, <1>4 DEF ConnectionStep, Connects, ConnectionLogged, Leaves, DisconnectionLogged,
     dbVars
<1>5. CASE Delegate \/ DelegateEnds \/ AgentActs \/ DispatchFlush \/ IngestRow
           \/ DispatchReport \/ CloseDispatcher \/ UNCHANGED vars
  BY <1>q, <1>5 DEF Delegate, DelegateEnds, AgentActs, DispatchFlush, IngestRow,
     DispatchReport, CloseDispatcher, dbVars, vars
<1> QED
  BY <1>1, <1>2, <1>3, <1>4, <1>5 DEF Next

\* Batching and shutdown neither reorder nor forget: once nothing of a message is
\* queued or being written, its row shows exactly what the items that were neither
\* refused by a full queue nor rolled back with their batch make of it, for any
\* queue size, batch size and number of messages.
THEOREM BatchesKeepTheLatest == Spec => []LatestStatusStored
<1>1. QueueInv => LatestStatusStored
  <2> SUFFICES ASSUME QueueInv, NEW m \in Msgs,
                      \A s \in {1, 2} : <<m, s>> \notin Range(wq) \cup Range(batch)
               PROVE  stored[m] = Due(m)
    BY DEF LatestStatusStored
  <2>1. MsgInv(m) /\ <<m, 1>> \notin Pending /\ <<m, 2>> \notin Pending
    BY DEF QueueInv, Pending
  <2> QED
    BY <2>1 DEF MsgInv
<1>2. Init => WriterInv
  BY DEF Init, DBInit, WriterInv
<1> QED
  BY <1>1, <1>2, InitQueue, NextQueue, NextWriter, PTL DEF Spec
=============================================================================
