----------------------------- MODULE AuditTrail -----------------------------
(***************************************************************************)
(* The two processes that keep an audit database, and what they write.     *)
(* The broker (nmb/broker.py) audits messages through the background       *)
(* writer, and the connections of its sandboxes directly.  The             *)
(* orchestrator (main.py, orchestrator/dispatcher.py) starts the same      *)
(* writer but writes directly: it logs the delegation, receives a          *)
(* sub-agent's audit.flush and then its report through one dispatch loop,  *)
(* and on shutdown stops the dispatcher, the sub-agent and the database,   *)
(* in that order.  host says which of the two this behaviour is about.     *)
(* Reports reach the dispatch loop as they would if the sub-agent sent     *)
(* them; see SubAgent.                                                     *)
(***************************************************************************)
EXTENDS AuditDB

VARIABLES apc, link, signal, assign, outcome, buffer, file, flushed, replied, code, out
Agent == INSTANCE SubAgent WITH AgentRows <- Rows

VARIABLES
    host,       \* "broker" or "orchestrator"
    dispatcher, \* its dispatch loop: "running" or "closed"
    calling,    \* delegate_task awaits manager.delegate()
    ingest,     \* rows of the audit.flush being ingested
    cut,        \* history: an ingestion failed or was cancelled
    phase,      \* phase[c], connection c: "off", "up", "leaving", "gone"
    insert,     \* its log_connection task: "none", "spawned", "done"
    blurred     \* history: connections whose audit calls overlapped or failed

agentVars == <<apc, link, signal, assign, outcome, buffer, file, flushed,
               replied, code, out>>
hostVars == <<host, dispatcher, calling, ingest, cut>>
connVars == <<phase, insert, blurred>>
vars == <<dbVars, agentVars, hostVars, connVars>>

TypeOK ==
    /\ DBTypeOK /\ Agent!AgentTypeOK
    /\ host \in {"broker", "orchestrator"} /\ dispatcher \in {"running", "closed"}
    /\ calling \in BOOLEAN /\ ingest \subseteq buffer /\ cut \in BOOLEAN
    /\ phase \in [Conns -> {"off", "up", "leaving", "gone"}]
    /\ insert \in [Conns -> {"none", "spawned", "done"}] /\ blurred \subseteq Conns

Init ==
    /\ DBInit /\ Agent!AgentInit
    /\ host \in {"broker", "orchestrator"}
    /\ dispatcher = "running" /\ calling = FALSE /\ ingest = {} /\ cut = FALSE
    /\ phase = [c \in Conns |-> "off"] /\ insert = [c \in Conns |-> "none"]
    /\ blurred = {}

-----------------------------------------------------------------------------
(* The broker: routing enqueues, stop() ends the writer after the server   *)
(* and with it the handlers of all connections.                            *)
BrokerStep ==
    /\ host = "broker"
    /\ \/ (\E m \in Msgs : Enqueue(m)) \/ FlushTake \/ FlushWrite
       \/ StopWriter /\ \A c \in Conns : phase[c] \in {"off", "gone"}
    /\ UNCHANGED <<agentVars, hostVars, connVars>>

\* _register: an id is free once _unregister has popped it.  The row is written
\* by a task of its own.
Connects(c) ==
    /\ host = "broker" /\ writer \in {"idle", "writing"} /\ phase[c] = "off"
    /\ \A d \in 1..(c - 1) : phase[d] \in {"leaving", "gone"}
    /\ phase' = [phase EXCEPT ![c] = "up"] /\ insert' = [insert EXCEPT ![c] = "spawned"]
    /\ blurred' = blurred \cup (IF \E d \in Conns : phase[d] = "leaving" THEN {c} ELSE {})
    /\ UNCHANGED <<dbVars, agentVars, hostVars>>

\* That task ends: with the row, or with an exception nobody retrieves.
ConnectionLogged(c) ==
    /\ insert[c] = "spawned" /\ insert' = [insert EXCEPT ![c] = "done"]
    /\ LogConnection(c) \/ UNCHANGED connRows
    /\ UNCHANGED <<engine, writer, queueVars, toolRows, deleg, agentVars, hostVars,
                   phase, blurred>>

\* _unregister pops the registry and suspends in the broadcast.
Leaves(c) ==
    /\ phase[c] = "up" /\ phase' = [phase EXCEPT ![c] = "leaving"]
    /\ UNCHANGED <<dbVars, agentVars, hostVars, insert, blurred>>

\* Its last step, which an exception may replace.
DisconnectionLogged(c) ==
    /\ phase[c] = "leaving" /\ phase' = [phase EXCEPT ![c] = "gone"]
    /\ \/ /\ LogDisconnection
          /\ blurred' = blurred \cup {d \in {c} : insert[d] = "spawned"}
       \/ blurred' = blurred \cup {c} /\ UNCHANGED connRows
    /\ UNCHANGED <<engine, writer, queueVars, toolRows, deleg, agentVars, hostVars, insert>>

ConnectionStep ==
    \E c \in Conns :
        Connects(c) \/ ConnectionLogged(c) \/ Leaves(c) \/ DisconnectionLogged(c)

(* Both: the database opens first and closes last.                         *)
DatabaseStep ==
    /\ OpenDB \/ Drain \/ CloseDB
    /\ UNCHANGED <<agentVars, hostVars, connVars>>

-----------------------------------------------------------------------------
(* The orchestrator.                                                       *)

\* delegate_task logs the delegation before it assigns the task.
Delegate ==
    /\ host = "orchestrator" /\ dispatcher = "running" /\ deleg = "none"
    /\ LogDelegation("started") /\ calling' = TRUE
    /\ UNCHANGED <<engine, writer, queueVars, connRows, toolRows, agentVars, host, dispatcher,
                   ingest, cut, connVars>>

\* manager.delegate() returns, or raises DelegationError: a process that did not
\* come up, or an acknowledgement of task.assign that did not, although the
\* sub-agent may have its task by then.  The workflow is deregistered and the row
\* closed, over a report's status if there is one.
DelegateEnds ==
    /\ calling /\ calling' = FALSE
    /\ LogDelegation("aborted") \/ UNCHANGED deleg
    /\ UNCHANGED <<engine, writer, queueVars, connRows, toolRows, agentVars, host, dispatcher,
                   ingest, cut, connVars>>

AgentActs ==
    /\ deleg # "none"
    /\ \/ Agent!AgentConnects \/ Agent!Signal \/ Agent!AssignArrives \/ Agent!RunTool
       \/ Agent!AgentStep \/ Agent!AgentLoses \/ Agent!AgentKilled
    /\ UNCHANGED <<dbVars, hostVars, connVars>>

\* A seeded fault: ingestion runs in a task of its own, beside the loop.
DispatchBeside(frame) ==
    /\ dispatcher = "running" /\ out # <<>> /\ Head(out) = frame
    /\ out' = Tail(out)
    /\ UNCHANGED <<apc, link, signal, assign, outcome, buffer, file, flushed, replied, code>>

\* The dispatch loop takes the next delivery when it is done with the last.
Dispatch(frame) ==
    /\ dispatcher = "running" /\ ingest = {} /\ out # <<>> /\ Head(out) = frame
    /\ out' = Tail(out)
    /\ UNCHANGED <<apc, link, signal, assign, outcome, buffer, file, flushed, replied, code>>

\* _handle_audit_flush begins ingest_audit_flush.
DispatchFlush ==
    /\ Dispatch("flush")
    /\ ingest' = buffer
    /\ UNCHANGED <<dbVars, host, dispatcher, calling, cut, connVars>>

\* One row and one commit at a time, or an exception that drops the rest.
IngestRow ==
    /\ \/ /\ \E r \in ingest : LogToolCall(r) /\ ingest' = ingest \ {r}
          /\ UNCHANGED cut
       \/ ingest # {} /\ ingest' = {} /\ cut' = TRUE /\ UNCHANGED toolRows
    /\ UNCHANGED <<engine, writer, queueVars, connRows, deleg, agentVars, host, dispatcher,
                   calling, connVars>>

\* _handle_task_error, or the finalisation of a task.complete: the delegation
\* row is updated, best effort; a report of an unknown workflow is dropped.
DispatchReport ==
    /\ \E f \in {"complete", "error"} :
         Dispatch(f) /\ (LogDelegation(f) \/ UNCHANGED deleg)
    /\ UNCHANGED <<engine, writer, queueVars, connRows, toolRows, hostVars, connVars>>

\* main()'s teardown: the dispatcher is cancelled, wherever it is ...
CloseDispatcher ==
    /\ host = "orchestrator" /\ engine = "open" /\ dispatcher = "running"
    /\ dispatcher' = "closed" /\ ingest' = {} /\ cut' = (cut \/ ingest # {})
    /\ UNCHANGED <<dbVars, agentVars, host, calling, connVars>>

\* ... and the writer stops after it.
OrchestratorStopsWriter ==
    /\ host = "orchestrator" /\ dispatcher = "closed"
    /\ StopWriter
    /\ UNCHANGED <<agentVars, hostVars, connVars>>

Next ==
    \/ BrokerStep \/ ConnectionStep \/ DatabaseStep
    \/ Delegate \/ DelegateEnds \/ AgentActs
    \/ DispatchFlush \/ IngestRow \/ DispatchReport
    \/ CloseDispatcher \/ OrchestratorStopsWriter

Spec == Init /\ [][Next]_vars

(* A process that can move is scheduled; tasks are bounded by max_turns.   *)
(* Nothing makes an assignment arrive, a signal come or a link fail.       *)
FairSpec == Spec /\ WF_vars(Agent!AgentStep /\ UNCHANGED <<dbVars, hostVars, connVars>>)

-----------------------------------------------------------------------------
(* The audit trail is complete before the outcome is recorded: the         *)
(* sub-agent flushes before it replies, the bus keeps their order and the  *)
(* dispatcher ingests the one before it looks at the other.  So once a     *)
(* report has closed the delegation row, every tool call of an accepted    *)
(* flush is in the database unless its ingestion failed.  (A row that      *)
(* delegate_task closes itself says nothing of the trail.)                 *)
AuditedBeforeReported ==
    deleg \in {"complete", "error"} /\ flushed = "sent" /\ ~cut => buffer \subseteq toolRows

(* The connection history is right unless audit calls of one sandbox id    *)
(* overlap: with its own row inserted before it left, and with no          *)
(* predecessor still leaving when it came, a connection has an open row    *)
(* while it is up and a closed one when it is gone.  (Otherwise the update *)
(* misses a late insert, or closes the row of a live successor.)           *)
ConnectionHistory ==
    \A c \in Conns \ blurred :
        /\ phase[c] = "up" => connRows[c] # "closed"
        /\ phase[c] = "gone" => connRows[c] # "open"

(* "don't crash; emit task.error" (agent/__main__.py, _flush_audit_buffer): *)
(* a sub-agent that took a task and was not killed is silent only because  *)
(* its connection died, and then its exit code says so.  No failure of the *)
(* task, of the audit path or of the file system, and no late              *)
(* acknowledgement, comes between a task and its report.                   *)
ReportedUnlessCutOff ==
    assign = "taken" /\ apc \in {"closing", "exited"} /\ code # 137 =>
        \/ replied /\ code = 0
        \/ ~replied /\ code = 1 /\ link = "lost"

(* A sub-agent never outlives its work: with a task it finishes and exits  *)
(* whatever happens to its connection, and idle it obeys the signal.       *)
AgentEnds == (assign = "taken" \/ (apc = "awaiting" /\ signal)) ~> apc = "exited"
=============================================================================
