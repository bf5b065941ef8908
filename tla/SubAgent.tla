------------------------------ MODULE SubAgent ------------------------------
(***************************************************************************)
(* agent/__main__.py: a coding sub-agent process in NMB mode, and its      *)
(* audit buffer (agent/audit_buffer.py).  It connects, takes one           *)
(* task.assign, runs it, flushes its audit rows and reports the outcome to *)
(* the orchestrator, closes the bus and exits.  out is what the            *)
(* orchestrator's bus client will receive from it, in order.               *)
(*                                                                         *)
(* A report is put on out as if it were a send.  The code uses reply,      *)
(* which the broker refuses for a task.assign that was sent and not        *)
(* requested (WorkflowLifecycle, ReportsArrive); what the sub-agent does,  *)
(* and what it sees, is the same, for a reply is not acknowledged.         *)
(***************************************************************************)
EXTENDS Integers, Sequences

CONSTANT AgentRows      \* ids of the tool calls the task may make

VARIABLES
    apc,        \* where the process is
    link,       \* its connection: "none", "up", "lost"
    signal,     \* SIGINT or SIGTERM was received
    assign,     \* task.assign: "none", "valid", "malformed", "taken"
    outcome,    \* what the process is to report: "none", "complete", "error"
    buffer,     \* AuditBuffer: rows of the tool calls made
    file,       \* rows of the JSONL fallback
    flushed,    \* audit.flush: "no", "sent", "failed"
    replied,    \* the outcome was handed to the connection
    code,       \* exit code; -1 before the end, 137 if killed
    out         \* frames under way to the orchestrator

Frames == {"flush", "complete", "error"}
AgentTypeOK ==
    /\ apc \in {"connecting", "awaiting", "running", "flushing", "sending",
                "replying", "closing", "exited"}
    /\ link \in {"none", "up", "lost"} /\ signal \in BOOLEAN
    /\ assign \in {"none", "valid", "malformed", "taken"}
    /\ outcome \in {"none", "complete", "error"}
    /\ buffer \subseteq AgentRows /\ file \subseteq buffer
    /\ flushed \in {"no", "sent", "failed"} /\ replied \in BOOLEAN
    /\ code \in {-1, 0, 1, 137} /\ out \in Seq(Frames) /\ Len(out) <= 2

AgentInit ==
    /\ apc = "connecting" /\ link = "none" /\ signal = FALSE /\ assign = "none"
    /\ outcome = "none" /\ buffer = {} /\ file = {} /\ flushed = "no"
    /\ replied = FALSE /\ code = -1 /\ out = <<>>

\* _run_nmb_mode: connect_with_retry, whose last failure ends the process.
AgentConnects ==
    /\ apc = "connecting"
    /\ \/ apc' = "awaiting" /\ link' = "up" /\ UNCHANGED code
       \/ apc' = "exited" /\ code' = 1 /\ UNCHANGED link
    /\ UNCHANGED <<signal, assign, outcome, buffer, file, flushed, replied, out>>

\* The signal handler sets an event that only _wait_for_assign looks at.
Signal ==
    /\ apc # "exited" /\ ~signal /\ signal' = TRUE
    /\ UNCHANGED <<apc, link, assign, outcome, buffer, file, flushed, replied, code, out>>

\* The orchestrator's task.assign reaches the listen queue.
AssignArrives ==
    /\ link = "up" /\ apc = "awaiting" /\ assign = "none"
    /\ assign' \in {"valid", "malformed"}
    /\ UNCHANGED <<apc, link, signal, outcome, buffer, file, flushed, replied, code, out>>

\* _reply_validation_error: task.error at once; there is nothing to flush.
RejectAssign == apc' = "replying" /\ outcome' = "error"

\* _wait_for_assign: the first task.assign, valid or not.
TakeAssign ==
    /\ apc = "awaiting" /\ ~signal /\ assign \in {"valid", "malformed"}
    /\ assign' = "taken"
    /\ IF assign = "valid" THEN apc' = "running" /\ UNCHANGED outcome
                           ELSE RejectAssign
    /\ UNCHANGED <<link, signal, buffer, file, flushed, replied, code, out>>

\* Shutdown wins, also over an assignment that is there by now.
TakeShutdown ==
    /\ apc = "awaiting" /\ signal
    /\ apc' = "closing" /\ code' = 0
    /\ UNCHANGED <<link, signal, assign, outcome, buffer, file, flushed, replied, out>>

\* The agent loop executes a tool and buffers its audit row.
RunTool ==
    /\ apc = "running"
    /\ \E r \in AgentRows \ buffer : buffer' = buffer \cup {r}
    /\ UNCHANGED <<apc, link, signal, assign, outcome, file, flushed, replied, code, out>>

\* _run_assigned_task returns a TaskCompletePayload, or raises: any exception,
\* MaxTurnsExceededError among them, becomes a task.error.
FinishTask ==
    /\ apc = "running"
    /\ outcome' \in {"complete", "error"}
    /\ apc' = "flushing"
    /\ UNCHANGED <<link, signal, assign, buffer, file, flushed, replied, code, out>>

\* _flush_audit_buffer, first half: the JSONL fallback, whose failure is logged.
FlushFile ==
    /\ apc = "flushing"
    /\ IF buffer = {} THEN apc' = "replying" /\ UNCHANGED file
                      ELSE apc' = "sending" /\ file' \in {buffer, {}}
    /\ UNCHANGED <<link, signal, assign, outcome, buffer, flushed, replied, code, out>>

\* A seeded fault: the failed send escapes _flush_audit_buffer, and with it both
\* the report and the exit code 0.
FlushSendRaises ==
    /\ apc = "sending"
    /\ \/ /\ link = "up" /\ out' = Append(out, "flush")
          /\ flushed' = "sent" /\ apc' = "replying" /\ UNCHANGED code
       \/ /\ link = "up" /\ out' = Append(out, "flush")
          /\ flushed' = "failed" /\ apc' = "closing" /\ code' = 1
       \/ flushed' = "failed" /\ apc' = "closing" /\ code' = 1 /\ UNCHANGED out
    /\ UNCHANGED <<link, signal, assign, outcome, buffer, file, replied>>

\* Second half: bus.send.  It fails on a dead link or a broker error, and also
\* when only the acknowledgement is late; the failure is logged.
FlushSend ==
    /\ apc = "sending" /\ apc' = "replying"
    /\ \/ /\ link = "up" /\ out' = Append(out, "flush")
          /\ flushed' \in {"sent", "failed"}
       \/ flushed' = "failed" /\ UNCHANGED out
    /\ UNCHANGED <<link, signal, assign, outcome, buffer, file, replied, code>>

\* A seeded fault: a reply is tried again until the connection is back.
ReplyWaits ==
    /\ apc = "replying" /\ apc' = "closing"
    /\ link = "up" /\ out' = Append(out, outcome) /\ replied' = TRUE /\ code' = 0
    /\ UNCHANGED <<link, signal, assign, outcome, buffer, file, flushed>>

\* bus.reply, which writes to the connection and awaits no answer.  When it
\* raises the process ends with 1: after a complete by its own return, after an
\* error by the exception that escapes.
Reply ==
    /\ apc = "replying" /\ apc' = "closing"
    /\ \/ link = "up" /\ out' = Append(out, outcome) /\ replied' = TRUE /\ code' = 0
       \/ link # "up" /\ code' = 1 /\ UNCHANGED <<out, replied>>
    /\ UNCHANGED <<link, signal, assign, outcome, buffer, file, flushed>>

\* The finally blocks: the bus and the backend are closed.
AgentExits ==
    /\ apc = "closing" /\ apc' = "exited"
    /\ link' = IF link = "up" THEN "none" ELSE link
    /\ UNCHANGED <<signal, assign, outcome, buffer, file, flushed, replied, code, out>>

\* The connection dies, with the newest frames that were on it.
AgentLoses ==
    /\ link = "up" /\ link' = "lost"
    /\ \E n \in 0..Len(out) : out' = SubSeq(out, 1, n)
    /\ UNCHANGED <<apc, signal, assign, outcome, buffer, file, flushed, replied, code>>

\* The manager's SIGKILL, after its SIGTERM went unheeded.
AgentKilled ==
    /\ apc # "exited" /\ signal
    /\ apc' = "exited" /\ code' = 137
    /\ link' = IF link = "up" THEN "none" ELSE link
    /\ UNCHANGED <<signal, assign, outcome, buffer, file, flushed, replied, out>>

AgentStep == \/ TakeAssign \/ TakeShutdown \/ FinishTask \/ FlushFile
             \/ FlushSend \/ Reply \/ AgentExits
=============================================================================
