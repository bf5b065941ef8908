------------------------------- MODULE AuditDB -------------------------------
(***************************************************************************)
(* audit/db.py: the SQLite audit log and its background batch writer.      *)
(*                                                                         *)
(* The broker's hot path only enqueues: an insert when it routes a message *)
(* and, for some, an update of its delivery status later.  One task takes  *)
(* what is queued, up to BatchSize items, and commits it as a transaction. *)
(* An item is <<message, stage>>, stage 1 the insert and 2 the update; the *)
(* stage is also the status it writes.  The orchestrator writes directly:  *)
(* rows of sub-agents' tool calls and the delegation row.                  *)
(***************************************************************************)
EXTENDS Integers, Sequences, Functions, FiniteSets

CONSTANTS
    Msgs,           \* messages the broker audits
    MaxConns,       \* bound: successive connections of one sandbox id
    Rows,           \* tool-call rows, by the id their AuditBuffer gave them
    QueueSize,      \* DEFAULT_AUDIT_QUEUE_SIZE
    BatchSize       \* DEFAULT_AUDIT_BATCH_SIZE
ASSUME DBAssumption == QueueSize \in Nat \ {0} /\ BatchSize \in Nat \ {0} /\ MaxConns \in Nat

VARIABLES
    engine,     \* "none", "open", "disposed"
    writer,     \* the writer: "off", "idle", "writing", "draining", "stopped"
    wq,         \* _write_queue
    batch,      \* the items the writer has dequeued and not yet committed
    stored,     \* stored[m]: the row's delivery status, 0 if there is no row
    enqueued,   \* history: how far the broker got with m
    dropped,    \* history: items a full queue refused
    lost,       \* history: items of batches that were not committed
    connRows,   \* connRows[c]: the row of connection c: "none", "open", "closed"
    toolRows,   \* tool_calls rows
    deleg       \* the delegation row: "none", "started", "complete", "error";
                \* "aborted" is an error that delegate_task itself recorded

queueVars == <<wq, batch, stored, enqueued, dropped, lost>>
dbVars == <<engine, writer, queueVars, connRows, toolRows, deleg>>

Items == Msgs \X {1, 2}
Conns == 1..MaxConns

DBTypeOK ==
    /\ engine \in {"none", "open", "disposed"}
    /\ writer \in {"off", "idle", "writing", "draining", "stopped"}
    /\ wq \in Seq(Items) /\ Len(wq) <= QueueSize
    /\ batch \in Seq(Items)
    /\ stored \in [Msgs -> 0..2] /\ enqueued \in [Msgs -> 0..2]
    /\ dropped \subseteq Items /\ lost \subseteq Items
    /\ connRows \in [Conns -> {"none", "open", "closed"}]
    /\ toolRows \subseteq Rows
    /\ deleg \in {"none", "started", "complete", "error", "aborted"}

DBInit ==
    /\ engine = "none" /\ writer = "off"
    /\ wq = <<>> /\ batch = <<>> /\ stored = [m \in Msgs |-> 0]
    /\ enqueued = [m \in Msgs |-> 0] /\ dropped = {} /\ lost = {}
    /\ connRows = [c \in Conns |-> "none"] /\ toolRows = {} /\ deleg = "none"

\* open() and start_background_writer().
OpenDB ==
    /\ engine = "none"
    /\ engine' = "open" /\ writer' = "idle"
    /\ UNCHANGED <<queueVars, connRows, toolRows, deleg>>

\* enqueue_message (the first time) and enqueue_status_update: put_nowait, and
\* a full queue drops the item.
Enqueue(m) ==
    /\ writer \in {"idle", "writing"} /\ enqueued[m] < 2
    /\ enqueued' = [enqueued EXCEPT ![m] = @ + 1]
    /\ LET item == <<m, enqueued'[m]>>
       IN  IF Len(wq) < QueueSize
           THEN wq' = Append(wq, item) /\ UNCHANGED dropped
           ELSE dropped' = dropped \cup {item} /\ UNCHANGED wq
    /\ UNCHANGED <<engine, writer, batch, stored, lost, connRows, toolRows, deleg>>

\* The INSERTs of a batch's items, each of its own row, and the UPDATEs: one
\* without its row changes nothing.
Inserted(rows, items) == [m \in Msgs |-> IF <<m, 1>> \in items THEN 1 ELSE rows[m]]
Updated(rows, items) ==
    [m \in Msgs |-> IF <<m, 2>> \in items /\ rows[m] # 0 THEN 2 ELSE rows[m]]

\* A seeded fault: the updates of a batch run before its inserts.
UpdatesFirst(rows, b) == Inserted(Updated(rows, Range(b)), Range(b))

\* _write_message_batch: all inserts of the batch, then all its updates.
WriteBatch(rows, b) == Updated(Inserted(rows, Range(b)), Range(b))

\* The batch's transaction commits (and perhaps checkpoints) or fails as one.
Commit   == stored' = WriteBatch(stored, batch) /\ batch' = <<>> /\ UNCHANGED lost
Rollback == lost' = lost \cup Range(batch) /\ batch' = <<>> /\ UNCHANGED stored

\* _flush_loop: the first item, then whatever else is there, up to BatchSize.
FlushTake ==
    /\ writer = "idle" /\ wq # <<>>
    /\ LET n == IF Len(wq) < BatchSize THEN Len(wq) ELSE BatchSize
       IN  batch' = SubSeq(wq, 1, n) /\ wq' = SubSeq(wq, n + 1, Len(wq))
    /\ writer' = "writing"
    /\ UNCHANGED <<engine, stored, enqueued, dropped, lost, connRows, toolRows, deleg>>

FlushWrite ==
    /\ writer = "writing" /\ writer' = "idle"
    /\ Commit \/ Rollback
    /\ UNCHANGED <<engine, wq, enqueued, dropped, connRows, toolRows, deleg>>

\* stop_background_writer up to the end of the cancelled task.  A batch being
\* committed is cut: sqlite's thread may or may not have finished it.
StopWriter ==
    /\ writer \in {"idle", "writing"} /\ writer' = "draining"
    /\ \/ writer = "writing" /\ (Commit \/ Rollback)
       \/ writer = "idle" /\ UNCHANGED <<batch, stored, lost>>
    /\ UNCHANGED <<engine, wq, enqueued, dropped, connRows, toolRows, deleg>>

\* _drain_queue: everything still queued, in one batch; failures are logged.
Drain ==
    /\ writer = "draining" /\ writer' = "stopped"
    /\ \/ stored' = WriteBatch(stored, wq) /\ UNCHANGED lost
       \/ lost' = lost \cup Range(wq) /\ UNCHANGED stored
    /\ wq' = <<>>
    /\ UNCHANGED <<engine, batch, enqueued, dropped, connRows, toolRows, deleg>>

\* close(): a last checkpoint, and the engine is gone.
CloseDB ==
    /\ engine = "open" /\ writer = "stopped"
    /\ engine' = "disposed"
    /\ UNCHANGED <<writer, queueVars, connRows, toolRows, deleg>>

\* log_connection inserts the row of connection c.
LogConnection(c) == engine = "open" /\ connRows' = [connRows EXCEPT ![c] = "open"]

\* A seeded fault: only the newest open row is closed.
CloseNewest == [c \in Conns |->
    IF connRows[c] = "open" /\ \A d \in Conns : connRows[d] = "open" => d <= c
    THEN "closed" ELSE connRows[c]]

\* log_disconnection closes the open rows of the sandbox id, whichever
\* connection they belong to.
CloseOpen == [c \in Conns |-> IF connRows[c] = "open" THEN "closed" ELSE connRows[c]]

LogDisconnection == engine = "open" /\ connRows' = CloseOpen

\* log_tool_call with the row's own id: a second insert is swallowed.
LogToolCall(r) == engine = "open" /\ toolRows' = toolRows \cup {r}

\* log_delegation_started; _complete and _error overwrite whatever is there.
LogDelegation(status) ==
    /\ engine = "open"
    /\ deleg' = IF status = "started" \/ deleg # "none" THEN status ELSE deleg

-----------------------------------------------------------------------------
(* Item s of m was refused by a full queue, or went down with its batch.   *)
Gone(m, s) == <<m, s>> \in dropped \cup lost

(* What the row of m ought to show, given what is gone of it: nothing      *)
(* without the insert, the last status otherwise, the first if only the    *)
(* update is gone.                                                         *)
Due(m) == IF enqueued[m] = 0 \/ Gone(m, 1) THEN 0
          ELSE IF enqueued[m] = 2 /\ ~Gone(m, 2) THEN 2 ELSE 1

(* Batching and shutdown neither reorder nor forget: when nothing of m is  *)
(* queued or being written, its row shows exactly what the items that were *)
(* neither refused nor rolled back make of it, although a batch writes     *)
(* inserts first, a full queue refuses an insert and takes its update, and *)
(* a batch fails between the two.                                          *)
LatestStatusStored ==
    \A m \in Msgs :
        (\A s \in {1, 2} : <<m, s>> \notin Range(wq) \cup Range(batch)) => stored[m] = Due(m)

(* "so nothing is lost on a clean shutdown" (audit/db.py,                  *)
(* stop_background_writer): a batch that was already dequeued is.          *)
NothingLostByStop == [][writer' = "draining" => lost' = lost]_dbVars
=============================================================================
