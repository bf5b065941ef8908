# NemoClaw Escapades: TLA+ models and proofs

This directory specifies the system around the NemoClaw Message Bus (NMB): the
broker and its client, the delegation of work to sub-agent processes, the life of
a delegated workflow and of its workspace, the agent loop, the conversation with
the user, and the audit databases. Everything is asyncio: one thread per process,
where the code between two `await`s is atomic and every `await` is a point at
which any other task may run. An action of a model is the code between two
awaits; a program counter names the await a task is suspended at.

Paths are relative to `src/src/nemoclaw_escapades/`.

## 1. The system

A user talks to an **orchestrator** through Slack. It answers with an agent loop
over tools; its `delegate_task` tool spawns a **coding sub-agent** (a process),
which connects to the **NMB broker**, receives one `task.assign`, works and
reports `task.complete` or `task.error`. The orchestrator's **dispatcher** takes
the reports from the bus, and a **finalisation** model decides whether to show
the work to the user, push it, discard it or iterate. Buttons let the user decide
the same things. An **audit database** records messages, tool calls and
delegations.

| Component | State it keeps | Operations | Hard part | Module |
|---|---|---|---|---|
| NMB broker (`nmb/broker.py`) | connections by sandbox id, two subscription maps, pending requests, counts, one timeout task per request | connect, disconnect, send, request, reply, subscribe, unsubscribe, publish, stream, timeout, stop | replier, timeout task, roll-back and disconnection compete for one pending entry; duplicate ids | `NMBBroker` |
| MessageBus client (`nmb/client.py`) and its blocking form (`nmb/sync.py`) | reply and ACK futures, bounded listen queue, channel queues; an event-loop thread | connect, send, request, reply, subscribe, listen, close | connection loss and `close()` with callers waiting; queue at its limit | `MessageBusClient` |
| Delegation manager (`orchestrator/delegation.py`) | handle per workflow, semaphore | delegate, terminate, close | re-delegation, cancellation and teardown of one workflow overlap | `DelegationManager` |
| `delegate_task` (`tools/delegation.py`) | none | one call | registration races the first report | `WorkflowLifecycle` |
| Dispatcher (`orchestrator/dispatcher.py`) | registered workflows, one finalisation task per workflow | register, deregister, handlers of four message types | three parties may close a workflow | `WorkflowLifecycle`, `AuditTrail` |
| Finalisation (`orchestrator/finalization.py`, `tools/finalization.py`) | session: action, `is_terminal`, task | six tools | `re_delegate` suspends inside the task that blocks its own result | `WorkflowLifecycle`, `Workspace` |
| Finalisation buttons (`orchestrator/finalization_actions.py`) | pending iteration per thread | push, discard, iterate, feedback | clicks overlap finalisation and each other | `WorkflowLifecycle`, `Workspace` |
| Workspace tools (`tools/files.py`, `bash.py`, `git.py`, `agent/git_helpers.py`) | a directory | write, edit, shell, clone, checkout, diff | nothing locks the directory; timed-out commands live on | `Workspace` |
| Sub-agent (`agent/__main__.py`, `agent/audit_buffer.py`) | one task, audit buffer | wait, run, flush, report | shutdown races the assignment; the audit path fails | `SubAgent` |
| Audit database (`audit/db.py`) | bounded queue, writer task, rows | enqueue, flush, drain, direct writes | shutdown while a batch is being written; drops | `AuditDB` |
| Agent loop (`agent/loop.py`, `agent/approval.py`) | messages of one run | infer, gate, execute tools | a batch mixing reads and gated writes | `AgentLoop` |
| Tool registry and search (`tools/registry.py`, `tool_search.py`) | tools, surfaced set | activate, execute | deferred tools | `AgentLoop` |
| Compaction, prompts, transcript repair (`agent/`) | history | cut, rebuild, stitch | tool calls kept with their results | `AgentLoop`, `Conversation` |
| Backend (`backends/`) | HTTP client | complete with retries | retry classification | `AgentLoop` |
| Orchestrator (`orchestrator/orchestrator.py`) | pending approval per thread, prompt history | request, approve, deny | concurrent requests of one thread | `Conversation` |
| Slack connector (`connectors/slack/`) | placeholders, prompts, clicks in flight | events to requests, responses to messages | refused API calls; duplicate clicks | `Conversation` |
| Service tools, skills, configuration, logging | little | I/O | none for a model checker | none |

What makes the modelled components correct:

* **Broker.** A request gets one outcome, and gets it eventually. Counts and
  timers follow the pending table along every path that touches it. The two
  subscription maps describe one relation. A departed sandbox leaves nothing; a
  duplicate neither replaces nor evicts the connection that holds the id.
* **Client.** Every call returns, whatever happens to the connection. No future
  is left that nobody resolves, subscribers do not cut each other off, and a
  message is missed only when newer ones overtook it.
* **Delegation manager.** Slots are neither leaked nor returned twice. No process
  runs that nobody can stop. A failing call does not evict another call's handle.
* **Workflow.** A report is only ignored when its workflow is closed. Closing a
  workflow takes its process with it. An error closes its workflow.
* **Workspace.** What is pushed is the work as the sub-agent left it when it
  reported; a workflow is closed only when that work is on the remote; the parent
  repository is touched only if the workspace's own is taken away under a push;
  every finalisation call ends.
* **Agent loop.** Every tool call has one result, no write runs unapproved, tools
  that are not concurrency-safe run alone, and a turn ends unless a delegation
  waits for ever for a slot.
* **Conversation.** An approval is settled at most once, a turn is committed at
  most once, the click guard is exact, and no placeholder is forgotten.
* **Audit.** A row shows exactly what the surviving writes of its message make of
  it; a report is recorded only when its tool calls are; a sub-agent is silent only
  if it was killed or cut off.

## 2. Modules

| Module | Models |
|---|---|
| `RequestReply` | what request/reply promises a requester; implemented by `NMBBroker` |
| `NMBBroker` | `nmb/broker.py` and the enumerations of `nmb/models.py` |
| `MessageBusClient` | `nmb/client.py`, `nmb/sync.py`, with an abstract broker |
| `DelegationManager` | `orchestrator/delegation.py` |
| `WorkflowLifecycle` | `tools/delegation.py`, `orchestrator/dispatcher.py`, `orchestrator/finalization.py`, `tools/finalization.py`, `orchestrator/finalization_actions.py` and the sub-agent's protocol, composed with an instance of `DelegationManager` |
| `Workspace` | the git side of `tools/finalization.py`, the sub-agent's file, shell and git tools, `agent/git_helpers.py` |
| `AgentLoop` | `agent/loop.py`, `agent/approval.py`, `agent/compaction.py`, `tools/registry.py`, `tools/tool_search.py`, `orchestrator/transcript_repair.py`, `backends/` |
| `Conversation` | `connectors/slack/connector.py`, `orchestrator/orchestrator.py`, `agent/prompt_builder.py` |
| `AuditDB` | `audit/db.py` |
| `SubAgent` | `agent/__main__.py` in NMB mode, `agent/audit_buffer.py` |
| `AuditTrail` | `AuditDB` composed with the broker's connection log, or with an instance of `SubAgent`, the dispatcher's ingestion and `main.py`'s shutdown |
| `NMBBrokerProofs`, `MessageBusClientProofs`, `DelegationProofs`, `WorkflowProofs`, `WorkspaceProofs`, `AgentLoopProofs`, `ConversationProofs`, `AuditTrailProofs` | theorems about the modules of the same name (`WorkflowProofs`: `WorkflowLifecycle`; `AuditTrailProofs`: `AuditDB` and `SubAgent` as well), section 5 |
| `MCBroker`, `MCBusClient`, `MCDelegation`, `MCWorkflow`, `MCWorkspace`, `MCAgentLoop`, `MCConversation`, `MCAuditTrail` | model values and symmetry for TLC |

### RequestReply and NMBBroker

`RequestReply` knows no connections and no timers: a request is accepted or
refused, decided once (replied or expired) or dropped, and its requester is sent
at most the frame of that decision; `Promise` adds that an accepted request is
settled in the end. The refinement mapping at the end of `NMBBroker` reads
`status` off the pending table, the handlers that carry a reply and the timer,
and `frame` off `got`; `ImplementsRequestReply` is checked on the fair broker.

The dictionaries of the broker keep their names: `connections`, `channels`,
`sandbox_channels`, `pending`, `pending_counts`. An absent key is a null value,
an empty set or 0. `pc[c]` is the await the handler of socket `c` is at, `op`,
`req`, `answer` and `peers` are its locals. `timer[r]` is the timeout task of
request `r`. History variables record what the requester's socket was sent
(`got`), which connections were turned away (`rejected`), who issued a request
(`issuer`) and what was enqueued for the audit (`audit_insert`, `audit_timeout`).

| Action | Code |
|---|---|
| `Handshake`, `register` | `_process_request`, head of `_handler`, `_register` |
| `TransportCloses` | the websockets library: peer leaves, link drops, `_reject`, `stop()` |
| `HandlerLeaves`, `unregister`, `CleanUp` | `finally` of `_handler`, `_unregister` |
| `InvalidFrame`, `HandleSend` ... `HandleStream` | `_dispatch` and each `_handle_*` up to its first await |
| `Delivered`, `DeliveryFails`, `RollBack` | after `await target_ws.send`, both outcomes |
| `Responded` | `_send_ack`, `_send_error` and the audit call behind them |
| `GatherDone` | the gathers of `_handle_publish` and `_broadcast_system` |
| `TimerFires`, `TimeoutSent` | `_timeout_request` around its await |
| `StopBegins`, `StopEnds` | `stop()` around `wait_closed()` |

Abstracted: payloads, message types, timestamps, JSON. A malformed frame is one
input ("invalid"). `_ws_to_sandbox` is written and never read. Not modelled: a
binary frame that is not UTF-8 (it ends the handler through `finally`, as a close
does) and the per-subscriber send timeout, which only shortens a gather.
`ClientOps` restricts which operations the clients of an instance use; it
restricts the environment, not the broker.

### MessageBusClient

One client, its calls, one channel with several local subscribers, one `listen()`
consumer, the reader and `close()`. `pend` holds the keys of `_pending_futures`
and `_pending_acks`; `fut[c]` is what the caller awaits. `Begin` registers the
future and starts the write, `SendReturns` ends the write (or raises, which leaves
the entry behind), `Awaits` and `Timeout` are the two ends of `wait_for`,
`CancelCall` cancels the task anywhere, `Post` is `reply()` and a stream chunk,
which have no future. `Answer` and `Deliver` are `_dispatch` and its four branches;
`ReaderEnds` is the reader's `finally`, `CloseBegins`, `CloseSocket`, `CloseEnds`
are `close()` around its awaits. `StopLoop` is `nmb/sync.py`'s `close()` stopping
the private loop: behaviours with it are the blocking client's.

The broker is abstract: it answers a frame at most once, in any way, and takes
SUBSCRIBE and UNSUBSCRIBE frames in order. Messages are numbered per queue, which
is what "overtaken" needs. Payload models are data.

### DelegationManager

A member of `Calls` is one invocation of `delegate()`. `DelegateBegins`,
`Acquired`, `SpawnSucceeds`/`SpawnFails`, `PreviousStopped`,
`SendSucceeds`/`SendFails`, `CleanedUp` follow its awaits;
`DelegateCancelled` cancels it at any of them; `Raise` is its
`except BaseException`. `Terminate` is `terminate()`: it pops and releases before
its only await, and `close()` is a sequence of it. Readiness retries are folded
into `SendSucceeds` and `SendFails`. The semaphore does not barge past waiters;
their FIFO order is not kept (any waiter may be next), which allows more
behaviours. A spawn that is cancelled kills its process inside asyncio, so no
process appears. `overlapped` is a history variable: it becomes TRUE when an
operation on a workflow starts while a `delegate()` of it is suspended.

### WorkflowLifecycle

`registered` is the dispatcher's table, `closed` a history variable (the workflows
whose entry `deregister_workflow` removed), `current` the task in the shared
`WorkflowContext`, `fin[w]` where the finalisation task is suspended,
`action`/`is_terminal` its session, `clicks` and `iterate` the button handlers.
`opener[w]` and `fin_call[w]` tie a suspended `delegate_task` or `re_delegate` to
its `delegate()` call. Reports carry a workflow id and no iteration. Iterations
share their sandbox id, so `AssignArrives` lets the assignment reach any live
process of the workflow. `HandleTaskError` leaves the dispatch loop in `stage`
"rendering"; `ErrorRendered`, `ErrorAudited` and `TaskErrorHandled` follow the
handler's three awaits, of which the first two may raise (`AfterFailure`).
`BaselineDrifts` is the refusal of a completion whose
baseline moved, `DestroySandbox` the tool of that name. With `SameThread` the
workflows share one Slack thread, so an Iterate click on one replaces the pending
iteration of the other.

`ReportOp` is the bus operation the sub-agent reports with. The code uses
`reply`, which the broker refuses (the finding below); no report would ever arrive
and the rest of the life cycle would be unreachable. The other runs therefore set
it to `send`, which is the contract `delegation.py`, the dispatcher and its tests
describe: reports arrive on the listen queue. `SubAgent` and `AuditTrail` take the
same contract for granted (below).

Not modelled: `close()` of dispatcher and manager with finalisations in flight,
cancellation of the tasks that await `delegate()` (the manager's own module has
it), malformed payloads, the dispatcher without a finaliser, a full listen queue
(the client's module has it). Pushes are the terminal or non-terminal outcome of
`CloseWork` here and a sequence of git commands in `Workspace`. A tool that raises
is turned into text by the agent loop and changes nothing.

### Workspace

One workflow's directory. A file tree is the set of edits it has on top of the
baseline commit; `index`, `commits` (tips of the local branches), `head` and
`remote` are git's. `WriteFile`, `EditFile`, `Bash`, `GitClone` and `GitCheckout`
are the sub-agent's tools. The shell runs anything: besides changing files, which
the other tools do as well, `Bash` may make the directory a repository, commit,
push, and remove `.git` or the directory, also under a running push. `Complete` is
the report. Its diff is one of `BaselineDiffs`: the tree with or without its
untracked files, or nothing at all, for a task without a baseline (the default of
`delegate_task`), outside a repository and when `git diff` fails. `report` is that
diff and `work` the tree at that moment. `git add --intent-to-add` puts no content
into the index, so `index` does not change. A finalisation call
walks through `Script`, the git commands of `tools/finalization.py`: the root
check, `checkout -B`, `add -A`, `commit`, `push` and, for a pull request, `gh`;
`DiscardWork` is `rmtree`. `Start` may be a button or the finaliser, so calls
overlap. `TimesOut` abandons a command that nobody kills and `OrphanEnds` lets it
take effect later; in a directory without a repository of its own the abandoned
command works in the one above. `Close` is the deregistration after a terminal result; the
finaliser's other ways to close a workflow are in `WorkflowLifecycle`.

History: `quiet` (since the report only pushes of one branch touched the
workspace), `wiped` (a discard or the shell took the repository away while a push
was in progress), `parent` (a finalisation
command ran in the enclosing repository). Commands outside the model: read-only
tools, and `git_commit`, which belongs to the orchestrator's own directory.

### AgentLoop

One turn. `gate` says whose loop it is: a sub-agent's (`AutoApproval`), the
orchestrator's (`WriteApproval`) or that of an orchestrator without tools, which
takes the repair path. `StartRound`, `ReplyText`, `ReplyTools`, `ToolEnds`,
`SafetyLimit`, `Approve`, `Deny` and `run` are the steps of `agent/loop.py` and of
the approval it raises; `Summarised` is full compaction, with the cut computed as
the code does (`CompressCount`); `Continued` and `Repaired` are the two repair
paths; `Refuses`, `AttemptTimesOut` and `Malformed` are the backend's attempts,
classified by `Category`. `surface` is the set of tools surfaced in the turn's own
context; a `tool_search` that runs in a task of the gather changes a copy of it.
`Untimed` are the tools without a timeout: `delegate_task`, which waits for a slot in
`semaphore.acquire()`.

A message keeps its role and its batch; texts, arguments, scores and sizes are
left out, so whether a conversation exceeds the compaction threshold, or which
tools a search hits, is a choice. Callbacks and telemetry swallow their failures
and are left out.

### Conversation

Each message and each click is a task; tasks of one thread share `pending`
(`_pending_approvals`), `live` (`_thread_approval_msg`), `in_flight`
(`_approval_in_flight`) and `history`. An approval is named after the task whose
run raised it. `MessageArrives`, `ClickArrives` and `ClickDropped` are the event
handlers, `Consumed` ... `Records` follow the connector's awaits, `HandleMessage`,
`HandleApprove` and `HandleDeny` the orchestrator's; `RunEnds`, `RunPauses`,
`RunFails` and `ResumedRunRaises` are the outcomes of a run, whose inside is
`AgentLoop`. Slack may refuse any call. Texts, blocks and modals are layout. A
reply posted outside its thread starts a thread of its own (`Stray`).

### AuditDB, SubAgent and AuditTrail

`AuditDB` keeps the write queue, the batch the writer has dequeued, and the rows.
An item is a message and a stage, 1 the insert and 2 the status update.
`FlushTake` and `FlushWrite` are the two halves of the writer's loop, `StopWriter`
the cancellation in `stop_background_writer`, `Drain` its last flush. `WriteBatch` is
the rows after all inserts of a batch and then all its updates. A batch whose
commit fails or is cancelled goes to `lost`, an item a full queue refuses to
`dropped`.

`SubAgent` is the process: `apc` is where it is, `code` its exit code, `out` the
frames it has handed to the bus. `TakeAssign` and `TakeShutdown` race in
`_wait_for_assign`; `FlushFile`, `FlushSend`, `Reply` and `AgentExits` follow
`_run_nmb_mode`; `AgentLoses` and `AgentKilled` may happen anywhere. `Reply` puts the
report on `out`, from which the dispatch loop takes it, as a `send` would: with the
`reply` of the code the broker drops it (the finding), and nothing after a report
would be reachable. The sub-agent does not see the difference, since `reply` awaits
no acknowledgement. What `AuditTrail` says about reports is therefore said of the
contract, what it says about the sub-agent of the code as it is.

`AuditTrail` is about one of two hosts. The broker: `Connects`,
`ConnectionLogged`, `Leaves`, `DisconnectionLogged` are the connection rows,
written by tasks of their own. The orchestrator: `Delegate` and `DelegateEnds` are
the rows `delegate_task` writes before and, on a `DelegationError`, after
`delegate()` ("aborted" is such an error row); `DispatchFlush`,
`IngestRow`, `DispatchReport` are the dispatch loop, one frame after the other;
`CloseDispatcher` and `OrchestratorStopsWriter` are `main()`'s teardown.
Queries, exports and inference rows are left out.

## 3. Runs

| Run | Instance | Shows |
|---|---|---|
| `broker_requests` | 2 sockets, 2 sandboxes, 2 requests, limit 1, request/reply | `CountsNeverOverstate`, `TimersMatchPending`, `NeverReplyAndTimeout`, `CleanedUpUnlessDuplicated`, `TypeOK` |
| `broker_oneway` | 3 sockets, 2 sandboxes, 2 channels, limit 1, everything else | `ChannelMapsAgree`, `ConnectionsNotDisplaced` |
| `broker_liveness` | 2 sockets, 1 request, fair | `RequestAnswered`, `ImplementsRequestReply` |
| `bus_client` | 2 calls of any kind, 3 delivered messages, queues of 2, fair | `NobodyWaitsInVain`, `OnlyCancelledLeak`, `RoutedWhileSubscribed`, `MissedOnlyIfOvertaken`, `EveryCallEnds` |
| `delegation_manager` | 2 workflows, 3 calls, 3 processes, 1 slot | `SlotsConserved`, `NoOrphanProcess`, `OnlyOwnerEvicts`, `TypeOK` |
| `workflow_safety` | 2 workflows of one thread, 2 calls, 2 processes, 1 slot | `UnknownOnlyIfClosed`, `ClosedFirstIterationHasNoAgent` |
| `workflow_errors` | 1 workflow, 2 calls, 2 processes, fair | `ErrorCloses` |
| `workspace` | 2 edits, one a new file, 2 iterations, 3 tool calls, 2 finalisation calls, 1 timed-out command, fair | `ClosedMeansDelivered`, `ParentRepoSafe`, `PushedIsTheWork`, `PushEnds` |
| `agent_loop` | 3 gates, 6 tool names, batches of 2, 2 rounds, 2 continuations, 2 attempts, fair | `EveryCallAnswered`, `WritesAreApproved`, `UnsafeRunsAlone`, `TurnEnds` |
| `conversation` | 2 messages and 2 clicks of one thread, 2 refused calls | `SettledOnce`, `TurnCommittedOnce`, `InFlightExact`, `NoForgottenPlaceholder` |
| `audit_trail` | 2 messages, queue 2, batch 2, 2 connections of one id, 2 tool rows, fair | `LatestStatusStored`, `ConnectionHistory`, `AuditedBeforeReported`, `ReportedUnlessCutOff`, `AgentEnds` |
| `workflow_reports_violation` | 1 workflow, reports as `reply` | the finding below |

The other modules have a `TypeOK` as well, which their instances satisfy; their
runs list only the properties about the code.

Why the bounds are enough. The broker couples at most two handlers, the timer and
the stop sequence over one request; two requests with limit 1 are what makes the
count matter, two sockets in two sandboxes include the same id twice (a duplicate)
and a reconnection, and the third socket in `broker_oneway` adds a duplicate
while a publisher and a subscriber are present. Two calls of the client give two
subscribers of one channel, or a request racing a cancellation; a queue of two
with three messages overflows, and then order and which message is dropped
matter. Three calls with one slot give a
holder, a waiter and an overlapping re-delegation. Two calls and two processes in
the composition give a first iteration and one re-delegation; with two workflows
they give a second workflow waiting for the first one's slot. Two finalisation
calls are a double click, a push racing a discard, or a retry after a failure; two
iterations let a sub-agent write, or remove the repository, while the first result
is pushed, and three tool calls are the least for that: one to make the repository,
one to edit, one to interfere. A batch of two
calls is the smallest with a read and a gated write, and two rounds the smallest
with a tool surfaced in one and called in the other. Two messages and two clicks
of one thread give an approval that another run overwrites and a click on the
superseded prompt. Two messages of two stages exceed a queue and a batch of two.

Safety runs of the broker, the manager, the workflows and the conversation use
symmetry; the fair runs do not.

Deadlock is checked except in `bus_client`, `workspace` and `audit_trail`. There
the instance itself runs out: the calls have been made, the finalisation calls are
used up, the process has exited and its host is down. Elsewhere `Stopped`,
`Quiescent`, `Idle`, `Done` and `Quiet` are the states in which the programs
really rest. `Idle` includes one found by the
deadlock check: a delegation waiting for the slot of a sub-agent that died
without reporting, which nothing but `close()` releases (the TTL watchdog in
`docs/design_m2b.md` is marked as pending).

Fairness.

* `NMBBroker!Fairness`: the event loop runs every ready task, socket
  writes end (written, or `ConnectionClosed` by keepalive), sleeps end, `_reject`
  closes a duplicate, and a handler whose socket is closed runs its `finally`.
  Nothing is assumed of clients.
* `MessageBusClient!Fairness`: the reader notices a dead socket, `close()`'s awaits
  return, and a call's write and its `wait_for` end. Nothing is assumed of the
  broker: a call ends because of its own timeout.
* `WorkflowLifecycle!FairSpec`: the dispatch loop takes each queued report and its
  handlers' awaits return or raise; nothing is assumed of users, the finalisation
  model or the sub-agents.
* `Workspace!Fairness`: a git command ends or its timeout expires, and `gh` and
  `rmtree` end. Nothing is assumed of the sub-agent or the user.
* `AgentLoop!FairSpec`: inference attempts and tools end, by a timeout of the
  backend or of the tool if not otherwise. The exception is `delegate_task`
  (`Untimed`), which waits for a slot without one (`orchestrator/delegation.py:182`):
  `TurnEnds` says that a turn of the orchestrator that never ends nor pauses is one
  whose `delegate_task` never returns. Nothing is assumed of the user: a paused turn
  may stay paused.
* `AuditTrail!FairSpec`: the sub-agent process runs, its task and its bus calls end.
  Nothing is assumed of the orchestrator.

Each property of a passing run has a seeded fault (the operators marked "Seeded
fault") that breaks it under the run's own configuration.

## 4. Findings

`workflow_reports_violation`: assignments go out as `send`
(`orchestrator/delegation.py:302`), reports come back as `reply`
(`agent/__main__.py:444`, `457`); the broker refuses a reply to a message it does
not track, so no report reaches the dispatcher.

Eleven further configurations reproduce smaller disagreements between what the code
does and what is written about it. TLC is expected to report a violation of the
one property in each.

| Configuration (module) | Property | What the counterexample shows |
|---|---|---|
| `broker_limit_violation` (`MCBroker`) | `PendingWithinLimit` | the roll-back in `_handle_request` decrements the count a second time when the timeout already did, so more requests than `max_pending_per_sandbox` get in flight |
| `broker_audit_violation` (`MCBroker`) | `UpdateFollowsInsert` | a timeout that fires while the request is still being written enqueues its status update before the insert it updates |
| `broker_cleanup_violation` (`MCBroker`) | `CleanedUp` | frames of a rejected duplicate are dispatched under the id, and what they leave behind is cleaned up by nobody |
| `delegation_cap_violation` (`MCDelegation`) | `ConcurrencyCap` | `terminate()` racing a re-delegation leaves a workflow without a slot, so one more than `max_concurrent` may live |
| `workflow_fresh_violation` (`MCWorkflow`) | `FreshCompletionFinalised` | a re-delegated iteration that completes before the finalisation that started it has ended is dropped as a duplicate |
| `workflow_leak_violation` (`MCWorkflow`) | `ClosedHasNoAgent` | a workflow closed while a re-delegation is between its awaits keeps the new sub-agent, and its slot, until shutdown; `ClosedFirstIterationHasNoAgent` is stated for workflows that were never iterated because of it |
| `tool_surface_violation` (`MCAgentLoop`) | `SurfacedIsCallable` | `tool_search` runs in a task of a gather, whose context is a copy: the tools it surfaces are not offered in the next round |
| `compaction_violation` (`MCAgentLoop`) | `ResultsHaveTheirCall` | full compaction may summarise an assistant's tool calls and keep their results |
| `approval_violation` (`MCConversation`) | `ApprovedIsShown` | two runs of one thread overwrite its pending approval, and a click on one prompt approves the other's writes |
| `iterators_violation` (`MCBusClient`) | `CloseStopsIterators` | `close()` does not wake the consumers: a blocking `listen()` or `subscribe()` hangs once the loop is stopped |
| `audit_stop_violation` (`MCAuditTrail`) | `NothingLostByStop` | cancelling the writer while it commits a batch loses the batch, although the stop drains the queue |

Observations made while modelling, without a configuration of their own:

* Client. A future registered before a write that raises, or whose caller is
  cancelled, stays in its table until the connection ends. A lost connection
  leaves `_ws` set and `_closed` false, so `listen()` polls for ever: a sub-agent
  waiting for its assignment, or the dispatcher, does not notice. Late replies, and
  channel messages that arrive after the unsubscription, land in the listen queue.
* Sub-agent. A shutdown signal wins over an assignment already received: exit code
  0 and no report. `bus.reply` raising on the error path ends the process with 1.
  Nothing reads the JSONL fallback.
* Audit. `log_disconnection` can miss the row of a `log_connection` that is still
  to run, or close the row of a reconnected successor (`ConnectionHistory` is stated
  for connections without that overlap). `log_delegation_complete` overwrites an
  outcome that is already recorded; its description says a duplicate does nothing.
* Workflow. `is_terminal` set by one tool of a session survives a later
  `present_work_to_user`, so buttons can be shown for a workflow that is then closed.
* Workspace. git prints "nothing to commit" on stdout and `run_git` returns stderr
  on failure, so the test at `tools/finalization.py:421` never matches: after a
  failed push, or when the work was committed with the shell, a retry stops at the
  commit. A timed-out git command is not killed. Two pushes of different branches,
  or a checkout by the sub-agent in between, can let a push succeed without the
  work. With no baseline, or after a failed `git diff`, the report shows nothing
  while a push publishes the whole working tree; `_verify_diff`
  (`orchestrator/finalization.py:328`) only logs. A discard, or the shell of a second
  iteration, that removes `.git` between the root check and a later command makes
  that command act on an enclosing repository. A `gh` timeout escapes as `TimeoutError`. `git_clone` creates a directory
  below the workspace, which the root check of finalisation then refuses.
* Agent loop. `_inference_with_repair` drops the chunks collected so far when a
  continuation comes back empty or filtered. A resumed run that raises leaves its
  placeholder (`NoForgottenPlaceholder` excludes it).

## 5. Proofs

Every safety invariant and every action property of a passing run is also a
theorem, proved with TLAPS for all values of the constants. What is assumed of
them is named in the module that declares them (`BrokerConstants`,
`BusAssumption`, `DelegationConstants`, `WorkflowConstants`,
`WorkspaceAssumption`, `LoopConstants`, `ConversationConstants`, `DBAssumption`):
finite sets where sizes are compared, positive limits, null values outside
the sets they stand beside, and relations between constants the code fixes (the
coding tools are core tools, `tool_search` is read-only and concurrency-safe, a
message is not a click).

Each proof is an inductive invariant, one lemma per action or group of actions,
and a last temporal step. The invariants were checked with TLC before they were
proved. Why the properties alone are not inductive:

`NMBBrokerProofs`
* `TypeCorrect`: `Spec => []TypeOK`. `TypeInv` adds that a running handler has a
  sandbox id.
* `EveryPendingExpires` and `ReplyXorTimeout`, from one invariant, `RaceInv`. "Never
  both frames" is not inductive: a reply may be on its way while no frame has been
  written. `RaceInv` says who may still touch a request: a handler that delivers
  or answers one issued it (`Handling`), a handler that delivers a reply has the
  timer off and no timeout delivered (`Replying`), a sending timer excludes
  a delivered reply and an armed one excludes both frames (`Racing`), a
  tracked request is charged to the sandbox of the connection that issued it
  (`Owned`). The pop of the pending entry, in one atomic step, is what makes the
  two exclusive.
* `ImplementsRequestReplySafety`: `Spec => Abstract!Spec`. Each step of the broker
  moves at most one request, by a step of `RequestReply` (`Move`), or drops several
  at once, when their sandbox leaves or the broker stops. It rests on `RaceInv`.
* `SubscriptionMapsAgree`: the mapping is updated on both sides in every step.
* `NeverDisplaced`: an action property; only `unregister` removes a connection,
  and only the one whose own socket is closed.
* `CountsHonest`: the count never exceeds the requests in flight. It is a
  cardinality argument, path by path; the other direction fails
  (`broker_limit_violation`).
* `DepartedLeaveNothing`: `CleanInv` adds that a handler past its registration is
  the registered one or was rejected (`Registered`).

`MessageBusClientProofs`
* `ConsumersMissOnlyOvertaken`: `MsgInv` says of each queue that it holds, in order
  and without gaps, the last messages put into it, and how many were taken.
* `NoVainWait` and `TablesOnlyLeakCancelled`: `FutureInv` relates a pending future to
  its table entry and both to how far the reader and `close()` have got. A call
  can register after the reader's `finally`; then the second sweep of `close()` is
  still to come.
* `SubscribersStayRouted`: `RouteInv` relates the routing at the broker to the
  frames on the wire: behind every UNSUBSCRIBE under way there is the SUBSCRIBE of
  every call that now has a queue.

`DelegationProofs`
* `TypeCorrect`, `ProcessesTracked` (`NoOrphanProcess`) and `EvictionsOwned`
  (`OnlyOwnerEvicts`) hold however operations overlap.
* `SlotAccounting`: `Spec => []SlotsConserved`. `SlotInv` adds `Disciplined`: as long
  as nothing overlapped, at most one call works on a workflow and its await tells
  whether the workflow has a handle. `overlapped` never returns to FALSE, so each
  step may assume that discipline.

`WorkflowProofs`
* `TypeCorrect`, and `DrivesManager`: `Spec => Manager!Spec`, the composition makes
  only steps the manager's own specification has, so the theorems of
  `DelegationProofs` carry over to the orchestrator.
* `RegisteredBeforeReport` (`UnknownOnlyIfClosed`): `RegistryInv` says that a
  workflow is known from its first delegation on, and registered or closed since.
* `ClosedHoldsNoSlot` (`ClosedFirstIterationHasNoAgent`): `RefInv` says that whoever
  can close a workflow (a session, the dispatch loop, a click, a pending
  iteration) refers to one that has started a process; so the only call of a
  closed workflow has spawned or failed (`CloseInv`), and the handle that
  `terminate()` popped was the last. The proof does without a hypothesis
  the property used to have, that no `delegate()` is in flight; it was dropped.

`WorkspaceProofs`
* `ParentSafeUnlessTakenAway`: `RootInv`, past its first root check a call has a
  repository under it unless a discard or a shell took it away.
* `ClosedWorkIsDelivered` and `PushPublishesTheWork`: `DeliveryInv` follows a push
  command by command (`OnTheWay`) and says that once one call has pushed, no later
  command can change what is on origin (`Safe`): index, branch and remote all equal
  the working tree.

`AgentLoopProofs`
* `NoWriteUnapproved` and `UnsafeCallsSerialised`: `BatchInv` ties the running and the
  waiting calls to the batch the gate decided on.
* `CallsAnswered`: `CountInv` counts finished, running and waiting calls;
  `MessageInv` says that only the last message may be unanswered, and only while
  tools run. Compaction is the hard case: every suffix of an answered list is
  answered, and so is what compaction puts in front of it.

`ConversationProofs`
* `TypeCorrect`: `TypeInv` adds what a suspended task knows (its thread, whose run it
  resumes, its placeholder).
* `ApprovalsSettledOnce`: `SettleInv`, a pending approval has no fate and is pending
  in one thread.
* `ClickGuardExact`: `FlightInv`, at most one busy click per thread.
* `PlaceholdersSettled`: `PlaceInv`. `TurnsCommittedOnce`: `TurnInv`, a turn that is
  running or pending has not been committed.

`AuditTrailProofs`
* `BatchesKeepTheLatest`: `QueueInv`, the queue holds each item once and the insert of
  a message before its update, an update is never a batch ahead of its insert, and
  a row shows nothing of an item that is pending and what is due (`Due`) when none
  is (`MsgInv`). `WriterInv`: there is no writer before
  `open()`.
* `HistoryRightUnlessBlurred`: `HistoryInv`, per connection what its two audit calls
  have done so far.
* `TrailBeforeReport`: `TrailInv`, where the accepted rows are: with the process, on
  the bus ahead of the report, at the dispatcher, or stored.
* `SilentOnlyWhenCutOff` (`ReportedUnlessCutOff`): `ExitInv` adds that a process
  between its connection and its exit is linked or cut off and has neither a code
  nor a report before it closes.

Only model-checked: the liveness properties `RequestAnswered`, `EveryCallEnds`,
`ErrorCloses`, `PushEnds`, `TurnEnds` and `AgentEnds`, and the fair half of
`ImplementsRequestReply`. Liveness under fairness, `ENABLED` and facts about
recursive definitions are outside what the prover supports.

## 6. Not modelled

* The policy broker of `nmb/testing/`: drop, delay and deny rules for the test
  suites; production runs none of it.
* The service tools (`tools/gitlab.py`, `jira.py`, `gerrit.py`, `confluence.py`,
  `slack_search.py`, `web_search.py`): stateless wrappers of one or two HTTP calls
  and the formatting of the answer. In `AgentLoop` they are the non-core tools.
* Configuration, skills, logging, timers, database migrations and queries, scripts
  and prototypes: data, layout or reads.
* The dispatcher's `close()` with finalisations in flight.

## 7. Plan

1. Done: broker with its abstract specification, client, delegation manager,
   workflow composition, workspace, agent loop, conversation, sub-agent and audit.
2. Done: every safety property of the passing runs proved, and the safety part of
   the refinement of `RequestReply`.
3. Next, proofs: type correctness of `MessageBusClient`, `AgentLoop`, `Workspace` and
   `AuditTrail` as theorems of their own; the manager's invariants restated as
   theorems of the composition; what `terminate()` racing a re-delegation can
   cost at most (a bound that replaces `ConcurrencyCap`, which fails).
4. Then the dispatcher's and the manager's `close()` in shutdown order.
