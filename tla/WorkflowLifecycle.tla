-------------------------- MODULE WorkflowLifecycle --------------------------
(***************************************************************************)
(* The life of a delegated workflow in the orchestrator: the delegate_task *)
(* tool (tools/delegation.py), the WorkflowDispatcher that consumes the    *)
(* sub-agents' reports (orchestrator/dispatcher.py), the finalisation task *)
(* and its tools (orchestrator/finalization.py, tools/finalization.py) and *)
(* the users' buttons (orchestrator/finalization_actions.py), composed     *)
(* with the DelegationManager they all drive.                              *)
(*                                                                         *)
(* fin[w] is where the finalisation task of workflow w is suspended:       *)
(*   "verifying"   the baseline and diff checks and the completion record  *)
(*   "deciding"    the finalisation model picks its next tool, or ends     *)
(*   "delegating"  its re_delegate awaits the call fin_call[w]             *)
(*   "failing"     rendering the failure before deregistering              *)
(* The handlers of task.progress and audit.flush keep no state here.       *)
(***************************************************************************)
EXTENDS Integers, FiniteSets

CONSTANTS
  Workflows, Calls, Agents, MaxConcurrent,  \* see DelegationManager
  MaxClicks,  \* push/discard clicks of one workflow handled at the same time
  SameThread, \* whether the workflows were delegated from one Slack thread
  ReportOp,   \* the bus operation a sub-agent reports with
  NoWorkflow, NoAgent, NoCall

ASSUME WorkflowConstants ==
  /\ IsFiniteSet(Workflows)
  /\ IsFiniteSet(Calls)
  /\ MaxConcurrent \in Nat \ {0}
  /\ MaxClicks \in Nat
  /\ NoWorkflow \notin Workflows
  /\ NoAgent \notin Agents
  /\ NoCall \notin Calls

VARIABLES
  spawned, value, pc, workflow, agent, previous, live, born, doomed, overlapped,
  registered,  \* keys of the dispatcher's _workflows
  closed,      \* history: the workflows whose entry deregister_workflow removed
  opener,      \* the call a delegate_task invocation is awaiting
  current,     \* the call whose assignment is context.task
  task,        \* the call whose task.assign each sub-agent received first
  acked,       \* calls whose task.assign the broker delivered
  report,      \* what each sub-agent reported, once
  outcome,     \* what became of that report
  loop,        \* the workflow whose task.error the dispatch loop is handling
  stage,       \* where that handler is: "rendering", "auditing" or "closing"
  fin, fin_call,
  action,      \* whether session.state.action is set
  is_terminal, \* session.state.is_terminal
  presented,   \* workflows whose buttons the user can see
  clicks,      \* push and discard handlers in progress
  iterate      \* _pending_iteration: workflows waiting for the user's feedback

Manager == INSTANCE DelegationManager

mvars    == <<spawned, value, pc, workflow, agent, previous, live, born, doomed, overlapped>>
registry == <<registered, closed>>
reports  == <<task, acked, report, outcome>>
sessions == <<fin, fin_call, action, is_terminal>>
users    == <<presented, clicks, iterate>>
handler  == <<loop, stage>>
vars     == <<mvars, registry, opener, current, reports, handler, sessions, users>>

Handled == {"finalised", "duplicate", "unknown", "errored"}

TypeOK ==
  /\ Manager!TypeOK
  /\ registered \subseteq Workflows
  /\ closed \subseteq Workflows
  /\ opener \in [Workflows -> Calls \cup {NoCall}]
  /\ current \in [Workflows -> Calls \cup {NoCall}]
  /\ task \in [Agents -> Calls \cup {NoCall}]
  /\ acked \subseteq Calls
  /\ report \in [Agents -> {"none", "complete", "error"}]
  /\ outcome \in [Agents -> {"none", "rejected"} \cup Handled]
  /\ loop \in Workflows \cup {NoWorkflow}
  /\ stage \in {"idle", "rendering", "auditing", "closing"}
  /\ fin \in [Workflows -> {"idle", "verifying", "deciding", "delegating", "failing"}]
  /\ fin_call \in [Workflows -> Calls \cup {NoCall}]
  /\ action \in [Workflows -> BOOLEAN]
  /\ is_terminal \in [Workflows -> BOOLEAN]
  /\ presented \subseteq Workflows
  /\ clicks \in [Workflows -> 0..MaxClicks]
  /\ iterate \subseteq Workflows

Init ==
  /\ Manager!Init
  /\ registered = {}
  /\ closed = {}
  /\ opener = [w \in Workflows |-> NoCall]
  /\ current = [w \in Workflows |-> NoCall]
  /\ task = [a \in Agents |-> NoCall]
  /\ acked = {}
  /\ report = [a \in Agents |-> "none"]
  /\ outcome = [a \in Agents |-> "none"]
  /\ loop = NoWorkflow
  /\ stage = "idle"
  /\ fin = [w \in Workflows |-> "idle"]
  /\ fin_call = [w \in Workflows |-> NoCall]
  /\ action = [w \in Workflows |-> FALSE]
  /\ is_terminal = [w \in Workflows |-> FALSE]
  /\ presented = {}
  /\ clicks = [w \in Workflows |-> 0]
  /\ iterate = {}

CallOf(a)      == CHOOSE k \in Calls : agent[k] = a
WorkflowOf(a)  == workflow[CallOf(a)]
Known          == {w \in Workflows : current[w] # NoCall}
AssignmentsOf(w) == {k \in Calls : workflow[k] = w}

\* Seeded fault: the registry entry goes, the sub-agent stays.
DeregisterOnly(w) ==
  /\ registered' = registered \ {w}
  /\ closed' = closed \cup ({w} \cap registered)
  /\ UNCHANGED mvars

\* deregister_workflow: the entry first, then DelegationManager.terminate, which
\* pops the handle without suspending and does nothing without one.
Deregister(w) ==
  /\ registered' = registered \ {w}
  /\ closed' = closed \cup ({w} \cap registered)
  /\ IF spawned[w] = NoAgent THEN UNCHANGED mvars ELSE Manager!Terminate(w)

-----------------------------------------------------------------------------
(* Delegating *)

\* Seeded fault: the workflow is registered when delegate() has returned.
DelegateTaskRegistersLate(k, w) ==
  /\ current[w] = NoCall
  /\ opener' = [opener EXCEPT ![w] = k]
  /\ current' = [current EXCEPT ![w] = k]
  /\ Manager!DelegateBegins(k, w)
  /\ UNCHANGED <<registry, reports, handler, sessions, users>>

\* The delegate_task tool: a fresh workflow id, registered before delegate().
DelegateTask(k, w) ==
  /\ current[w] = NoCall
  /\ w \notin registered
  /\ registered' = registered \cup {w}
  /\ opener' = [opener EXCEPT ![w] = k]
  /\ current' = [current EXCEPT ![w] = k]
  /\ Manager!DelegateBegins(k, w)
  /\ UNCHANGED <<closed, reports, handler, sessions, users>>

\* log_delegation_started raises between the two: the agent loop turns that into
\* a tool error and nobody undoes the registration.
DelegateTaskUnaudited(w) ==
  /\ current[w] = NoCall
  /\ w \notin registered
  /\ registered' = registered \cup {w}
  /\ UNCHANGED <<mvars, closed, opener, current, reports, handler, sessions, users>>

\* delegate_task's `except DelegationError', whatever happened meanwhile.
DelegateTaskFails(w) ==
  /\ opener[w] # NoCall
  /\ pc[opener[w]] = "failed"
  /\ opener' = [opener EXCEPT ![w] = NoCall]
  /\ Deregister(w)
  /\ UNCHANGED <<current, reports, handler, sessions, users>>

\* The head of re_delegate: the context gets the new task, then delegate().
ReDelegate(k, w) ==
  /\ current' = [current EXCEPT ![w] = k]
  /\ Manager!DelegateBegins(k, w)

\* The manager's own steps; the broker acknowledges a task.assign it delivered.
ManagerRuns(k) ==
  /\ \/ Manager!Acquired(k)
     \/ \E a \in Agents : Manager!SpawnSucceeds(k, a)
     \/ Manager!SpawnFails(k)
     \/ Manager!PreviousStopped(k)
     \/ k \in acked /\ Manager!SendSucceeds(k)
     \/ Manager!SendFails(k)
     \/ Manager!CleanedUp(k)
  /\ UNCHANGED <<registry, opener, current, reports, handler, sessions, users>>

-----------------------------------------------------------------------------
(* The sub-agents: one task, one report, then exit *)

\* The iterations of a workflow share their agent_id, hence their sandbox id: the
\* broker delivers to the process that holds the id, usually the one call k
\* started.  A process that already has its task ignores a second one.
AssignArrives(k) ==
  /\ pc[k] = "send"
  /\ k \notin acked
  /\ acked' = acked \cup {k}
  /\ \E a \in live :
       /\ WorkflowOf(a) = workflow[k]
       /\ task' = IF task[a] = NoCall THEN [task EXCEPT ![a] = k] ELSE task
  /\ UNCHANGED <<mvars, registry, opener, current, report, outcome, handler, sessions,
                 users>>

\* _send_assign_with_readiness_retry uses bus.send, so the broker tracks nothing
\* under the id of the task.assign and refuses a REPLY to it.
AssignOp == "send"
Accepted == ReportOp = "send" \/ AssignOp = "request"

AgentReports(a) ==
  /\ a \in live
  /\ task[a] # NoCall
  /\ report[a] = "none"
  /\ \E kind \in {"complete", "error"} : report' = [report EXCEPT ![a] = kind]
  /\ outcome' = IF Accepted THEN outcome ELSE [outcome EXCEPT ![a] = "rejected"]
  /\ UNCHANGED <<mvars, registry, opener, current, task, acked, handler, sessions, users>>

AgentExits(a) ==
  /\ Manager!AgentExits(a)
  /\ UNCHANGED <<registry, opener, current, reports, handler, sessions, users>>

-----------------------------------------------------------------------------
(* The dispatcher.  One report at a time; a completion forks a task.       *)

HandleTaskComplete(a) ==
  LET w == WorkflowOf(a) IN
  /\ loop = NoWorkflow
  /\ report[a] = "complete" /\ outcome[a] = "none"
  /\ \/ /\ w \notin registered
        /\ outcome' = [outcome EXCEPT ![a] = "unknown"]
        /\ UNCHANGED <<fin, action, is_terminal>>
     \/ /\ w \in registered /\ fin[w] # "idle"
        /\ outcome' = [outcome EXCEPT ![a] = "duplicate"]
        /\ UNCHANGED <<fin, action, is_terminal>>
     \/ /\ w \in registered /\ fin[w] = "idle"
        /\ outcome' = [outcome EXCEPT ![a] = "finalised"]
        /\ fin' = [fin EXCEPT ![w] = "verifying"]
        /\ action' = [action EXCEPT ![w] = FALSE]
        /\ is_terminal' = [is_terminal EXCEPT ![w] = FALSE]
  /\ UNCHANGED <<mvars, registry, opener, current, task, acked, report, handler,
                 fin_call, users>>

\* _handle_task_error: the dispatch loop waits while it renders the error, ...
HandleTaskError(a) ==
  LET w == WorkflowOf(a) IN
  /\ loop = NoWorkflow
  /\ report[a] = "error" /\ outcome[a] = "none"
  /\ \/ /\ w \notin registered
        /\ outcome' = [outcome EXCEPT ![a] = "unknown"]
        /\ UNCHANGED handler
     \/ /\ w \in registered
        /\ outcome' = [outcome EXCEPT ![a] = "errored"]
        /\ loop' = w /\ stage' = "rendering"
  /\ UNCHANGED <<mvars, registry, opener, current, task, acked, report, sessions, users>>

\* Seeded fault: an exception leaves the handler, and the dispatch loop logs it.
AfterFailureEscaping(next) == "idle"

\* An exception of the connector or of the database is caught and logged.
AfterFailure(next) == next

\* The await of this stage returns, or raises.
StageEnds(next) ==
  /\ \/ stage' = next /\ UNCHANGED loop
     \/ /\ stage' = AfterFailure(next)
        /\ loop' = IF stage' = "idle" THEN NoWorkflow ELSE loop
  /\ UNCHANGED <<mvars, registry, opener, current, reports, sessions, users>>

ErrorRendered == stage = "rendering" /\ StageEnds("auditing")

\* ... writes it to the audit database ...
ErrorAudited == stage = "auditing" /\ StageEnds("closing")

\* ... and deregisters, whether or not those two worked.
TaskErrorHandled ==
  /\ stage = "closing"
  /\ Deregister(loop)
  /\ loop' = NoWorkflow /\ stage' = "idle"
  /\ UNCHANGED <<opener, current, reports, sessions, users>>

-----------------------------------------------------------------------------
(* The finalisation task of w: _finalize and FinalizationCoordinator       *)

\* verify_baseline: the completion must echo the baseline of the assignment that
\* is current by now; otherwise the session never starts.
BaselineDrifts(w) ==
  /\ fin[w] = "verifying"
  /\ fin' = [fin EXCEPT ![w] = "failing"]
  /\ UNCHANGED <<mvars, registry, opener, current, reports, handler, fin_call, action,
                 is_terminal, users>>

\* It does; the diff check and the audit record only log their failures.
Verified(w) ==
  /\ fin[w] = "verifying"
  /\ fin' = [fin EXCEPT ![w] = "deciding"]
  /\ UNCHANGED <<mvars, registry, opener, current, reports, handler, fin_call, action,
                 is_terminal, users>>

\* present_work_to_user.
PresentWork(w) ==
  /\ fin[w] = "deciding"
  /\ presented' = presented \cup {w}
  /\ action' = [action EXCEPT ![w] = TRUE]
  /\ UNCHANGED <<mvars, registry, opener, current, reports, handler, fin, fin_call,
                 is_terminal, clicks, iterate>>

\* push_branch and push_and_create_pr set is_terminal to their success,
\* discard_work sets it to TRUE unless it refuses.
CloseWork(w) ==
  /\ fin[w] = "deciding"
  /\ action' = [action EXCEPT ![w] = TRUE]
  /\ \E t \in BOOLEAN : is_terminal' = [is_terminal EXCEPT ![w] = t]
  /\ UNCHANGED <<mvars, registry, opener, current, reports, handler, fin, fin_call, users>>

\* destroy_sandbox renders its answer, which may fail unnoticed, and is terminal.
DestroySandbox(w) ==
  /\ fin[w] = "deciding"
  /\ action' = [action EXCEPT ![w] = TRUE]
  /\ is_terminal' = [is_terminal EXCEPT ![w] = TRUE]
  /\ UNCHANGED <<mvars, registry, opener, current, reports, handler, fin, fin_call, users>>

\* re_delegate, called by the finalisation model.
FinalizerReDelegates(w, k) ==
  /\ fin[w] = "deciding"
  /\ ReDelegate(k, w)
  /\ fin' = [fin EXCEPT ![w] = "delegating"]
  /\ fin_call' = [fin_call EXCEPT ![w] = k]
  /\ UNCHANGED <<registry, opener, reports, handler, action, is_terminal, users>>

\* It records its action and leaves is_terminal alone; a DelegationError becomes
\* the tool's error text.
FinalizerReDelegated(w) ==
  /\ fin[w] = "delegating"
  /\ pc[fin_call[w]] \in {"returned", "failed"}
  /\ action' = [action EXCEPT ![w] = @ \/ pc[fin_call[w]] = "returned"]
  /\ fin' = [fin EXCEPT ![w] = "deciding"]
  /\ fin_call' = [fin_call EXCEPT ![w] = NoCall]
  /\ UNCHANGED <<mvars, registry, opener, current, reports, handler, is_terminal, users>>

\* The tools of a session: the model may call any of them, in any order and more
\* than once, each one to its end before the next.
FinalizerCalls(w) ==
  \/ PresentWork(w)
  \/ CloseWork(w)
  \/ DestroySandbox(w)
  \/ \E k \in Calls : FinalizerReDelegates(w, k)

\* The model answers without a tool call: the loop ends, and a session that
\* called no tool counts as terminal.
FinalizerEnds(w) ==
  /\ fin[w] = "deciding"
  /\ fin' = [fin EXCEPT ![w] = "idle"]
  /\ IF is_terminal[w] \/ ~action[w]
     THEN Deregister(w)
     ELSE UNCHANGED <<mvars, registry>>
  /\ UNCHANGED <<opener, current, reports, handler, fin_call, action, is_terminal, users>>

\* The agent loop raises (an inference error; its round limit ends it normally).
FinalizerRaises(w) ==
  /\ fin[w] = "deciding"
  /\ fin' = [fin EXCEPT ![w] = "failing"]
  /\ UNCHANGED <<mvars, registry, opener, current, reports, handler, fin_call, action,
                 is_terminal, users>>

FinalizationFailed(w) ==
  /\ fin[w] = "failing"
  /\ fin' = [fin EXCEPT ![w] = "idle"]
  /\ Deregister(w)
  /\ UNCHANGED <<opener, current, reports, handler, fin_call, action, is_terminal, users>>

-----------------------------------------------------------------------------
(* The user: FinalizationActionHandler.  A click on a workflow that is no   *)
(* longer registered is answered in the thread and changes nothing.         *)

ClickPushOrDiscard(w) ==
  /\ w \in presented
  /\ w \in registered
  /\ clicks[w] < MaxClicks
  /\ clicks' = [clicks EXCEPT ![w] = @ + 1]
  /\ UNCHANGED <<mvars, registry, opener, current, reports, handler, sessions, presented,
                 iterate>>

\* The handler's own session ends terminal, or with an error text.
ClickHandled(w) ==
  /\ clicks[w] > 0
  /\ clicks' = [clicks EXCEPT ![w] = @ - 1]
  /\ Deregister(w) \/ UNCHANGED <<mvars, registry>>
  /\ UNCHANGED <<opener, current, reports, handler, sessions, presented, iterate>>

\* _pending_iteration has one entry per thread: the latest click wins.
ClickIterate(w) ==
  /\ w \in presented
  /\ w \in registered
  /\ iterate' = (IF SameThread THEN {w} ELSE iterate \cup {w})
  /\ UNCHANGED <<mvars, registry, opener, current, reports, handler, sessions, presented,
                 clicks>>

\* consume_iteration_feedback: the thread's next message re-delegates, if the
\* workflow is still there.
ConsumeFeedback(w, k) ==
  /\ w \in iterate
  /\ iterate' = iterate \ {w}
  /\ IF w \in registered THEN ReDelegate(k, w) ELSE UNCHANGED <<mvars, current>>
  /\ UNCHANGED <<registry, opener, reports, handler, sessions, presented, clicks>>

-----------------------------------------------------------------------------
Dispatching ==
  \/ \E a \in Agents : HandleTaskComplete(a) \/ HandleTaskError(a)
  \/ ErrorRendered
  \/ ErrorAudited
  \/ TaskErrorHandled

Finalizing(w) ==
  \/ Verified(w)
  \/ BaselineDrifts(w)
  \/ FinalizerCalls(w)
  \/ FinalizerReDelegated(w)
  \/ FinalizerEnds(w)
  \/ FinalizerRaises(w)
  \/ FinalizationFailed(w)

\* Nothing runs; the orchestrator waits for its next request.  A delegation may
\* be waiting for a slot as well: nothing watches the processes, so the slot of a
\* sub-agent that died without a report is held until close().
Idle ==
  /\ live = {}
  /\ \A k \in Calls : pc[k] \notin Manager!Suspended \ {"acquire"}
  /\ UNCHANGED vars

Next ==
  \/ \E k \in Calls, w \in Workflows : DelegateTask(k, w)
  \/ \E w \in Workflows : DelegateTaskUnaudited(w)
  \/ \E w \in Workflows : DelegateTaskFails(w)
  \/ \E k \in Calls : ManagerRuns(k)
  \/ \E k \in Calls : AssignArrives(k)
  \/ \E a \in Agents : AgentReports(a)
  \/ \E a \in Agents : AgentExits(a)
  \/ Dispatching
  \/ \E w \in Workflows : Finalizing(w)
  \/ \E w \in Workflows : ClickPushOrDiscard(w)
  \/ \E w \in Workflows : ClickHandled(w)
  \/ \E w \in Workflows : ClickIterate(w)
  \/ \E w \in Workflows, k \in Calls : ConsumeFeedback(w, k)
  \/ Idle

Spec == Init /\ [][Next]_vars

\* The dispatch loop takes every queued report; its handlers' awaits return.
FairSpec ==
  /\ Spec
  /\ \A a \in Agents : WF_vars(HandleTaskComplete(a)) /\ WF_vars(HandleTaskError(a))
  /\ WF_vars(ErrorRendered) /\ WF_vars(ErrorAudited) /\ WF_vars(TaskErrorHandled)

-----------------------------------------------------------------------------
(* Properties *)

\* "Register before send so a fast task.complete cannot race setup": a report is
\* dropped as unknown only after its workflow was registered and closed again.
UnknownOnlyIfClosed ==
  \A a \in Agents :
    outcome[a] = "unknown" => WorkflowOf(a) \in closed \ registered

\* deregister_workflow, "Remove workflow state and terminate its spawned agent",
\* for a workflow that was never iterated: it leaves no sub-agent handle, and so
\* no slot, behind, whoever closes it, even while its delegate() still waits for
\* an ACK that its report overtook.  (An iteration in flight while its workflow
\* is closed does leave one.)
ClosedFirstIterationHasNoAgent ==
  \A w \in Known \ registered :
    Cardinality(AssignmentsOf(w)) = 1 => spawned[w] = NoAgent

\* A task.error the dispatcher has taken from the queue closes its workflow,
\* also when rendering it or recording it raises.
ErrorCloses ==
  \A a \in Agents, k \in Calls, w \in Workflows :
    agent[k] = a /\ workflow[k] = w /\ report[a] = "error" /\ outcome[a] # "rejected"
    ~> w \notin registered

\* re_delegate: "Updates the registered workflow context before sending so the
\* next task.complete finalizes the new iteration": the completion of the
\* current assignment is not thrown away as a duplicate.
FreshCompletionFinalised ==
  \A a \in Agents :
    outcome[a] = "duplicate" => current[WorkflowOf(a)] # task[a]

\* deregister_workflow, "Remove workflow state and terminate its spawned agent",
\* for every workflow: a re-delegation in flight installs its handle afterwards.
ClosedHasNoAgent == \A w \in Known \ registered : spawned[w] = NoAgent

\* DelegationManager: "The sub-agent's task.complete / task.error / audit.flush
\* arrive on the orchestrator's bus listen queue".
ReportsArrive == \A a \in Agents : outcome[a] # "rejected"
=============================================================================
