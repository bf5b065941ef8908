---------------------------- MODULE WorkflowProofs ----------------------------
(***************************************************************************)
(* Proofs about WorkflowLifecycle, for any number of workflows, delegate() *)
(* calls, sub-agent processes and clicks.                                  *)
(***************************************************************************)
EXTENDS WorkflowLifecycle, FiniteSetTheorems, TLAPS

-----------------------------------------------------------------------------
(* The DelegationManager in the composition *)

LoopTypes ==
  /\ loop \in Workflows \cup {NoWorkflow}
  /\ stage \in {"idle", "rendering", "auditing", "closing"}
  /\ stage # "idle" => loop \in Workflows

\* The awaits of _handle_task_error, whatever comes of them, only move it on.
LEMMA StageFacts ==
  ASSUME ErrorRendered \/ ErrorAudited
  PROVE  /\ UNCHANGED <<mvars, registry, opener, current, reports, loop, sessions, users>>
         /\ stage # "idle" /\ stage' \in {"auditing", "closing"}
BY DEF ErrorRendered, ErrorAudited, StageEnds, AfterFailure

LEMMA NextManages == LoopTypes /\ [Next]_vars => [Manager!Next]_mvars
<1> SUFFICES ASSUME LoopTypes, [Next]_vars PROVE [Manager!Next]_mvars
  OBVIOUS
<1> USE DEF Manager!Next
<1>1. ASSUME NEW w \in Workflows, Deregister(w) PROVE [Manager!Next]_mvars
  BY <1>1 DEF Deregister
<1>2. ASSUME NEW k \in Calls, ManagerRuns(k) PROVE [Manager!Next]_mvars
  BY <1>2 DEF ManagerRuns, Manager!ManagerStep
<1>3. ASSUME NEW w \in Workflows, Finalizing(w) PROVE [Manager!Next]_mvars
  BY <1>1, <1>3 DEF Finalizing, Verified, BaselineDrifts, FinalizerCalls, PresentWork,
     CloseWork, DestroySandbox, FinalizerReDelegates, ReDelegate, FinalizerReDelegated,
     FinalizerEnds, FinalizerRaises, FinalizationFailed
<1>4. ASSUME Dispatching PROVE [Manager!Next]_mvars
  <2>1. ASSUME TaskErrorHandled PROVE [Manager!Next]_mvars
    BY <1>1, <2>1 DEF TaskErrorHandled, LoopTypes
  <2> QED
    BY <1>4, <2>1, StageFacts DEF Dispatching, HandleTaskComplete, HandleTaskError
<1> QED
  BY <1>1, <1>2, <1>3, <1>4
  DEF Next, DelegateTask, DelegateTaskUnaudited, DelegateTaskFails, AssignArrives,
      AgentReports, AgentExits, ClickPushOrDiscard, ClickHandled, ClickIterate,
      ConsumeFeedback, ReDelegate, Idle, vars

\* A call has a workflow once it has begun and a process once it has spawned
\* one; every process was started by one call.
CallInv ==
  \A k \in Calls :
    /\ pc[k] = "idle" <=> workflow[k] \notin Workflows
    /\ pc[k] \in {"idle", "acquire", "spawn"} => agent[k] = NoAgent
    /\ pc[k] \in {"replace", "send", "cleanup"} => agent[k] \in Agents
    /\ agent[k] \in Agents => agent[k] \in born

ProcessInv ==
  /\ \A a \in born : \E k \in Calls : agent[k] = a
  /\ \A j, k \in Calls : agent[j] = agent[k] /\ agent[j] \in Agents => j = k
  /\ live \subseteq born

ManagerInv == Manager!TypeOK /\ CallInv /\ ProcessInv

\* What the manager never undoes.
ManagerKeeps ==
  /\ \A k \in Calls : pc[k] # "idle" => pc'[k] # "idle" /\ workflow'[k] = workflow[k]
  /\ \A k \in Calls : agent[k] \in Agents => agent'[k] = agent[k]
  /\ born \subseteq born'

LEMMA InitManagerInv == Init => ManagerInv
<1> SUFFICES ASSUME Init PROVE ManagerInv
  OBVIOUS
<1>1. Manager!Init
  BY DEF Init
<1>2. Manager!TypeOK
  BY <1>1, WorkflowConstants DEF Manager!Init, Manager!TypeOK
<1>3. CallInv
  BY <1>1, WorkflowConstants DEF Manager!Init, CallInv
<1>4. ProcessInv
  BY <1>1, WorkflowConstants DEF Manager!Init, ProcessInv
<1> QED
  BY <1>2, <1>3, <1>4 DEF ManagerInv

LEMMA NextManagerInv ==
  ManagerInv /\ [Manager!Next]_mvars => ManagerInv' /\ ManagerKeeps
<1> SUFFICES ASSUME ManagerInv, [Manager!Next]_mvars PROVE ManagerInv' /\ ManagerKeeps
  OBVIOUS
<1> DEFINE Goal == ManagerInv' /\ ManagerKeeps
<1> USE WorkflowConstants
    DEF ManagerInv, CallInv, ProcessInv, ManagerKeeps, Manager!TypeOK, Manager!Suspended,
        Manager!Ended
<1>1. ASSUME NEW k \in Calls, NEW w \in Workflows, Manager!DelegateBegins(k, w) PROVE Goal
  BY <1>1 DEF Manager!DelegateBegins, Manager!Enters
<1>2. ASSUME NEW k \in Calls, Manager!ManagerStep(k) PROVE Goal
  <2>1. CASE Manager!Acquired(k)
    BY <2>1 DEF Manager!Acquired
  <2>2. ASSUME NEW a \in Agents, Manager!SpawnSucceeds(k, a) PROVE Goal
    BY <2>2 DEF Manager!SpawnSucceeds
  <2>3. CASE Manager!SpawnFails(k)
    BY <2>3 DEF Manager!SpawnFails, Manager!Raise
  <2>4. CASE Manager!PreviousStopped(k)
    BY <2>4 DEF Manager!PreviousStopped
  <2>5. CASE Manager!SendSucceeds(k)
    BY <2>5 DEF Manager!SendSucceeds
  <2>6. CASE Manager!SendFails(k)
    BY <2>6 DEF Manager!SendFails
  <2>7. CASE Manager!CleanedUp(k)
    BY <2>7 DEF Manager!CleanedUp, Manager!Raise
  <2>8. CASE Manager!DelegateCancelled(k)
    BY <2>8 DEF Manager!DelegateCancelled, Manager!Raise
  <2> QED
    BY <1>2, <2>1, <2>2, <2>3, <2>4, <2>5, <2>6, <2>7, <2>8 DEF Manager!ManagerStep
<1>3. ASSUME NEW w \in Workflows, Manager!Terminate(w) PROVE Goal
  BY <1>3 DEF Manager!Terminate, Manager!Enters
<1>4. ASSUME NEW a \in Agents, Manager!AgentExits(a) PROVE Goal
  BY <1>4 DEF Manager!AgentExits
<1>5. CASE UNCHANGED mvars
  BY <1>5 DEF mvars
<1> QED
  BY <1>1, <1>2, <1>3, <1>4, <1>5 DEF Manager!Next, Manager!Quiescent, Manager!mvars, mvars

-----------------------------------------------------------------------------
(* Types *)

OwnTypes ==
  /\ registered \subseteq Workflows
  /\ closed \subseteq Workflows
  /\ opener \in [Workflows -> Calls \cup {NoCall}]
  /\ current \in [Workflows -> Calls \cup {NoCall}]
  /\ task \in [Agents -> Calls \cup {NoCall}]
  /\ acked \subseteq Calls
  /\ report \in [Agents -> {"none", "complete", "error"}]
  /\ outcome \in [Agents -> {"none", "rejected"} \cup Handled]
  /\ LoopTypes

SessionTypes ==
  /\ fin \in [Workflows -> {"idle", "verifying", "deciding", "delegating", "failing"}]
  /\ fin_call \in [Workflows -> Calls \cup {NoCall}]
  /\ action \in [Workflows -> BOOLEAN]
  /\ is_terminal \in [Workflows -> BOOLEAN]

UserTypes ==
  /\ presented \subseteq Workflows
  /\ clicks \in [Workflows -> 0..MaxClicks]
  /\ iterate \subseteq Workflows

LEMMA TypeParts == Manager!TypeOK /\ OwnTypes /\ SessionTypes /\ UserTypes => TypeOK
BY DEF TypeOK, OwnTypes, SessionTypes, UserTypes, LoopTypes

TypeInv == ManagerInv /\ OwnTypes /\ SessionTypes /\ UserTypes

LEMMA InitTypeInv == Init => TypeInv
<1> SUFFICES ASSUME Init PROVE TypeInv
  OBVIOUS
<1>1. OwnTypes
  BY DEF Init, OwnTypes, LoopTypes
<1>2. SessionTypes /\ UserTypes
  BY WorkflowConstants DEF Init, SessionTypes, UserTypes
<1> QED
  BY <1>1, <1>2, InitManagerInv DEF TypeInv

LEMMA NextTypeInv == TypeInv /\ [Next]_vars => TypeInv' /\ ManagerKeeps /\ [Manager!Next]_mvars
<1> SUFFICES ASSUME TypeInv, [Next]_vars
             PROVE  TypeInv' /\ ManagerKeeps /\ [Manager!Next]_mvars
  OBVIOUS
<1>0. ManagerInv' /\ ManagerKeeps /\ [Manager!Next]_mvars
  BY NextManages, NextManagerInv DEF TypeInv, OwnTypes
<1> DEFINE Types == OwnTypes /\ SessionTypes /\ UserTypes
<1> SUFFICES Types'
  BY <1>0 DEF TypeInv
<1>a. Types
  BY DEF TypeInv
<1> USE <1>a DEF OwnTypes, LoopTypes, SessionTypes, UserTypes, Handled, handler
<1>1. ASSUME NEW k \in Calls, NEW w \in Workflows, DelegateTask(k, w) PROVE Types'
  BY <1>1 DEF DelegateTask, reports, sessions, users
<1>2. ASSUME NEW w \in Workflows, DelegateTaskUnaudited(w) \/ DelegateTaskFails(w)
      PROVE  Types'
  BY <1>2 DEF DelegateTaskUnaudited, DelegateTaskFails, Deregister, reports, sessions, users
<1>3. ASSUME NEW k \in Calls, ManagerRuns(k) \/ AssignArrives(k) PROVE Types'
  BY <1>3 DEF ManagerRuns, AssignArrives, registry, reports, sessions, users
<1>4. ASSUME NEW a \in Agents, AgentReports(a) \/ AgentExits(a) PROVE Types'
  BY <1>4 DEF AgentReports, AgentExits, registry, reports, sessions, users
<1>5. ASSUME NEW a \in Agents, HandleTaskComplete(a) \/ HandleTaskError(a) PROVE Types'
  BY <1>5 DEF HandleTaskComplete, HandleTaskError, registry, reports, sessions, users
<1>6. ASSUME ErrorRendered \/ ErrorAudited \/ TaskErrorHandled PROVE Types'
  BY <1>6, StageFacts DEF TaskErrorHandled, Deregister, registry, reports, sessions, users
<1>7. ASSUME NEW w \in Workflows, Finalizing(w) PROVE Types'
  <2>1. CASE Verified(w) \/ BaselineDrifts(w) \/ FinalizerRaises(w)
    BY <2>1 DEF Verified, BaselineDrifts, FinalizerRaises, registry, reports, users
  <2>2. CASE FinalizerCalls(w)
    <3>1. CASE PresentWork(w)
      BY <3>1 DEF PresentWork, registry, reports
    <3>2. CASE CloseWork(w) \/ DestroySandbox(w)
      <4>1. PICK t \in BOOLEAN : is_terminal' = [is_terminal EXCEPT ![w] = t]
        BY <3>2 DEF CloseWork, DestroySandbox
      <4> QED
        BY <3>2, <4>1 DEF CloseWork, DestroySandbox, registry, reports, users
    <3>3. ASSUME NEW k \in Calls, FinalizerReDelegates(w, k) PROVE Types'
      BY <3>3 DEF FinalizerReDelegates, ReDelegate, registry, reports, users
    <3> QED
      BY <2>2, <3>1, <3>2, <3>3 DEF FinalizerCalls
  <2>3. CASE FinalizerReDelegated(w)
    BY <2>3 DEF FinalizerReDelegated, registry, reports, users
  <2>4. CASE FinalizerEnds(w) \/ FinalizationFailed(w)
    BY <2>4 DEF FinalizerEnds, FinalizationFailed, Deregister, registry, reports, users
  <2> QED
    BY <1>7, <2>1, <2>2, <2>3, <2>4 DEF Finalizing
<1>8. ASSUME NEW w \in Workflows, ClickPushOrDiscard(w) \/ ClickIterate(w) PROVE Types'
  BY <1>8, WorkflowConstants DEF ClickPushOrDiscard, ClickIterate, registry, reports, sessions
<1>9. ASSUME NEW w \in Workflows, ClickHandled(w) PROVE Types'
  BY <1>9, WorkflowConstants DEF ClickHandled, Deregister, registry, reports, sessions
<1>10. ASSUME NEW w \in Workflows, NEW k \in Calls, ConsumeFeedback(w, k) PROVE Types'
  BY <1>10 DEF ConsumeFeedback, ReDelegate, registry, reports, sessions
<1>11. CASE UNCHANGED vars
  BY <1>11 DEF vars, registry, reports, sessions, users
<1> QED
  BY <1>1, <1>2, <1>3, <1>4, <1>5, <1>6, <1>7, <1>8, <1>9, <1>10, <1>11
  DEF Next, Dispatching, Idle

\* Every variable of the composition keeps its type: no click is counted below
\* zero, whatever closes its workflow while the handler runs.
THEOREM TypeCorrect == Spec => []TypeOK
<1>1. TypeInv => TypeOK
  BY TypeParts DEF TypeInv, ManagerInv
<1> QED
  BY <1>1, InitTypeInv, NextTypeInv, PTL DEF Spec

\* The delegations of the tool, of the finalisation sessions and of the users,
\* and the clean-ups of all of them, drive the DelegationManager only as its own
\* specification allows, so what DelegationProofs establishes for the manager
\* alone (no orphan process, evictions owned, slots conserved) holds in the
\* orchestrator.
THEOREM DrivesManager == Spec => Manager!Spec
<1>1. Init => Manager!Init
  BY DEF Init
<1> QED
  BY <1>1, InitTypeInv, NextTypeInv, PTL DEF Spec, Manager!Spec, Manager!mvars, mvars

-----------------------------------------------------------------------------
(* Reports, and who may close a workflow *)

\* Some iteration of w has a process.
Started(w) == \E k \in Calls : workflow[k] = w /\ agent[k] \in Agents

LEMMA StartedStays ==
  ASSUME ManagerInv, ManagerKeeps, NEW w \in Workflows, Started(w)
  PROVE  Started(w)'
<1>1. PICK k \in Calls : workflow[k] = w /\ agent[k] \in Agents
  BY DEF Started
<1>2. workflow'[k] = w /\ agent'[k] \in Agents
  BY <1>1 DEF ManagerInv, CallInv, ManagerKeeps
<1> QED
  BY <1>2 DEF Started

LEMMA Owner ==
  ASSUME ManagerInv, NEW a \in born
  PROVE  /\ CallOf(a) \in Calls /\ agent[CallOf(a)] = a /\ a \in Agents
         /\ WorkflowOf(a) \in Workflows /\ Started(WorkflowOf(a))
<1>1. a \in Agents /\ \E k \in Calls : agent[k] = a
  BY DEF ManagerInv, ProcessInv, Manager!TypeOK
<1>2. CallOf(a) \in Calls /\ agent[CallOf(a)] = a
  BY <1>1 DEF CallOf
<1>3. PICK k \in Calls : k = CallOf(a)
  BY <1>2
<1>4. pc[k] # "idle"
  BY <1>1, <1>2, <1>3, WorkflowConstants DEF ManagerInv, CallInv
<1>5. workflow[k] \in Workflows
  BY <1>4 DEF ManagerInv, CallInv
<1> QED
  BY <1>1, <1>2, <1>3, <1>5 DEF WorkflowOf, Started

\* The process of a workflow stays its process.
LEMMA OwnerStays ==
  ASSUME ManagerInv, ManagerInv', ManagerKeeps, NEW a \in born
  PROVE  WorkflowOf(a)' = WorkflowOf(a)
<1>1. PICK k \in Calls : k = CallOf(a) /\ agent[k] = a /\ a \in Agents
  BY Owner
<1>2. pc[k] # "idle"
  BY <1>1, WorkflowConstants DEF ManagerInv, CallInv
<1>3. agent'[k] = a /\ workflow'[k] = workflow[k] /\ a \in born'
  BY <1>1, <1>2 DEF ManagerKeeps
<1>4. \A j \in Calls : agent'[j] = a => j = k
  BY <1>1, <1>3 DEF ManagerInv, ProcessInv
<1>5. CallOf(a)' = k
  BY <1>3, <1>4 DEF CallOf
<1> QED
  BY <1>1, <1>3, <1>5 DEF WorkflowOf

ReportInv == \A a \in Agents : report[a] # "none" \/ outcome[a] # "none" => a \in born

\* Somebody holds a reference to w from which it can be closed or iterated.
Held(w) == fin[w] # "idle" \/ loop = w \/ w \in presented \cup iterate \/ clicks[w] > 0

HeldInv == \A w \in Workflows : Held(w) => Started(w)

OpenerInv == \A w \in Workflows : opener[w] # NoCall => workflow[opener[w]] = w

RefInv == ReportInv /\ HeldInv /\ OpenerInv

LEMMA InitRefInv == Init => RefInv
BY WorkflowConstants DEF Init, RefInv, ReportInv, HeldInv, OpenerInv, Held

LEMMA NextReportInv == TypeInv /\ ReportInv /\ [Next]_vars => ReportInv'
<1> SUFFICES ASSUME TypeInv, ReportInv, [Next]_vars, NEW b \in Agents,
                    report'[b] # "none" \/ outcome'[b] # "none"
             PROVE  b \in born
  BY NextTypeInv DEF ReportInv, ManagerKeeps
<1> DEFINE Same == UNCHANGED <<report, outcome>>
<1>1. ASSUME Same PROVE b \in born
  BY <1>1 DEF ReportInv
<1>2. ASSUME NEW a \in Agents, AgentReports(a) PROVE b \in born
  <2>1. a \in born
    BY <1>2 DEF AgentReports, TypeInv, ManagerInv, ProcessInv
  <2>2. b # a => report'[b] = report[b] /\ outcome'[b] = outcome[b]
    BY <1>2 DEF AgentReports, TypeInv, OwnTypes
  <2> QED
    BY <2>1, <2>2 DEF ReportInv
<1>3. ASSUME NEW a \in Agents, HandleTaskComplete(a) \/ HandleTaskError(a) PROVE b \in born
  <2>1. a \in born
    BY <1>3 DEF HandleTaskComplete, HandleTaskError, ReportInv
  <2>2. b # a => report'[b] = report[b] /\ outcome'[b] = outcome[b]
    BY <1>3 DEF HandleTaskComplete, HandleTaskError, TypeInv, OwnTypes
  <2> QED
    BY <2>1, <2>2 DEF ReportInv
<1>4. ASSUME NEW w \in Workflows, Finalizing(w) PROVE Same
  BY <1>4 DEF Finalizing, Verified, BaselineDrifts, FinalizerCalls, PresentWork,
     CloseWork, DestroySandbox, FinalizerReDelegates, FinalizerReDelegated,
     FinalizerEnds, FinalizerRaises, FinalizationFailed, reports
<1>5. ASSUME NEW w \in Workflows,
             \/ DelegateTaskUnaudited(w) \/ DelegateTaskFails(w)
             \/ ClickPushOrDiscard(w) \/ ClickHandled(w) \/ ClickIterate(w)
             \/ \E k \in Calls : DelegateTask(k, w) \/ ConsumeFeedback(w, k)
      PROVE  Same
  BY <1>5 DEF DelegateTaskUnaudited, DelegateTaskFails, ClickPushOrDiscard, ClickHandled,
     ClickIterate, DelegateTask, ConsumeFeedback, reports
<1>6. ASSUME \/ \E k \in Calls : ManagerRuns(k) \/ AssignArrives(k)
             \/ \E a \in Agents : AgentExits(a)
             \/ ErrorRendered \/ ErrorAudited \/ TaskErrorHandled \/ UNCHANGED vars
      PROVE  Same
  BY <1>6, StageFacts DEF ManagerRuns, AssignArrives, AgentExits, TaskErrorHandled, reports, vars
<1> QED
  BY <1>1, <1>2, <1>3, <1>4, <1>5, <1>6 DEF Next, Dispatching, Idle

\* References to a workflow come from a report of its process or from another
\* reference.
LEMMA HeldFrom ==
  ASSUME TypeInv, RefInv, [Next]_vars, NEW v \in Workflows, Held(v)'
  PROVE  Started(v)
<1> USE DEF handler
<1> SUFFICES ASSUME ~Held(v) PROVE Started(v)
  BY DEF RefInv, HeldInv
<1>0. fin[v] = "idle" /\ loop # v /\ v \notin presented /\ v \notin iterate /\ ~(clicks[v] > 0)
  BY DEF Held
<1>a. v # NoWorkflow
  BY WorkflowConstants
<1> DEFINE Same == /\ fin'[v] = fin[v] /\ (loop' = v => loop = v)
                   /\ presented' \subseteq presented \cup {w \in Workflows : fin[w] # "idle"}
                   /\ iterate' \subseteq iterate \cup presented
                   /\ clicks'[v] = clicks[v]
<1>1. ASSUME Same PROVE FALSE
  BY <1>0, <1>1 DEF Held
<1>2. ASSUME NEW a \in Agents, HandleTaskComplete(a) \/ HandleTaskError(a) PROVE Started(v)
  <2>1. a \in born
    BY <1>2 DEF HandleTaskComplete, HandleTaskError, RefInv, ReportInv
  <2>2. Started(WorkflowOf(a))
    BY <2>1, Owner DEF TypeInv
  <2>3. v # WorkflowOf(a) => Same
    BY <1>2 DEF HandleTaskComplete, HandleTaskError, TypeInv, SessionTypes, users, sessions
  <2> QED
    BY <1>1, <2>2, <2>3
<1>3. ASSUME NEW w \in Workflows, Finalizing(w) PROVE Same
  <2>1. fin[w] # "idle" /\ v # w
    BY <1>0, <1>3 DEF Finalizing, Verified, BaselineDrifts, FinalizerCalls, PresentWork,
       CloseWork, DestroySandbox, FinalizerReDelegates, FinalizerReDelegated,
       FinalizerEnds, FinalizerRaises, FinalizationFailed
  <2> QED
    BY <1>3, <2>1 DEF Finalizing, Verified, BaselineDrifts, FinalizerCalls, PresentWork,
       CloseWork, DestroySandbox, FinalizerReDelegates, FinalizerReDelegated,
       FinalizerEnds, FinalizerRaises, FinalizationFailed, users, TypeInv, SessionTypes
<1>4. ASSUME NEW w \in Workflows,
             \/ DelegateTaskUnaudited(w) \/ DelegateTaskFails(w)
             \/ \E k \in Calls : DelegateTask(k, w) \/ ConsumeFeedback(w, k)
      PROVE  Same
  BY <1>4 DEF DelegateTaskUnaudited, DelegateTaskFails, DelegateTask, ConsumeFeedback,
     users, sessions
<1>5. ASSUME NEW w \in Workflows, ClickPushOrDiscard(w) \/ ClickHandled(w) PROVE Same
  <2>1. w # v
    BY <1>0, <1>5 DEF ClickPushOrDiscard, ClickHandled
  <2> QED
    BY <1>5, <2>1 DEF ClickPushOrDiscard, ClickHandled, sessions, TypeInv, UserTypes
<1>6. ASSUME NEW w \in Workflows, ClickIterate(w) PROVE Same
  BY <1>6 DEF ClickIterate, sessions
<1>7. ASSUME \/ \E k \in Calls : ManagerRuns(k) \/ AssignArrives(k)
             \/ \E a \in Agents : AgentReports(a) \/ AgentExits(a)
             \/ ErrorRendered \/ ErrorAudited \/ TaskErrorHandled \/ UNCHANGED vars
      PROVE  Same
  BY <1>7, <1>a, StageFacts DEF ManagerRuns, AssignArrives, AgentReports, AgentExits,
     TaskErrorHandled, users, sessions, vars
<1> QED
  BY <1>1, <1>2, <1>3, <1>4, <1>5, <1>6, <1>7 DEF Next, Dispatching, Idle

LEMMA NextOpenerInv == TypeInv /\ OpenerInv /\ [Next]_vars => OpenerInv'
<1> SUFFICES ASSUME TypeInv, OpenerInv, [Next]_vars, NEW v \in Workflows, opener'[v] # NoCall
             PROVE  workflow'[opener'[v]] = v
  BY DEF OpenerInv
<1>1. CASE opener'[v] = opener[v]
  <2>1. PICK k \in Calls : k = opener[v]
    BY <1>1 DEF TypeInv, OwnTypes
  <2>2. workflow[k] = v
    BY <1>1, <2>1 DEF OpenerInv
  <2>3. workflow'[k] = workflow[k]
    BY <2>2, NextTypeInv DEF ManagerKeeps, TypeInv, ManagerInv, CallInv
  <2> QED
    BY <1>1, <2>1, <2>2, <2>3
<1>2. CASE opener'[v] # opener[v]
  <2>1. \/ \E k \in Calls, w \in Workflows : DelegateTask(k, w)
        \/ \E w \in Workflows : DelegateTaskFails(w)
    BY <1>2, StageFacts DEF Next, DelegateTaskUnaudited, ManagerRuns, AssignArrives, AgentReports,
       AgentExits, Dispatching, HandleTaskComplete, HandleTaskError, TaskErrorHandled,
       Finalizing, Verified, BaselineDrifts, FinalizerCalls, PresentWork, CloseWork,
       DestroySandbox, FinalizerReDelegates, FinalizerReDelegated, FinalizerEnds,
       FinalizerRaises, FinalizationFailed, ClickPushOrDiscard, ClickHandled,
       ClickIterate, ConsumeFeedback, Idle, vars
  <2>2. ASSUME NEW k \in Calls, NEW w \in Workflows, DelegateTask(k, w)
        PROVE  workflow'[opener'[v]] = v
    BY <1>2, <2>2 DEF DelegateTask, Manager!DelegateBegins, TypeInv, OwnTypes, ManagerInv,
       Manager!TypeOK
  <2>3. ASSUME NEW w \in Workflows, DelegateTaskFails(w) PROVE FALSE
    BY <1>2, <2>3 DEF DelegateTaskFails, TypeInv, OwnTypes
  <2> QED
    BY <2>1, <2>2, <2>3
<1> QED
  BY <1>1, <1>2

LEMMA NextRefInv == TypeInv /\ RefInv /\ [Next]_vars => RefInv'
<1> SUFFICES ASSUME TypeInv, RefInv, [Next]_vars PROVE RefInv'
  OBVIOUS
<1>1. HeldInv'
  <2> SUFFICES ASSUME NEW w \in Workflows, Held(w)' PROVE Started(w)'
    BY DEF HeldInv
  <2>1. Started(w)
    BY HeldFrom
  <2> QED
    BY <2>1, NextTypeInv, StartedStays DEF TypeInv
<1> QED
  BY <1>1, NextReportInv, NextOpenerInv DEF RefInv

-----------------------------------------------------------------------------
(* What a step does to the registry *)

Closable(w) == Started(w) \/ (opener[w] # NoCall /\ pc[opener[w]] = "failed")

Registers(w) ==
  /\ current[w] = NoCall
  /\ registered' = registered \cup {w}
  /\ UNCHANGED closed

Begins(k, w) ==
  /\ Manager!DelegateBegins(k, w)
  /\ current' = [current EXCEPT ![w] = k]

Handles == <<spawned, pc, workflow, agent>>

RegistryStep ==
  \/ UNCHANGED <<Handles, registry, current>>
  \/ \E w \in Workflows : Registers(w) /\ UNCHANGED <<Handles, current>>
  \/ \E k \in Calls, w \in Workflows : Begins(k, w) /\ Registers(w)
  \/ \E k \in Calls, w \in Workflows : Begins(k, w) /\ Started(w) /\ UNCHANGED registry
  \/ \E k \in Calls : ManagerRuns(k)
  \/ \E w \in Workflows : Closable(w) /\ Deregister(w) /\ UNCHANGED current

LEMMA Steps ==
  ASSUME TypeInv, RefInv, [Next]_vars
  PROVE  RegistryStep
<1> USE DEF Handles
<1>1. ASSUME NEW k \in Calls, NEW w \in Workflows, DelegateTask(k, w) PROVE RegistryStep
  BY <1>1 DEF DelegateTask, RegistryStep, Registers, Begins
<1>2. ASSUME NEW w \in Workflows, DelegateTaskUnaudited(w) PROVE RegistryStep
  BY <1>2 DEF DelegateTaskUnaudited, RegistryStep, Registers, mvars
<1>3. ASSUME NEW w \in Workflows, DelegateTaskFails(w) PROVE RegistryStep
  BY <1>3 DEF DelegateTaskFails, RegistryStep, Closable
<1>4. ASSUME NEW w \in Workflows, Finalizing(w) PROVE RegistryStep
  <2>1. Started(w)
    BY <1>4 DEF RefInv, HeldInv, Held, Finalizing, Verified, BaselineDrifts, FinalizerCalls,
       PresentWork, CloseWork, DestroySandbox, FinalizerReDelegates, FinalizerReDelegated,
       FinalizerEnds, FinalizerRaises, FinalizationFailed
  <2>2. ASSUME NEW k \in Calls, FinalizerReDelegates(w, k) PROVE RegistryStep
    BY <2>1, <2>2 DEF FinalizerReDelegates, ReDelegate, RegistryStep, Begins
  <2>3. CASE FinalizerEnds(w) \/ FinalizationFailed(w)
    BY <2>1, <2>3 DEF FinalizerEnds, FinalizationFailed, RegistryStep, Closable, mvars
  <2>4. CASE Verified(w) \/ BaselineDrifts(w) \/ FinalizerRaises(w) \/ FinalizerReDelegated(w)
             \/ PresentWork(w) \/ CloseWork(w) \/ DestroySandbox(w)
    BY <2>4 DEF Verified, BaselineDrifts, FinalizerRaises, FinalizerReDelegated, PresentWork,
       CloseWork, DestroySandbox, RegistryStep, mvars
  <2> QED
    BY <1>4, <2>2, <2>3, <2>4 DEF Finalizing, FinalizerCalls
<1>5. CASE TaskErrorHandled
  <2>1. loop \in Workflows /\ Started(loop)
    BY <1>5 DEF TaskErrorHandled, TypeInv, OwnTypes, LoopTypes, RefInv, HeldInv, Held
  <2> QED
    BY <1>5, <2>1 DEF TaskErrorHandled, RegistryStep, Closable
<1>6. ASSUME NEW w \in Workflows, ClickHandled(w) PROVE RegistryStep
  <2>1. Started(w)
    BY <1>6 DEF ClickHandled, RefInv, HeldInv, Held
  <2> QED
    BY <1>6, <2>1 DEF ClickHandled, RegistryStep, Closable, mvars
<1>7. ASSUME NEW w \in Workflows, NEW k \in Calls, ConsumeFeedback(w, k) PROVE RegistryStep
  <2>1. Started(w)
    BY <1>7 DEF ConsumeFeedback, RefInv, HeldInv, Held
  <2> QED
    BY <1>7, <2>1 DEF ConsumeFeedback, ReDelegate, RegistryStep, Begins, mvars
<1>8. ASSUME \/ \E k \in Calls : AssignArrives(k)
             \/ \E a \in Agents : AgentReports(a) \/ AgentExits(a)
             \/ \E a \in Agents : HandleTaskComplete(a) \/ HandleTaskError(a)
             \/ \E w \in Workflows : ClickPushOrDiscard(w) \/ ClickIterate(w)
             \/ ErrorRendered \/ ErrorAudited \/ UNCHANGED vars
      PROVE  RegistryStep
  BY <1>8, StageFacts DEF AssignArrives, AgentReports, AgentExits, Manager!AgentExits,
     HandleTaskComplete, HandleTaskError, ClickPushOrDiscard, ClickIterate, RegistryStep, mvars,
     vars
<1>9. ASSUME NEW k \in Calls, ManagerRuns(k) PROVE RegistryStep
  BY <1>9 DEF RegistryStep
<1> QED
  BY <1>1, <1>2, <1>3, <1>4, <1>5, <1>6, <1>7, <1>8, <1>9 DEF Next, Dispatching, Idle

\* What the steps of a delegate() in progress leave alone.
RunKeeps(k) ==
  /\ UNCHANGED <<workflow, registry, current>>
  /\ \A j \in Calls : pc[j] # "idle" => pc'[j] # "idle"
  /\ \A j \in Calls : pc[j] = "idle" => pc'[j] = "idle"
  /\ \A j \in Calls : pc'[j] \in {"acquire", "spawn"} => pc[j] \in {"acquire", "spawn"}
  /\ \A w \in Workflows : \/ spawned'[w] \in {spawned[w], NoAgent}
                          \/ pc[k] = "spawn" /\ workflow[k] = w

LEMMA ManagerRunsKeeps ==
  ASSUME TypeInv, NEW k \in Calls, ManagerRuns(k)
  PROVE  RunKeeps(k)
<1> USE DEF TypeInv, ManagerInv, Manager!TypeOK, RunKeeps
<1>0. UNCHANGED <<registry, current>>
  BY DEF ManagerRuns
<1>1. CASE Manager!Acquired(k)
  BY <1>0, <1>1 DEF Manager!Acquired
<1>2. ASSUME NEW a \in Agents, Manager!SpawnSucceeds(k, a) PROVE RunKeeps(k)
  BY <1>0, <1>2 DEF Manager!SpawnSucceeds
<1>3. CASE Manager!SpawnFails(k) \/ Manager!CleanedUp(k)
  BY <1>0, <1>3 DEF Manager!SpawnFails, Manager!CleanedUp, Manager!Raise
<1>4. CASE Manager!PreviousStopped(k) \/ Manager!SendSucceeds(k)
  BY <1>0, <1>4 DEF Manager!PreviousStopped, Manager!SendSucceeds
<1>5. CASE Manager!SendFails(k)
  BY <1>0, <1>5 DEF Manager!SendFails
<1> QED
  BY <1>1, <1>2, <1>3, <1>4, <1>5 DEF ManagerRuns

LEMMA DeregisterFacts ==
  ASSUME TypeInv, NEW w \in Workflows, Deregister(w)
  PROVE  /\ UNCHANGED <<pc, workflow, agent>>
         /\ registered' = registered \ {w} /\ closed' = closed \cup ({w} \cap registered)
         /\ spawned'[w] = NoAgent
         /\ \A v \in Workflows : v # w => spawned'[v] = spawned[v]
<1> USE DEF TypeInv, ManagerInv, Manager!TypeOK, Deregister
<1>1. CASE spawned[w] = NoAgent
  BY <1>1 DEF mvars
<1>2. CASE spawned[w] # NoAgent
  BY <1>2 DEF Manager!Terminate
<1> QED
  BY <1>1, <1>2

LEMMA BeginsFacts ==
  ASSUME TypeInv, NEW k \in Calls, NEW w \in Workflows, Begins(k, w)
  PROVE  /\ UNCHANGED <<spawned, agent>> /\ pc[k] = "idle" /\ pc'[k] # "idle"
         /\ \A j \in Calls : j # k => pc'[j] = pc[j] /\ workflow'[j] = workflow[j]
         /\ workflow'[k] = w
         /\ current'[w] = k
         /\ \A v \in Workflows : v # w => current'[v] = current[v]
BY DEF TypeInv, ManagerInv, Manager!TypeOK, OwnTypes, Begins, Manager!DelegateBegins

-----------------------------------------------------------------------------
(* The registry *)

\* A workflow is known from its first delegation on, and from then on it is
\* registered or was.
RegistryInv ==
  /\ \A k \in Calls : pc[k] # "idle" => current[workflow[k]] # NoCall
  /\ \A w \in Workflows : current[w] # NoCall => w \in registered \cup closed
  /\ \A w \in closed : current[w] # NoCall

LEMMA ClosableKnown ==
  ASSUME TypeInv, RefInv, RegistryInv, NEW w \in Workflows, Closable(w)
  PROVE  current[w] # NoCall
<1>1. CASE Started(w)
  BY <1>1 DEF Started, TypeInv, ManagerInv, CallInv, RegistryInv
<1>2. CASE opener[w] # NoCall
  BY <1>2 DEF RefInv, OpenerInv, TypeInv, OwnTypes, ManagerInv, CallInv, RegistryInv
<1> QED
  BY <1>1, <1>2 DEF Closable

LEMMA NextRegistryInv ==
  ASSUME TypeInv, RefInv, RegistryInv, [Next]_vars
  PROVE  RegistryInv'
<1>1. CASE UNCHANGED <<Handles, registry, current>>
  BY <1>1 DEF RegistryInv, Handles, registry
<1>2. ASSUME NEW w \in Workflows, Registers(w), UNCHANGED <<Handles, current>>
      PROVE  RegistryInv'
  BY <1>2 DEF RegistryInv, Handles, Registers
<1>3. ASSUME NEW k \in Calls, NEW w \in Workflows, Begins(k, w),
             closed' = closed, registered \subseteq registered',
             w \in registered' \cup closed
      PROVE  RegistryInv'
  <2>1. \A j \in Calls : pc'[j] # "idle" => current'[workflow'[j]] # NoCall
    <3> SUFFICES ASSUME NEW j \in Calls, pc'[j] # "idle"
                 PROVE  current'[workflow'[j]] # NoCall
      OBVIOUS
    <3>1. CASE j = k
      BY <1>3, <3>1, BeginsFacts, WorkflowConstants
    <3>2. CASE j # k
      <4>1. pc[j] # "idle" /\ workflow'[j] = workflow[j] /\ workflow[j] \in Workflows
        BY <1>3, <3>2, BeginsFacts DEF TypeInv, ManagerInv, CallInv
      <4> QED
        BY <1>3, <4>1, BeginsFacts, WorkflowConstants DEF RegistryInv
    <3> QED
      BY <3>1, <3>2
  <2>2. \A v \in Workflows : current'[v] # NoCall => v \in registered' \cup closed'
    BY <1>3, BeginsFacts DEF RegistryInv
  <2>3. \A v \in closed' : current'[v] # NoCall
    BY <1>3, BeginsFacts, WorkflowConstants DEF RegistryInv, TypeInv, OwnTypes
  <2> QED
    BY <2>1, <2>2, <2>3 DEF RegistryInv
<1>4. ASSUME NEW k \in Calls, ManagerRuns(k) PROVE RegistryInv'
  BY <1>4, ManagerRunsKeeps DEF RunKeeps, RegistryInv, registry
<1>5. ASSUME NEW w \in Workflows, Closable(w), Deregister(w), UNCHANGED current
      PROVE  RegistryInv'
  BY <1>5, DeregisterFacts, ClosableKnown DEF RegistryInv, TypeInv, OwnTypes
<1>6. ASSUME NEW k \in Calls, NEW w \in Workflows, Begins(k, w), Started(w),
             UNCHANGED registry
      PROVE  RegistryInv'
  <2>1. current[w] # NoCall
    BY <1>6, ClosableKnown DEF Closable
  <2>2. w \in registered \cup closed
    BY <2>1 DEF RegistryInv
  <2> QED
    BY <1>3, <1>6, <2>2 DEF registry
<1>7. ASSUME NEW k \in Calls, NEW w \in Workflows, Begins(k, w), Registers(w)
      PROVE  RegistryInv'
  BY <1>3, <1>7 DEF Registers
<1> QED
  BY <1>1, <1>2, <1>4, <1>5, <1>6, <1>7, Steps DEF RegistryStep

\* A closed workflow is never registered again.
LEMMA ClosedStays ==
  ASSUME TypeInv, RefInv, RegistryInv, [Next]_vars, NEW w \in closed \ registered
  PROVE  w \in closed' \ registered'
<1>1. w \in Workflows /\ current[w] # NoCall
  BY DEF RegistryInv, TypeInv, OwnTypes
<1>2. ASSUME NEW k \in Calls, ManagerRuns(k) PROVE UNCHANGED registry
  BY <1>2 DEF ManagerRuns
<1> QED
  BY <1>1, <1>2, Steps DEF RegistryStep, Registers, Deregister, registry

\* A report becomes "unknown" when its workflow is not registered.
LEMMA UnknownFrom ==
  ASSUME TypeInv, RefInv, [Next]_vars, NEW b \in Agents, outcome'[b] = "unknown",
         outcome[b] # "unknown"
  PROVE  b \in born /\ WorkflowOf(b) \notin registered /\ UNCHANGED registry
<1>1. ASSUME NEW a \in Agents, HandleTaskComplete(a) \/ HandleTaskError(a)
      PROVE  b \in born /\ WorkflowOf(b) \notin registered /\ UNCHANGED registry
  <2>1. b = a
    BY <1>1 DEF HandleTaskComplete, HandleTaskError, TypeInv, OwnTypes
  <2>2. a \in born
    BY <1>1 DEF HandleTaskComplete, HandleTaskError, RefInv, ReportInv
  <2>3. WorkflowOf(a) \notin registered
    BY <1>1, <2>1 DEF HandleTaskComplete, HandleTaskError, TypeInv, OwnTypes
  <2> QED
    BY <1>1, <2>1, <2>2, <2>3 DEF HandleTaskComplete, HandleTaskError
<1>2. ASSUME NEW a \in Agents, AgentReports(a) PROVE FALSE
  BY <1>2 DEF AgentReports, TypeInv, OwnTypes
<1>3. ASSUME NEW w \in Workflows, Finalizing(w) PROVE FALSE
  BY <1>3 DEF Finalizing, Verified, BaselineDrifts, FinalizerCalls, PresentWork,
     CloseWork, DestroySandbox, FinalizerReDelegates, FinalizerReDelegated,
     FinalizerEnds, FinalizerRaises, FinalizationFailed, reports
<1>4. ASSUME NEW w \in Workflows,
             \/ DelegateTaskUnaudited(w) \/ DelegateTaskFails(w)
             \/ ClickPushOrDiscard(w) \/ ClickHandled(w) \/ ClickIterate(w)
             \/ \E k \in Calls : DelegateTask(k, w) \/ ConsumeFeedback(w, k)
      PROVE  FALSE
  BY <1>4 DEF DelegateTaskUnaudited, DelegateTaskFails, ClickPushOrDiscard, ClickHandled,
     ClickIterate, DelegateTask, ConsumeFeedback, reports
<1>5. ASSUME \/ \E k \in Calls : ManagerRuns(k) \/ AssignArrives(k)
             \/ \E a \in Agents : AgentExits(a)
             \/ ErrorRendered \/ ErrorAudited \/ TaskErrorHandled \/ UNCHANGED vars
      PROVE  FALSE
  BY <1>5, StageFacts DEF ManagerRuns, AssignArrives, AgentExits, TaskErrorHandled, reports, vars
<1> QED
  BY <1>1, <1>2, <1>3, <1>4, <1>5 DEF Next, Dispatching, Idle

LEMMA NextUnknown ==
  ASSUME TypeInv, RefInv, RegistryInv, UnknownOnlyIfClosed, [Next]_vars
  PROVE  UnknownOnlyIfClosed'
<1> SUFFICES ASSUME NEW a \in Agents, outcome'[a] = "unknown"
             PROVE  WorkflowOf(a)' \in closed' \ registered'
  BY DEF UnknownOnlyIfClosed
<1>1. a \in born
  BY UnknownFrom DEF RefInv, ReportInv
<1>2. WorkflowOf(a)' = WorkflowOf(a)
  BY <1>1, OwnerStays, NextTypeInv DEF TypeInv
<1>3. CASE outcome[a] = "unknown"
  BY <1>2, <1>3, ClosedStays DEF UnknownOnlyIfClosed
<1>4. CASE outcome[a] # "unknown"
  <2>1. WorkflowOf(a) \notin registered /\ UNCHANGED registry
    BY <1>4, UnknownFrom
  <2>2. WorkflowOf(a) \in Workflows /\ Closable(WorkflowOf(a))
    BY <1>1, Owner DEF TypeInv, Closable
  <2>3. WorkflowOf(a) \in closed
    BY <2>1, <2>2, ClosableKnown DEF RegistryInv
  <2> QED
    BY <1>2, <2>1, <2>3 DEF registry
<1> QED
  BY <1>3, <1>4

\* A report is dropped as unknown only after its workflow was registered and
\* closed again: delegate_task registers the workflow before delegate() can
\* start its process, no other path starts one of an unregistered workflow, and
\* no workflow id is registered twice.
THEOREM RegisteredBeforeReport == Spec => []UnknownOnlyIfClosed
<1>1. Init => RegistryInv /\ UnknownOnlyIfClosed
  BY DEF Init, Manager!Init, RegistryInv, UnknownOnlyIfClosed
<1> DEFINE Inv == TypeInv /\ RefInv /\ RegistryInv /\ UnknownOnlyIfClosed
<1>2. Init => Inv
  BY <1>1, InitTypeInv, InitRefInv
<1>3. Inv /\ [Next]_vars => Inv'
  BY NextTypeInv, NextRefInv, NextRegistryInv, NextUnknown
<1>4. Inv => UnknownOnlyIfClosed
  OBVIOUS
<1> QED
  BY <1>2, <1>3, <1>4, PTL DEF Spec

-----------------------------------------------------------------------------
(* Closing the first iteration *)

\* Once a workflow with a single assignment is closed, that assignment has
\* spawned its process or failed, and the handle is gone.
CloseInv ==
  \A w \in Workflows \ registered, k \in Calls :
    current[w] # NoCall /\ AssignmentsOf(w) = {k}
      => spawned[w] = NoAgent /\ pc[k] \notin {"acquire", "spawn"}

LEMMA NextCloseInv ==
  ASSUME TypeInv, RefInv, RegistryInv, CloseInv, [Next]_vars
  PROVE  CloseInv'
<1> SUFFICES ASSUME NEW v \in Workflows \ registered', NEW i \in Calls,
                    current'[v] # NoCall, AssignmentsOf(v)' = {i}
             PROVE  spawned'[v] = NoAgent /\ pc'[i] \notin {"acquire", "spawn"}
  BY DEF CloseInv
<1> DEFINE Goal == spawned'[v] = NoAgent /\ pc'[i] \notin {"acquire", "spawn"}
<1>0. \A j \in Calls : workflow'[j] = v <=> j = i
  BY DEF AssignmentsOf
<1>1. ASSUME UNCHANGED <<spawned, pc, workflow>>, registered \subseteq registered',
             UNCHANGED current
      PROVE  Goal
  BY <1>1 DEF CloseInv, AssignmentsOf
<1>2. ASSUME NEW k \in Calls, NEW w \in Workflows, Begins(k, w),
             w \in registered' \/ Started(w),
             registered \subseteq registered'
      PROVE  Goal
  <2>1. v # w
    <3> SUFFICES ASSUME v = w, Started(w) PROVE FALSE
      BY <1>2
    <3>1. PICK j \in Calls : workflow[j] = w
      BY DEF Started
    <3>2. j # k
      BY <1>2, <3>1, BeginsFacts DEF TypeInv, ManagerInv, CallInv
    <3>3. workflow'[j] = v /\ workflow'[k] = v
      BY <1>2, <3>1, <3>2, BeginsFacts
    <3> QED
      BY <1>0, <3>2, <3>3
  <2>2. i # k
    BY <1>0, <1>2, <2>1, BeginsFacts
  <2>3. \A j \in Calls : workflow[j] = v <=> j = i
    <3> TAKE j \in Calls
    <3>1. CASE j = k
      BY <1>2, <2>2, <3>1, BeginsFacts DEF TypeInv, ManagerInv, CallInv
    <3>2. CASE j # k
      BY <1>0, <1>2, <3>2, BeginsFacts
    <3> QED
      BY <3>1, <3>2
  <2>4. AssignmentsOf(v) = {i}
    BY <2>3 DEF AssignmentsOf
  <2>5. current[v] # NoCall /\ v \notin registered
    BY <1>2, <2>1, BeginsFacts
  <2> QED
    BY <1>2, <2>2, <2>4, <2>5, BeginsFacts DEF CloseInv
<1>3. ASSUME NEW k \in Calls, ManagerRuns(k) PROVE Goal
  <2>1. RunKeeps(k)
    BY <1>3, ManagerRunsKeeps
  <2>2. current[v] # NoCall /\ v \notin registered /\ AssignmentsOf(v) = {i}
    BY <2>1 DEF RunKeeps, AssignmentsOf, registry
  <2>3. spawned[v] = NoAgent /\ pc[i] \notin {"acquire", "spawn"}
    BY <2>2 DEF CloseInv
  <2>4. ~(pc[k] = "spawn" /\ workflow[k] = v)
    BY <2>2, <2>3 DEF AssignmentsOf
  <2> QED
    BY <2>1, <2>3, <2>4 DEF RunKeeps
<1>4. ASSUME NEW w \in Workflows, Closable(w), Deregister(w), UNCHANGED current
      PROVE  Goal
  <2>1. /\ UNCHANGED <<pc, workflow>> /\ registered' = registered \ {w}
        /\ spawned'[w] = NoAgent /\ (v # w => spawned'[v] = spawned[v])
    BY <1>4, DeregisterFacts
  <2>2. CASE v # w
    BY <1>4, <2>1, <2>2 DEF CloseInv, AssignmentsOf
  <2>3. CASE v = w
    <3>1. CASE Started(w)
      <4>1. PICK j \in Calls : workflow[j] = w /\ agent[j] \in Agents
        BY <3>1 DEF Started
      <4>2. j = i
        BY <1>0, <2>1, <2>3, <4>1
      <4>3. pc[i] \notin {"acquire", "spawn"}
        BY <4>1, <4>2, WorkflowConstants DEF TypeInv, ManagerInv, CallInv
      <4> QED
        BY <2>1, <2>3, <4>3
    <3>2. CASE opener[w] # NoCall /\ pc[opener[w]] = "failed"
      <4>1. opener[w] = i
        BY <1>0, <2>1, <2>3, <3>2 DEF RefInv, OpenerInv, TypeInv, OwnTypes
      <4> QED
        BY <2>1, <2>3, <3>2, <4>1
    <3> QED
      BY <1>4, <3>1, <3>2 DEF Closable
  <2> QED
    BY <2>2, <2>3
<1>5. CASE UNCHANGED <<Handles, registry, current>>
  BY <1>1, <1>5 DEF Handles, registry
<1>6. ASSUME NEW w \in Workflows, Registers(w), UNCHANGED <<Handles, current>> PROVE Goal
  BY <1>1, <1>6 DEF Handles, Registers
<1>7. ASSUME NEW k \in Calls, NEW w \in Workflows, Begins(k, w), Registers(w) PROVE Goal
  BY <1>2, <1>7 DEF Registers
<1>8. ASSUME NEW k \in Calls, NEW w \in Workflows, Begins(k, w), Started(w), UNCHANGED registry
      PROVE  Goal
  BY <1>2, <1>8 DEF registry
<1> QED
  BY <1>3, <1>4, <1>5, <1>6, <1>7, <1>8, Steps DEF RegistryStep

\* Closing a workflow that was never iterated leaves it no sub-agent handle:
\* everybody who can close it refers to it through a report of its process or
\* through the failure of its one delegate(), so the handle that terminate()
\* pops is the last one it will ever have.
THEOREM ClosedHoldsNoSlot == Spec => []ClosedFirstIterationHasNoAgent
<1> DEFINE Inv == TypeInv /\ RefInv /\ RegistryInv /\ CloseInv
<1>1. Init => Inv
  <2>1. Init => RegistryInv /\ CloseInv
    BY DEF Init, Manager!Init, RegistryInv, CloseInv
  <2> QED
    BY <2>1, InitTypeInv, InitRefInv
<1>2. Inv /\ [Next]_vars => Inv'
  BY NextTypeInv, NextRefInv, NextRegistryInv, NextCloseInv
<1>3. Inv => ClosedFirstIterationHasNoAgent
  <2> SUFFICES ASSUME Inv, NEW w \in Known \ registered, Cardinality(AssignmentsOf(w)) = 1
               PROVE  spawned[w] = NoAgent
    BY DEF ClosedFirstIterationHasNoAgent
  <2>1. AssignmentsOf(w) \in SUBSET Calls
    BY DEF AssignmentsOf
  <2>2. IsFiniteSet(AssignmentsOf(w))
    BY <2>1, FS_Subset, WorkflowConstants
  <2>3. PICK k : AssignmentsOf(w) = {k}
    BY <2>2, FS_Singleton
  <2>4. k \in Calls /\ w \in Workflows /\ current[w] # NoCall
    BY <2>1, <2>3 DEF Known
  <2> QED
    BY <2>3, <2>4 DEF CloseInv
<1> QED
  BY <1>1, <1>2, <1>3, PTL DEF Spec

=============================================================================
