-------------------------- MODULE DelegationManager --------------------------
(***************************************************************************)
(* The orchestrator's DelegationManager (orchestrator/delegation.py): it   *)
(* spawns sub-agent processes, ships them their task.assign and caps the   *)
(* number of live workflows with a semaphore.                              *)
(*                                                                         *)
(* Each member of Calls is one invocation of the coroutine delegate(); its *)
(* pc is the await it is suspended at:                                     *)
(*   "acquire"  semaphore.acquire() with no slot free                      *)
(*   "spawn"    the spawn callback                                         *)
(*   "replace"  previous.terminate(), the earlier iteration's process      *)
(*   "send"     _send_assign_with_readiness_retry                          *)
(*   "cleanup"  agent.terminate() after a failed send                      *)
(* terminate(workflow) pops the handle and gives its slot back in one step *)
(* and then only waits for the process, so it needs no pc of its own.      *)
(***************************************************************************)
EXTENDS Integers, FiniteSets

CONSTANTS
  Workflows,      \* workflow ids
  Calls,          \* invocations of delegate(), over all time
  Agents,         \* sub-agent processes, over all time
  MaxConcurrent,  \* config.max_concurrent
  NoWorkflow, NoAgent

ASSUME DelegationConstants ==
  /\ IsFiniteSet(Workflows)
  /\ IsFiniteSet(Calls)
  /\ MaxConcurrent \in Nat \ {0}
  /\ NoWorkflow \notin Workflows
  /\ NoAgent \notin Agents

VARIABLES
  spawned,   \* _spawned: the live handle of each workflow
  value,     \* the semaphore's counter
  pc,        \* where each delegate() call is suspended, or how it ended
  workflow,  \* task.workflow_id of the call
  agent,     \* the local `agent'
  previous,  \* the local `previous'
  live,      \* processes that are running
  born,      \* history: processes ever started
  doomed,    \* history: processes whose terminate() was called
  overlapped \* history: some workflow had two operations in progress at once

mvars == <<spawned, value, pc, workflow, agent, previous, live, born, doomed,
           overlapped>>

Suspended == {"acquire", "spawn", "replace", "send", "cleanup"}
Ended     == {"returned", "failed", "cancelled"}

TypeOK ==
  /\ spawned \in [Workflows -> Agents \cup {NoAgent}]
  /\ value \in Nat
  /\ pc \in [Calls -> {"idle"} \cup Suspended \cup Ended]
  /\ workflow \in [Calls -> Workflows \cup {NoWorkflow}]
  /\ agent \in [Calls -> Agents \cup {NoAgent}]
  /\ previous \in [Calls -> Agents \cup {NoAgent}]
  /\ live \subseteq Agents
  /\ born \subseteq Agents
  /\ doomed \subseteq Agents
  /\ overlapped \in BOOLEAN

Init ==
  /\ spawned = [w \in Workflows |-> NoAgent]
  /\ value = MaxConcurrent
  /\ pc = [k \in Calls |-> "idle"]
  /\ workflow = [k \in Calls |-> NoWorkflow]
  /\ agent = [k \in Calls |-> NoAgent]
  /\ previous = [k \in Calls |-> NoAgent]
  /\ live = {}
  /\ born = {}
  /\ doomed = {}
  /\ overlapped = FALSE

InFlight(w) == {k \in Calls : pc[k] \in Suspended /\ workflow[k] = w}

\* An operation on w starts; delegate() and terminate() take no per-workflow lock.
Enters(w) == overlapped' = (overlapped \/ InFlight(w) # {})

-----------------------------------------------------------------------------
\* delegate() up to its first suspension.  A workflow without a handle needs a
\* slot; acquire() takes a free one without suspending when nobody waits.
DelegateBegins(k, w) ==
  /\ pc[k] = "idle"
  /\ Enters(w)
  /\ workflow' = [workflow EXCEPT ![k] = w]
  /\ \/ /\ spawned[w] # NoAgent
        /\ pc' = [pc EXCEPT ![k] = "spawn"]
        /\ UNCHANGED value
     \/ /\ spawned[w] = NoAgent
        /\ value > 0
        /\ \A j \in Calls : pc[j] # "acquire"
        /\ value' = value - 1
        /\ pc' = [pc EXCEPT ![k] = "spawn"]
     \/ /\ spawned[w] = NoAgent
        /\ value = 0 \/ \E j \in Calls : pc[j] = "acquire"
        /\ pc' = [pc EXCEPT ![k] = "acquire"]
        /\ UNCHANGED value
  /\ UNCHANGED <<spawned, agent, previous, live, born, doomed>>

\* Seeded fault: a waiter goes ahead without a free slot.
AcquiredUnchecked(k) ==
  /\ pc[k] = "acquire"
  /\ value' = value - 1
  /\ pc' = [pc EXCEPT ![k] = "spawn"]
  /\ UNCHANGED <<spawned, workflow, agent, previous, live, born, doomed, overlapped>>

\* A waiter of acquire() is given a slot.
Acquired(k) ==
  /\ pc[k] = "acquire"
  /\ value > 0
  /\ value' = value - 1
  /\ pc' = [pc EXCEPT ![k] = "spawn"]
  /\ UNCHANGED <<spawned, workflow, agent, previous, live, born, doomed, overlapped>>

\* Seeded fault: the previous iteration's process is not stopped.
SpawnSucceedsKeepsPrevious(k, a) ==
  /\ pc[k] = "spawn"
  /\ a \notin born
  /\ born' = born \cup {a}
  /\ live' = live \cup {a}
  /\ agent' = [agent EXCEPT ![k] = a]
  /\ spawned' = [spawned EXCEPT ![workflow[k]] = a]
  /\ pc' = [pc EXCEPT ![k] = "send"]
  /\ UNCHANGED <<value, workflow, previous, doomed, overlapped>>

\* The process is running: its handle replaces the previous iteration's, which
\* is then stopped.
SpawnSucceeds(k, a) ==
  /\ pc[k] = "spawn"
  /\ a \notin born
  /\ born' = born \cup {a}
  /\ live' = live \cup {a}
  /\ agent' = [agent EXCEPT ![k] = a]
  /\ previous' = [previous EXCEPT ![k] = spawned[workflow[k]]]
  /\ spawned' = [spawned EXCEPT ![workflow[k]] = a]
  /\ pc' = [pc EXCEPT ![k] =
              IF spawned[workflow[k]] = NoAgent THEN "send" ELSE "replace"]
  /\ doomed' = doomed \cup ({spawned[workflow[k]]} \ {NoAgent})
  /\ UNCHANGED <<value, workflow, overlapped>>

\* Seeded fault: a failing call never gives its slot back.
RaiseKeepsSlot(k, end) ==
  /\ pc' = [pc EXCEPT ![k] = end]
  /\ UNCHANGED value

\* The `except BaseException' of delegate(): release unless the workflow has a
\* handle, then raise.
Raise(k, end) ==
  /\ pc' = [pc EXCEPT ![k] = end]
  /\ value' = IF spawned[workflow[k]] = NoAgent THEN value + 1 ELSE value

SpawnFails(k) ==
  /\ pc[k] = "spawn"
  /\ Raise(k, "failed")
  /\ UNCHANGED <<spawned, workflow, agent, previous, live, born, doomed, overlapped>>

\* previous.terminate() returned because the process is gone.
PreviousStopped(k) ==
  /\ pc[k] = "replace"
  /\ previous[k] \notin live
  /\ pc' = [pc EXCEPT ![k] = "send"]
  /\ previous' = [previous EXCEPT ![k] = NoAgent]
  /\ UNCHANGED <<spawned, value, workflow, agent, live, born, doomed, overlapped>>

\* The broker acknowledged the task.assign, possibly after retries on
\* TARGET_OFFLINE.
SendSucceeds(k) ==
  /\ pc[k] = "send"
  /\ pc' = [pc EXCEPT ![k] = "returned"]
  /\ UNCHANGED <<spawned, value, workflow, agent, previous, live, born, doomed, overlapped>>

\* Seeded fault: the failed send evicts whatever handle is installed.
SendFailsPopsAny(k) ==
  /\ pc[k] = "send"
  /\ pc' = [pc EXCEPT ![k] = "cleanup"]
  /\ spawned' = [spawned EXCEPT ![workflow[k]] = NoAgent]
  /\ doomed' = doomed \cup {agent[k]}
  /\ UNCHANGED <<value, workflow, agent, previous, live, born, overlapped>>

\* The readiness window elapsed, the ACK timed out or the broker refused:
\* compare-and-pop, then stop the process this call started.
SendFails(k) ==
  /\ pc[k] = "send"
  /\ pc' = [pc EXCEPT ![k] = "cleanup"]
  /\ spawned' = IF spawned[workflow[k]] = agent[k]
                THEN [spawned EXCEPT ![workflow[k]] = NoAgent] ELSE spawned
  /\ doomed' = doomed \cup {agent[k]}
  /\ UNCHANGED <<value, workflow, agent, previous, live, born, overlapped>>

CleanedUp(k) ==
  /\ pc[k] = "cleanup"
  /\ agent[k] \notin live
  /\ Raise(k, "failed")
  /\ UNCHANGED <<spawned, workflow, agent, previous, live, born, doomed, overlapped>>

\* The task that awaits delegate() is cancelled.  acquire() is outside the try;
\* everywhere else the outer handler runs and nothing else does.
DelegateCancelled(k) ==
  /\ pc[k] \in Suspended
  /\ IF pc[k] = "acquire"
     THEN pc' = [pc EXCEPT ![k] = "cancelled"] /\ UNCHANGED value
     ELSE Raise(k, "cancelled")
  /\ UNCHANGED <<spawned, workflow, agent, previous, live, born, doomed, overlapped>>

-----------------------------------------------------------------------------
\* terminate(workflow); close() is terminate() of every workflow with a handle.
Terminate(w) ==
  /\ Enters(w)
  /\ spawned[w] # NoAgent
  /\ spawned' = [spawned EXCEPT ![w] = NoAgent]
  /\ value' = value + 1
  /\ doomed' = doomed \cup {spawned[w]}
  /\ UNCHANGED <<pc, workflow, agent, previous, live, born>>

\* A process exits: stopped by a terminate(), done with its task, or crashed.
AgentExits(a) ==
  /\ a \in live
  /\ live' = live \ {a}
  /\ UNCHANGED <<spawned, value, pc, workflow, agent, previous, born, doomed, overlapped>>

\* Nothing in flight and nothing running: the manager may rest for ever.
Quiescent ==
  /\ \A k \in Calls : pc[k] \notin Suspended
  /\ live = {}
  /\ UNCHANGED mvars

ManagerStep(k) ==
  \/ Acquired(k)
  \/ \E a \in Agents : SpawnSucceeds(k, a)
  \/ SpawnFails(k)
  \/ PreviousStopped(k)
  \/ SendSucceeds(k)
  \/ SendFails(k)
  \/ CleanedUp(k)
  \/ DelegateCancelled(k)

Next ==
  \/ \E k \in Calls, w \in Workflows : DelegateBegins(k, w)
  \/ \E k \in Calls : ManagerStep(k)
  \/ \E w \in Workflows : Terminate(w)
  \/ \E a \in Agents : AgentExits(a)
  \/ Quiescent

Spec == Init /\ [][Next]_mvars

-----------------------------------------------------------------------------
(* Properties *)

\* The slots in use: one per handle, one per call between its acquire() and the
\* moment its handle is installed or its failure is handled.
Entries == {w \in Workflows : spawned[w] # NoAgent}
Holders == {k \in Calls : /\ pc[k] \in {"spawn", "cleanup"}
                          /\ spawned[workflow[k]] = NoAgent}

Balanced == value + Cardinality(Entries) + Cardinality(Holders) = MaxConcurrent

\* "Each entry owns one semaphore slot until terminate()/close() removes it":
\* free slots and owned slots add up to the cap, over every way a delegation can
\* fail, be cancelled, be repeated or be torn down, as long as no workflow had
\* two operations in progress at once (see ConcurrencyCap for when one had).
SlotsConserved == ~overlapped => Balanced

\* config.max_concurrent, "the concurrency cap applies to live workflows".
ConcurrencyCap == Cardinality(Entries) <= MaxConcurrent

\* No process is forgotten: one that runs has the live handle of a workflow, so
\* terminate() and close() reach it, or was told to stop.
NoOrphanProcess ==
  \A a \in live : a \in doomed \/ \E w \in Workflows : spawned[w] = a

\* "Compare-and-pop so a racing re-delegation cannot be evicted by this failed
\* send path": a handle that goes without its slot being released in the same
\* step (terminate does both) was installed by a call that is in its own send.
OnlyOwnerEvicts ==
  [][\A w \in Workflows :
       spawned[w] # NoAgent /\ spawned'[w] = NoAgent /\ value' = value
       => \E k \in Calls : pc[k] = "send" /\ agent[k] = spawned[w]]_mvars
=============================================================================
