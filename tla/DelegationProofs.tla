--------------------------- MODULE DelegationProofs ---------------------------
(***************************************************************************)
(* Proofs about DelegationManager, for any number of workflows, calls and  *)
(* processes and any concurrency cap.                                      *)
(***************************************************************************)
EXTENDS DelegationManager, FiniteSetTheorems, TLAPS

\* A call past its start knows its workflow, and one past the spawn its process.
CallsKnown ==
  \A k \in Calls :
    /\ pc[k] \in Suspended => workflow[k] \in Workflows
    /\ pc[k] \in {"replace", "send", "cleanup"} => agent[k] \in Agents

TypeInv == TypeOK /\ CallsKnown

LEMMA InitTypeInv == Init => TypeInv
BY DelegationConstants DEF Init, TypeInv, TypeOK, CallsKnown, Suspended

LEMMA NextTypeInv == TypeInv /\ [Next]_mvars => TypeInv'
<1> SUFFICES ASSUME TypeInv, [Next]_mvars PROVE TypeInv'
  OBVIOUS
<1> USE DEF TypeInv, TypeOK, CallsKnown, Suspended, Ended
<1>1. ASSUME NEW k \in Calls, NEW w \in Workflows, DelegateBegins(k, w) PROVE TypeInv'
  BY <1>1 DEF DelegateBegins, Enters
<1>2. ASSUME NEW k \in Calls, ManagerStep(k) PROVE TypeInv'
  <2>1. CASE Acquired(k)
    BY <2>1 DEF Acquired
  <2>2. ASSUME NEW a \in Agents, SpawnSucceeds(k, a) PROVE TypeInv'
    BY <2>2 DEF SpawnSucceeds
  <2>3. CASE SpawnFails(k)
    BY <2>3 DEF SpawnFails, Raise
  <2>4. CASE PreviousStopped(k)
    BY <2>4 DEF PreviousStopped
  <2>5. CASE SendSucceeds(k)
    BY <2>5 DEF SendSucceeds
  <2>6. CASE SendFails(k)
    BY <2>6 DEF SendFails
  <2>7. CASE CleanedUp(k)
    BY <2>7 DEF CleanedUp, Raise
  <2>8. CASE DelegateCancelled(k)
    BY <2>8 DEF DelegateCancelled, Raise
  <2> QED
    BY <1>2, <2>1, <2>2, <2>3, <2>4, <2>5, <2>6, <2>7, <2>8 DEF ManagerStep
<1>3. ASSUME NEW w \in Workflows, Terminate(w) PROVE TypeInv'
  BY <1>3 DEF Terminate, Enters
<1>4. ASSUME NEW a \in Agents, AgentExits(a) PROVE TypeInv'
  BY <1>4 DEF AgentExits
<1>5. CASE UNCHANGED mvars
  BY <1>5 DEF mvars
<1> QED
  BY <1>1, <1>2, <1>3, <1>4, <1>5 DEF Next, Quiescent

\* Every variable keeps its type; the semaphore never goes below zero.
THEOREM TypeCorrect == Spec => []TypeOK
<1>1. TypeInv => TypeOK
  BY DEF TypeInv
<1> QED
  BY <1>1, InitTypeInv, NextTypeInv, PTL DEF Spec

-----------------------------------------------------------------------------
(* Processes: these hold even when operations on a workflow overlap.       *)

LEMMA NextNoOrphan == TypeInv /\ NoOrphanProcess /\ [Next]_mvars => NoOrphanProcess'
<1> SUFFICES ASSUME TypeInv, NoOrphanProcess, [Next]_mvars PROVE NoOrphanProcess'
  OBVIOUS
<1> USE DEF TypeInv, TypeOK, CallsKnown, Suspended, NoOrphanProcess
<1>1. ASSUME NEW k \in Calls, NEW a \in Agents, SpawnSucceeds(k, a) PROVE NoOrphanProcess'
  <2>1. workflow[k] \in Workflows
    BY <1>1 DEF SpawnSucceeds
  <2> QED
    BY <1>1, <2>1, DelegationConstants DEF SpawnSucceeds
<1>2. ASSUME NEW k \in Calls, SendFails(k) PROVE NoOrphanProcess'
  BY <1>2 DEF SendFails
<1>3. ASSUME NEW w \in Workflows, Terminate(w) PROVE NoOrphanProcess'
  BY <1>3 DEF Terminate
<1>4. ASSUME NEW a \in Agents, AgentExits(a) PROVE NoOrphanProcess'
  BY <1>4 DEF AgentExits
<1>5. ASSUME UNCHANGED <<spawned, live, doomed>> PROVE NoOrphanProcess'
  BY <1>5
<1>6. ASSUME NEW k \in Calls, ManagerStep(k), ~SendFails(k),
             \A a \in Agents : ~SpawnSucceeds(k, a)
      PROVE  UNCHANGED <<spawned, live, doomed>>
  BY <1>6 DEF ManagerStep, Acquired, SpawnFails, PreviousStopped, SendSucceeds, CleanedUp,
     DelegateCancelled
<1>7. ASSUME \/ \E k \in Calls, w \in Workflows : DelegateBegins(k, w)
             \/ UNCHANGED mvars
      PROVE  UNCHANGED <<spawned, live, doomed>>
  BY <1>7 DEF DelegateBegins, mvars
<1> QED
  BY <1>1, <1>2, <1>3, <1>4, <1>5, <1>6, <1>7 DEF Next, Quiescent

\* A running sub-agent is reachable through a workflow's handle or has been told
\* to stop, however delegate(), its cancellation and terminate() interleave.
THEOREM ProcessesTracked == Spec => []NoOrphanProcess
<1>1. Init => NoOrphanProcess
  BY DEF Init, NoOrphanProcess
<1> QED
  BY <1>1, InitTypeInv, NextTypeInv, NextNoOrphan, PTL DEF Spec

LEMMA StepEvictsOwn ==
  ASSUME TypeInv, [Next]_mvars, NEW w \in Workflows, spawned[w] # NoAgent,
         spawned'[w] = NoAgent, value' = value
  PROVE  \E k \in Calls : pc[k] = "send" /\ agent[k] = spawned[w]
<1> USE DEF TypeInv, TypeOK
<1>1. ASSUME NEW k \in Calls, NEW a \in Agents, SpawnSucceeds(k, a) PROVE FALSE
  BY <1>1, DelegationConstants DEF SpawnSucceeds
<1>2. ASSUME NEW k \in Calls, SendFails(k)
      PROVE  pc[k] = "send" /\ agent[k] = spawned[w]
  BY <1>2 DEF SendFails
<1>3. ASSUME NEW v \in Workflows, Terminate(v) PROVE FALSE
  BY <1>3 DEF Terminate
<1>4. ASSUME NEW k \in Calls, ManagerStep(k), ~SendFails(k),
             \A a \in Agents : ~SpawnSucceeds(k, a)
      PROVE  FALSE
  BY <1>4 DEF ManagerStep, Acquired, SpawnFails, PreviousStopped, SendSucceeds, CleanedUp,
     DelegateCancelled
<1>5. ASSUME \/ \E k \in Calls, v \in Workflows : DelegateBegins(k, v)
             \/ \E a \in Agents : AgentExits(a)
             \/ UNCHANGED mvars
      PROVE  FALSE
  BY <1>5 DEF DelegateBegins, AgentExits, mvars
<1> QED
  BY <1>1, <1>2, <1>3, <1>4, <1>5 DEF Next, Quiescent

\* The compare-and-pop of a failed send never removes another call's handle.
THEOREM EvictionsOwned == Spec => OnlyOwnerEvicts
<1>1. TypeInv /\ [Next]_mvars =>
        [\A w \in Workflows :
           spawned[w] # NoAgent /\ spawned'[w] = NoAgent /\ value' = value
           => \E k \in Calls : pc[k] = "send" /\ agent[k] = spawned[w]]_mvars
  BY StepEvictsOwn
<1> QED
  BY <1>1, InitTypeInv, NextTypeInv, PTL DEF Spec, OnlyOwnerEvicts

-----------------------------------------------------------------------------
(* Slots, until two operations on one workflow overlap.                     *)

\* At most one call works on a workflow, and the await it is suspended at says
\* whether the workflow has a handle.
Disciplined ==
  /\ \A j, k \in Calls : pc[j] \in Suspended /\ pc[k] \in Suspended
                         /\ workflow[j] = workflow[k] => j = k
  /\ \A k \in Calls :
       /\ pc[k] \in {"acquire", "cleanup"} => spawned[workflow[k]] = NoAgent
       /\ pc[k] \in {"replace", "send"} => spawned[workflow[k]] = agent[k]

Exact == TypeInv /\ Disciplined /\ Balanced

\* The inductive strengthening of SlotsConserved.
SlotInv == TypeInv /\ (~overlapped => Disciplined /\ Balanced)

\* Cardinality facts for sets that grow or shrink by one element.
LEMMA Grows ==
  ASSUME NEW S, NEW x, IsFiniteSet(S), x \notin S
  PROVE  Cardinality(S \cup {x}) = Cardinality(S) + 1 /\ Cardinality(S) \in Nat
BY FS_AddElement, FS_CardinalityType

LEMMA Shrinks ==
  ASSUME NEW S, NEW x, IsFiniteSet(S), x \in S
  PROVE  Cardinality(S \ {x}) = Cardinality(S) - 1 /\ Cardinality(S) \in Nat
BY FS_RemoveElement, FS_CardinalityType

LEMMA SlotSetsFinite ==
  /\ IsFiniteSet(Entries) /\ Cardinality(Entries) \in Nat
  /\ IsFiniteSet(Holders) /\ Cardinality(Holders) \in Nat
<1>1. Entries \subseteq Workflows /\ Holders \subseteq Calls
  BY DEF Entries, Holders
<1> QED
  BY <1>1, DelegationConstants, FS_Subset, FS_CardinalityType

\* A call that ends through the `except BaseException' clause.
LEMMA RaiseSlots ==
  ASSUME Exact, NEW k \in Calls, pc[k] \in Suspended, pc[k] # "acquire",
         NEW end \in Ended, Raise(k, end),
         UNCHANGED <<spawned, workflow, agent>>
  PROVE  Disciplined' /\ Balanced'
<1> USE DEF Exact, TypeInv, TypeOK, CallsKnown, Suspended, Ended
<1>0. workflow[k] \in Workflows /\ pc' = [pc EXCEPT ![k] = end] /\ Entries' = Entries
  BY DEF Raise, Entries
<1>1. Disciplined'
  BY <1>0 DEF Disciplined
<1>2. CASE spawned[workflow[k]] = NoAgent
  <2>1. pc[k] \in {"spawn", "cleanup"}
    BY <1>2, DelegationConstants DEF Disciplined
  <2>2. Holders' = Holders \ {k} /\ k \in Holders
    BY <1>0, <1>2, <2>1 DEF Holders
  <2>3. value' = value + 1
    BY <1>2 DEF Raise
  <2> QED
    BY <1>0, <1>1, <2>2, <2>3, SlotSetsFinite, Shrinks DEF Balanced
<1>3. CASE spawned[workflow[k]] # NoAgent
  <2>1. Holders' = Holders
    BY <1>0, <1>3 DEF Holders
  <2> QED
    BY <1>0, <1>1, <1>3, <2>1 DEF Balanced, Raise
<1> QED
  BY <1>2, <1>3

LEMMA BeginSlots ==
  ASSUME Exact, ~overlapped', NEW k \in Calls, NEW w \in Workflows, DelegateBegins(k, w)
  PROVE  Disciplined' /\ Balanced'
<1> USE DEF Exact, TypeInv, TypeOK, CallsKnown, Suspended
<1>0. /\ pc[k] = "idle" /\ workflow' = [workflow EXCEPT ![k] = w]
      /\ UNCHANGED <<spawned, agent>> /\ Entries' = Entries
      /\ \A j \in Calls : pc[j] \in Suspended => workflow[j] # w
  BY DEF DelegateBegins, Enters, InFlight, Entries
<1>1. CASE spawned[w] # NoAgent
  <2>1. pc' = [pc EXCEPT ![k] = "spawn"] /\ value' = value
    BY <1>1 DEF DelegateBegins
  <2>2. Holders' = Holders
    BY <1>0, <1>1, <2>1 DEF Holders
  <2>3. Disciplined'
    BY <1>0, <2>1 DEF Disciplined
  <2> QED
    BY <1>0, <2>1, <2>2, <2>3 DEF Balanced
<1>2. CASE spawned[w] = NoAgent /\ pc' = [pc EXCEPT ![k] = "spawn"] /\ value' = value - 1
  <2>1. Holders' = Holders \cup {k} /\ k \notin Holders
    BY <1>0, <1>2 DEF Holders
  <2>2. Disciplined'
    BY <1>0, <1>2 DEF Disciplined
  <2> QED
    BY <1>0, <1>2, <2>1, <2>2, SlotSetsFinite, Grows DEF Balanced
<1>3. CASE spawned[w] = NoAgent /\ pc' = [pc EXCEPT ![k] = "acquire"] /\ value' = value
  <2>1. Holders' = Holders
    BY <1>0, <1>3 DEF Holders
  <2>2. Disciplined'
    BY <1>0, <1>3 DEF Disciplined
  <2> QED
    BY <1>0, <1>3, <2>1, <2>2 DEF Balanced
<1> QED
  BY <1>1, <1>2, <1>3 DEF DelegateBegins

\* Installing a handle turns the call's slot into the workflow's.
LEMMA SpawnSlots ==
  ASSUME Exact, NEW k \in Calls, NEW a \in Agents, SpawnSucceeds(k, a)
  PROVE  Disciplined' /\ Balanced'
<1> USE DEF Exact, TypeInv, TypeOK, CallsKnown, Suspended
<1> DEFINE w == workflow[k]
<1>0. /\ pc[k] = "spawn" /\ w \in Workflows /\ a # NoAgent
      /\ spawned' = [spawned EXCEPT ![w] = a]
      /\ agent' = [agent EXCEPT ![k] = a]
      /\ pc' = [pc EXCEPT ![k] = IF spawned[w] = NoAgent THEN "send" ELSE "replace"]
      /\ UNCHANGED <<value, workflow>>
  BY DelegationConstants DEF SpawnSucceeds
<1>1. \A j \in Calls : j # k /\ pc[j] \in Suspended => workflow[j] # w
  BY <1>0 DEF Disciplined
<1>2. Disciplined'
  BY <1>0, <1>1 DEF Disciplined
<1>3. CASE spawned[w] = NoAgent
  <2>1. Entries' = Entries \cup {w} /\ w \notin Entries
    BY <1>0, <1>3 DEF Entries
  <2>2. Holders' = Holders \ {k} /\ k \in Holders
    BY <1>0, <1>1, <1>3 DEF Holders
  <2> HIDE DEF w
  <2>3. /\ Cardinality(Entries') = Cardinality(Entries) + 1
        /\ Cardinality(Holders') = Cardinality(Holders) - 1
    BY <2>1, <2>2, SlotSetsFinite, Grows, Shrinks
  <2> QED
    BY <1>0, <1>2, <2>3, SlotSetsFinite DEF Balanced
<1>4. CASE spawned[w] # NoAgent
  <2>1. Entries' = Entries /\ Holders' = Holders
    BY <1>0, <1>1, <1>4 DEF Entries, Holders
  <2> QED
    BY <1>0, <1>2, <2>1 DEF Balanced
<1> QED
  BY <1>3, <1>4

\* A failed send turns the workflow's slot back into the call's.
LEMMA SendFailsSlots ==
  ASSUME Exact, NEW k \in Calls, SendFails(k)
  PROVE  Disciplined' /\ Balanced'
<1> USE DEF Exact, TypeInv, TypeOK, CallsKnown, Suspended
<1> DEFINE w == workflow[k]
<1>0. /\ pc[k] = "send" /\ w \in Workflows
      /\ spawned[w] # NoAgent
      /\ spawned' = [spawned EXCEPT ![w] = NoAgent]
      /\ pc' = [pc EXCEPT ![k] = "cleanup"]
      /\ UNCHANGED <<value, workflow, agent>>
  BY DelegationConstants DEF SendFails, Disciplined
<1>1. \A j \in Calls : j # k /\ pc[j] \in Suspended => workflow[j] # w
  BY <1>0 DEF Disciplined
<1>2. Disciplined'
  BY <1>0, <1>1 DEF Disciplined
<1>3. Entries' = Entries \ {w} /\ w \in Entries
  BY <1>0 DEF Entries
<1>4. Holders' = Holders \cup {k} /\ k \notin Holders
  BY <1>0, <1>1 DEF Holders
<1> HIDE DEF w
<1>5. /\ Cardinality(Entries') = Cardinality(Entries) - 1
      /\ Cardinality(Holders') = Cardinality(Holders) + 1
  BY <1>3, <1>4, SlotSetsFinite, Grows, Shrinks
<1> QED
  BY <1>0, <1>2, <1>5, SlotSetsFinite DEF Balanced

\* overlapped never goes back, so a step that leaves it FALSE started with it FALSE.
LEMMA OverlapSticks == [Next]_mvars /\ overlapped => overlapped'
BY DEF Next, mvars, DelegateBegins, Enters, ManagerStep, Acquired, SpawnSucceeds, SpawnFails,
   PreviousStopped, SendSucceeds, SendFails, CleanedUp, DelegateCancelled, Terminate,
   AgentExits, Quiescent

LEMMA NextSlotInv == SlotInv /\ [Next]_mvars => SlotInv'
<1> SUFFICES ASSUME Exact, ~overlapped', [Next]_mvars PROVE Disciplined' /\ Balanced'
  BY NextTypeInv, OverlapSticks DEF SlotInv, Exact
<1> USE DEF Suspended, Ended
<1>1. ASSUME NEW k \in Calls, NEW w \in Workflows, DelegateBegins(k, w)
      PROVE  Disciplined' /\ Balanced'
  BY <1>1, BeginSlots
<1>2. ASSUME NEW k \in Calls, Acquired(k) PROVE Disciplined' /\ Balanced'
  <2> USE DEF Exact, TypeInv, TypeOK, CallsKnown
  <2>1. Disciplined'
    BY <1>2 DEF Acquired, Disciplined
  <2>2. Entries' = Entries /\ Holders' = Holders \cup {k} /\ k \notin Holders
    BY <1>2 DEF Acquired, Disciplined, Entries, Holders
  <2>3. Cardinality(Holders') = Cardinality(Holders) + 1
    BY <2>2, SlotSetsFinite, Grows
  <2> QED
    BY <1>2, <2>1, <2>2, <2>3, SlotSetsFinite DEF Acquired, Balanced
<1>3. ASSUME NEW k \in Calls, NEW a \in Agents, SpawnSucceeds(k, a)
      PROVE  Disciplined' /\ Balanced'
  BY <1>3, SpawnSlots
<1>4. ASSUME NEW k \in Calls, SpawnFails(k) \/ CleanedUp(k)
      PROVE  Disciplined' /\ Balanced'
  BY <1>4, RaiseSlots DEF SpawnFails, CleanedUp
<1>5. ASSUME NEW k \in Calls, PreviousStopped(k) \/ SendSucceeds(k)
      PROVE  Disciplined' /\ Balanced'
  <2> USE DEF Exact, TypeInv, TypeOK, CallsKnown
  <2>1. Disciplined'
    BY <1>5 DEF PreviousStopped, SendSucceeds, Disciplined
  <2>2. Entries' = Entries /\ Holders' = Holders /\ value' = value
    BY <1>5 DEF PreviousStopped, SendSucceeds, Entries, Holders
  <2> QED
    BY <2>1, <2>2 DEF Balanced
<1>6. ASSUME NEW k \in Calls, SendFails(k) PROVE Disciplined' /\ Balanced'
  BY <1>6, SendFailsSlots
<1>7. ASSUME NEW k \in Calls, DelegateCancelled(k) PROVE Disciplined' /\ Balanced'
  <2>1. CASE pc[k] = "acquire"
    <3> USE DEF Exact, TypeInv, TypeOK, CallsKnown
    <3>1. Disciplined'
      BY <1>7, <2>1 DEF DelegateCancelled, Disciplined
    <3>2. Entries' = Entries /\ Holders' = Holders /\ value' = value
      BY <1>7, <2>1 DEF DelegateCancelled, Entries, Holders
    <3> QED
      BY <3>1, <3>2 DEF Balanced
  <2>2. CASE pc[k] # "acquire"
    BY <1>7, <2>2, RaiseSlots DEF DelegateCancelled
  <2> QED
    BY <2>1, <2>2
<1>8. ASSUME NEW w \in Workflows, Terminate(w) PROVE Disciplined' /\ Balanced'
  <2> USE DEF Exact, TypeInv, TypeOK, CallsKnown
  <2>0. \A j \in Calls : pc[j] \in Suspended => workflow[j] # w
    BY <1>8 DEF Terminate, Enters, InFlight
  <2>1. Disciplined'
    BY <1>8, <2>0 DEF Terminate, Disciplined
  <2>2. Entries' = Entries \ {w} /\ w \in Entries /\ Holders' = Holders
    BY <1>8, <2>0 DEF Terminate, Entries, Holders
  <2>3. Cardinality(Entries') = Cardinality(Entries) - 1
    BY <2>2, SlotSetsFinite, Shrinks
  <2> QED
    BY <1>8, <2>1, <2>2, <2>3, SlotSetsFinite DEF Terminate, Balanced
<1>9. ASSUME (\E a \in Agents : AgentExits(a)) \/ UNCHANGED mvars
      PROVE  Disciplined' /\ Balanced'
  BY <1>9 DEF AgentExits, mvars, Exact, Disciplined, Balanced, Entries, Holders
<1> QED
  BY <1>1, <1>2, <1>3, <1>4, <1>5, <1>6, <1>7, <1>8, <1>9 DEF Next, ManagerStep, Quiescent

\* Until two operations on one workflow overlap, no path through delegate() and
\* terminate() leaks a semaphore slot or returns one twice.
THEOREM SlotAccounting == Spec => []SlotsConserved
<1>1. Init => SlotInv
  <2> SUFFICES ASSUME Init PROVE Disciplined /\ Balanced
    BY InitTypeInv DEF SlotInv
  <2>1. Disciplined
    BY DEF Init, Disciplined, Suspended
  <2>2. Entries = {} /\ Holders = {}
    BY DEF Init, Entries, Holders
  <2> QED
    BY <2>1, <2>2, FS_EmptySet, DelegationConstants DEF Init, Balanced
<1>2. SlotInv => SlotsConserved
  BY DEF SlotInv, SlotsConserved
<1> QED
  BY <1>1, <1>2, NextSlotInv, PTL DEF Spec
=============================================================================
