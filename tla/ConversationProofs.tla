-------------------------- MODULE ConversationProofs --------------------------
(***************************************************************************)
(* Machine-checked proofs about Conversation, for any number of messages,  *)
(* clicks and threads, any history cap and any number of refused calls.    *)
(***************************************************************************)
EXTENDS Conversation, FiniteSetTheorems, SequenceTheorems, TLAPS

-----------------------------------------------------------------------------
(* Types *)

\* A task at work knows its thread, a turn being run or paused its message, and
\* a prompt that was posted the thread it is in.
Threaded == \A t \in Tasks : pc[t] \notin {"idle", "done"} => key[t] \in Keys

Originated ==
  /\ \A t \in Tasks : pc[t] \in {"execute", "run"} => origin[t] \in Messages
  /\ \A k \in Keys : pending[k] # None => origin[pending[k]] \in Messages

Posted ==
  /\ \A t \in Tasks : prompt[t] # "none" => posted_in[t] \in Keys
  /\ \A t \in Tasks : clicked[t] # None => prompt[clicked[t]] # "none"
  /\ \A t \in Tasks : prior[t] # None => prompt[prior[t]] # "none"
  /\ \A k \in Keys : live[k] # None => prompt[live[k]] # "none"

MessagesAct ==
  /\ \A t \in Messages : action[t] = "none"
  /\ \A t \in Clicks : pc[t] # "idle" /\ action[t] = "none" => pc[t] = "done"

TypeInv == TypeOK /\ Threaded /\ Originated /\ Posted /\ MessagesAct

LEMMA InitTypeInv == Init => TypeInv
BY ConversationConstants DEF Init, TypeInv, TypeOK, TaskTypes, SlackTypes, TurnTypes,
    Threaded, Originated, Posted,
   MessagesAct, Tasks, Responses, Fates

\* What commit_turn does to the history of its thread, and to no other.
LEMMA CommitTurn ==
  ASSUME NEW k \in Keys, NEW m \in Messages, history \in [Keys -> Seq(Messages)],
         commit_turn(k, m)
  PROVE  /\ history' \in [Keys -> Seq(Messages)]
         /\ \A j \in Keys : \A i \in 1..Len(history'[j]) :
              \/ j = k /\ history'[j][i] = m
              \/ \E h \in 1..Len(history[j]) : history[j][h] = history'[j][i]
         /\ \A j \in Keys \ {k} : history'[j] = history[j]
         /\ IsInjective(history[k]) /\ ~ Contains(history[k], m)
              => IsInjective(history'[k])
<1> DEFINE all == Append(history[k], m)
<1>1. /\ all \in Seq(Messages) /\ Len(all) = Len(history[k]) + 1
      /\ Len(history[k]) \in Nat /\ history[k] \in Seq(Messages)
      /\ \A i \in 1..Len(history[k]) : all[i] = history[k][i]
      /\ all[Len(history[k]) + 1] = m
  BY AppendProperties
<1>2. /\ Tail(all) \in Seq(Messages) /\ Len(Tail(all)) = Len(history[k])
      /\ \A i \in 1..Len(Tail(all)) : Tail(all)[i] = all[i + 1]
  BY <1>1
<1>3. history'[k] \in {all, Tail(all)} /\ DOMAIN history' = Keys
      /\ \A j \in Keys \ {k} : history'[j] = history[j]
  BY DEF commit_turn
<1> HIDE DEF all
<1>4. history' \in [Keys -> Seq(Messages)]
  BY <1>1, <1>2, <1>3 DEF commit_turn, all
<1>5. ASSUME NEW i \in 1..Len(history'[k])
      PROVE  \/ history'[k][i] = m
             \/ \E h \in 1..Len(history[k]) : history[k][h] = history'[k][i]
  <2>1. CASE history'[k] = all
    BY <1>1, <1>5, <2>1
  <2>2. CASE history'[k] = Tail(all)
    <3>1. history'[k][i] = all[i + 1] /\ i + 1 \in 2..(Len(history[k]) + 1)
      BY <1>1, <1>2, <1>5, <2>2
    <3> QED
      BY <1>1, <3>1
  <2> QED
    BY <1>3, <2>1, <2>2
<1>6. ASSUME IsInjective(history[k]), ~ Contains(history[k], m)
      PROVE  IsInjective(history'[k])
  <2>1. \A i, h \in 1..Len(all) : all[i] = all[h] => i = h
    <3> TAKE i, h \in 1..Len(all)
    <3>1. /\ i \in 1..Len(history[k]) \/ i = Len(history[k]) + 1
          /\ h \in 1..Len(history[k]) \/ h = Len(history[k]) + 1
      BY <1>1
    <3>2. DOMAIN history[k] = 1..Len(history[k])
      BY <1>1
    <3> QED
      BY <1>1, <1>6, <3>1, <3>2 DEF IsInjective, Contains
  <2>2. DOMAIN history'[k] = 1..Len(history'[k])
    BY <1>4
  <2>3. CASE history'[k] = all
    BY <2>1, <2>2, <2>3 DEF IsInjective
  <2>4. CASE history'[k] = Tail(all)
    BY <1>1, <1>2, <2>1, <2>2, <2>4 DEF IsInjective
  <2> QED
    BY <1>3, <2>3, <2>4
<1> QED
  BY <1>3, <1>4, <1>5, <1>6

\* Settling an approval touches no other, and "no approval" none at all.
LEMMA RecordedFate ==
  ASSUME fate \in [Tasks -> Seq(Fates)], NEW a \in Tasks \cup {None}, NEW w \in Fates,
         fate' = Recorded(fate, a, w)
  PROVE  /\ fate' \in [Tasks -> Seq(Fates)]
         /\ \A t \in Tasks : t # a => fate'[t] = fate[t]
         /\ a \in Tasks => fate'[a] = Append(fate[a], w)
<1>1. CASE a = None
  BY <1>1, ConversationConstants DEF Recorded
<1>2. CASE a \in Tasks
  <2>1. Append(fate[a], w) \in Seq(Fates)
    BY <1>2, AppendProperties
  <2> QED
    BY <1>2, <2>1, ConversationConstants DEF Recorded
<1> QED
  BY <1>1, <1>2

LEMMA NextTypeInv == TypeInv /\ [Next]_vars => TypeInv'
<1> SUFFICES ASSUME TypeInv, [Next]_vars PROVE TypeInv'
  OBVIOUS
<1>0. TaskTypes /\ SlackTypes /\ TurnTypes /\ Threaded /\ Originated /\ Posted /\ MessagesAct
  BY DEF TypeInv, TypeOK
<1>1. ASSUME NEW t \in Messages, NEW k \in Threads, MessageArrives(t, k)
      PROVE  TypeInv'
  <2> USE <1>0, <1>1, ConversationConstants DEF Tasks, Keys, MessageArrives, Goto, slack, turns
  <2>1. TaskTypes'
    BY DEF TaskTypes, SlackTypes, TurnTypes, Posted, Responses
  <2>2. SlackTypes'
    BY DEF TaskTypes, SlackTypes, Posted, Threaded
  <2>3. TurnTypes'
    BY DEF TaskTypes, TurnTypes, Originated, Threaded, Fates
  <2>4. Threaded' /\ MessagesAct'
    BY DEF TaskTypes, SlackTypes, Threaded, MessagesAct, Posted
  <2>5. Originated'
    BY DEF TaskTypes, TurnTypes, Originated, Threaded, MessagesAct
  <2>6. Posted'
    BY DEF TaskTypes, SlackTypes, Posted, Threaded
  <2> QED
    BY <2>1, <2>2, <2>3, <2>4, <2>5, <2>6 DEF TypeInv, TypeOK
<1>2. ASSUME NEW t \in Clicks, NEW p \in Tasks, NEW a \in {"approve", "deny"},
             ClickArrives(t, p, a)
      PROVE  TypeInv'
  <2> USE <1>0, <1>2, ConversationConstants DEF Tasks, Keys, ClickArrives, ClickAdmitted,
      Goto, turns
  <2>1. TaskTypes'
    BY DEF TaskTypes, SlackTypes, TurnTypes, Posted, Responses
  <2>2. SlackTypes'
    BY DEF TaskTypes, SlackTypes, Posted, Threaded
  <2>3. TurnTypes'
    BY DEF TaskTypes, TurnTypes, Originated, Threaded, Fates
  <2>4. Threaded' /\ MessagesAct'
    BY DEF TaskTypes, SlackTypes, Threaded, MessagesAct, Posted
  <2>5. Originated'
    BY DEF TaskTypes, TurnTypes, Originated, Threaded, MessagesAct
  <2>6. Posted'
    BY DEF TaskTypes, SlackTypes, Posted, Threaded
  <2> QED
    BY <2>1, <2>2, <2>3, <2>4, <2>5, <2>6 DEF TypeInv, TypeOK
<1>3. ASSUME NEW t \in Clicks, NEW p \in Tasks, ClickDropped(t, p)
      PROVE  TypeInv'
  <2> USE <1>0, <1>3, ConversationConstants DEF Tasks, Keys, ClickDropped, Goto, slack, turns
  <2>1. TaskTypes'
    BY DEF TaskTypes, SlackTypes, TurnTypes, Posted, Responses
  <2>2. SlackTypes'
    BY DEF TaskTypes, SlackTypes, Posted, Threaded
  <2>3. TurnTypes'
    BY DEF TaskTypes, TurnTypes, Originated, Threaded, Fates
  <2>4. Threaded' /\ MessagesAct'
    BY DEF TaskTypes, SlackTypes, Threaded, MessagesAct, Posted
  <2>5. Originated'
    BY DEF TaskTypes, TurnTypes, Originated, Threaded, MessagesAct
  <2>6. Posted'
    BY DEF TaskTypes, SlackTypes, Posted, Threaded
  <2> QED
    BY <2>1, <2>2, <2>3, <2>4, <2>5, <2>6 DEF TypeInv, TypeOK
<1>4. ASSUME NEW t \in Tasks, Consumed(t)
      PROVE  TypeInv'
  <2> USE <1>0, <1>4, ConversationConstants DEF Tasks, Keys, Consumed, ReplaceButtons,
      SlackAccepts, SlackRefuses, Goto, local, turns
  <2>1. TaskTypes'
    BY DEF TaskTypes, SlackTypes, TurnTypes, Posted, Responses
  <2>2. SlackTypes'
    BY DEF TaskTypes, SlackTypes, Posted, Threaded
  <2>3. TurnTypes'
    BY DEF TaskTypes, TurnTypes, Originated, Threaded, Fates
  <2>4. Threaded' /\ MessagesAct'
    BY DEF TaskTypes, SlackTypes, Threaded, MessagesAct, Posted
  <2>5. Originated'
    BY DEF TaskTypes, TurnTypes, Originated, Threaded, MessagesAct
  <2>6. Posted'
    BY DEF TaskTypes, SlackTypes, Posted, Threaded
  <2> QED
    BY <2>1, <2>2, <2>3, <2>4, <2>5, <2>6 DEF TypeInv, TypeOK
<1>5. ASSUME NEW t \in Tasks, Thinking(t)
      PROVE  TypeInv'
  <2> USE <1>0, <1>5, ConversationConstants DEF Tasks, Keys, Thinking, SlackAccepts,
          SlackRefuses, Goto
  <2>1. pc[t] = "thinking" /\ key[t] \in Keys /\ pending[key[t]] \in Tasks \cup {None}
    BY DEF TaskTypes, TurnTypes, Threaded
  <2>f. ASSUME NEW w \in Fates, fate' = Recorded(fate, pending[key[t]], w)
        PROVE  fate' \in [Tasks -> Seq(Fates)]
    BY <2>1, <2>f, RecordedFate DEF TurnTypes
  <2>2. SlackTypes'
    BY DEF SlackTypes
  <2>6. Posted'
    BY DEF SlackTypes, Posted
  <2> USE <2>1
  <2>3. CASE HandleMessage(t)
    <3> USE <2>3
    <3>0. /\ t \in Messages /\ fate' = Recorded(fate, pending[key[t]], "cleared")
          /\ pending' = [pending EXCEPT ![key[t]] = None]
          /\ origin' = [origin EXCEPT ![t] = t]
          /\ pc' = [pc EXCEPT ![t] = "run"] /\ UNCHANGED history
      BY DEF HandleMessage, PopPending, MessagesAct
    <3>1. TaskTypes'
      BY DEF TaskTypes, TurnTypes, Responses, HandleMessage, PopPending
    <3>2. TurnTypes'
      BY <3>0, <2>f DEF TurnTypes, Fates
    <3>3. Threaded' /\ MessagesAct'
      BY DEF TaskTypes, Threaded, MessagesAct, HandleMessage, PopPending
    <3>4. Originated'
      BY <3>0 DEF TaskTypes, TurnTypes, Originated
    <3> QED
      BY <2>2, <2>6, <3>1, <3>2, <3>3, <3>4 DEF TypeInv, TypeOK
  <2>4. CASE HandleApprove(t) /\ pending[key[t]] # None
    <3> USE <2>4
    <3>0. /\ origin[pending[key[t]]] \in Messages
          /\ fate' = Recorded(fate, pending[key[t]], "executed")
          /\ pending' = [pending EXCEPT ![key[t]] = None]
          /\ origin' = [origin EXCEPT ![t] = origin[pending[key[t]]]]
          /\ pc' = [pc EXCEPT ![t] = "execute"] /\ UNCHANGED history
      BY DEF HandleApprove, PopPending, Originated
    <3>1. TaskTypes'
      BY DEF TaskTypes, TurnTypes, Responses, HandleApprove, PopPending
    <3>2. TurnTypes'
      BY <3>0, <2>f DEF TurnTypes, Fates
    <3>3. Threaded' /\ MessagesAct'
      BY DEF TaskTypes, Threaded, MessagesAct, HandleApprove, PopPending
    <3>4. Originated'
      BY <3>0 DEF TaskTypes, TurnTypes, Originated
    <3> QED
      BY <2>2, <2>6, <3>1, <3>2, <3>3, <3>4 DEF TypeInv, TypeOK
  <2>5. CASE HandleDeny(t) /\ pending[key[t]] # None
    <3> USE <2>5
    <3>0. /\ fate' = Recorded(fate, pending[key[t]], "denied")
          /\ pending' = [pending EXCEPT ![key[t]] = None]
          /\ pc' = [pc EXCEPT ![t] = "respond"] /\ UNCHANGED <<history, origin>>
      BY DEF HandleDeny, PopPending
    <3>1. TaskTypes'
      BY DEF TaskTypes, TurnTypes, Responses, HandleDeny, PopPending
    <3>2. TurnTypes'
      BY <3>0, <2>f DEF TurnTypes, Fates
    <3>3. Threaded' /\ MessagesAct'
      BY DEF TaskTypes, Threaded, MessagesAct, HandleDeny, PopPending
    <3>4. Originated'
      BY <3>0 DEF TaskTypes, TurnTypes, Originated
    <3> QED
      BY <2>2, <2>6, <3>1, <3>2, <3>3, <3>4 DEF TypeInv, TypeOK
  <2>7. CASE (HandleApprove(t) \/ HandleDeny(t)) /\ pending[key[t]] = None
    <3> USE <2>7
    <3>1. TaskTypes'
      BY DEF TaskTypes, TurnTypes, Responses, HandleApprove, HandleDeny, turns
    <3>2. TurnTypes'
      BY <2>f DEF TaskTypes, TurnTypes, Originated, Fates, HandleApprove, HandleDeny, turns
    <3>3. Threaded' /\ MessagesAct'
      BY DEF TaskTypes, Threaded, MessagesAct, HandleApprove, HandleDeny, turns
    <3>4. Originated'
      BY DEF TaskTypes, TurnTypes, Originated, Threaded, MessagesAct, HandleApprove,
          HandleDeny, turns
    <3> QED
      BY <2>2, <2>6, <3>1, <3>2, <3>3, <3>4 DEF TypeInv, TypeOK
  <2> QED
    BY <2>3, <2>4, <2>5, <2>7
<1>6. ASSUME NEW t \in Tasks, Executed(t)
      PROVE  TypeInv'
  <2> USE <1>0, <1>6, ConversationConstants DEF Tasks, Keys, Executed, Goto, local, slack, turns
  <2>1. TaskTypes'
    BY DEF TaskTypes, SlackTypes, TurnTypes, Posted, Responses
  <2>2. SlackTypes'
    BY DEF TaskTypes, SlackTypes, Posted, Threaded
  <2>3. TurnTypes'
    BY DEF TaskTypes, TurnTypes, Originated, Threaded, Fates
  <2>4. Threaded' /\ MessagesAct'
    BY DEF TaskTypes, SlackTypes, Threaded, MessagesAct, Posted
  <2>5. Originated'
    BY DEF TaskTypes, TurnTypes, Originated, Threaded, MessagesAct
  <2>6. Posted'
    BY DEF TaskTypes, SlackTypes, Posted, Threaded
  <2> QED
    BY <2>1, <2>2, <2>3, <2>4, <2>5, <2>6 DEF TypeInv, TypeOK
<1>7. ASSUME NEW t \in Tasks, RunEnds(t)
      PROVE  TypeInv'
  <2> USE <1>0, <1>7, ConversationConstants DEF Tasks, Keys, RunEnds, Goto, local, slack
  <2>1. TaskTypes'
    BY DEF TaskTypes, SlackTypes, TurnTypes, Posted, Responses
  <2>2. SlackTypes'
    BY DEF TaskTypes, SlackTypes, Posted, Threaded
  <2>3. TurnTypes'
    <3>1. key[t] \in Keys /\ origin[t] \in Messages
      BY DEF TaskTypes, Threaded, Originated
    <3>2. history' \in [Keys -> Seq(Messages)]
      BY <3>1, CommitTurn DEF TurnTypes
    <3> QED
      BY <3>2 DEF TurnTypes
  <2>4. Threaded' /\ MessagesAct'
    BY DEF TaskTypes, SlackTypes, Threaded, MessagesAct, Posted
  <2>5. Originated'
    BY DEF TaskTypes, TurnTypes, Originated, Threaded, MessagesAct
  <2>6. Posted'
    BY DEF TaskTypes, SlackTypes, Posted, Threaded
  <2> QED
    BY <2>1, <2>2, <2>3, <2>4, <2>5, <2>6 DEF TypeInv, TypeOK
<1>8. ASSUME NEW t \in Tasks, RunPauses(t)
      PROVE  TypeInv'
  <2> USE <1>0, <1>8, ConversationConstants DEF Tasks, Keys, RunPauses, Paused, Goto
  <2>0. key[t] \in Keys /\ pending[key[t]] \in Tasks \cup {None}
    BY DEF TaskTypes, TurnTypes, Threaded
  <2>1. TaskTypes'
    BY <2>0 DEF TaskTypes, SlackTypes, Responses
  <2>2. SlackTypes'
    BY DEF TaskTypes, SlackTypes, Posted, Threaded
  <2>3. TurnTypes'
    BY <2>0, RecordedFate DEF TurnTypes, Fates
  <2>4. Threaded' /\ MessagesAct'
    BY DEF TaskTypes, SlackTypes, Threaded, MessagesAct, Posted
  <2>5. Originated'
    BY DEF TaskTypes, TurnTypes, Originated, Threaded, MessagesAct
  <2>6. Posted'
    BY DEF TaskTypes, SlackTypes, Posted, Threaded
  <2> QED
    BY <2>1, <2>2, <2>3, <2>4, <2>5, <2>6 DEF TypeInv, TypeOK
<1>9. ASSUME NEW t \in Tasks, RunFails(t)
      PROVE  TypeInv'
  <2> USE <1>0, <1>9, ConversationConstants DEF Tasks, Keys, RunFails, RateLimited, Goto,
      local, turns
  <2>1. TaskTypes'
    BY DEF TaskTypes, SlackTypes, TurnTypes, Posted, Responses
  <2>2. SlackTypes'
    <3>1. (~ RateLimited(Len(errors))) \in BOOLEAN
      OBVIOUS
    <3>2. Append(errors, ~ RateLimited(Len(errors))) \in Seq(BOOLEAN)
      BY <3>1, AppendProperties DEF SlackTypes
    <3> QED
      BY <3>2 DEF SlackTypes
  <2>3. TurnTypes'
    BY DEF TaskTypes, TurnTypes, Originated, Threaded, Fates
  <2>4. Threaded' /\ MessagesAct'
    <3>1. PICK p \in {"delete", "respond"} : pc' = [pc EXCEPT ![t] = p]
      OBVIOUS
    <3> QED
      BY <3>1 DEF TaskTypes, Threaded, MessagesAct
  <2>5. Originated'
    BY DEF TaskTypes, TurnTypes, Originated, Threaded, MessagesAct
  <2>6. Posted'
    BY DEF TaskTypes, SlackTypes, Posted, Threaded
  <2> QED
    BY <2>1, <2>2, <2>3, <2>4, <2>5, <2>6 DEF TypeInv, TypeOK
<1>10. ASSUME NEW t \in Tasks, ResumedRunRaises(t)
      PROVE  TypeInv'
  <2> USE <1>0, <1>10, ConversationConstants DEF Tasks, Keys, ResumedRunRaises, Leave,
      Goto, local, turns
  <2>1. TaskTypes'
    BY DEF TaskTypes, SlackTypes, TurnTypes, Posted, Responses
  <2>2. SlackTypes'
    BY DEF TaskTypes, SlackTypes, Posted, Threaded
  <2>3. TurnTypes'
    BY DEF TaskTypes, TurnTypes, Originated, Threaded, Fates
  <2>4. Threaded' /\ MessagesAct'
    BY DEF TaskTypes, SlackTypes, Threaded, MessagesAct, Posted
  <2>5. Originated'
    BY DEF TaskTypes, TurnTypes, Originated, Threaded, MessagesAct
  <2>6. Posted'
    BY DEF TaskTypes, SlackTypes, Posted, Threaded
  <2> QED
    BY <2>1, <2>2, <2>3, <2>4, <2>5, <2>6 DEF TypeInv, TypeOK
<1>11. ASSUME WindowPasses
      PROVE  TypeInv'
  <2> USE <1>0, <1>11, ConversationConstants DEF Tasks, Keys, WindowPasses, local, turns
  <2>1. TaskTypes'
    BY DEF TaskTypes, SlackTypes, TurnTypes, Posted, Responses
  <2>2. SlackTypes'
    BY DEF TaskTypes, SlackTypes, Posted, Threaded
  <2>3. TurnTypes'
    BY DEF TaskTypes, TurnTypes, Originated, Threaded, Fates
  <2>4. Threaded' /\ MessagesAct'
    BY DEF TaskTypes, SlackTypes, Threaded, MessagesAct, Posted
  <2>5. Originated'
    BY DEF TaskTypes, TurnTypes, Originated, Threaded, MessagesAct
  <2>6. Posted'
    BY DEF TaskTypes, SlackTypes, Posted, Threaded
  <2> QED
    BY <2>1, <2>2, <2>3, <2>4, <2>5, <2>6 DEF TypeInv, TypeOK
<1>12. ASSUME NEW t \in Tasks, Deleted(t)
      PROVE  TypeInv'
  <2> USE <1>0, <1>12, ConversationConstants DEF Tasks, Keys, Deleted, SlackAccepts,
      SlackRefuses, Leave, Goto, local, turns
  <2>1. TaskTypes'
    BY DEF TaskTypes, SlackTypes, TurnTypes, Posted, Responses
  <2>2. SlackTypes'
    BY DEF TaskTypes, SlackTypes, Posted, Threaded
  <2>3. TurnTypes'
    BY DEF TaskTypes, TurnTypes, Originated, Threaded, Fates
  <2>4. Threaded' /\ MessagesAct'
    BY DEF TaskTypes, SlackTypes, Threaded, MessagesAct, Posted
  <2>5. Originated'
    BY DEF TaskTypes, TurnTypes, Originated, Threaded, MessagesAct
  <2>6. Posted'
    BY DEF TaskTypes, SlackTypes, Posted, Threaded
  <2> QED
    BY <2>1, <2>2, <2>3, <2>4, <2>5, <2>6 DEF TypeInv, TypeOK
<1>13. ASSUME NEW t \in Tasks, Superseded(t)
      PROVE  TypeInv'
  <2> USE <1>0, <1>13, ConversationConstants DEF Tasks, Keys, Superseded, ReplaceButtons,
      SlackAccepts, SlackRefuses, Goto, local, turns
  <2>1. TaskTypes'
    BY DEF TaskTypes, SlackTypes, TurnTypes, Posted, Responses
  <2>2. SlackTypes'
    BY DEF TaskTypes, SlackTypes, Posted, Threaded
  <2>3. TurnTypes'
    BY DEF TaskTypes, TurnTypes, Originated, Threaded, Fates
  <2>4. Threaded' /\ MessagesAct'
    BY DEF TaskTypes, SlackTypes, Threaded, MessagesAct, Posted
  <2>5. Originated'
    BY DEF TaskTypes, TurnTypes, Originated, Threaded, MessagesAct
  <2>6. Posted'
    BY DEF TaskTypes, SlackTypes, Posted, Threaded
  <2> QED
    BY <2>1, <2>2, <2>3, <2>4, <2>5, <2>6 DEF TypeInv, TypeOK
<1>14. ASSUME NEW t \in Tasks, Responds(t)
      PROVE  TypeInv'
  <2> USE <1>0, <1>14, ConversationConstants DEF Tasks, Keys, Responds, Show, SlackAccepts,
      SlackRefuses, Goto, local, turns
  <2>1. TaskTypes'
    BY DEF TaskTypes, SlackTypes, TurnTypes, Posted, Responses
  <2>2. SlackTypes'
    <3>1. refusals' \in 0..MaxRefusals
      BY DEF SlackTypes
    <3>2. key[t] \in Keys
      BY DEF TaskTypes, Threaded
    <3> QED
      BY <3>1, <3>2 DEF SlackTypes
  <2>3. TurnTypes'
    BY DEF TaskTypes, TurnTypes, Originated, Threaded, Fates
  <2>4. Threaded' /\ MessagesAct'
    BY DEF TaskTypes, SlackTypes, Threaded, MessagesAct, Posted
  <2>5. Originated'
    BY DEF TaskTypes, TurnTypes, Originated, Threaded, MessagesAct
  <2>6. Posted'
    BY DEF TaskTypes, SlackTypes, Posted, Threaded
  <2> QED
    BY <2>1, <2>2, <2>3, <2>4, <2>5, <2>6 DEF TypeInv, TypeOK
<1>15. ASSUME NEW t \in Tasks, Records(t)
      PROVE  TypeInv'
  <2> USE <1>0, <1>15, ConversationConstants DEF Tasks, Keys, Records, Leave, Goto, local, turns
  <2>1. TaskTypes'
    BY DEF TaskTypes, SlackTypes, TurnTypes, Posted, Responses
  <2>2. SlackTypes'
    BY DEF TaskTypes, SlackTypes, Posted, Threaded
  <2>3. TurnTypes'
    BY DEF TaskTypes, TurnTypes, Originated, Threaded, Fates
  <2>4. Threaded' /\ MessagesAct'
    BY DEF TaskTypes, SlackTypes, Threaded, MessagesAct, Posted
  <2>5. Originated'
    BY DEF TaskTypes, TurnTypes, Originated, Threaded, MessagesAct
  <2>6. Posted'
    BY DEF TaskTypes, SlackTypes, Posted, Threaded
  <2> QED
    BY <2>1, <2>2, <2>3, <2>4, <2>5, <2>6 DEF TypeInv, TypeOK
<1>u. CASE UNCHANGED vars
  BY <1>0, <1>u DEF vars, local, slack, turns, TypeInv, TypeOK, TaskTypes, SlackTypes,
      TurnTypes, Threaded, Originated, Posted, MessagesAct
<1> QED
  BY <1>1, <1>2, <1>3, <1>4, <1>5, <1>6, <1>7, <1>8, <1>9, <1>10, <1>11, <1>12, <1>13,
      <1>14, <1>15, <1>u DEF Next, Progress, Quiet

\* Every variable of the connector and of the orchestrator keeps its type.
THEOREM TypeCorrect == Spec => []TypeOK
<1>1. TypeInv => TypeOK
  BY DEF TypeInv
<1> QED
  BY <1>1, InitTypeInv, NextTypeInv, PTL DEF Spec

-----------------------------------------------------------------------------
(* Approvals are settled once *)

\* A task before the end of its run.
Early == {"idle", "consume", "thinking", "execute", "run"}

\* The approval pending in a thread was raised by a finished run of that thread,
\* and neither it nor an approval that is still to be raised is settled.
PendingOpen ==
  \A k \in Keys : pending[k] # None =>
    key[pending[k]] = k /\ fate[pending[k]] = <<>> /\ pc[pending[k]] \notin Early

EarlyOpen == \A t \in Tasks : pc[t] \in Early => fate[t] = <<>>

SettleInv == PendingOpen /\ EarlyOpen /\ SettledOnce

LEMMA InitSettleInv == Init => SettleInv
BY ConversationConstants DEF Init, SettleInv, PendingOpen, EarlyOpen, SettledOnce, Tasks

\* Settling the approval of a thread.
LEMMA PopSettles ==
  ASSUME TypeInv, SettleInv, NEW k \in Keys, NEW w \in Fates,
         fate' = Recorded(fate, pending[k], w)
  PROVE  /\ SettledOnce'
         /\ \A t \in Tasks : t # pending[k] => fate'[t] = fate[t]
<1>1. /\ fate \in [Tasks -> Seq(Fates)] /\ pending[k] \in Tasks \cup {None}
      /\ \A t \in Tasks : Len(fate[t]) <= 1
      /\ pending[k] # None => fate[pending[k]] = <<>>
  BY DEF TypeInv, TypeOK, TurnTypes, SettleInv, SettledOnce, PendingOpen
<1>2. /\ \A t \in Tasks : t # pending[k] => fate'[t] = fate[t]
      /\ pending[k] \in Tasks => fate'[pending[k]] = Append(fate[pending[k]], w)
  BY <1>1, RecordedFate
<1>3. pending[k] \in Tasks => Len(fate'[pending[k]]) = 1
  <2> SUFFICES ASSUME pending[k] \in Tasks PROVE Len(fate'[pending[k]]) = 1
    OBVIOUS
  <2>1. fate[pending[k]] = <<>> /\ fate[pending[k]] \in Seq(Fates)
    BY <1>1, ConversationConstants
  <2>2. Len(Append(fate[pending[k]], w)) = Len(fate[pending[k]]) + 1
    BY <2>1, AppendProperties
  <2>3. Len(fate[pending[k]]) = 0
    BY <2>1
  <2>4. fate'[pending[k]] = Append(fate[pending[k]], w)
    BY <1>2
  <2> QED
    BY <2>2, <2>3, <2>4
<1> QED
  BY <1>1, <1>2, <1>3 DEF SettledOnce

LEMMA NextSettleInv == TypeInv /\ SettleInv /\ [Next]_vars => SettleInv'
<1> SUFFICES ASSUME TypeInv, SettleInv, [Next]_vars PROVE SettleInv'
  OBVIOUS
<1>0. /\ TaskTypes /\ TurnTypes /\ Threaded
      /\ PendingOpen /\ EarlyOpen /\ SettledOnce
  BY DEF TypeInv, TypeOK, SettleInv
<1>q. ASSUME NEW t \in Tasks, NEW p, pc' = [pc EXCEPT ![t] = p],
             pc[t] \in Early \/ p \notin Early, UNCHANGED <<pending, fate>>,
             \A u \in Tasks : key'[u] # key[u] => pc[u] = "idle"
      PROVE  SettleInv'
  BY <1>0, <1>q DEF TaskTypes, TurnTypes, PendingOpen, EarlyOpen, SettledOnce, SettleInv,
     Early
<1>1. ASSUME NEW t \in Messages, NEW k \in Threads, MessageArrives(t, k)
      PROVE  SettleInv'
  BY <1>0, <1>1, <1>q DEF MessageArrives, Goto, turns, Tasks, Early, TaskTypes
<1>2. ASSUME NEW t \in Clicks, NEW p \in Tasks, NEW a \in {"approve", "deny"},
             ClickArrives(t, p, a)
      PROVE  SettleInv'
  BY <1>0, <1>2, <1>q DEF ClickArrives, Goto, turns, Tasks, Early, TaskTypes
<1>3. ASSUME NEW t \in Clicks, NEW p \in Tasks, ClickDropped(t, p)
      PROVE  SettleInv'
  BY <1>3, <1>q DEF ClickDropped, Goto, turns, Tasks, Early
<1>4. ASSUME NEW t \in Tasks, Consumed(t) \/ Executed(t)
      PROVE  SettleInv'
  BY <1>4, <1>q DEF Consumed, Executed, Goto, turns, local, Early
<1>5. ASSUME NEW t \in Tasks, Thinking(t)
      PROVE  SettleInv'
  <2>1. pc[t] = "thinking" /\ key[t] \in Keys /\ UNCHANGED key
    BY <1>0, <1>5 DEF Thinking, Threaded
  <2>2. ASSUME NEW w \in Fates, NEW p, PopPending(key[t], w), pc' = [pc EXCEPT ![t] = p]
        PROVE  SettleInv'
    <3>1. SettledOnce' /\ \A u \in Tasks : u # pending[key[t]] => fate'[u] = fate[u]
      BY <2>1, <2>2, PopSettles DEF PopPending
    <3>2. pending' = [pending EXCEPT ![key[t]] = None]
      BY <2>2 DEF PopPending
    <3>3. PendingOpen'
      BY <1>0, <2>1, <2>2, <3>1, <3>2, ConversationConstants
      DEF PendingOpen, TaskTypes, TurnTypes, Early
    <3>4. EarlyOpen'
      BY <1>0, <2>1, <2>2, <3>1, ConversationConstants
      DEF PendingOpen, EarlyOpen, TaskTypes, TurnTypes, Early
    <3> QED
      BY <3>1, <3>3, <3>4 DEF SettleInv
  <2>3. CASE HandleMessage(t)
    BY <2>2, <2>3 DEF HandleMessage, Goto, Fates
  <2>4. CASE HandleApprove(t) \/ HandleDeny(t)
    BY <1>q, <2>1, <2>2, <2>4 DEF HandleApprove, HandleDeny, Goto, Fates, turns, Early
  <2> QED
    BY <1>5, <2>3, <2>4 DEF Thinking
<1>6. ASSUME NEW t \in Tasks, RunEnds(t) \/ ResumedRunRaises(t)
      PROVE  SettleInv'
  BY <1>6, <1>q DEF RunEnds, ResumedRunRaises, Leave, Goto, turns, local, Early
<1>7. ASSUME NEW t \in Tasks, RunFails(t)
      PROVE  SettleInv'
  <2>1. PICK p \in {"delete", "respond"} : pc' = [pc EXCEPT ![t] = p]
    BY <1>7 DEF RunFails, Goto
  <2> QED
    BY <1>7, <1>q, <2>1 DEF RunFails, turns, local, Early
<1>8. ASSUME NEW t \in Tasks, RunPauses(t)
      PROVE  SettleInv'
  <2>1. /\ pc[t] = "run" /\ key[t] \in Keys /\ UNCHANGED key
        /\ pending' = [pending EXCEPT ![key[t]] = t]
        /\ fate' = Recorded(fate, pending[key[t]], "overwritten")
    BY <1>0, <1>8 DEF RunPauses, Threaded
  <2>2. PICK p \in {"supersede", "respond"} : pc' = [pc EXCEPT ![t] = p]
    BY <1>8 DEF RunPauses, Goto
  <2>3. SettledOnce' /\ \A u \in Tasks : u # pending[key[t]] => fate'[u] = fate[u]
    BY <2>1, PopSettles DEF Fates
  <2>4. PendingOpen'
    BY <1>0, <2>1, <2>2, <2>3, ConversationConstants
    DEF PendingOpen, EarlyOpen, TaskTypes, TurnTypes, Early
  <2>5. EarlyOpen'
    BY <1>0, <2>1, <2>2, <2>3, ConversationConstants
    DEF PendingOpen, EarlyOpen, TaskTypes, TurnTypes, Early
  <2> QED
    BY <2>3, <2>4, <2>5 DEF SettleInv
<1>9. ASSUME NEW t \in Tasks, Deleted(t) \/ Superseded(t) \/ Responds(t) \/ Records(t)
      PROVE  SettleInv'
  BY <1>9, <1>q DEF Deleted, Superseded, Responds, Records, Leave, Goto, turns, local, Early
<1>10. CASE WindowPasses \/ UNCHANGED vars
  BY <1>0, <1>10 DEF WindowPasses, vars, local, turns, SettleInv, PendingOpen, EarlyOpen,
     SettledOnce
<1> QED
  BY <1>1, <1>2, <1>3, <1>4, <1>5, <1>6, <1>7, <1>8, <1>9, <1>10 DEF Next, Progress, Quiet

\* An approval is executed, denied, cleared or overwritten at most once, for any
\* number of messages, clicks and threads: _pending_approvals.pop is atomic.
THEOREM ApprovalsSettledOnce == Spec => []SettledOnce
<1>1. SettleInv => SettledOnce
  BY DEF SettleInv
<1> QED
  BY <1>1, InitTypeInv, NextTypeInv, InitSettleInv, NextSettleInv, PTL DEF Spec
-----------------------------------------------------------------------------
(* The click guard *)

Busy(t) == t \in Clicks /\ pc[t] \notin {"idle", "done"}

\* The marked threads are those of the busy clicks, one each.
FlightInv ==
  /\ \A t \in Clicks : Busy(t) => key[t] \in in_flight
  /\ \A k \in in_flight : \E t \in Clicks : Busy(t) /\ key[t] = k
  /\ \A t, u \in Clicks : Busy(t) /\ Busy(u) /\ key[t] = key[u] => t = u

LEMMA InitFlightInv == Init => FlightInv
BY DEF Init, FlightInv, Busy, Tasks

LEMMA NextFlightInv == TypeInv /\ FlightInv /\ [Next]_vars => FlightInv'
<1> SUFFICES ASSUME TypeInv, FlightInv, [Next]_vars PROVE FlightInv'
  OBVIOUS
<1>0. /\ TaskTypes /\ SlackTypes /\ FlightInv
      /\ Messages \cap Clicks = {} /\ Clicks \subseteq Tasks
  BY ConversationConstants DEF TypeInv, TypeOK, Tasks
<1>q. ASSUME NEW t \in Tasks, NEW p, p \notin {"idle", "done"}, pc' = [pc EXCEPT ![t] = p],
             Busy(t) \/ t \in Messages, UNCHANGED in_flight,
             \A u \in Clicks : key'[u] = key[u]
      PROVE  FlightInv'
  <2>1. \A u \in Clicks : Busy(u)' <=> Busy(u)
    BY <1>0, <1>q DEF TaskTypes, Busy
  <2> QED
    BY <1>0, <1>q, <2>1 DEF FlightInv
<1>l. ASSUME NEW t \in Tasks, Leave(t), pc[t] \notin {"idle", "done"}, UNCHANGED key
      PROVE  FlightInv'
  <2>1. \A u \in Clicks : Busy(u)' <=> Busy(u) /\ u # t
    BY <1>0, <1>l DEF TaskTypes, Busy, Leave, Goto
  <2>2. CASE t \in Clicks
    <3>1. Busy(t) /\ in_flight' = in_flight \ {key[t]}
      BY <1>l, <2>2 DEF Busy, Leave
    <3> QED
      BY <1>0, <1>l, <2>1, <2>2, <3>1 DEF FlightInv
  <2>3. CASE t \notin Clicks
    BY <1>0, <1>l, <2>1, <2>3 DEF FlightInv, Leave
  <2> QED
    BY <2>2, <2>3
<1>1. ASSUME NEW t \in Messages, NEW k \in Threads, MessageArrives(t, k)
      PROVE  FlightInv'
  BY <1>0, <1>1, <1>q DEF MessageArrives, Goto, slack, Tasks, TaskTypes
<1>2. ASSUME NEW t \in Clicks, NEW p \in Tasks, NEW a \in {"approve", "deny"},
             ClickArrives(t, p, a)
      PROVE  FlightInv'
  <2>1. /\ posted_in[p] \notin in_flight /\ in_flight' = in_flight \cup {posted_in[p]}
        /\ key' = [key EXCEPT ![t] = posted_in[p]] /\ pc[t] = "idle"
        /\ pc' = [pc EXCEPT ![t] = "consume"]
    BY <1>2 DEF ClickArrives, ClickAdmitted, Goto
  <2>2. \A u \in Clicks : Busy(u)' <=> Busy(u) \/ u = t
    BY <1>0, <2>1 DEF TaskTypes, Busy
  <2>3. ~ Busy(t) /\ key'[t] = posted_in[p] /\ \A u \in Clicks \ {t} : key'[u] = key[u]
    BY <1>0, <2>1 DEF TaskTypes, Busy
  <2> QED
    BY <1>0, <2>1, <2>2, <2>3 DEF FlightInv
<1>3. ASSUME NEW t \in Clicks, NEW p \in Tasks, ClickDropped(t, p)
      PROVE  FlightInv'
  <2>1. \A u \in Clicks : Busy(u)' <=> Busy(u)
    BY <1>0, <1>3 DEF ClickDropped, Goto, TaskTypes, Busy
  <2> QED
    BY <1>0, <1>3, <2>1 DEF ClickDropped, slack, FlightInv
<1>4. ASSUME NEW t \in Tasks, Consumed(t) \/ Executed(t) \/ RunEnds(t) \/ Superseded(t)
                              \/ Responds(t)
      PROVE  FlightInv'
  BY <1>0, <1>4, <1>q
  DEF Consumed, Executed, RunEnds, Superseded, Responds, Goto, slack, local, Busy, Tasks
<1>5. ASSUME NEW t \in Tasks, Thinking(t)
      PROVE  FlightInv'
  <2>1. PICK p \in {"run", "delete", "execute", "respond"} : pc' = [pc EXCEPT ![t] = p]
    BY <1>5 DEF Thinking, HandleMessage, HandleApprove, HandleDeny, Goto
  <2> QED
    BY <1>0, <1>5, <1>q, <2>1 DEF Thinking, Busy, Tasks
<1>6. ASSUME NEW t \in Tasks, RunPauses(t) \/ RunFails(t)
      PROVE  FlightInv'
  <2>1. PICK p \in {"delete", "respond", "supersede"} : pc' = [pc EXCEPT ![t] = p]
    BY <1>6 DEF RunPauses, RunFails, Goto
  <2> QED
    BY <1>0, <1>6, <1>q, <2>1 DEF RunPauses, RunFails, Busy, Tasks, local
<1>7. ASSUME NEW t \in Tasks, ResumedRunRaises(t) \/ Deleted(t) \/ Records(t)
      PROVE  FlightInv'
  BY <1>7, <1>l DEF ResumedRunRaises, Deleted, Records, local
<1>8. CASE WindowPasses \/ UNCHANGED vars
  BY <1>0, <1>8 DEF WindowPasses, vars, local, slack, FlightInv, Busy
<1> QED
  BY <1>1, <1>2, <1>3, <1>4, <1>5, <1>6, <1>7, <1>8 DEF Next, Progress, Quiet

LEMMA FlightExact == FlightInv => InFlightExact
<1> SUFFICES ASSUME FlightInv, NEW k \in Keys
             PROVE  Cardinality({t \in Clicks : key[t] = k /\ pc[t] \notin {"idle", "done"}})
                      = (IF k \in in_flight THEN 1 ELSE 0)
  BY DEF InFlightExact
<1> DEFINE busy == {t \in Clicks : key[t] = k /\ pc[t] \notin {"idle", "done"}}
<1>1. CASE k \in in_flight
  <2>1. PICK t \in Clicks : Busy(t) /\ key[t] = k
    BY <1>1 DEF FlightInv
  <2>2. busy = {t}
    BY <2>1 DEF FlightInv, Busy
  <2> QED
    BY <1>1, <2>2, FS_Singleton
<1>2. CASE k \notin in_flight
  <2>1. busy = {}
    BY <1>2 DEF FlightInv, Busy
  <2> QED
    BY <1>2, <2>1, FS_EmptySet
<1> QED
  BY <1>1, <1>2

\* The in-flight mark of a thread is there exactly while one click of it is being
\* handled, whatever is refused or raised: no path leaves it behind.
THEOREM ClickGuardExact == Spec => []InFlightExact
BY InitTypeInv, NextTypeInv, InitFlightInv, NextFlightInv, FlightExact, PTL DEF Spec

-----------------------------------------------------------------------------
(* Placeholders *)

\* Before the handler starts there is no placeholder, and once the response was
\* sent it no longer says "Thinking...".
PlaceInv ==
  \A t \in Tasks :
    /\ pc[t] \in {"idle", "consume", "thinking"} => placeholder[t] = "none"
    /\ pc[t] = "record" => placeholder[t] # "shown"
    /\ pc[t] = "done" /\ placeholder[t] = "shown" => response[t] = "raised"

LEMMA NextPlaceInv == TypeInv /\ PlaceInv /\ [Next]_vars => PlaceInv'
<1> SUFFICES ASSUME TypeInv, PlaceInv, [Next]_vars PROVE PlaceInv'
  OBVIOUS
<1>0. TaskTypes /\ SlackTypes /\ PlaceInv
  BY DEF TypeInv, TypeOK
<1>1. ASSUME NEW t \in Messages, NEW k \in Threads, MessageArrives(t, k)
      PROVE  PlaceInv'
  BY <1>0, <1>1 DEF MessageArrives, Goto, slack, TaskTypes, SlackTypes, Tasks, PlaceInv
<1>2. ASSUME NEW t \in Clicks, NEW p \in Tasks, NEW a \in {"approve", "deny"},
             ClickArrives(t, p, a)
      PROVE  PlaceInv'
  BY <1>0, <1>2 DEF ClickArrives, Goto, TaskTypes, SlackTypes, Tasks, PlaceInv
<1>3. ASSUME NEW t \in Clicks, NEW p \in Tasks, ClickDropped(t, p)
      PROVE  PlaceInv'
  BY <1>0, <1>3 DEF ClickDropped, Goto, slack, TaskTypes, SlackTypes, Tasks, PlaceInv
<1>4. ASSUME NEW t \in Tasks, Consumed(t) \/ Executed(t) \/ RunEnds(t) \/ Superseded(t)
      PROVE  PlaceInv'
  BY <1>0, <1>4
  DEF Consumed, Executed, RunEnds, Superseded, Goto, slack, local, TaskTypes, SlackTypes,
      PlaceInv
<1>5. ASSUME NEW t \in Tasks, Thinking(t)
      PROVE  PlaceInv'
  <2>1. PICK p \in {"run", "delete", "execute", "respond"} : pc' = [pc EXCEPT ![t] = p]
    BY <1>5 DEF Thinking, HandleMessage, HandleApprove, HandleDeny, Goto
  <2>2. \A u \in Tasks \ {t} : placeholder'[u] = placeholder[u] /\ response'[u] = response[u]
    BY <1>0, <1>5
    DEF Thinking, SlackAccepts, SlackRefuses, HandleMessage, HandleApprove, HandleDeny,
        TaskTypes, SlackTypes
  <2> QED
    BY <1>0, <2>1, <2>2 DEF TaskTypes, PlaceInv
<1>6. ASSUME NEW t \in Tasks, RunPauses(t) \/ RunFails(t)
      PROVE  PlaceInv'
  <2>1. PICK p \in {"delete", "respond", "supersede"} : pc' = [pc EXCEPT ![t] = p]
    BY <1>6 DEF RunPauses, RunFails, Goto
  <2>2. UNCHANGED placeholder /\ \A u \in Tasks \ {t} : response'[u] = response[u]
    BY <1>0, <1>6 DEF RunPauses, RunFails, TaskTypes
  <2> QED
    BY <1>0, <2>1, <2>2 DEF TaskTypes, PlaceInv
<1>7. ASSUME NEW t \in Tasks, ResumedRunRaises(t)
      PROVE  PlaceInv'
  BY <1>0, <1>7 DEF ResumedRunRaises, Leave, Goto, TaskTypes, SlackTypes, PlaceInv
<1>8. ASSUME NEW t \in Tasks, Deleted(t) \/ Responds(t) \/ Records(t)
      PROVE  PlaceInv'
  BY <1>0, <1>8
  DEF Deleted, Responds, Records, Leave, Goto, TaskTypes, SlackTypes, PlaceInv
<1>9. CASE WindowPasses \/ UNCHANGED vars
  BY <1>0, <1>9 DEF WindowPasses, vars, slack, PlaceInv
<1> QED
  BY <1>1, <1>2, <1>3, <1>4, <1>5, <1>6, <1>7, <1>8, <1>9 DEF Next, Progress, Quiet

\* A handled request leaves no "Thinking..." message behind, unless Slack refused
\* the update or the deletion or the resumed run raised.
THEOREM PlaceholdersSettled == Spec => []NoForgottenPlaceholder
<1>1. Init => PlaceInv
  BY DEF Init, PlaceInv
<1>2. PlaceInv => NoForgottenPlaceholder
  BY DEF PlaceInv, NoForgottenPlaceholder
<1> QED
  BY <1>1, <1>2, InitTypeInv, NextTypeInv, NextPlaceInv, PTL DEF Spec
-----------------------------------------------------------------------------
(* Turns are committed once *)

\* A task that works on a turn, or holds it back with a pending approval.
Active(t) == pc[t] \in {"execute", "run"} \/ \E k \in Keys : pending[k] = t

Committed(m) == \E k \in Keys : Contains(history[k], m)

\* A message that has not reached the orchestrator.
Unhandled(m) == m \in Messages /\ pc[m] \in {"idle", "consume", "thinking"}

\* A turn is in one place: not begun, carried by one task, or committed.
TurnInv ==
  /\ \A k \in Keys : IsInjective(history[k])
  /\ \A t, u \in Tasks : Active(t) /\ Active(u) /\ origin[t] = origin[u] => t = u
  /\ \A t \in Tasks : Active(t) => ~ Committed(origin[t])
  /\ \A m \in Messages : Unhandled(m) => ~ Committed(m) /\ \A t \in Tasks : origin[t] # m

LEMMA InitTurnInv == Init => TurnInv
BY ConversationConstants
DEF Init, TurnInv, Active, Committed, Unhandled, Tasks, IsInjective, Contains

LEMMA NextTurnInv == TypeInv /\ SettleInv /\ TurnInv /\ [Next]_vars => TurnInv'
<1> SUFFICES ASSUME TypeInv, SettleInv, TurnInv, [Next]_vars PROVE TurnInv'
  OBVIOUS
<1>0. /\ TaskTypes /\ TurnTypes /\ Threaded /\ Originated /\ MessagesAct /\ PendingOpen
      /\ TurnInv /\ Messages \subseteq Tasks /\ Messages \cap Clicks = {} /\ None \notin Tasks
      /\ \A t \in Tasks : t \in Messages \/ t \in Clicks
  BY ConversationConstants DEF TypeInv, TypeOK, SettleInv, Tasks
<1>q. ASSUME NEW t \in Tasks, NEW p, pc' = [pc EXCEPT ![t] = p],
             p \in {"execute", "run"} => pc[t] \in {"execute", "run"},
             p \in {"idle", "consume", "thinking"} => pc[t] \in {"idle", "consume"},
             UNCHANGED <<pending, history, origin>>
      PROVE  TurnInv'
  <2>1. \A u \in Tasks : Active(u)' => Active(u)
    BY <1>0, <1>q DEF TaskTypes, Active
  <2>2. \A m \in Messages : Unhandled(m)' => Unhandled(m)
    BY <1>0, <1>q DEF TaskTypes, Unhandled
  <2>3. \A m : Committed(m)' <=> Committed(m)
    BY <1>q DEF Committed
  <2> QED
    BY <1>0, <1>q, <2>1, <2>2, <2>3 DEF TurnInv
<1>1. ASSUME NEW t \in Messages, NEW k \in Threads, MessageArrives(t, k)
      PROVE  TurnInv'
  BY <1>0, <1>1, <1>q DEF MessageArrives, Goto, turns
<1>2. ASSUME NEW t \in Clicks, NEW p \in Tasks, NEW a \in {"approve", "deny"},
             ClickArrives(t, p, a)
      PROVE  TurnInv'
  BY <1>2, <1>q DEF ClickArrives, Goto, turns, Tasks
<1>3. ASSUME NEW t \in Clicks, NEW p \in Tasks, ClickDropped(t, p)
      PROVE  TurnInv'
  BY <1>3, <1>q DEF ClickDropped, Goto, turns, Tasks
<1>4. ASSUME NEW t \in Tasks, Consumed(t)
      PROVE  TurnInv'
  BY <1>4, <1>q DEF Consumed, Goto, turns
<1>5. ASSUME NEW t \in Tasks, Thinking(t)
      PROVE  TurnInv'
  <2>1. pc[t] = "thinking" /\ key[t] \in Keys /\ pending[key[t]] \in Tasks \cup {None}
    BY <1>0, <1>5 DEF Thinking, Threaded, TaskTypes, TurnTypes
  <2>2. ~ Active(t)
    BY <1>0, <2>1 DEF Active, PendingOpen, Early
  <2>3. CASE HandleMessage(t)
    <3>1. /\ t \in Messages
          /\ pending' = [pending EXCEPT ![key[t]] = None]
          /\ origin' = [origin EXCEPT ![t] = t]
          /\ pc' = [pc EXCEPT ![t] = "run"] /\ UNCHANGED history
      BY <1>0, <2>1, <2>3 DEF HandleMessage, PopPending, Goto, MessagesAct
    <3>2. Unhandled(t)
      BY <2>1, <3>1 DEF Unhandled
    <3>3. \A u \in Tasks \ {t} : (Active(u)' => Active(u)) /\ origin'[u] = origin[u]
      BY <1>0, <2>1, <3>1 DEF Active, TaskTypes, TurnTypes
    <3>4. \A m \in Messages : Unhandled(m)' => Unhandled(m) /\ m # t
      BY <1>0, <2>1, <3>1 DEF Unhandled, TaskTypes
    <3>5. origin'[t] = t /\ \A m : Committed(m)' <=> Committed(m)
      BY <1>0, <3>1 DEF Committed, TurnTypes
    <3> QED
      BY <1>0, <2>2, <3>1, <3>2, <3>3, <3>4, <3>5 DEF TurnInv
  <2>4. CASE HandleApprove(t) /\ pending[key[t]] # None
    <3>a. PICK a \in Tasks : a = pending[key[t]]
      BY <2>1, <2>4
    <3>1. /\ pending' = [pending EXCEPT ![key[t]] = None]
          /\ origin' = [origin EXCEPT ![t] = origin[a]]
          /\ pc' = [pc EXCEPT ![t] = "execute"] /\ UNCHANGED history
      BY <2>4, <3>a DEF HandleApprove, PopPending, Goto
    <3>2. Active(a) /\ a # t /\ origin[a] \in Messages
      BY <1>0, <2>1, <2>2, <2>4, <3>a DEF Active, Originated
    <3>3. ~ Active(a)'
      BY <1>0, <2>1, <2>4, <3>a, <3>1, <3>2 DEF Active, PendingOpen, Early, TaskTypes, TurnTypes
    <3>4. \A u \in Tasks \ {t} : (Active(u)' => Active(u)) /\ origin'[u] = origin[u]
      BY <1>0, <2>1, <3>1 DEF Active, TaskTypes, TurnTypes
    <3>5. \A m \in Messages : Unhandled(m)' => Unhandled(m)
      BY <1>0, <2>1, <3>1 DEF Unhandled, TaskTypes
    <3>6. origin'[t] = origin[a] /\ \A m : Committed(m)' <=> Committed(m)
      BY <1>0, <3>1 DEF Committed, TurnTypes
    <3> QED
      BY <1>0, <2>2, <3>1, <3>2, <3>3, <3>4, <3>5, <3>6 DEF TurnInv
  <2>5. CASE HandleDeny(t) /\ pending[key[t]] # None
    <3>1. /\ pending' = [pending EXCEPT ![key[t]] = None]
          /\ pc' = [pc EXCEPT ![t] = "respond"] /\ UNCHANGED <<history, origin>>
      BY <2>5 DEF HandleDeny, PopPending, Goto
    <3>2. \A u \in Tasks : Active(u)' => Active(u)
      BY <1>0, <2>1, <3>1 DEF Active, TaskTypes, TurnTypes
    <3>3. \A m \in Messages : Unhandled(m)' => Unhandled(m)
      BY <1>0, <2>1, <3>1 DEF Unhandled, TaskTypes
    <3>4. \A m : Committed(m)' <=> Committed(m)
      BY <3>1 DEF Committed
    <3> QED
      BY <1>0, <3>1, <3>2, <3>3, <3>4 DEF TurnInv
  <2>6. CASE (HandleApprove(t) \/ HandleDeny(t)) /\ pending[key[t]] = None
    BY <1>q, <2>6 DEF HandleApprove, HandleDeny, Goto, turns
  <2> QED
    BY <1>5, <2>3, <2>4, <2>5, <2>6 DEF Thinking
<1>6. ASSUME NEW t \in Tasks, RunEnds(t)
      PROVE  TurnInv'
  <2> DEFINE m == origin[t]
  <2>1. /\ pc[t] = "run" /\ key[t] \in Keys /\ m \in Messages /\ commit_turn(key[t], m)
        /\ pc' = [pc EXCEPT ![t] = "respond"] /\ UNCHANGED <<pending, origin>>
    BY <1>0, <1>6 DEF RunEnds, Goto, Threaded, Originated
  <2>2. Active(t) /\ ~ Committed(m) /\ ~ Active(t)'
    BY <1>0, <2>1 DEF Active, TurnInv, PendingOpen, Early, TaskTypes
  <2>3. /\ history \in [Keys -> Seq(Messages)] /\ history' \in [Keys -> Seq(Messages)]
        /\ \A j \in Keys : \A i \in 1..Len(history'[j]) :
             \/ j = key[t] /\ history'[j][i] = m
             \/ \E h \in 1..Len(history[j]) : history[j][h] = history'[j][i]
        /\ \A j \in Keys \ {key[t]} : history'[j] = history[j]
        /\ IsInjective(history[key[t]]) /\ ~ Contains(history[key[t]], m)
             => IsInjective(history'[key[t]])
    BY <1>0, <2>1, CommitTurn DEF TurnTypes
  <2>4. ASSUME NEW n, Committed(n)', n # m
        PROVE  Committed(n)
    <3>1. PICK j \in Keys : Contains(history'[j], n)
      BY <2>4 DEF Committed
    <3>2. PICK i \in 1..Len(history'[j]) : history'[j][i] = n
      BY <3>1 DEF Contains
    <3>3. PICK h \in 1..Len(history[j]) : history[j][h] = n
      BY <2>3, <2>4, <3>2
    <3> QED
      BY <3>3 DEF Committed, Contains
  <2>5. \A k \in Keys : IsInjective(history'[k])
    BY <1>0, <2>1, <2>2, <2>3 DEF TurnInv, Committed
  <2>6. \A u \in Tasks : Active(u)' => Active(u) /\ u # t
    BY <1>0, <2>1, <2>2 DEF Active, TaskTypes
  <2>7. \A n \in Messages : Unhandled(n)' => Unhandled(n) /\ n # m
    BY <1>0, <2>1 DEF Unhandled, TaskTypes, TurnInv
  <2> HIDE DEF m
  <2>8. m = origin[t]
    BY DEF m
  <2> QED
    BY <1>0, <2>1, <2>2, <2>4, <2>5, <2>6, <2>7, <2>8 DEF TurnInv
<1>7. ASSUME NEW t \in Tasks, RunPauses(t)
      PROVE  TurnInv'
  <2>1. /\ pc[t] = "run" /\ key[t] \in Keys
        /\ pending' = [pending EXCEPT ![key[t]] = t] /\ UNCHANGED <<history, origin>>
    BY <1>0, <1>7 DEF RunPauses, Paused, Threaded
  <2>2. PICK p \in {"respond", "supersede"} : pc' = [pc EXCEPT ![t] = p]
    BY <1>7 DEF RunPauses, Goto
  <2>3. \A u \in Tasks : Active(u)' => Active(u)
    BY <1>0, <2>1, <2>2 DEF Active, TaskTypes, TurnTypes
  <2>4. \A m \in Messages : Unhandled(m)' => Unhandled(m)
    BY <1>0, <2>2 DEF Unhandled, TaskTypes
  <2>5. \A m : Committed(m)' <=> Committed(m)
    BY <2>1 DEF Committed
  <2> QED
    BY <1>0, <2>1, <2>3, <2>4, <2>5 DEF TurnInv
<1>8. ASSUME NEW t \in Tasks, RunFails(t)
      PROVE  TurnInv'
  <2>1. PICK p \in {"delete", "respond"} : pc' = [pc EXCEPT ![t] = p]
    BY <1>8 DEF RunFails, Goto
  <2> QED
    BY <1>8, <1>q, <2>1 DEF RunFails, turns
<1>9. ASSUME NEW t \in Tasks, Executed(t) \/ ResumedRunRaises(t) \/ Deleted(t)
                              \/ Superseded(t) \/ Responds(t) \/ Records(t)
      PROVE  TurnInv'
  BY <1>9, <1>q
  DEF Executed, ResumedRunRaises, Deleted, Superseded, Responds, Records, Leave, Goto, turns
<1>10. CASE WindowPasses \/ UNCHANGED vars
  <2>1. UNCHANGED <<pc, pending, history, origin>>
    BY <1>10 DEF WindowPasses, vars, turns
  <2> QED
    BY <1>0, <2>1 DEF TurnInv, Active, Committed, Unhandled
<1> QED
  BY <1>1, <1>2, <1>3, <1>4, <1>5, <1>6, <1>7, <1>8, <1>9, <1>10 DEF Next, Progress, Quiet

\* A turn is committed once and only when no write of it is pending, however
\* often it is paused, approved and resumed and whatever the thread's other
\* messages do to its approval.
THEOREM TurnsCommittedOnce == Spec => []TurnCommittedOnce
<1>1. TypeInv /\ TurnInv => TurnCommittedOnce
  BY DEF TypeInv, TypeOK, TurnTypes, TurnInv, Active, Committed, TurnCommittedOnce
<1> QED
  BY <1>1, InitTypeInv, NextTypeInv, InitSettleInv, NextSettleInv, InitTurnInv, NextTurnInv,
     PTL DEF Spec
=============================================================================
