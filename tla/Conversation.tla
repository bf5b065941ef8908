---------------------------- MODULE Conversation ----------------------------
(***************************************************************************)
(* The Slack connector (connectors/slack/connector.py) and the             *)
(* orchestrator (orchestrator/orchestrator.py, agent/prompt_builder.py):   *)
(* messages and button clicks, each handled by a task of its own, share    *)
(* the pending approval and the history of their thread.                   *)
(*                                                                         *)
(* An approval is named after the task whose run raised it, and so is the  *)
(* prompt message that shows it.  pc[t] is the await task t is at:         *)
(*   "consume"   chat_update of the clicked prompt                         *)
(*   "thinking"  chat_postMessage of the placeholder                       *)
(*   "execute"   execute_tool_calls of an approved batch                   *)
(*   "run"       AgentLoop.run (AgentLoop models its inside)               *)
(*   "delete"    chat_delete of the placeholder                            *)
(*   "supersede" chat_update of the thread's previous prompt               *)
(*   "respond"   chat_update of the placeholder, or chat_postMessage       *)
(*   "record"    the response is visible, the call has not yet returned    *)
(* Texts are left out.  Slack may refuse any call (rate limits, a deleted  *)
(* message); MaxRefusals bounds how often that happens.                    *)
(***************************************************************************)
EXTENDS Integers, Sequences, FiniteSets, SequencesExt

CONSTANTS
  Messages,    \* message events
  Clicks,      \* Approve and Deny clicks
  Threads,     \* Slack threads
  Stray,       \* the thread a reply posted outside its thread starts
  MaxHistory,  \* max_thread_history, in turns
  ErrorLimit,  \* _ERROR_MAX_PER_WINDOW
  MaxRefusals, \* bound: Slack calls refused
  None

Tasks == Messages \cup Clicks
Keys  == Threads \cup {Stray}

ASSUME ConversationConstants ==
  /\ IsFiniteSet(Tasks)
  /\ Messages \cap Clicks = {}
  /\ Stray \notin Threads
  /\ MaxHistory \in Nat \ {0}
  /\ ErrorLimit \in Nat
  /\ MaxRefusals \in Nat
  /\ None \notin Tasks \cup Keys

VARIABLES
  pc, key,          \* per task: where it is, its thread key
  action,           \* per click: "approve", "deny"; "none" for a message
  clicked,          \* per click: the prompt whose button was pressed
  working,          \* per task: the approval it resumes (PendingApproval)
  prior,            \* per task: the prompt it supersedes
  response,         \* per task: what the handler returned
  placeholder,      \* per task: its "Thinking..." message
  prompt,           \* per approval: the message with its buttons
  posted_in,        \* per approval: the thread that message is in
  pending,          \* Orchestrator._pending_approvals
  live,             \* SlackConnector._thread_approval_msg
  in_flight,        \* SlackConnector._approval_in_flight
  refusals,         \* Slack calls refused so far
  errors,           \* SlackConnector._error_timestamps: one entry per error of
                    \* the last window, TRUE when its reply was posted (history)
  history,          \* LayeredPromptBuilder._thread_history, as turns
  origin,           \* per approval: the message that started its turn
  fate              \* history: what became of each approval, in order

slack == <<placeholder, prompt, posted_in, live, in_flight, refusals,
           errors>>
turns == <<pending, history, origin, fate>>
local == <<key, action, clicked, working, prior>>
vars  == <<pc, local, response, slack, turns>>

Responses == {"none", "text", "prompt", "error", "suppressed", "raised"}
Fates     == {"executed", "denied", "cleared", "overwritten"}

TaskTypes ==
  /\ pc \in [Tasks -> {"idle", "consume", "thinking", "execute", "run", "delete",
                       "supersede", "respond", "record", "done"}]
  /\ key \in [Tasks -> Keys \cup {None}]
  /\ action \in [Tasks -> {"none", "approve", "deny"}]
  /\ clicked \in [Tasks -> Tasks \cup {None}]
  /\ working \in [Tasks -> Tasks \cup {None}]
  /\ prior \in [Tasks -> Tasks \cup {None}]
  /\ response \in [Tasks -> Responses]

SlackTypes ==
  /\ placeholder \in [Tasks -> {"none", "shown", "replaced", "deleted", "stuck"}]
  /\ prompt \in [Tasks -> {"none", "live", "consumed", "superseded"}]
  /\ posted_in \in [Tasks -> Keys \cup {None}]
  /\ live \in [Keys -> Tasks \cup {None}]
  /\ in_flight \subseteq Keys
  /\ refusals \in 0..MaxRefusals
  /\ errors \in Seq(BOOLEAN)

TurnTypes ==
  /\ pending \in [Keys -> Tasks \cup {None}]
  /\ history \in [Keys -> Seq(Messages)]
  /\ origin \in [Tasks -> Messages \cup {None}]
  /\ fate \in [Tasks -> Seq(Fates)]

\* Every variable keeps its type.
TypeOK == TaskTypes /\ SlackTypes /\ TurnTypes

Init ==
  /\ pc = [t \in Tasks |-> "idle"]
  /\ key = [t \in Tasks |-> None]
  /\ action = [t \in Tasks |-> "none"]
  /\ clicked = [t \in Tasks |-> None]
  /\ working = [t \in Tasks |-> None]
  /\ prior = [t \in Tasks |-> None]
  /\ response = [t \in Tasks |-> "none"]
  /\ placeholder = [t \in Tasks |-> "none"]
  /\ prompt = [t \in Tasks |-> "none"]
  /\ posted_in = [t \in Tasks |-> None]
  /\ pending = [k \in Keys |-> None]
  /\ live = [k \in Keys |-> None]
  /\ in_flight = {}
  /\ refusals = 0 /\ errors = <<>>
  /\ history = [k \in Keys |-> <<>>]
  /\ origin = [t \in Tasks |-> None]
  /\ fate = [t \in Tasks |-> <<>>]

Goto(t, p) == pc' = [pc EXCEPT ![t] = p]

\* The Web API call of this step succeeds, or raises (and the code goes on).
SlackAccepts == UNCHANGED refusals
SlackRefuses == refusals < MaxRefusals /\ refusals' = refusals + 1

\* The finally block of _handle_with_thinking.
Leave(t) ==
  /\ Goto(t, "done")
  /\ in_flight' = IF t \in Clicks THEN in_flight \ {key[t]} ELSE in_flight

-----------------------------------------------------------------------------
(* Events *)

\* A message or app_mention event that _should_ignore lets through; its thread is
\* thread_ts, or its own ts.
MessageArrives(t, k) ==
  /\ t \in Messages
  /\ pc[t] = "idle"
  /\ key' = [key EXCEPT ![t] = k]
  /\ Goto(t, "thinking")
  /\ UNCHANGED <<action, clicked, working, prior, response, slack, turns>>

\* Seeded fault: the in-flight check is dropped.
ClickAdmittedAlways(k) == in_flight' = in_flight \cup {k}

\* A second click of a thread is dropped while one is in flight.
ClickAdmitted(k) ==
  /\ k \notin in_flight
  /\ in_flight' = in_flight \cup {k}

\* A click on a prompt that still shows its buttons.  It is routed by the thread
\* of the message, not by the approval the message describes.
ClickArrives(t, p, a) ==
  /\ t \in Clicks
  /\ pc[t] = "idle"
  /\ prompt[p] = "live"
  /\ key' = [key EXCEPT ![t] = posted_in[p]]
  /\ action' = [action EXCEPT ![t] = a]
  /\ clicked' = [clicked EXCEPT ![t] = p]
  /\ ClickAdmitted(posted_in[p])
  /\ Goto(t, "consume")
  /\ UNCHANGED <<working, prior, response, placeholder, prompt, posted_in, live, refusals,
                 errors, turns>>

\* The same click, dropped as a duplicate: nothing happens but the ack.
ClickDropped(t, p) ==
  /\ t \in Clicks
  /\ pc[t] = "idle"
  /\ prompt[p] = "live"
  /\ posted_in[p] \in in_flight
  /\ clicked' = [clicked EXCEPT ![t] = p]
  /\ Goto(t, "done")
  /\ UNCHANGED <<key, action, working, prior, response, slack, turns>>

\* chat_update of a prompt to its outcome, without buttons; a refusal is logged.
ReplaceButtons(p, outcome) ==
  \/ SlackAccepts /\ prompt' = [prompt EXCEPT ![p] = outcome]
  \/ SlackRefuses /\ UNCHANGED prompt

\* _consume_approval_click_ui: the buttons go away (unless Slack refuses).
Consumed(t) ==
  /\ pc[t] = "consume"
  /\ ReplaceButtons(clicked[t], "consumed")
  /\ live' = [live EXCEPT ![key[t]] = None]
  /\ Goto(t, "thinking")
  /\ UNCHANGED <<local, response, placeholder, posted_in,
                 in_flight, errors, turns>>

-----------------------------------------------------------------------------
(* Orchestrator.handle up to its first await *)

Recorded(f, a, what) == IF a = None THEN f ELSE [f EXCEPT ![a] = Append(@, what)]

\* Seeded fault: the approval is looked up and not popped.
PopPendingPeeks(k, what) ==
  /\ fate' = Recorded(fate, pending[k], what)
  /\ UNCHANGED pending

\* _pending_approvals.pop(thread_key, None).
PopPending(k, what) ==
  /\ pending' = [pending EXCEPT ![k] = None]
  /\ fate' = Recorded(fate, pending[k], what)

\* A message supersedes the thread's pending approval and goes to the model.
HandleMessage(t) ==
  /\ action[t] = "none"
  /\ PopPending(key[t], "cleared")
  /\ Goto(t, "run")
  /\ origin' = [origin EXCEPT ![t] = t]
  /\ UNCHANGED <<working, response, history>>

\* _handle_write_approval: the batch pending in the thread is executed.  A stale
\* click gets a suppressed response.
HandleApprove(t) ==
  /\ action[t] = "approve"
  /\ IF pending[key[t]] = None
     THEN /\ Goto(t, "delete")
          /\ response' = [response EXCEPT ![t] = "suppressed"]
          /\ UNCHANGED <<turns, working>>
     ELSE /\ working' = [working EXCEPT ![t] = pending[key[t]]]
          /\ origin' = [origin EXCEPT ![t] = origin[pending[key[t]]]]
          /\ PopPending(key[t], "executed")
          /\ Goto(t, "execute")
          /\ UNCHANGED <<response, history>>

\* _handle_write_denial.
HandleDeny(t) ==
  /\ action[t] = "deny"
  /\ IF pending[key[t]] = None
     THEN /\ Goto(t, "delete")
          /\ response' = [response EXCEPT ![t] = "suppressed"]
          /\ UNCHANGED turns
     ELSE /\ PopPending(key[t], "denied")
          /\ Goto(t, "respond")
          /\ response' = [response EXCEPT ![t] = "text"]
          /\ UNCHANGED <<history, origin>>
  /\ UNCHANGED working

\* _post_thinking returns, with a message or (refused) without, and the handler
\* starts.
Thinking(t) ==
  /\ pc[t] = "thinking"
  /\ \/ SlackAccepts /\ placeholder' = [placeholder EXCEPT ![t] = "shown"]
     \/ SlackRefuses /\ UNCHANGED placeholder
  /\ HandleMessage(t) \/ HandleApprove(t) \/ HandleDeny(t)
  /\ UNCHANGED <<key, action, clicked, prior, prompt, posted_in, live, in_flight, errors>>

-----------------------------------------------------------------------------
(* The run and its outcomes *)

\* The approved calls have run (they return error payloads, never exceptions);
\* run() is entered again.
Executed(t) ==
  /\ pc[t] = "execute"
  /\ Goto(t, "run")
  /\ UNCHANGED <<local, response, slack, turns>>

\* commit_turn: the turn under its original text, the oldest ones dropped.
commit_turn(k, m) ==
  LET all == Append(history[k], m)
  IN  history' = [history EXCEPT
        ![k] = IF Len(all) > MaxHistory THEN Tail(all) ELSE all]

\* The run ends with a text.
RunEnds(t) ==
  /\ pc[t] = "run"
  /\ commit_turn(key[t], origin[t])
  /\ response' = [response EXCEPT ![t] = "text"]
  /\ Goto(t, "respond")
  /\ UNCHANGED <<local, slack, pending, origin, fate>>

\* Seeded fault: the paused turn is committed as well.
PausedCommit(t) == commit_turn(key[t], origin[t])

\* A paused turn is not part of the history.
Paused(t) == UNCHANGED history

\* WriteApprovalError: the thread's pending approval is replaced, first or
\* cascading, and the user is shown the batch.
RunPauses(t) ==
  /\ pc[t] = "run"
  /\ pending' = [pending EXCEPT ![key[t]] = t]
  /\ fate' = Recorded(fate, pending[key[t]], "overwritten")
  /\ Paused(t)
  /\ response' = [response EXCEPT ![t] = "prompt"]
  /\ IF live[key[t]] = None
     THEN Goto(t, "respond") /\ UNCHANGED live
     ELSE Goto(t, "supersede") /\ live' = [live EXCEPT ![key[t]] = None]
  /\ prior' = [prior EXCEPT ![t] = live[key[t]]]
  /\ UNCHANGED <<key, action, clicked, working, placeholder, prompt, posted_in, in_flight,
                 refusals, errors, origin>>

\* _is_error_rate_limited, given the errors in the window before this one.
RateLimited(n) == n + 1 > ErrorLimit

\* InferenceError or any other exception out of a message's run becomes an error
\* response, at most ErrorLimit of them per window and channel.
RunFails(t) ==
  /\ pc[t] = "run"
  /\ t \in Messages
  /\ response' = [response EXCEPT ![t] = "error"]
  /\ errors' = Append(errors, ~ RateLimited(Len(errors)))
  /\ IF RateLimited(Len(errors)) THEN Goto(t, "delete") ELSE Goto(t, "respond")
  /\ UNCHANGED <<local, placeholder, prompt, posted_in,
                 live, in_flight, refusals, turns>>

\* Out of a resumed run it propagates through handler and connector.
ResumedRunRaises(t) ==
  /\ pc[t] = "run"
  /\ t \in Clicks
  /\ response' = [response EXCEPT ![t] = "raised"]
  /\ Leave(t)
  /\ UNCHANGED <<local, placeholder, prompt, posted_in,
                 live, refusals, errors, turns>>

\* The oldest error timestamp leaves the window.
WindowPasses ==
  /\ errors # <<>>
  /\ errors' = Tail(errors)
  /\ UNCHANGED <<pc, local, response, placeholder, prompt,
                 posted_in, live, in_flight, refusals, turns>>

-----------------------------------------------------------------------------
(* The response *)

\* Seeded fault: a rate-limited error returns without deleting the placeholder.
DeletedIfSuppressed(t) ==
  /\ pc[t] = "delete"
  /\ placeholder' = IF response[t] = "suppressed"
                    THEN [placeholder EXCEPT ![t] = "deleted"] ELSE placeholder
  /\ Leave(t)
  /\ UNCHANGED <<local, response, prompt, posted_in, live, refusals, errors, turns>>

\* chat_delete of the placeholder, if there is one; a refusal is ignored.
Deleted(t) ==
  /\ pc[t] = "delete"
  /\ \/ placeholder[t] = "none" /\ UNCHANGED <<placeholder, refusals>>
     \/ /\ placeholder[t] = "shown"
        /\ \/ SlackAccepts /\ placeholder' = [placeholder EXCEPT ![t] = "deleted"]
           \/ SlackRefuses /\ placeholder' = [placeholder EXCEPT ![t] = "stuck"]
  /\ Leave(t)
  /\ UNCHANGED <<local, response, prompt, posted_in, live,
                 errors, turns>>

\* _supersede_prior_approval: its buttons go away (unless Slack refuses).
Superseded(t) ==
  /\ pc[t] = "supersede"
  /\ ReplaceButtons(prior[t], "superseded")
  /\ Goto(t, "respond")
  /\ UNCHANGED <<local, response, placeholder, posted_in,
                 live, in_flight, errors, turns>>

Show(t, k) ==
  IF response[t] = "prompt"
  THEN /\ prompt' = [prompt EXCEPT ![t] = "live"]
       /\ posted_in' = [posted_in EXCEPT ![t] = k]
  ELSE UNCHANGED <<prompt, posted_in>>

\* The response appears: in place of the placeholder, as a new message in the
\* thread when there is none, or, when the update is refused, as a new message
\* outside the thread.  When that is refused too it does not appear at all.
Responds(t) ==
  /\ pc[t] = "respond"
  /\ \/ /\ placeholder[t] = "shown"
        /\ SlackAccepts
        /\ placeholder' = [placeholder EXCEPT ![t] = "replaced"]
        /\ Show(t, key[t])
     \/ /\ placeholder[t] = "shown"
        /\ SlackRefuses
        /\ placeholder' = [placeholder EXCEPT ![t] = "stuck"]
        /\ Show(t, Stray)
     \/ /\ placeholder[t] = "shown"
        /\ refusals + 2 <= MaxRefusals
        /\ refusals' = refusals + 2
        /\ placeholder' = [placeholder EXCEPT ![t] = "stuck"]
        /\ UNCHANGED <<prompt, posted_in>>
     \/ /\ placeholder[t] = "none"
        /\ \/ SlackAccepts /\ Show(t, key[t])
           \/ SlackRefuses /\ UNCHANGED <<prompt, posted_in>>
        /\ UNCHANGED placeholder
  /\ Goto(t, "record")
  /\ UNCHANGED <<local, response, live, in_flight, errors, turns>>

\* The call returns; a posted prompt is the thread's live one.
Records(t) ==
  /\ pc[t] = "record"
  /\ live' = IF response[t] = "prompt" /\ prompt[t] # "none"
             THEN [live EXCEPT ![key[t]] = t] ELSE live
  /\ Leave(t)
  /\ UNCHANGED <<local, response, placeholder, prompt,
                 posted_in, refusals, errors, turns>>

-----------------------------------------------------------------------------
Progress(t) ==
  \/ Consumed(t) \/ Thinking(t) \/ Executed(t)
  \/ RunEnds(t) \/ RunPauses(t) \/ RunFails(t) \/ ResumedRunRaises(t)
  \/ Deleted(t) \/ Superseded(t) \/ Responds(t) \/ Records(t)

\* Everything sent was handled; more may come, but not in this instance.
Quiet == (\A t \in Tasks : pc[t] \in {"idle", "done"}) /\ UNCHANGED vars

Next ==
  \/ \E t \in Messages, k \in Threads : MessageArrives(t, k)
  \/ \E t \in Clicks, p \in Tasks, a \in {"approve", "deny"} : ClickArrives(t, p, a)
  \/ \E t \in Clicks, p \in Tasks : ClickDropped(t, p)
  \/ \E t \in Tasks : Progress(t)
  \/ WindowPasses
  \/ Quiet

Spec == Init /\ [][Next]_vars

-----------------------------------------------------------------------------
(* Properties *)

\* An approval is settled once: executed, denied, dropped for a newer message or
\* replaced by a newer approval, never two of these and never executed twice,
\* however clicks, double clicks and messages of the thread overlap.
SettledOnce == \A t \in Tasks : Len(fate[t]) <= 1

\* A turn enters the history once, when it is complete: not while one of its
\* writes waits for approval, and not again by the run that resumes it.
TurnCommittedOnce ==
  \A k \in Keys :
    /\ IsInjective(history[k])
    /\ pending[k] # None => ~ Contains(history[k], origin[pending[k]])

\* At most one approval click per thread is past the duplicate check, and the
\* thread is marked exactly as long as that click is being handled: no path,
\* exceptions included, leaves the approvals of a thread blocked.
InFlightExact ==
  \A k \in Keys :
    LET busy == {t \in Clicks : key[t] = k /\ pc[t] \notin {"idle", "done"}}
    IN  Cardinality(busy) = (IF k \in in_flight THEN 1 ELSE 0)

\* A finished request leaves no "Thinking..." behind, unless Slack refused to
\* change it or the resumed run raised.
NoForgottenPlaceholder ==
  \A t \in Tasks :
    pc[t] = "done" /\ placeholder[t] = "shown" => response[t] = "raised"

\* What _format_write_description says of the prompt: it is shown so the user
\* knows exactly what will happen if they click Approve.
ApprovedIsShown ==
  \A t \in Clicks :
    pc[t] = "execute" => working[t] = clicked[t]
=============================================================================
