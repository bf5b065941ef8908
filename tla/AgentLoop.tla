------------------------------ MODULE AgentLoop ------------------------------
(***************************************************************************)
(* One turn of the agent loop (agent/loop.py) with the write gate          *)
(* (agent/approval.py), the tool registry and tool_search (tools/), and    *)
(* context compaction (agent/compaction.py): rounds of inference and tool  *)
(* calls, paused when a write needs the user's approval and resumed by     *)
(* Orchestrator._handle_write_approval.                                    *)
(*                                                                         *)
(* pc is the await the turn is suspended at:                               *)
(*   "round"      the head of the for loop (no await)                      *)
(*   "summarise"  the inference call of ContextCompactor.compact           *)
(*   "infer"      backend.complete of a round                              *)
(*   "continue"   backend.complete of _continue_truncated                  *)
(*   "repair"     backend.complete of _inference_with_repair, the path of  *)
(*                an orchestrator without tools                            *)
(*   "tools"      execute_tool_calls, with the calls in `running'          *)
(*   "paused"     WriteApprovalError was raised, buttons are shown         *)
(*   "done"       the turn has an outcome                                  *)
(* A message keeps its role and the tool-call batch it belongs to; texts,  *)
(* arguments and sizes are left out, so whether the conversation exceeds   *)
(* the compaction threshold is a choice.                                   *)
(***************************************************************************)
EXTENDS Integers, Sequences, FiniteSets, FiniteSetsExt

CONSTANTS
  Registered,      \* names the orchestrator's registry holds
  CodingTools,     \* those of them a sub-agent has too
  Core,            \* is_core: always offered to the model
  ReadOnly,        \* is_read_only
  ConcurrencySafe, \* is_concurrency_safe
  Untimed,         \* delegate_task, which awaits a free slot without a timeout
  SearchTool,      \* "tool_search"
  Unknown,         \* a name the model made up
  MaxRounds,       \* config.max_tool_rounds
  MaxContinuations,\* config.max_continuation_retries
  MaxAttempts,     \* config.max_retries of the inference backend
  MinKeep,         \* config.compaction_min_keep
  CompressPercent, \* config.compaction_compress_ratio, in percent
  MaxBatch,        \* bound: tool calls in one reply
  MaxApprovals     \* bound: no approvals after the batch of this number

ASSUME LoopConstants ==
  /\ IsFiniteSet(Registered)
  /\ Core \subseteq Registered
  /\ CodingTools \subseteq Core
  /\ Untimed \subseteq Registered \ CodingTools
  /\ SearchTool \in CodingTools
  /\ ReadOnly \subseteq Registered
  /\ ConcurrencySafe \subseteq Registered
  /\ SearchTool \in ReadOnly \cap ConcurrencySafe
  /\ Unknown \notin Registered
  /\ MaxRounds \in Nat \ {0}
  /\ MaxContinuations \in Nat
  /\ MaxAttempts \in Nat \ {0}
  /\ MinKeep \in Nat \ {0}
  /\ CompressPercent \in 0..100
  /\ MaxBatch \in Nat \ {0}
  /\ MaxApprovals \in Nat

VARIABLES
  gate,      \* the approval gate: "auto" (sub-agent), "write" (orchestrator),
             \* or "none" (an orchestrator without tools)
  pc, round, retries, outcome,
  attempt,   \* failed attempts of the backend.complete under way
  messages,  \* working_messages
  batch,     \* the tool calls of the last reply
  batches,   \* their number, which stands for their call ids
  running,   \* indices of the calls being executed
  waiting,   \* indices of the unsafe calls still to run
  finished,  \* indices of the executed calls, in order of completion
  surface,   \* _TOOL_SURFACE in the context of the turn's task
  saved,     \* PendingApproval.surfaced_tools
  resumed,   \* the tools run for an Approve click, before run() is re-entered
  found,     \* history: non-core tools a tool_search of this run returned
  offered,   \* history: tools of the last inference request
  approved   \* history: number of the batch the user approved last

exec == <<batch, batches, running, waiting, finished>>
ctx  == <<surface, saved, resumed, found, offered, approved>>
vars == <<gate, pc, round, retries, attempt, outcome, messages, exec, ctx>>

Names    == Registered \cup {Unknown}
NonCore  == Registered \ Core
Unsafe   == Registered \ ConcurrencySafe
Outcomes == {"none", "text", "limit", "denied", "error"}
Indices  == 1..MaxBatch

Message == [role : {"system", "user", "assistant", "call", "tool"},
            batch : Nat, n : Nat]

Plain(role) == [role |-> role, batch |-> 0, n |-> 0]

\* Every variable keeps its type.
TypeOK ==
  /\ gate \in {"auto", "write", "none"}
  /\ pc \in {"round", "summarise", "infer", "continue", "repair", "tools", "paused", "done"}
  /\ round \in 0..MaxRounds
  /\ retries \in 0..MaxContinuations /\ attempt \in 0..(MaxAttempts - 1)
  /\ outcome \in Outcomes
  /\ messages \in Seq(Message)
  /\ batch \in Seq(Names) /\ Len(batch) <= MaxBatch
  /\ batches \in Nat
  /\ running \subseteq Indices
  /\ waiting \subseteq Indices
  /\ finished \in Seq(Indices)
  /\ surface \subseteq NonCore /\ saved \subseteq NonCore /\ found \subseteq NonCore
  /\ resumed \in BOOLEAN
  /\ offered \subseteq Registered
  /\ approved \in Nat

\* run() is entered with the prompt builder's [system, ..., user] messages.
Init ==
  /\ gate \in {"auto", "write", "none"}
  /\ pc = (IF gate = "none" THEN "repair" ELSE "round")
  /\ round = 0 /\ retries = 0 /\ attempt = 0 /\ outcome = "none"
  /\ messages = <<Plain("system"), Plain("user")>>
  /\ batch = <<>> /\ batches = 0
  /\ running = {} /\ waiting = {} /\ finished = <<>>
  /\ surface = {} /\ saved = {} /\ found = {} /\ offered = {}
  /\ resumed = FALSE /\ approved = 0

-----------------------------------------------------------------------------
(* The registry *)

\* build_full_tool_registry for the orchestrator, create_coding_tool_registry for
\* a sub-agent, whose tools are all core.
Tools == CASE gate = "write" -> Registered
           [] gate = "auto" -> CodingTools
           [] OTHER -> {}

\* ToolRegistry.tool_definitions.
tool_definitions == (Core \cap Tools) \cup surface

\* ToolRegistry.search: what a query may match, best first and up to a limit.
search == SUBSET (Tools \ Core)

-----------------------------------------------------------------------------
(* A round *)

\* compact(): how many messages after the system message are summarised.
CompressCount(n) ==
  LET wanted == Max({2, (n * CompressPercent) \div 100})
  IN  n - Max({MinKeep, n - wanted})

Compactable == Len(messages) - 1 >= MinKeep + 2

\* The oldest part becomes a summary and an acknowledgement.
Compacted(ms) ==
  <<ms[1], Plain("user"), Plain("assistant")>>
    \o SubSeq(ms, CompressCount(Len(ms) - 1) + 2, Len(ms))

AskModel ==
  /\ pc' = "infer"
  /\ offered' = tool_definitions

\* The head of a round: micro-compaction (which keeps every message), then full
\* compaction when the conversation is over the threshold, then inference.
StartRound ==
  /\ pc = "round"
  /\ round < MaxRounds
  /\ \/ AskModel
     \/ Compactable /\ pc' = "summarise" /\ UNCHANGED offered
  /\ UNCHANGED <<gate, round, retries, attempt, outcome, messages, exec, surface, saved,
                 resumed, found, approved>>

\* Seeded fault: the conversation is compacted until it is under the threshold.
SummarisedAgain ==
  /\ pc = "summarise"
  /\ attempt' = 0
  /\ messages' = Compacted(messages)
  /\ pc' = "round"
  /\ UNCHANGED <<gate, round, retries, outcome, exec, ctx>>

\* compact() returns and the round goes on.
Summarised ==
  /\ pc = "summarise"
  /\ attempt' = 0
  /\ messages' = Compacted(messages)
  /\ AskModel
  /\ UNCHANGED <<gate, round, retries, outcome, exec, surface, saved, resumed,
                 found, approved>>

Finish(o) == pc' = "done" /\ outcome' = o

\* The range of the for loop is exhausted.
SafetyLimit ==
  /\ pc = "round"
  /\ round = MaxRounds
  /\ Finish("limit")
  /\ UNCHANGED <<gate, round, retries, attempt, messages, exec, ctx>>

\* _categorize_status.
Category(status) ==
  CASE status \in {401, 403} -> "auth_error"
    [] status = 429 -> "rate_limit"
    [] status >= 500 -> "model_error"
    [] OTHER -> "unknown"

\* An attempt of backend.complete fails.  A retryable failure is tried again,
\* after Retry-After or a back-off, until the attempts are used up; what is
\* raised then leaves run(), whichever call it was.
AttemptFails(retryable) ==
  /\ pc \in {"summarise", "infer", "continue", "repair"}
  /\ IF retryable /\ attempt + 1 < MaxAttempts
     THEN attempt' = attempt + 1 /\ UNCHANGED <<pc, outcome>>
     ELSE attempt' = 0 /\ Finish("error")
  /\ UNCHANGED <<gate, round, retries, messages, exec, ctx>>

\* _send_request: an answer other than 200.
Refuses(status) == AttemptFails(Category(status) \in {"rate_limit", "model_error"})

\* _send_request: no answer in time.
AttemptTimesOut == AttemptFails(TRUE)

\* _parse_response: a 200 without the expected fields; or no connection.
Malformed == AttemptFails(FALSE)

\* A reply without tool calls.  finish_reason "length" asks for more.
ReplyText(length) ==
  /\ pc = "infer"
  /\ attempt' = 0
  /\ IF length /\ MaxContinuations > 0
     THEN pc' = "continue" /\ UNCHANGED outcome
     ELSE Finish("text")
  /\ UNCHANGED <<gate, round, retries, messages, exec, ctx>>

\* _continue_truncated: the working messages are not touched.
Continued(length) ==
  /\ pc = "continue"
  /\ attempt' = 0
  /\ retries' = retries + 1
  /\ IF length /\ retries' < MaxContinuations
     THEN UNCHANGED <<pc, outcome>>
     ELSE Finish("text")
  /\ UNCHANGED <<gate, round, messages, exec, ctx>>

\* repair_response: an empty or filtered reply is replaced by a fixed text, and
\* only a truncated one that is not empty is continued.
NeedsContinuation(empty, finish) == ~empty /\ finish = "length"

\* _inference_with_repair: a chunk is kept and more is asked for, or the turn
\* ends (a replaced reply drops the chunks before it).
Repaired(empty, finish) ==
  /\ pc = "repair"
  /\ attempt' = 0
  /\ IF NeedsContinuation(empty, finish) /\ retries < MaxContinuations
     THEN retries' = retries + 1 /\ UNCHANGED <<pc, outcome>>
     ELSE Finish("text") /\ UNCHANGED retries
  /\ UNCHANGED <<gate, round, messages, exec, ctx>>

-----------------------------------------------------------------------------
(* Tool calls and the write gate *)

\* Seeded fault: only the first call of the batch is looked at.
WriteCallsFirst(calls) ==
  {i \in {1} : calls[i] \in Tools \ ReadOnly}

\* _get_write_tool_calls: unknown names count as reads.
WriteCalls(calls) ==
  {i \in 1..Len(calls) : calls[i] \in Tools \ ReadOnly}

\* check() of AutoApproval or WriteApproval for a call that is no read.
Refused(i) == gate = "write"

\* _needs_write_approval: one refusal pauses the whole batch.
NeedsApproval(calls) == \E i \in WriteCalls(calls) : Refused(i)

\* Seeded fault: every call goes into the gather.
BeginTogether(calls) ==
  /\ running' = 1..Len(calls)
  /\ waiting' = {}

\* execute_tool_calls: the safe calls start together; the unsafe ones wait for
\* them and run one by one in input order.
Begin(calls) ==
  LET unsafe == {i \in 1..Len(calls) : calls[i] \in Unsafe}
      safe   == 1..Len(calls) \ unsafe
  IN  IF safe # {}
      THEN running' = safe /\ waiting' = unsafe
      ELSE running' = {Min(unsafe)} /\ waiting' = unsafe \ {Min(unsafe)}

Execute(calls, number) ==
  /\ pc' = "tools"
  /\ messages' = Append(messages, [role |-> "call", batch |-> number, n |-> Len(calls)])
  /\ Begin(calls)
  /\ finished' = <<>>

\* A reply with tool calls: constrained decoding limits the names to the offered
\* ones, permissive backends let a made-up name through.
ReplyTools(calls) ==
  /\ pc = "infer"
  /\ attempt' = 0
  /\ \A i \in 1..Len(calls) : calls[i] \in offered \cup {Unknown}
  /\ batch' = calls
  /\ batches' = batches + 1
  /\ IF NeedsApproval(calls)
     THEN /\ pc' = "paused"
          /\ saved' = surface
          /\ UNCHANGED <<messages, running, waiting, finished>>
     ELSE /\ Execute(calls, batches')
          /\ UNCHANGED saved
  /\ UNCHANGED <<gate, round, retries, outcome, surface, resumed, found, offered,
                 approved>>

\* mark_surfaced by tool_search in call i.  A call of the gather runs in a task
\* of its own, whose context is a copy: rebinding the ContextVar there leaves the
\* turn's own surface as it was.
mark_surfaced(i, hits) ==
  /\ found' = found \cup hits
  /\ surface' = IF batch[i] \in Unsafe THEN surface \cup hits ELSE surface

\* Seeded fault: results in the order of completion.
ResultsAsFinished(order) ==
  [k \in 1..Len(order) |-> [role |-> "tool", batch |-> batches, n |-> order[k]]]

\* The slots, in input order whatever the order of completion.
Results(order) ==
  [k \in 1..Len(order) |-> [role |-> "tool", batch |-> batches, n |-> k]]

\* run(): the surface of an earlier run in this context is forgotten and the
\* caller's names are surfaced; the rounds are counted anew.
run(pre_surfaced_tools) ==
  /\ round' = 0
  /\ surface' = pre_surfaced_tools
  /\ found' = pre_surfaced_tools

\* A call returns a result or an error payload, never an exception.
ToolEnds(i) ==
  /\ pc = "tools"
  /\ i \in running
  /\ finished' = Append(finished, i)
  /\ \E hits \in search :
       /\ batch[i] # SearchTool => hits = {}
       /\ IF running = {i} /\ waiting = {}
          THEN /\ pc' = "round"
               /\ running' = {} /\ waiting' = {}
               /\ messages' = messages \o Results(finished')
               /\ resumed' = FALSE
               /\ IF resumed
                  THEN run(saved)
                  ELSE round' = round + 1 /\ mark_surfaced(i, hits)
          ELSE /\ mark_surfaced(i, hits)
               /\ IF running = {i}
                  THEN running' = {Min(waiting)} /\ waiting' = waiting \ {Min(waiting)}
                  ELSE running' = running \ {i} /\ UNCHANGED waiting
               /\ UNCHANGED <<pc, messages, round, resumed>>
  /\ UNCHANGED <<gate, retries, attempt, outcome, batch, batches, saved, offered, approved>>

-----------------------------------------------------------------------------
(* The user's click, and the end *)

\* _handle_write_approval: in the task of the click, with a fresh context.
Approve ==
  /\ pc = "paused"
  /\ approved < MaxApprovals
  /\ approved' = batches
  /\ resumed' = TRUE
  /\ Execute(batch, batches)
  /\ surface' = {}
  /\ UNCHANGED <<gate, round, retries, attempt, outcome, batch, batches, saved, found, offered>>

\* _handle_write_denial, or a new message in the thread.
Deny ==
  /\ pc = "paused"
  /\ Finish("denied")
  /\ UNCHANGED <<gate, round, retries, attempt, messages, exec, ctx>>

Done == pc = "done" /\ UNCHANGED vars

Calls == UNION {[1..k -> Names] : k \in Indices}

\* The steps in which nothing but the loop, the backend and its timeouts take part.
LoopStep ==
  \/ StartRound
  \/ Summarised
  \/ SafetyLimit
  \/ AttemptTimesOut
  \/ Malformed
  \/ \E status \in {401, 404, 429, 500} : Refuses(status)
  \/ \E length \in BOOLEAN : ReplyText(length) \/ Continued(length)
  \/ \E empty \in BOOLEAN, finish \in {"stop", "length", "content_filter"} :
       Repaired(empty, finish)
  \/ \E calls \in Calls : ReplyTools(calls)

Next == LoopStep \/ (\E i \in Indices : ToolEnds(i)) \/ Approve \/ Deny \/ Done

Spec == Init /\ [][Next]_vars

\* Call i is a tool that ends by itself or by a timeout of its own.
EndsInTime(i) == i \in running /\ batch[i] \notin Untimed

\* The event loop, the backend's timeouts and the tools' own timeouts let every
\* step end but delegate_task, whose semaphore.acquire() may wait for ever; the
\* user need not click.
FairSpec ==
  Spec /\ WF_vars(LoopStep \/ \E i \in Indices : EndsInTime(i) /\ ToolEnds(i))

-----------------------------------------------------------------------------
(* Properties *)

\* What the chat protocol requires of every inference request: a message with
\* tool calls is directly followed by one result per call, in input order,
\* although safe calls finish in any order and compaction cuts the history.
EveryCallAnswered ==
  pc \in {"round", "infer", "summarise", "continue"} =>
    \A k \in 1..Len(messages) :
      messages[k].role = "call" =>
        /\ k + messages[k].n <= Len(messages)
        /\ \A i \in 1..messages[k].n :
             messages[k + i] = [role |-> "tool", batch |-> messages[k].batch, n |-> i]

\* "Tool results are matched back to their requesting tool_call via the
\* tool_call_id field" (agent/loop.py): a request holds no result whose call is
\* not in it.  Compaction counts messages and cuts between the two.
ResultsHaveTheirCall ==
  pc = "infer" =>
    \A k \in 1..Len(messages) :
      messages[k].role = "tool" =>
        \E j \in 1..(k - 1) : messages[j].role = "call" /\ messages[j].batch = messages[k].batch

\* Behind the write gate no write runs unless the user approved that very batch,
\* however it is mixed with reads and unknown names and whatever came before.
WritesAreApproved ==
  gate = "write" /\ (\E i \in running : batch[i] \in Registered \ ReadOnly)
    => approved = batches

\* Workspace mutations are serialised: an unsafe call never runs beside another
\* call of its batch, and only after the concurrent ones have finished.
UnsafeRunsAlone ==
  \A i \in running : batch[i] \in Unsafe => running = {i}

\* A turn comes to an end or to a pause for the user, again and again if it is
\* resumed, however the model and the service behave; the one thing that can
\* hold it up for ever is a delegate_task that waits for a slot
\* (semaphore.acquire() in orchestrator/delegation.py has no timeout).  A
\* sub-agent's turn, which has no such tool, always ends.
TurnEnds ==
  \/ []<>(pc \in {"paused", "done"})
  \/ <>[](gate = "write" /\ \E i \in running : batch[i] \in Untimed)

\* What tool_search tells the model of its matches: they become callable on the
\* next turn, that is, the next inference request offers them.
SurfacedIsCallable == pc = "infer" => found \subseteq offered
=============================================================================
