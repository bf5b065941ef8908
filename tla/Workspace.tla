----------------------------- MODULE Workspace -----------------------------
(***************************************************************************)
(* The workspace of one workflow: a directory that the sub-agent's file,   *)
(* shell and git tools change (tools/files.py, tools/bash.py,              *)
(* tools/git.py), whose diff the sub-agent reports (agent/git_helpers.py), *)
(* and on which the finalisation tools of the orchestrator                 *)
(* (tools/finalization.py) run git: check the repository root, checkout    *)
(* -B, add -A, commit, push, gh pr create, or rmtree.  Every git command   *)
(* is a process of its own and nothing locks the directory, so the         *)
(* sub-agent and any number of finalisation calls interleave between the   *)
(* commands, and a command that times out is not killed.                   *)
(*                                                                         *)
(* A file tree is the set of edits it has on top of the baseline commit.   *)
(***************************************************************************)
EXTENDS Naturals, Sequences, FiniteSets

CONSTANTS
    Edits,      \* changes the sub-agent may make
    NewFiles,   \* those of them that create an untracked file
    Requests,   \* what is asked of finalisation: pairs of a kind and a branch
    MaxCalls,   \* bound on the finalisation calls (buttons and tools)
    MaxRounds,  \* bound on the iterations of the sub-agent
    MaxTools,   \* bound on its tool calls
    MaxOrphans  \* bound on the git commands that time out

ASSUME WorkspaceAssumption ==
    /\ NewFiles \subseteq Edits
    /\ Requests \subseteq {"push", "pr", "discard"} \X {"finalize", "chosen"}
    /\ {MaxCalls, MaxRounds, MaxTools, MaxOrphans} \subseteq Nat

Calls == 1..MaxCalls    \* in the order they start

\* The clone's branch, the one a button pushes (finalize/<workflow>) and one
\* that the finaliser's model names.
Branches == {"main", "finalize", "chosen"}

VARIABLES
    dir,      \* "absent", "plain" (not a repository root) or "repo"
    tree,     \* the working tree
    index,    \* what is staged
    local,    \* the local branches
    commits,  \* commits[b]: the tip of local branch b
    head,     \* the branch HEAD is on
    remote,   \* remote[b]: what origin has of branch b
    agents,   \* sub-agents at work (an iteration may be assigned meanwhile)
    rounds,   \* iterations started
    tools,    \* tool calls made
    open,     \* the workflow is registered with the dispatcher
    call,     \* call[c]: its kind, branch, next step and result
    orphans,  \* timed-out git commands still running
    report,   \* the diff that the last task.complete carried
    \* history
    work,     \* the working tree at that task.complete
    quiet,    \* since then nothing but pushes of one branch touched it
    wiped,    \* the repository was taken away under a running push
    parent    \* a finalisation command ran in the parent repository

repoVars == <<dir, tree, index, local, commits, head>>
agentVars == <<agents, rounds, tools>>
reportVars == <<report, work>>
history == <<quiet, wiped, parent>>
vars == <<repoVars, remote, agentVars, open, call, orphans, reportVars, history>>

(* The git and gh commands of push_branch and push_and_create_pr: each of  *)
(* the three helpers checks the root before it runs its own commands.      *)
Script == <<"check", "checkout", "check", "add", "commit", "check", "push", "gh">>
LastStep(kind) == IF kind = "pr" THEN 8 ELSE 7

Idle == [kind |-> "none", branch |-> "main", step |-> 0, result |-> "none"]

TypeOK ==
    /\ dir \in {"absent", "plain", "repo"}
    /\ tree \subseteq Edits /\ index \subseteq Edits
    /\ local \subseteq Branches /\ head \in local
    /\ commits \in [Branches -> SUBSET Edits] /\ remote \in [Branches -> SUBSET Edits]
    /\ rounds \in 0..MaxRounds /\ agents \in 0..rounds /\ tools \in 0..MaxTools
    /\ open \in BOOLEAN
    /\ call \in [Calls -> [kind : {"none", "push", "pr", "discard"}, branch : Branches,
                           step : 0..Len(Script),
                           result : {"none", "running", "success", "error", "closed"}]]
    /\ orphans \subseteq [command : {"checkout", "add", "commit", "push"}, branch : Branches]
    /\ report \subseteq Edits /\ work \subseteq Edits
    /\ {quiet, wiped, parent} \subseteq BOOLEAN

Init ==
    /\ dir = "absent" /\ tree = {} /\ index = {} /\ local = {"main"} /\ head = "main"
    /\ commits = [b \in Branches |-> {}] /\ remote = [b \in Branches |-> {}]
    /\ agents = 0 /\ rounds = 0 /\ tools = 0 /\ open = TRUE
    /\ call = [c \in Calls |-> Idle] /\ orphans = {}
    /\ report = {} /\ work = {}
    /\ quiet = FALSE /\ wiped = FALSE /\ parent = FALSE

Running(c) == call[c].result = "running"

Pushing(c) == Running(c) /\ call[c].kind # "discard"

\* Call c has its branch checked out and has not pushed it yet.
OnItsBranch(c) == Pushing(c) /\ call[c].step \in 3..7

-----------------------------------------------------------------------------
(* The sub-agent.                                                          *)

\* _run_assigned_task creates the directory; a re-delegation runs in the
\* same one.
Assign ==
    /\ open /\ rounds < MaxRounds
    /\ agents' = agents + 1 /\ rounds' = rounds + 1 /\ UNCHANGED tools
    /\ dir' = IF dir = "absent" THEN "plain" ELSE dir
    /\ UNCHANGED <<tree, index, local, commits, head, remote, open, call, orphans,
                   reportVars, history>>

\* A tool of a sub-agent's loop.
ToolCall ==
    /\ agents > 0 /\ tools < MaxTools
    /\ tools' = tools + 1 /\ quiet' = FALSE
    /\ UNCHANGED <<agents, rounds>>

\* write_file creates missing directories, the workspace included.
WriteFile(e) ==
    /\ ToolCall
    /\ dir' = IF dir = "absent" THEN "plain" ELSE dir
    /\ tree' = tree \cup {e}
    /\ UNCHANGED <<index, local, commits, head, remote, open, call, orphans,
                   reportVars, wiped, parent>>

\* edit_file only rewrites a file that exists, here to undo an edit.
EditFile(e) ==
    /\ ToolCall /\ e \in tree
    /\ tree' = tree \ {e}
    /\ UNCHANGED <<dir, index, local, commits, head, remote, open, call,
                   orphans, reportVars, wiped, parent>>

\* git_clone takes a directory that does not exist yet, so never the workspace
\* itself: what it clones is one more entry of the tree.
GitClone(e) ==
    /\ ToolCall /\ dir # "absent" /\ e \in NewFiles \ tree
    /\ tree' = tree \cup {e}
    /\ UNCHANGED <<dir, index, local, commits, head, remote, open, call, orphans,
                   reportVars, wiped, parent>>

RepositoryRemoved ==
    index' = {} /\ local' = {"main"} /\ head' = "main" /\ commits' = [b \in Branches |-> {}]

\* The repository goes while a push is in progress.
TakenAway == wiped' = (wiped \/ \E d \in Calls : Pushing(d))

\* bash runs any command in the workspace.  What it does to files is WriteFile
\* and EditFile; beyond that it may make the directory a repository (clone,
\* init), commit, push, and remove .git or the directory itself.
Bash ==
    /\ ToolCall /\ dir # "absent"
    /\ \/ /\ dir = "plain" /\ dir' = "repo"
          /\ UNCHANGED <<tree, index, local, commits, head, remote, wiped>>
       \/ /\ dir = "repo" /\ index' = tree /\ commits' = [commits EXCEPT ![head] = tree]
          /\ UNCHANGED <<dir, tree, local, head, remote, wiped>>
       \/ /\ dir = "repo" /\ remote' = [remote EXCEPT ![head] = commits[head]]
          /\ UNCHANGED <<repoVars, wiped>>
       \/ /\ dir = "repo" /\ dir' = "plain" /\ RepositoryRemoved /\ TakenAway
          /\ UNCHANGED <<tree, remote>>
       \/ /\ dir' = "absent" /\ tree' = {} /\ RepositoryRemoved /\ TakenAway
          /\ UNCHANGED remote
    /\ UNCHANGED <<open, call, orphans, reportVars, parent>>

\* git carries local changes along to the branch it switches to.
Carried(content, b) == (commits[b] \ (commits[head] \ content)) \cup (content \ commits[head])

\* The git_checkout tool of the sub-agent.
GitCheckout(b) ==
    /\ ToolCall /\ dir = "repo" /\ b \in local \ {head}
    /\ head' = b /\ tree' = Carried(tree, b) /\ index' = Carried(index, b)
    /\ UNCHANGED <<dir, local, commits, remote, open, call, orphans,
                   reportVars, wiped, parent>>

\* _compute_baseline_diff: the working tree against the baseline, in which
\* untracked files appear when git add --intent-to-add worked.  It is empty for
\* a task without a baseline, outside a repository and when git diff fails.
\* (--intent-to-add puts no content into the index: a commit does not see it.)
BaselineDiffs ==
    {{}} \cup (IF dir = "repo"
              THEN {tree \ untracked : untracked \in SUBSET (tree \cap NewFiles)}
              ELSE {})

\* task.complete carries the diff.  Quiet begins when no other sub-agent is at
\* work and no finalisation call is under way.
Complete ==
    /\ agents > 0 /\ agents' = agents - 1
    /\ report' \in BaselineDiffs /\ work' = tree
    /\ quiet' = (agents = 1 /\ \A c \in Calls : call[c].result \in {"none", "closed"})
    /\ UNCHANGED <<repoVars, remote, rounds, tools, open, call, orphans, wiped, parent>>

\* task.error reports none.
Fail ==
    /\ agents > 0 /\ agents' = agents - 1
    /\ UNCHANGED <<repoVars, remote, rounds, tools, open, call, orphans, reportVars, history>>

-----------------------------------------------------------------------------
(* The finalisation calls.                                                 *)

\* A button or a tool call of the finaliser's model starts on a registered
\* workflow.
Start(c, request) ==
    /\ open /\ rounds > 0
    /\ call[c].result = "none" /\ \A d \in 1..(c - 1) : call[d].result # "none"
    /\ call' = [call EXCEPT ![c] = [kind |-> request[1], branch |-> request[2], step |-> 1,
                                    result |-> "running"]]
    /\ UNCHANGED <<repoVars, remote, agentVars, open, orphans, reportVars, history>>

Command(c) == Script[call[c].step]
InGit(c) == Pushing(c) /\ call[c].step \in 1..7

\* A commit of nothing fails: git says so on stdout, run_git returns stderr,
\* and the "nothing to commit" that commit_workspace looks for is not there.
Succeeds(command, b) ==
    CASE command = "commit" -> index # commits[head]
      [] command = "push" -> b \in local
      [] OTHER -> TRUE

\* A seeded fault: git add -u, which leaves out the new files when no diff has
\* marked them (a task without a baseline).
StagedTracked == (tree \ NewFiles) \cup (tree \cap index)

\* git add -A stages the whole working tree, untracked files too.
Staged == tree

\* What a git command changes in the repository it runs in.
Effect(command, b) ==
    /\ local' = IF command = "checkout" THEN local \cup {b} ELSE local
    /\ head' = IF command = "checkout" THEN b ELSE head
    /\ commits' = CASE command = "checkout" -> [commits EXCEPT ![b] = commits[head]]
                    [] command = "commit" -> [commits EXCEPT ![head] = index]
                    [] OTHER -> commits
    /\ index' = IF command = "add" THEN Staged ELSE index
    /\ remote' = IF command = "push" THEN [remote EXCEPT ![b] = commits[b]] ELSE remote
    /\ quiet' = (quiet /\ (command = "checkout" =>
                             \A c \in Calls : OnItsBranch(c) => call[c].branch = b))
    /\ UNCHANGED <<dir, tree>>

NextStep(c) ==
    call' = IF call[c].step = LastStep(call[c].kind)
            THEN [call EXCEPT ![c].step = 0, ![c].result = "success"]
            ELSE [call EXCEPT ![c].step = @ + 1]

EndsWith(c, result) == call' = [call EXCEPT ![c].step = 0, ![c].result = result]

\* A seeded fault: any repository will do.
RootIsSome == dir # "absent"

\* _ensure_git_workspace_root: rev-parse must name the workspace itself.
RootIsOwn == dir = "repo"

CheckRoot(c) ==
    /\ InGit(c) /\ Command(c) = "check"
    /\ IF RootIsOwn THEN NextStep(c) ELSE EndsWith(c, "error")
    /\ UNCHANGED <<repoVars, remote, agentVars, open, orphans, reportVars, history>>

\* A command runs.  git finds the workspace or, when the directory has been
\* replaced since the check, the repository above it.
Git(c) ==
    /\ InGit(c) /\ Command(c) # "check" /\ NextStep(c)
    /\ \/ /\ dir = "repo" /\ Succeeds(Command(c), call[c].branch)
          /\ Effect(Command(c), call[c].branch)
          /\ UNCHANGED parent
       \/ /\ dir = "plain" /\ parent' = TRUE
          /\ UNCHANGED <<repoVars, remote, quiet>>
    /\ UNCHANGED <<agentVars, open, orphans, reportVars, wiped>>

\* run_git returns an error: a non-zero exit, or the directory is gone.
GitFails(c) ==
    /\ InGit(c) /\ EndsWith(c, "error")
    /\ UNCHANGED <<repoVars, remote, agentVars, open, orphans, reportVars, history>>

\* A seeded fault: only the push has a timeout.
PushTimesOut(c) ==
    /\ InGit(c) /\ Command(c) = "push" /\ EndsWith(c, "error")
    /\ UNCHANGED <<repoVars, remote, agentVars, open, orphans, reportVars, history>>

\* run_git gives up waiting and nobody kills the process: unless it hangs
\* for good, it is still at work, here or in the repository above.
TimesOut(c) ==
    /\ InGit(c) /\ EndsWith(c, "error")
    /\ \/ UNCHANGED <<orphans, parent>>
       \/ /\ Command(c) # "check" /\ dir = "repo" /\ Cardinality(orphans) < MaxOrphans
          /\ orphans' = orphans \cup {[command |-> Command(c), branch |-> call[c].branch]}
          /\ UNCHANGED parent
       \/ /\ Command(c) # "check" /\ dir = "plain" /\ parent' = TRUE
          /\ UNCHANGED orphans
    /\ UNCHANGED <<repoVars, remote, agentVars, open, reportVars, quiet, wiped>>

OrphanEnds(o) ==
    /\ orphans' = orphans \ {o}
    /\ dir = "repo" /\ Succeeds(o.command, o.branch) /\ Effect(o.command, o.branch)
    /\ UNCHANGED <<agentVars, open, call, reportVars, wiped, parent>>

\* gh pr create.  Its failure is caught and its timeout is not; neither
\* closes the workflow.
CreatePullRequest(c) ==
    /\ Pushing(c) /\ call[c].step = 8
    /\ \/ dir # "absent" /\ EndsWith(c, "success") /\ parent' = (parent \/ dir = "plain")
       \/ EndsWith(c, "error") /\ UNCHANGED parent
    /\ UNCHANGED <<repoVars, remote, agentVars, open, orphans, reportVars, quiet, wiped>>

\* discard_work removes the tree in one blocking call; when that raises, part
\* of the tree is gone.
DiscardWork(c) ==
    /\ Running(c) /\ call[c].kind = "discard"
    /\ \/ dir' = "absent" /\ tree' = {} /\ RepositoryRemoved /\ EndsWith(c, "success")
       \/ /\ dir # "absent" /\ tree' \in SUBSET tree /\ EndsWith(c, "error")
          /\ \/ dir' = "plain" /\ RepositoryRemoved
             \/ UNCHANGED <<dir, index, local, commits, head>>
    /\ quiet' = FALSE /\ TakenAway
    /\ UNCHANGED <<remote, agentVars, open, orphans, reportVars, parent>>

\* A seeded fault: an error closes the workflow too.
TerminalAlways(c) == call[c].result \in {"success", "error"}

\* is_terminal: the message is not an error.
Terminal(c) == call[c].result = "success"

\* The result is rendered, then a terminal call deregisters the workflow,
\* which terminates its sub-agents.
Close(c) ==
    /\ call[c].result \in {"success", "error"}
    /\ open' = (open /\ ~Terminal(c))
    /\ agents' = IF Terminal(c) THEN 0 ELSE agents
    /\ call' = [call EXCEPT ![c] = [Idle EXCEPT !.result = "closed"]]
    /\ UNCHANGED <<repoVars, remote, rounds, tools, orphans, reportVars, history>>

-----------------------------------------------------------------------------
AgentStep ==
    \/ Assign \/ Bash \/ Complete \/ Fail
    \/ \E e \in Edits : WriteFile(e) \/ EditFile(e) \/ GitClone(e)
    \/ \E b \in Branches : GitCheckout(b)

CallStep(c) ==
    \/ CheckRoot(c) \/ Git(c) \/ GitFails(c) \/ TimesOut(c)
    \/ CreatePullRequest(c) \/ DiscardWork(c) \/ Close(c)
    \/ \E request \in Requests : Start(c, request)

Next ==
    \/ AgentStep
    \/ \E c \in Calls : CallStep(c)
    \/ \E o \in orphans : OrphanEnds(o)

\* Every git and gh command has a timeout and rmtree returns.  Nothing makes
\* a command succeed, and nothing makes the sub-agent end.
Fairness == \A c \in Calls : WF_vars(TimesOut(c) \/ CreatePullRequest(c) \/ DiscardWork(c))

Spec == Init /\ [][Next]_vars /\ Fairness

-----------------------------------------------------------------------------
(* Properties.                                                             *)

\* The whole work of the last iteration, which includes all the user was shown.
IsTheWork(content) == content = work /\ report \subseteq content

\* A push that goes through puts on its branch the work as the last
\* task.complete left it: all that the report showed, new files and work that
\* its diff lacked, and nothing else, whatever double clicks, failed attempts
\* and timed-out commands of the same branch did meanwhile (checkout -B,
\* add -A and commit of the three helpers of tools/finalization.py).
PushedIsTheWork ==
    [][\A c \in Calls :
         quiet /\ InGit(c) /\ Command(c) = "push" /\ NextStep(c)
           => IsTheWork(remote'[call[c].branch])]_vars

\* A workflow that is closed while nothing has touched its workspace since
\* the report is closed with that work on the remote: errors keep it
\* registered (is_terminal in tools/finalization.py).  This is about the calls
\* of this module: the finaliser can also close a workflow without delivering
\* it, by destroy_sandbox or by calling no tool (WorkflowLifecycle).
ClosedMeansDelivered == ~open /\ quiet => \E b \in Branches : IsTheWork(remote[b])

\* A finalisation command acts on the repository above the workspace only if
\* the workspace's own was taken away under a running push, by a discard or by
\* the shell of another iteration: the root check of
\* _ensure_git_workspace_root is made before the commands, not with them.
ParentRepoSafe == parent => wiped

\* Every finalisation call comes to a result: the timeouts of run_git and
\* create_pull_request.  A call is made once, so all of them end if and only if
\* none is running in the end.
PushEnds == <>[](\A c \in Calls : ~Running(c))
=============================================================================
