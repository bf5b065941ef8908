--------------------------- MODULE WorkspaceProofs ---------------------------
(***************************************************************************)
(* Machine-checked proofs about Workspace: what finalisation calls may do  *)
(* to a workspace and its remote, for any number of calls, iterations,     *)
(* tools, edits and timed-out commands.                                    *)
(***************************************************************************)
EXTENDS Workspace, TLAPS

-----------------------------------------------------------------------------
(* Types, and how a call moves *)

Record == [kind : {"none", "push", "pr", "discard"}, branch : Branches, step : 0..8,
           result : {"none", "running", "success", "error", "closed"}]

RepoTypes ==
    /\ call \in [Calls -> Record]
    /\ commits \in [Branches -> SUBSET Edits] /\ remote \in [Branches -> SUBSET Edits]
    /\ tree \subseteq Edits /\ index \subseteq Edits
    /\ head \in Branches /\ local \subseteq Branches
    /\ \A o \in orphans : o.branch \in Branches

LEMMA ScriptIs ==
    /\ \A n \in 1..7 : Script[n] = "check" <=> n \in {1, 3, 6}
    /\ Script[2] = "checkout" /\ Script[4] = "add" /\ Script[5] = "commit" /\ Script[7] = "push"
BY DEF Script

\* Only call c changes.
Alone(c) == call' \in [Calls -> Record] /\ \A d \in Calls : d # c => call'[d] = call[d]

LEMMA EndedRecord ==
    ASSUME NEW r \in Record, NEW result \in {"success", "error"}
    PROVE  [r EXCEPT !.step = 0, !.result = result] \in Record
<1> DEFINE x == [r EXCEPT !.step = 0]
<1>1. x \in Record
  BY DEF Record
<1>2. [x EXCEPT !.result = result] \in Record
  <2> HIDE DEF x
  <2> QED
    BY <1>1 DEF Record
<1> QED
  BY <1>2

LEMMA AdvanceFacts ==
    ASSUME RepoTypes, NEW c \in Calls, InGit(c), NextStep(c)
    PROVE  /\ Alone(c)
           /\ call'[c].kind = call[c].kind /\ call'[c].branch = call[c].branch
           /\ \/ call'[c].step = call[c].step + 1 /\ call'[c].result = "running"
              \/ call[c].step = 7 /\ call'[c].step = 0 /\ call'[c].result = "success"
<1>0. /\ call \in [Calls -> Record] /\ call[c] \in Record /\ call[c].step \in 1..7
      /\ call[c].result = "running" /\ call[c].kind # "discard"
  BY DEF RepoTypes, InGit, Pushing, Running
<1>1. CASE call[c].step = LastStep(call[c].kind)
  <2>1. call' = [call EXCEPT ![c].step = 0, ![c].result = "success"]
    BY <1>1 DEF NextStep
  <2>2. call' = [call EXCEPT ![c] = [call[c] EXCEPT !.step = 0, !.result = "success"]]
    BY <1>0, <2>1
  <2>3. [call[c] EXCEPT !.step = 0, !.result = "success"] \in Record
    BY <1>0, EndedRecord
  <2>4. call[c].step = 7
    BY <1>0, <1>1 DEF LastStep
  <2> QED
    BY <1>0, <2>2, <2>3, <2>4 DEF Alone, Record
<1>2. CASE call[c].step # LastStep(call[c].kind)
  <2>1. call' = [call EXCEPT ![c] = [call[c] EXCEPT !.step = call[c].step + 1]]
    BY <1>0, <1>2 DEF NextStep
  <2>2. [call[c] EXCEPT !.step = call[c].step + 1] \in Record
    BY <1>0 DEF Record
  <2> QED
    BY <1>0, <2>1, <2>2 DEF Alone, Record
<1> QED
  BY <1>1, <1>2

LEMMA EndFacts ==
    ASSUME RepoTypes, NEW c \in Calls, NEW result \in {"success", "error"}, EndsWith(c, result)
    PROVE  /\ Alone(c)
           /\ call'[c].step = 0 /\ call'[c].result = result
<1>0. call \in [Calls -> Record] /\ call[c] \in Record
  BY DEF RepoTypes
<1>1. call' = [call EXCEPT ![c].step = 0, ![c].result = result]
  BY DEF EndsWith
<1>2. call' = [call EXCEPT ![c] = [call[c] EXCEPT !.step = 0, !.result = result]]
  BY <1>0, <1>1
<1>3. [call[c] EXCEPT !.step = 0, !.result = result] \in Record
  BY <1>0, EndedRecord
<1> QED
  BY <1>0, <1>2, <1>3 DEF Alone, Record

LEMMA StartFacts ==
    ASSUME RepoTypes, NEW c \in Calls, NEW request \in Requests, Start(c, request)
    PROVE  /\ Alone(c) /\ call'[c].step = 1 /\ call'[c].result = "running"
<1>1. request[1] \in {"push", "pr", "discard"} /\ request[2] \in {"finalize", "chosen"}
  BY WorkspaceAssumption
<1> DEFINE rec == [kind |-> request[1], branch |-> request[2], step |-> 1,
                   result |-> "running"]
<1>2. rec \in Record
  BY <1>1 DEF Record, Branches
<1>3. call' = [call EXCEPT ![c] = rec] /\ call \in [Calls -> Record]
  BY DEF Start, RepoTypes
<1>4. rec.step = 1 /\ rec.result = "running"
  OBVIOUS
<1> HIDE DEF rec
<1> QED
  BY <1>2, <1>3, <1>4 DEF Alone

LEMMA CloseFacts ==
    ASSUME RepoTypes, NEW c \in Calls, Close(c)
    PROVE  /\ Alone(c) /\ call'[c].result = "closed"
<1> DEFINE rec == [Idle EXCEPT !.result = "closed"]
<1>1. rec \in Record /\ rec.result = "closed"
  BY DEF Record, Idle, Branches
<1>2. call' = [call EXCEPT ![c] = rec] /\ call \in [Calls -> Record]
  BY DEF Close, RepoTypes
<1> HIDE DEF rec
<1> QED
  BY <1>1, <1>2 DEF Alone

LEMMA EffectTypes ==
    ASSUME RepoTypes, NEW command, NEW b \in Branches, Effect(command, b)
    PROVE  /\ commits' \in [Branches -> SUBSET Edits] /\ remote' \in [Branches -> SUBSET Edits]
           /\ tree' \subseteq Edits /\ index' \subseteq Edits
           /\ head' \in Branches /\ local' \subseteq Branches
<1>1. commits' \in {commits, [commits EXCEPT ![b] = commits[head]],
                    [commits EXCEPT ![head] = index]}
  <2>1. CASE command = "checkout"
    BY <2>1 DEF Effect
  <2>2. CASE command = "commit"
    BY <2>2 DEF Effect
  <2>3. CASE command \notin {"checkout", "commit"}
    BY <2>3 DEF Effect
  <2> QED
    BY <2>1, <2>2, <2>3
<1>2. commits' \in [Branches -> SUBSET Edits]
  BY <1>1 DEF RepoTypes
<1>3. remote' \in [Branches -> SUBSET Edits]
  BY DEF RepoTypes, Effect
<1>4. /\ tree' \subseteq Edits /\ index' \subseteq Edits
      /\ head' \in Branches /\ local' \subseteq Branches
  BY DEF RepoTypes, Effect, Staged
<1> QED
  BY <1>2, <1>3, <1>4

\* A call's step leaves the types alone: what it changes besides its record
\* is the repository, through Effect or by removing it.
LEMMA NextRepoTypes ==
    ASSUME RepoTypes, [Next]_vars
    PROVE  RepoTypes'
<1>1. CASE UNCHANGED vars
  BY <1>1 DEF RepoTypes, vars, repoVars
<1>2. CASE AgentStep
  <2> DEFINE Typed == /\ UNCHANGED <<call, orphans>>
                      /\ tree' \subseteq Edits /\ index' \subseteq Edits
                      /\ head' \in Branches /\ local' \subseteq Branches
                      /\ \/ UNCHANGED commits
                         \/ commits' = [commits EXCEPT ![head] = tree]
                         \/ commits' = [b \in Branches |-> {}]
                      /\ remote' \in {remote, [remote EXCEPT ![head] = commits[head]]}
  <2>0. Typed
    <3>1. CASE Assign \/ Complete \/ Fail
      BY <3>1 DEF RepoTypes, Assign, Complete, Fail, repoVars
    <3>2. CASE Bash
      BY <3>2 DEF RepoTypes, Bash, RepositoryRemoved, Branches, repoVars
    <3>3. ASSUME NEW e \in Edits, WriteFile(e) \/ EditFile(e) \/ GitClone(e)
          PROVE  Typed
      BY <3>3 DEF RepoTypes, WriteFile, EditFile, GitClone
    <3>4. ASSUME NEW b \in Branches, GitCheckout(b)
          PROVE  Typed
      BY <3>4 DEF RepoTypes, GitCheckout, Carried
    <3> QED
      BY <1>2, <3>1, <3>2, <3>3, <3>4 DEF AgentStep
  <2> QED
    BY <2>0 DEF RepoTypes
<1>3. ASSUME NEW c \in Calls, CallStep(c)
      PROVE  RepoTypes'
  <2>1. CASE CheckRoot(c)
    <3>1. Alone(c)
      BY <2>1, AdvanceFacts, EndFacts DEF CheckRoot
    <3> QED
      BY <2>1, <3>1 DEF CheckRoot, RepoTypes, Alone, repoVars
  <2>2. CASE Git(c)
    <3>1. Alone(c) /\ UNCHANGED orphans /\ call[c].branch \in Branches
      BY <2>2, AdvanceFacts DEF Git, RepoTypes, Record
    <3>2. CASE Effect(Command(c), call[c].branch)
      BY <3>1, <3>2, EffectTypes DEF RepoTypes, Alone
    <3>3. CASE UNCHANGED <<repoVars, remote>>
      BY <3>1, <3>3 DEF RepoTypes, Alone, repoVars
    <3> QED
      BY <2>2, <3>2, <3>3 DEF Git
  <2>3. CASE GitFails(c) \/ TimesOut(c)
    <3>1. Alone(c)
      BY <2>3, EndFacts DEF GitFails, TimesOut
    <3>2. call[c].branch \in Branches
      BY DEF RepoTypes, Record
    <3>3. \A o \in orphans' : o.branch \in Branches
      BY <2>3, <3>2 DEF GitFails, TimesOut, RepoTypes
    <3> QED
      BY <2>3, <3>1, <3>3 DEF GitFails, TimesOut, RepoTypes, Alone, repoVars
  <2>4. CASE CreatePullRequest(c)
    <3>1. Alone(c)
      BY <2>4, EndFacts DEF CreatePullRequest
    <3> QED
      BY <2>4, <3>1 DEF CreatePullRequest, RepoTypes, Alone, repoVars
  <2>5. CASE DiscardWork(c)
    <3>1. Alone(c)
      BY <2>5, EndFacts DEF DiscardWork
    <3>2. /\ tree' \subseteq Edits /\ index' \subseteq Edits
          /\ head' \in Branches /\ local' \subseteq Branches
          /\ commits' = commits \/ commits' = [b \in Branches |-> {}]
      BY <2>5 DEF DiscardWork, RepositoryRemoved, RepoTypes, Branches
    <3>3. commits' \in [Branches -> SUBSET Edits]
      BY <3>2 DEF RepoTypes
    <3> QED
      BY <2>5, <3>1, <3>2, <3>3 DEF DiscardWork, RepoTypes, Alone
  <2>6. CASE Close(c)
    BY <2>6, CloseFacts DEF Close, RepoTypes, Alone, repoVars
  <2>7. ASSUME NEW request \in Requests, Start(c, request)
        PROVE  RepoTypes'
    BY <2>7, StartFacts DEF Start, RepoTypes, Alone, repoVars
  <2> QED
    BY <1>3, <2>1, <2>2, <2>3, <2>4, <2>5, <2>6, <2>7 DEF CallStep
<1>4. ASSUME NEW o \in orphans, OrphanEnds(o)
      PROVE  RepoTypes'
  <2>1. o.branch \in Branches
    BY DEF RepoTypes
  <2> QED
    BY <1>4, <2>1, EffectTypes DEF OrphanEnds, RepoTypes
<1> QED
  BY <1>1, <1>2, <1>3, <1>4 DEF Next

LEMMA InitRepoTypes == Init => RepoTypes
<1> SUFFICES ASSUME Init PROVE RepoTypes
  OBVIOUS
<1>1. Idle \in Record
  BY DEF Idle, Record, Branches
<1> QED
  BY <1>1 DEF Init, RepoTypes, Branches

-----------------------------------------------------------------------------
(* The repository above the workspace *)

\* Past its first root check a call has a repository under it, unless a
\* discard or the sub-agent's shell took that away.
RootInv ==
    /\ \A c \in Calls : Pushing(c) /\ call[c].step >= 2 /\ dir # "repo" => wiped
    /\ parent => wiped

\* A step of call c that is not a discard.
LEMMA RootKept ==
    ASSUME RepoTypes, RootInv, NEW c \in Calls, Alone(c), UNCHANGED <<dir, wiped>>,
           Pushing(c)' /\ call'[c].step >= 2 =>
               Pushing(c) /\ (call[c].step >= 2 \/ dir = "repo"),
           parent' => parent \/ (Pushing(c) /\ call[c].step >= 2 /\ dir # "repo")
    PROVE  RootInv'
<1>1. ASSUME NEW d \in Calls, Pushing(d)', call'[d].step >= 2, dir' # "repo"
      PROVE  wiped'
  <2>1. CASE d = c
    BY <1>1, <2>1 DEF RootInv
  <2>2. CASE d # c
    <3>1. call'[d] = call[d]
      BY <2>2 DEF Alone
    <3> QED
      BY <1>1, <3>1 DEF RootInv, Pushing, Running
  <2> QED
    BY <2>1, <2>2
<1>2. parent' => wiped'
  BY DEF RootInv
<1> QED
  BY <1>1, <1>2 DEF RootInv

LEMMA NextRoot ==
    ASSUME RepoTypes, RootInv, [Next]_vars
    PROVE  RootInv'
<1>1. CASE UNCHANGED vars
  BY <1>1 DEF RootInv, Pushing, Running, vars, repoVars, history
<1>2. CASE AgentStep
  <2>1. CASE UNCHANGED <<call, wiped, parent>> /\ (dir = "repo" => dir' = "repo")
    BY <2>1 DEF RootInv, Pushing, Running
  <2>2. CASE Bash
    <3>1. UNCHANGED <<call, parent>>
      BY <2>2 DEF Bash
    <3>2. CASE TakenAway
      BY <3>1, <3>2 DEF TakenAway, RootInv, Pushing, Running
    <3>3. CASE UNCHANGED wiped /\ (dir = "repo" => dir' = "repo")
      BY <2>1, <3>1, <3>3
    <3> QED
      BY <2>2, <3>2, <3>3 DEF Bash, repoVars
  <2> QED
    BY <1>2, <2>1, <2>2 DEF AgentStep, Assign, Complete, Fail, WriteFile, EditFile, GitClone,
                            GitCheckout, repoVars, history
<1>3. ASSUME NEW c \in Calls, CallStep(c)
      PROVE  RootInv'
  <2>1. CASE CheckRoot(c)
    <3>1. UNCHANGED <<dir, wiped, parent>>
      BY <2>1 DEF CheckRoot, repoVars, history
    <3>2. CASE RootIsOwn
      <4>1. InGit(c) /\ NextStep(c)
        BY <2>1, <3>2 DEF CheckRoot
      <4>2. Alone(c)
        BY <4>1, AdvanceFacts
      <4> QED
        BY <3>1, <3>2, <4>1, <4>2, RootKept DEF RootIsOwn, InGit
    <3>3. CASE ~RootIsOwn
      <4>1. Alone(c) /\ call'[c].step = 0
        BY <2>1, <3>3, EndFacts DEF CheckRoot
      <4> QED
        BY <3>1, <4>1, RootKept
    <3> QED
      BY <3>2, <3>3
  <2>2. CASE Git(c)
    <3>1. Alone(c) /\ Pushing(c) /\ call[c].step >= 2
      <4>1. InGit(c) /\ Command(c) # "check" /\ NextStep(c)
        BY <2>2 DEF Git
      <4>2. call[c].step \in 1..7 /\ call[c].step # 1
        BY <4>1, ScriptIs DEF InGit, Command
      <4> QED
        BY <4>1, <4>2, AdvanceFacts DEF InGit
    <3>2. UNCHANGED <<dir, wiped>> /\ (parent' => parent \/ dir = "plain")
      BY <2>2 DEF Git, Effect, repoVars
    <3> QED
      BY <3>1, <3>2, RootKept
  <2>3. CASE GitFails(c) \/ TimesOut(c)
    <3>1. Alone(c) /\ call'[c].step = 0
      BY <2>3, EndFacts DEF GitFails, TimesOut
    <3>2. /\ UNCHANGED <<dir, wiped>>
          /\ parent' => parent \/ (InGit(c) /\ Command(c) # "check" /\ dir = "plain")
      BY <2>3 DEF GitFails, TimesOut, repoVars, history
    <3>3. InGit(c) /\ Command(c) # "check" => Pushing(c) /\ call[c].step >= 2
      <4> SUFFICES ASSUME InGit(c), Command(c) # "check"
                   PROVE  Pushing(c) /\ call[c].step >= 2
        OBVIOUS
      <4>1. call[c].step \in 1..7 /\ call[c].step # 1
        BY ScriptIs DEF InGit, Command
      <4> QED
        BY <4>1 DEF InGit
    <3> QED
      BY <3>1, <3>2, <3>3, RootKept
  <2>4. CASE CreatePullRequest(c)
    <3>1. Alone(c) /\ call'[c].step = 0
      BY <2>4, EndFacts DEF CreatePullRequest
    <3>2. UNCHANGED <<dir, wiped>> /\ (parent' => parent \/ dir = "plain")
      <4>1. UNCHANGED <<dir, wiped>>
        BY <2>4 DEF CreatePullRequest, repoVars
      <4>2. CASE dir = "plain"
        BY <4>1, <4>2
      <4>3. CASE dir # "plain" /\ ~parent
        <5>1. (parent \/ dir = "plain") = FALSE
          BY <4>3
        <5>2. parent' = FALSE \/ parent' = parent
          BY <2>4, <5>1 DEF CreatePullRequest
        <5> QED
          BY <4>1, <4>3, <5>2
      <4> QED
        BY <4>1, <4>2, <4>3
    <3>3. Pushing(c) /\ call[c].step >= 2
      BY <2>4 DEF CreatePullRequest
    <3> QED
      BY <3>1, <3>2, <3>3, RootKept
  <2>5. CASE DiscardWork(c)
    <3>1. Alone(c) /\ ~Running(c)'
      BY <2>5, EndFacts DEF DiscardWork, Running
    <3>2. ASSUME NEW d \in Calls, Pushing(d)'
          PROVE  wiped'
      <4>1. d # c /\ call'[d] = call[d]
        BY <3>1, <3>2 DEF Alone, Pushing
      <4> QED
        BY <2>5, <3>2, <4>1 DEF DiscardWork, TakenAway, Pushing, Running
    <3>3. parent' => wiped'
      BY <2>5 DEF DiscardWork, TakenAway, RootInv
    <3> QED
      BY <3>2, <3>3 DEF RootInv
  <2>6. CASE Close(c)
    <3>1. Alone(c) /\ ~Pushing(c)' /\ UNCHANGED <<dir, wiped, parent>>
      BY <2>6, CloseFacts DEF Close, Pushing, Running, repoVars, history
    <3> QED
      BY <3>1, RootKept
  <2>7. ASSUME NEW request \in Requests, Start(c, request)
        PROVE  RootInv'
    <3>1. Alone(c) /\ call'[c].step = 1
      BY <2>7, StartFacts
    <3>2. UNCHANGED <<dir, wiped, parent>>
      BY <2>7 DEF Start, repoVars, history
    <3> QED
      BY <3>1, <3>2, RootKept
  <2> QED
    BY <1>3, <2>1, <2>2, <2>3, <2>4, <2>5, <2>6, <2>7 DEF CallStep
<1>4. ASSUME NEW o \in orphans, OrphanEnds(o)
      PROVE  RootInv'
  <2>1. UNCHANGED <<call, dir, wiped, parent>>
    BY <1>4 DEF OrphanEnds, Effect
  <2> QED
    BY <2>1 DEF RootInv, Pushing, Running
<1> QED
  BY <1>1, <1>2, <1>3, <1>4 DEF Next

\* No finalisation command acts on the repository above the workspace unless a
\* discard or the shell of a sub-agent took the workspace's own away under a
\* running push.  Apart from that the root check of _ensure_git_workspace_root
\* protects every later command, those that time out included, however many
\* calls and sub-agent tools interleave and whenever the directory was
\* removed, emptied or made a repository before.
THEOREM ParentSafeUnlessTakenAway == Spec => []ParentRepoSafe
<1>1. Init => RootInv
  BY DEF Init, RootInv, Pushing, Running, Idle
<1>2. RepoTypes /\ RootInv /\ [Next]_vars => RepoTypes' /\ RootInv'
  BY NextRepoTypes, NextRoot
<1>3. RootInv => ParentRepoSafe
  BY DEF RootInv, ParentRepoSafe
<1> QED
  BY <1>1, <1>2, <1>3, InitRepoTypes, PTL DEF Spec

-----------------------------------------------------------------------------
(* What is pushed, and what a closed workflow leaves on the remote *)

\* How far call c's part of the repository has come, by its next step.
OnTheWay(c) ==
    Pushing(c) =>
        /\ call[c].step >= 1
        /\ call[c].step >= 2 => dir = "repo"
        /\ call[c].step \in 3..7 => head = call[c].branch
        /\ call[c].step \in 5..7 => index = tree
        /\ call[c].step \in 6..7 => commits[head] = tree

Shown == IsTheWork(tree)

\* Call c has pushed, and its result has not been rendered yet.
Delivered(c) == (Pushing(c) /\ call[c].step = 8) \/ call[c].result = "success"

\* Origin has the working tree on branch b, and no git command of a
\* finalisation call can change that.
Safe(b) ==
    /\ dir = "repo" /\ index = tree
    /\ commits[head] = tree /\ commits[b] = tree /\ remote[b] = tree

QuietInv ==
    /\ Shown
    /\ \A c \in Calls : OnTheWay(c)
    /\ (~open \/ \E c \in Calls : Delivered(c)) => \E b \in Branches : Safe(b)

DeliveryInv ==
    /\ ~open => agents = 0
    /\ quiet => QuietInv

LEMMA EffectQuiet ==
    ASSUME NEW command, NEW b, Effect(command, b), quiet'
    PROVE  /\ quiet
           /\ command = "checkout" => \A c \in Calls : OnItsBranch(c) => call[c].branch = b
<1> DEFINE P == /\ quiet
                /\ command = "checkout" =>
                     \A c \in Calls : OnItsBranch(c) => call[c].branch = b
<1>1. quiet' = P
  BY DEF Effect
<1> HIDE DEF P
<1>2. P
  <2> SUFFICES ASSUME ~P PROVE FALSE
    OBVIOUS
  <2>1. P = FALSE
    OBVIOUS
  <2> QED
    BY <1>1, <2>1
<1> QED
  BY <1>2 DEF P

\* What a git command of any branch leaves alone.
LEMMA EffectKeeps ==
    ASSUME RepoTypes, QuietInv, NEW command, NEW b \in Branches, Effect(command, b),
           dir = "repo",
           command = "checkout" => \A c \in Calls : OnItsBranch(c) => call[c].branch = b
    PROVE  /\ \A d \in Calls : call'[d] = call[d] => OnTheWay(d)'
           /\ \A x \in Branches : Safe(x) => Safe(x)'
<1>0. /\ UNCHANGED <<dir, tree>> /\ head \in Branches
      /\ commits \in [Branches -> SUBSET Edits] /\ remote \in [Branches -> SUBSET Edits]
  BY DEF Effect, RepoTypes
<1>1. CASE command = "checkout"
  <2>1. /\ head' = b /\ commits' = [commits EXCEPT ![b] = commits[head]]
        /\ index' = index /\ remote' = remote
    BY <1>1 DEF Effect
  <2>2. commits'[b] = commits[head] /\ \A x \in Branches : x # b => commits'[x] = commits[x]
    BY <1>0, <2>1
  <2>3. ASSUME NEW d \in Calls, call'[d] = call[d]
        PROVE  OnTheWay(d)'
    <3>1. OnTheWay(d)
      BY DEF QuietInv
    <3>2. Pushing(d) /\ call[d].step \in 3..7 => call[d].branch = b
      BY <1>1 DEF OnItsBranch
    <3> QED
      BY <1>0, <2>1, <2>2, <2>3, <3>1, <3>2 DEF OnTheWay, Pushing, Running
  <2>4. ASSUME NEW x \in Branches, Safe(x)
        PROVE  Safe(x)'
    BY <1>0, <2>1, <2>2, <2>4 DEF Safe
  <2> QED
    BY <2>3, <2>4
<1>2. CASE command = "commit"
  <2>1. /\ head' = head /\ commits' = [commits EXCEPT ![head] = index]
        /\ index' = index /\ remote' = remote
    BY <1>2 DEF Effect
  <2>2. commits'[head] = index /\ \A x \in Branches : x # head => commits'[x] = commits[x]
    BY <1>0, <2>1
  <2>3. ASSUME NEW d \in Calls, call'[d] = call[d]
        PROVE  OnTheWay(d)'
    <3>1. OnTheWay(d)
      BY DEF QuietInv
    <3>2. call[d].step \in 6..7 => call[d].step \in 5..7
      OBVIOUS
    <3> QED
      BY <1>0, <2>1, <2>2, <2>3, <3>1, <3>2 DEF OnTheWay, Pushing, Running
  <2>4. ASSUME NEW x \in Branches, Safe(x)
        PROVE  Safe(x)'
    BY <1>0, <2>1, <2>2, <2>4 DEF Safe
  <2> QED
    BY <2>3, <2>4
<1>3. CASE command \notin {"checkout", "commit"}
  <2>1. /\ head' = head /\ commits' = commits /\ index' \in {index, tree}
        /\ remote' \in {remote, [remote EXCEPT ![b] = commits[b]]}
    BY <1>3 DEF Effect, Staged
  <2>2. \A x \in Branches : remote'[x] \in {remote[x], commits[x]}
    BY <1>0, <2>1
  <2>3. ASSUME NEW d \in Calls, call'[d] = call[d]
        PROVE  OnTheWay(d)'
    <3>1. OnTheWay(d)
      BY DEF QuietInv
    <3> QED
      BY <1>0, <2>1, <2>3, <3>1 DEF OnTheWay, Pushing, Running
  <2>4. ASSUME NEW x \in Branches, Safe(x)
        PROVE  Safe(x)'
    BY <1>0, <2>1, <2>2, <2>4 DEF Safe
  <2> QED
    BY <2>3, <2>4
<1> QED
  BY <1>1, <1>2, <1>3

\* A step of call c that leaves the workspace, the remote and the report alone.
LEMMA DeliveryKept ==
    ASSUME DeliveryInv, NEW c \in Calls, Alone(c),
           UNCHANGED <<repoVars, remote, reportVars, quiet>>,
           quiet => OnTheWay(c)',
           Delivered(c)' => Delivered(c),
           ~open' => ~open \/ Delivered(c),
           ~open' => agents' = 0
    PROVE  DeliveryInv'
<1> SUFFICES ASSUME quiet' PROVE QuietInv'
  BY DEF DeliveryInv
<1>1. QuietInv /\ quiet
  BY DEF DeliveryInv
<1>2. Shown'
  BY <1>1 DEF QuietInv, Shown, IsTheWork, repoVars, reportVars
<1>3. ASSUME NEW d \in Calls
      PROVE  OnTheWay(d)'
  <2>1. CASE d = c
    BY <1>1, <2>1
  <2>2. CASE d # c
    <3>1. call'[d] = call[d] /\ OnTheWay(d)
      BY <1>1, <2>2 DEF Alone, QuietInv
    <3> QED
      BY <3>1 DEF OnTheWay, Pushing, Running, repoVars
  <2> QED
    BY <2>1, <2>2
<1>4. ASSUME ~open' \/ \E d \in Calls : Delivered(d)'
      PROVE  \E b \in Branches : Safe(b)'
  <2>1. ASSUME NEW d \in Calls, Delivered(d)', d # c
        PROVE  Delivered(d)
    BY <2>1 DEF Delivered, Pushing, Running, Alone
  <2>2. ~open \/ \E d \in Calls : Delivered(d)
    BY <1>4, <2>1
  <2>3. PICK b \in Branches : Safe(b)
    BY <1>1, <2>2 DEF QuietInv
  <2> QED
    BY <2>3 DEF Safe, repoVars
<1> QED
  BY <1>2, <1>3, <1>4 DEF QuietInv

LEMMA CheckRootDelivery ==
    ASSUME RepoTypes, DeliveryInv, NEW c \in Calls, CheckRoot(c)
    PROVE  DeliveryInv'
<1>1. /\ UNCHANGED <<repoVars, remote, reportVars, quiet>> /\ UNCHANGED <<open, agents>>
  BY DEF CheckRoot, history, agentVars
<1>2. ~open' => agents' = 0
  BY <1>1 DEF DeliveryInv
<1>3. CASE RootIsOwn
  <2>1. InGit(c) /\ Command(c) = "check" /\ NextStep(c)
    BY <1>3 DEF CheckRoot
  <2>2. call[c].step \in {1, 3, 6} /\ Pushing(c)
    BY <2>1, ScriptIs DEF InGit, Command
  <2>3. /\ Alone(c) /\ call'[c].kind = call[c].kind /\ call'[c].branch = call[c].branch
        /\ call'[c].step = call[c].step + 1 /\ call'[c].result = "running"
    BY <2>1, <2>2, AdvanceFacts
  <2>4. ~Delivered(c)'
    BY <2>2, <2>3 DEF Delivered
  <2>5. quiet => OnTheWay(c)'
    <3> SUFFICES ASSUME quiet PROVE OnTheWay(c)'
      OBVIOUS
    <3>1. OnTheWay(c)
      BY DEF DeliveryInv, QuietInv
    <3>2. dir' = "repo"
      BY <1>1, <1>3 DEF RootIsOwn, repoVars
    <3>3. call[c].step \in {1, 3, 6} /\ call'[c].step \in {2, 4, 7}
      BY <2>2, <2>3
    <3>4. /\ call'[c].step \in 3..7 => call[c].step \in 3..7
          /\ call'[c].step \in 5..7 => call[c].step \in 6..7 /\ call[c].step \in 5..7
      BY <2>2, <2>3
    <3> QED
      BY <1>1, <2>2, <2>3, <3>1, <3>2, <3>3, <3>4 DEF OnTheWay, repoVars
  <2> QED
    BY <1>1, <1>2, <2>3, <2>4, <2>5, DeliveryKept
<1>4. CASE ~RootIsOwn
  <2>1. Alone(c) /\ call'[c].result = "error"
    BY <1>4, EndFacts DEF CheckRoot
  <2>2. ~Delivered(c)' /\ OnTheWay(c)'
    BY <2>1 DEF Delivered, OnTheWay, Pushing, Running
  <2> QED
    BY <1>1, <1>2, <2>1, <2>2, DeliveryKept
<1> QED
  BY <1>3, <1>4

LEMMA EndsDelivery ==
    ASSUME RepoTypes, DeliveryInv, NEW c \in Calls,
           GitFails(c) \/ TimesOut(c) \/ CreatePullRequest(c)
    PROVE  DeliveryInv'
<1>1. /\ UNCHANGED <<repoVars, remote, reportVars, quiet>> /\ UNCHANGED <<open, agents>>
  BY DEF GitFails, TimesOut, CreatePullRequest, history, agentVars
<1>2. ~open' => agents' = 0
  BY <1>1 DEF DeliveryInv
<1>3. /\ Alone(c) /\ call'[c].result \in {"success", "error"}
      /\ call'[c].result = "success" => Delivered(c)
  BY EndFacts DEF GitFails, TimesOut, CreatePullRequest, Delivered
<1>4. OnTheWay(c)' /\ (Delivered(c)' => Delivered(c))
  BY <1>3 DEF OnTheWay, Delivered, Pushing, Running
<1> QED
  BY <1>1, <1>2, <1>3, <1>4, DeliveryKept

LEMMA CloseDelivery ==
    ASSUME RepoTypes, DeliveryInv, NEW c \in Calls, Close(c)
    PROVE  DeliveryInv'
<1>1. UNCHANGED <<repoVars, remote, reportVars, quiet>>
  BY DEF Close, history
<1>2. Alone(c) /\ call'[c].result = "closed"
  BY CloseFacts
<1>3. OnTheWay(c)' /\ ~Delivered(c)'
  BY <1>2 DEF OnTheWay, Delivered, Pushing, Running
<1>4. ~open' => ~open \/ Terminal(c)
  <2> SUFFICES ASSUME open, ~Terminal(c) PROVE open'
    OBVIOUS
  <2>1. (open /\ ~Terminal(c)) = TRUE
    OBVIOUS
  <2> QED
    BY <2>1 DEF Close
<1>5. Terminal(c) => Delivered(c)
  BY DEF Terminal, Delivered
<1>6. ~open' => agents' = 0
  BY <1>4 DEF Close, DeliveryInv
<1> QED
  BY <1>1, <1>2, <1>3, <1>4, <1>5, <1>6, DeliveryKept

LEMMA StartDelivery ==
    ASSUME RepoTypes, DeliveryInv, NEW c \in Calls, NEW request \in Requests, Start(c, request)
    PROVE  DeliveryInv'
<1>1. /\ UNCHANGED <<repoVars, remote, reportVars, quiet>> /\ UNCHANGED <<open, agents>>
  BY DEF Start, history, agentVars
<1>2. ~open' => agents' = 0
  BY <1>1 DEF DeliveryInv
<1>3. Alone(c) /\ call'[c].step = 1 /\ call'[c].result = "running"
  BY StartFacts
<1>4. OnTheWay(c)' /\ ~Delivered(c)'
  BY <1>3 DEF OnTheWay, Delivered
<1> QED
  BY <1>1, <1>2, <1>3, <1>4, DeliveryKept

\* What a command of call c does to the workspace it has checked.
LEMMA GitFacts ==
    ASSUME RepoTypes, QuietInv, NEW c \in Calls, InGit(c), Command(c) # "check", NextStep(c),
           Effect(Command(c), call[c].branch), dir = "repo"
    PROVE  /\ OnTheWay(c)'
           /\ Delivered(c)' => \E x \in Branches : Safe(x)'
           /\ Command(c) = "push" => remote'[call[c].branch] = tree
<1> DEFINE b == call[c].branch
<1>0. /\ call[c].step \in {2, 4, 5, 7} /\ Pushing(c) /\ OnTheWay(c) /\ b \in Branches
      /\ head \in Branches /\ UNCHANGED <<dir, tree>>
      /\ commits \in [Branches -> SUBSET Edits] /\ remote \in [Branches -> SUBSET Edits]
  <2>1. call[c].step \in 1..7 /\ call[c].step \notin {1, 3, 6}
    BY ScriptIs DEF InGit, Command
  <2> QED
    BY <2>1 DEF InGit, QuietInv, RepoTypes, Record, Effect
<1>1. /\ call'[c].kind = call[c].kind /\ call'[c].branch = b
      /\ \/ call'[c].step = call[c].step + 1 /\ call'[c].result = "running"
         \/ call[c].step = 7 /\ call'[c].step = 0 /\ call'[c].result = "success"
  BY AdvanceFacts
<1>2. CASE call[c].step = 2
  <2>1. Command(c) = "checkout"
    BY <1>2, ScriptIs DEF Command
  <2>2. head' = b
    BY <2>1 DEF Effect
  <2>3. call'[c].step = 3 /\ call'[c].result = "running"
    BY <1>1, <1>2
  <2> QED
    BY <1>0, <1>1, <2>1, <2>2, <2>3 DEF OnTheWay, Delivered
<1>3. CASE call[c].step = 4
  <2>1. Command(c) = "add"
    BY <1>3, ScriptIs DEF Command
  <2>2. head' = head /\ index' = tree /\ head = b
    BY <1>0, <1>3, <2>1 DEF Effect, Staged, OnTheWay
  <2>3. call'[c].step = 5 /\ call'[c].result = "running"
    BY <1>1, <1>3
  <2> QED
    BY <1>0, <1>1, <2>1, <2>2, <2>3 DEF OnTheWay, Delivered
<1>4. CASE call[c].step = 5
  <2>1. Command(c) = "commit"
    BY <1>4, ScriptIs DEF Command
  <2>2. head' = head /\ index' = index /\ commits' = [commits EXCEPT ![head] = index]
    BY <2>1 DEF Effect
  <2>3. head = b /\ index = tree
    BY <1>0, <1>4 DEF OnTheWay
  <2>4. call'[c].step = 6 /\ call'[c].result = "running"
    BY <1>1, <1>4
  <2> QED
    BY <1>0, <1>1, <2>1, <2>2, <2>3, <2>4 DEF OnTheWay, Delivered
<1>5. CASE call[c].step = 7
  <2>1. Command(c) = "push"
    BY <1>5, ScriptIs DEF Command
  <2>2. /\ head' = head /\ index' = index /\ commits' = commits
        /\ remote' = [remote EXCEPT ![b] = commits[b]]
    BY <2>1 DEF Effect
  <2>3. head = b /\ index = tree /\ commits[head] = tree
    BY <1>0, <1>5 DEF OnTheWay
  <2>4. remote'[b] = tree
    BY <1>0, <2>2, <2>3
  <2>5. \E x \in Branches : Safe(x)'
    <3>1. PICK x \in Branches : x = b
      BY <1>0
    <3> QED
      BY <1>0, <2>2, <2>3, <2>4, <3>1 DEF Safe
  <2>6. call'[c].step = 8 \/ call'[c].result = "success"
    BY <1>1, <1>5
  <2>7. OnTheWay(c)'
    BY <1>0, <2>6 DEF OnTheWay, Pushing, Running
  <2> QED
    BY <2>4, <2>5, <2>7
<1> QED
  BY <1>0, <1>2, <1>3, <1>4, <1>5

LEMMA GitDelivery ==
    ASSUME RepoTypes, DeliveryInv, NEW c \in Calls, Git(c)
    PROVE  DeliveryInv'
<1>0. /\ InGit(c) /\ Command(c) # "check" /\ NextStep(c) /\ call[c].branch \in Branches
      /\ UNCHANGED <<open, agents, reportVars>>
  BY DEF Git, agentVars, RepoTypes, Record
<1>1. ~open' => agents' = 0
  BY <1>0 DEF DeliveryInv
<1>2. Alone(c)
  BY <1>0, AdvanceFacts
<1> SUFFICES ASSUME quiet' PROVE QuietInv'
  BY <1>1 DEF DeliveryInv
<1> DEFINE b == call[c].branch
<1>3. CASE dir = "repo" /\ Effect(Command(c), b)
  <2>1. /\ QuietInv
        /\ Command(c) = "checkout" => \A d \in Calls : OnItsBranch(d) => call[d].branch = b
    BY <1>3, EffectQuiet DEF DeliveryInv
  <2>2. OnTheWay(c)' /\ (Delivered(c)' => \E x \in Branches : Safe(x)')
    BY <1>0, <1>3, <2>1, GitFacts
  <2>3. /\ \A d \in Calls : call'[d] = call[d] => OnTheWay(d)'
        /\ \A x \in Branches : Safe(x) => Safe(x)'
    BY <1>0, <1>3, <2>1, EffectKeeps
  <2>4. Shown'
    BY <1>0, <1>3, <2>1 DEF QuietInv, Shown, IsTheWork, reportVars, Effect
  <2>5. \A d \in Calls : OnTheWay(d)'
    BY <1>2, <2>2, <2>3 DEF Alone
  <2>6. ASSUME ~open' \/ \E d \in Calls : Delivered(d)'
        PROVE  \E x \in Branches : Safe(x)'
    <3>1. CASE Delivered(c)'
      BY <2>2, <3>1
    <3>2. CASE ~Delivered(c)'
      <4>1. ASSUME NEW d \in Calls, Delivered(d)'
            PROVE  Delivered(d)
        <5>1. call'[d] = call[d]
          BY <1>2, <3>2, <4>1 DEF Alone
        <5> QED
          BY <4>1, <5>1 DEF Delivered, Pushing, Running
      <4>2. PICK x \in Branches : Safe(x)
        BY <1>0, <2>1, <2>6, <4>1 DEF QuietInv
      <4> QED
        BY <2>3, <4>2
    <3> QED
      BY <3>1, <3>2
  <2> QED
    BY <2>4, <2>5, <2>6 DEF QuietInv
<1>4. CASE dir = "plain" /\ UNCHANGED quiet
  <2>1. call[c].step >= 2 /\ Pushing(c)
    <3>1. call[c].step \in 1..7 /\ call[c].step # 1
      BY <1>0, ScriptIs DEF InGit, Command
    <3> QED
      BY <1>0, <3>1 DEF InGit
  <2>2. OnTheWay(c)
    BY <1>4 DEF DeliveryInv, QuietInv
  <2> QED
    BY <1>4, <2>1, <2>2 DEF OnTheWay
<1> QED
  BY <1>3, <1>4 DEF Git

LEMMA OrphanDelivery ==
    ASSUME RepoTypes, DeliveryInv, NEW o \in orphans, OrphanEnds(o)
    PROVE  DeliveryInv'
<1>0. /\ dir = "repo" /\ Effect(o.command, o.branch) /\ o.branch \in Branches
      /\ UNCHANGED <<call, open, agents, reportVars>>
  BY DEF OrphanEnds, agentVars, RepoTypes
<1>1. ~open' => agents' = 0
  BY <1>0 DEF DeliveryInv
<1> SUFFICES ASSUME quiet' PROVE QuietInv'
  BY <1>1 DEF DeliveryInv
<1>2. /\ QuietInv
      /\ o.command = "checkout" =>
           \A d \in Calls : OnItsBranch(d) => call[d].branch = o.branch
  BY <1>0, EffectQuiet DEF DeliveryInv
<1>3. /\ \A d \in Calls : OnTheWay(d)'
      /\ \A x \in Branches : Safe(x) => Safe(x)'
  BY <1>0, <1>2, EffectKeeps
<1>4. Shown'
  BY <1>0, <1>2 DEF QuietInv, Shown, IsTheWork, reportVars, Effect
<1>5. ASSUME ~open' \/ \E d \in Calls : Delivered(d)'
      PROVE  \E x \in Branches : Safe(x)'
  <2>1. PICK x \in Branches : Safe(x)
    BY <1>0, <1>2, <1>5 DEF QuietInv, Delivered, Pushing, Running
  <2> QED
    BY <1>3, <2>1
<1> QED
  BY <1>3, <1>4, <1>5 DEF QuietInv

\* A report is made when no call is under way, and shows the working tree.
LEMMA CompleteDelivery ==
    ASSUME RepoTypes, DeliveryInv, Complete
    PROVE  DeliveryInv'
<1>1. agents > 0 /\ UNCHANGED <<repoVars, open, call>>
  BY DEF Complete
<1>2. open
  BY <1>1 DEF DeliveryInv
<1> SUFFICES ASSUME quiet' PROVE QuietInv'
  BY <1>1, <1>2 DEF DeliveryInv
<1>3. \A c \in Calls : call[c].result \in {"none", "closed"}
  <2> DEFINE P == agents = 1 /\ \A c \in Calls : call[c].result \in {"none", "closed"}
  <2>1. quiet' = P
    BY DEF Complete
  <2> HIDE DEF P
  <2>2. ~P => P = FALSE
    OBVIOUS
  <2>3. P
    BY <2>1, <2>2
  <2> QED
    BY <2>3 DEF P
<1>4. Shown'
  <2>1. work' = tree /\ report' \subseteq tree
    BY DEF Complete, BaselineDiffs
  <2> QED
    BY <1>1, <2>1 DEF Shown, IsTheWork, repoVars
<1>5. ASSUME NEW c \in Calls
      PROVE  OnTheWay(c)' /\ ~Delivered(c)'
  BY <1>1, <1>3 DEF OnTheWay, Delivered, Pushing, Running
<1> QED
  BY <1>1, <1>2, <1>4, <1>5 DEF QuietInv

LEMMA NextDelivery ==
    ASSUME RepoTypes, DeliveryInv, [Next]_vars
    PROVE  DeliveryInv'
<1> USE DEF Pushing, Running
<1>1. CASE UNCHANGED vars
  BY <1>1 DEF vars, repoVars, agentVars, reportVars, history, DeliveryInv, QuietInv, Shown,
              IsTheWork, OnTheWay, Delivered, Safe
<1>2. CASE AgentStep
  <2>1. CASE Complete
    BY <2>1, CompleteDelivery
  <2>2. CASE ~quiet' /\ UNCHANGED <<agents, open>>
    BY <2>2 DEF DeliveryInv
  <2>3. CASE Fail
    <3>1. /\ open /\ UNCHANGED <<repoVars, remote, open, call, reportVars, quiet>>
      BY <2>3 DEF Fail, DeliveryInv, history
    <3> QED
      BY <3>1 DEF repoVars, reportVars, DeliveryInv, QuietInv, Shown,
                  IsTheWork, OnTheWay, Delivered, Safe
  <2>4. CASE Assign
    <3>1. /\ open /\ dir' = IF dir = "absent" THEN "plain" ELSE dir
          /\ UNCHANGED <<tree, index, commits, head, remote, open, call, reportVars, quiet>>
      BY <2>4 DEF Assign, history
    <3>2. (dir' = "repo") <=> (dir = "repo")
      BY <3>1
    <3> QED
      BY <3>1, <3>2 DEF reportVars, DeliveryInv, QuietInv, Shown,
                        IsTheWork, OnTheWay, Delivered, Safe
  <2>5. CASE ToolCall /\ UNCHANGED open
    BY <2>2, <2>5 DEF ToolCall
  <2> QED
    BY <1>2, <2>1, <2>3, <2>4, <2>5
       DEF AgentStep, Bash, WriteFile, EditFile, GitClone, GitCheckout
<1>3. ASSUME NEW c \in Calls, CallStep(c)
      PROVE  DeliveryInv'
  <2>1. CASE DiscardWork(c)
    BY <2>1 DEF DiscardWork, DeliveryInv, agentVars
  <2> QED
    BY <1>3, <2>1, CheckRootDelivery, GitDelivery, EndsDelivery, CloseDelivery, StartDelivery
       DEF CallStep
<1>4. ASSUME NEW o \in orphans, OrphanEnds(o)
      PROVE  DeliveryInv'
  BY <1>4, OrphanDelivery
<1> QED
  BY <1>1, <1>2, <1>3, <1>4 DEF Next

LEMMA Delivery == Spec => [](RepoTypes /\ DeliveryInv)
<1>1. Init => DeliveryInv
  BY DEF Init, DeliveryInv
<1>2. RepoTypes /\ DeliveryInv /\ [Next]_vars => RepoTypes' /\ DeliveryInv'
  BY NextRepoTypes, NextDelivery
<1> QED
  BY <1>1, <1>2, InitRepoTypes, PTL DEF Spec

\* A workflow closed while nothing but pushes has touched its workspace since
\* the report has the reported work on origin, all of it: whatever was clicked twice, failed,
\* timed out or was finished later by a command nobody waited for, is_terminal
\* of tools/finalization.py is only set once a push went through, and no later
\* push replaces what it pushed.
THEOREM ClosedWorkIsDelivered == Spec => []ClosedMeansDelivered
<1>1. DeliveryInv => ClosedMeansDelivered
  <2> SUFFICES ASSUME DeliveryInv, ~open, quiet
               PROVE  \E b \in Branches : IsTheWork(remote[b])
    BY DEF ClosedMeansDelivered
  <2>1. QuietInv
    BY DEF DeliveryInv
  <2>2. PICK b \in Branches : Safe(b)
    BY <2>1 DEF QuietInv
  <2>3. remote[b] = tree /\ IsTheWork(tree)
    BY <2>1, <2>2 DEF QuietInv, Safe, Shown
  <2> QED
    BY <2>3
<1> QED
  BY <1>1, Delivery, PTL

\* A push that goes through puts on its branch the work of the last iteration,
\* all that the user was shown and what the reported diff left out:
\* between the checkout -B, add -A and commit of a call, no other call of the
\* same branch and no timed-out command leaves anything else on that branch.
THEOREM PushPublishesTheWork == Spec => PushedIsTheWork
<1> DEFINE A == \A c \in Calls :
                  quiet /\ InGit(c) /\ Command(c) = "push" /\ NextStep(c)
                    => IsTheWork(remote'[call[c].branch])
<1>1. RepoTypes /\ DeliveryInv /\ [Next]_vars => [A]_vars
  <2> SUFFICES ASSUME RepoTypes, DeliveryInv, Next, NEW c \in Calls, quiet, InGit(c),
                      Command(c) = "push", NextStep(c)
               PROVE  IsTheWork(remote'[call[c].branch])
    OBVIOUS
  <2>0. QuietInv /\ Pushing(c) /\ call[c].step = 7
    BY ScriptIs DEF DeliveryInv, InGit, Command
  <2>1. /\ call'[c] # call[c] /\ call'[c].result \in {"running", "success"}
        /\ call'[c].result = "running" => call'[c].step = 8
    BY <2>0, AdvanceFacts
  <2>2. ASSUME NEW d \in Calls, CallStep(d)
        PROVE  Git(c)
    <3>1. Alone(d)
      BY <2>2, AdvanceFacts, EndFacts, CloseFacts, StartFacts
         DEF CallStep, CheckRoot, Git, GitFails, TimesOut, CreatePullRequest, DiscardWork
    <3>2. d = c
      BY <2>1, <3>1 DEF Alone
    <3>3. ~GitFails(c) /\ ~TimesOut(c)
      BY <2>1, EndFacts DEF GitFails, TimesOut
    <3>4. ~CheckRoot(c) /\ ~CreatePullRequest(c) /\ ~DiscardWork(c) /\ ~Close(c)
      BY <2>0 DEF CheckRoot, CreatePullRequest, DiscardWork, Close, Pushing, Running
    <3>5. \A request \in Requests : ~Start(c, request)
      BY <2>0 DEF Start, Pushing, Running
    <3> QED
      BY <2>2, <3>2, <3>3, <3>4, <3>5 DEF CallStep
  <2>3. Git(c)
    <3>1. ~AgentStep
      BY <2>1 DEF AgentStep, Assign, Bash, Complete, Fail, WriteFile, EditFile, GitClone,
                  GitCheckout
    <3>2. \A o \in orphans : ~OrphanEnds(o)
      BY <2>1 DEF OrphanEnds
    <3> QED
      BY <2>2, <3>1, <3>2 DEF Next
  <2>4. dir = "repo"
    BY <2>0 DEF QuietInv, OnTheWay
  <2>5. Effect(Command(c), call[c].branch)
    BY <2>3, <2>4 DEF Git
  <2>6. remote'[call[c].branch] = tree
    BY <2>0, <2>4, <2>5, GitFacts
  <2> QED
    BY <2>0, <2>6 DEF QuietInv, Shown, IsTheWork
<1>2. Spec => [][A]_vars
  BY <1>1, Delivery, PTL DEF Spec
<1> QED
  BY <1>2 DEF PushedIsTheWork
=============================================================================
