---------------------------- MODULE MCWorkspace ----------------------------
(* Workspace for TLC: two edits, one of them a new file; a button pushes    *)
(* and opens a pull request, the finaliser's model pushes another branch,   *)
(* and either may be asked twice or meet a discard.                         *)
EXTENDS Workspace, TLC

CONSTANTS e1, e2

MCEdits == {e1, e2}
MCNewFiles == {e2}
MCRequests == {<<"pr", "finalize">>, <<"push", "chosen">>, <<"discard", "finalize">>}
=============================================================================
