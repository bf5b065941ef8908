---------------------------- MODULE MCAgentLoop ----------------------------
(***************************************************************************)
(* A small tool set for AgentLoop: the search tool, a core read, a core    *)
(* write that must run alone (write_file, bash), a non-core write that may *)
(* run concurrently (the service tools), and delegate_task.                *)
(***************************************************************************)
EXTENDS AgentLoop

CONSTANTS tool_search, read_file, write_file, jira_update, delegate_task, ghost
=============================================================================
