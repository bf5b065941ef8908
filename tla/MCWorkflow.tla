----------------------------- MODULE MCWorkflow -----------------------------
(* Small instances of WorkflowLifecycle for TLC. *)
EXTENDS WorkflowLifecycle, TLC

CONSTANTS w1, w2, k1, k2, k3, a1, a2, a3

Symmetry == Permutations(Workflows) \cup Permutations(Calls)
              \cup Permutations(Agents)
=============================================================================
