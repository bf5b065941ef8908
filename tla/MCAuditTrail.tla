---------------------------- MODULE MCAuditTrail ----------------------------
(* AuditTrail for TLC: two messages through a queue of two and batches of   *)
(* two; two connections of one sandbox id; a sub-agent that makes up to two *)
(* tool calls.                                                              *)
EXTENDS AuditTrail, TLC

CONSTANTS m1, m2, r1, r2
MCMsgs == {m1, m2}
MCRows == {r1, r2}
=============================================================================
