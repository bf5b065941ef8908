--------------------------- MODULE MCConversation ---------------------------
(***************************************************************************)
(* Small instances of Conversation: two messages and two clicks, in one    *)
(* Slack thread.                                                           *)
(***************************************************************************)
EXTENDS Conversation, TLC

CONSTANTS m1, m2, k1, k2, th

Symmetry == Permutations(Messages) \cup Permutations(Clicks)
=============================================================================
