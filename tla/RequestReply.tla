---------------------------- MODULE RequestReply ----------------------------
(***************************************************************************)
(* What request/reply over the message bus promises, without connections,  *)
(* timers or handlers: an accepted request is decided once, by a reply or  *)
(* by its expiry, unless it is dropped; the requester is sent at most the  *)
(* frame of that decision; and no request stays undecided.                 *)
(* NMBBroker implements it: see NMBBroker!ImplementsRequestReply.          *)
(***************************************************************************)
CONSTANT Requests

VARIABLES
  status,  \* "new", "open", "replied", "expired", or "closed" without a frame
  frame    \* what the requester was sent: "none", "reply", "timeout"

vars == <<status, frame>>

Init ==
  /\ status = [r \in Requests |-> "new"]
  /\ frame = [r \in Requests |-> "none"]

Become(r, from, to) ==
  /\ status[r] = from
  /\ status' = [status EXCEPT ![r] = to]
  /\ UNCHANGED frame

Accept(r) == Become(r, "new", "open")
Refuse(r) == Become(r, "new", "closed")

\* The one decision about an open request.
Decide(r) == Become(r, "open", "replied") \/ Become(r, "open", "expired")

\* The frame that announces the decision.
Announce(r) ==
  /\ frame[r] = "none"
  /\ \/ status[r] = "replied" /\ frame' = [frame EXCEPT ![r] = "reply"]
     \/ status[r] = "expired" /\ frame' = [frame EXCEPT ![r] = "timeout"]
  /\ UNCHANGED status

\* The frame is lost with the requester's socket.
Lose(r) ==
  /\ frame[r] = "none"
  /\ Become(r, "replied", "closed") \/ Become(r, "expired", "closed")

\* Undeliverable requests, those of a departing requester, or at shutdown all.
Drop(rs) ==
  /\ \A r \in rs : status[r] = "open"
  /\ status' = [r \in Requests |-> IF r \in rs THEN "closed" ELSE status[r]]
  /\ UNCHANGED frame

Next ==
  \/ \E r \in Requests : Accept(r) \/ Refuse(r) \/ Decide(r) \/ Announce(r) \/ Lose(r)
  \/ \E rs \in SUBSET Requests : Drop(rs)

Spec == Init /\ [][Next]_vars

Settled(r) == status[r] = "closed" \/ frame[r] # "none"

\* Every accepted request is settled in the end.
Promise == Spec /\ \A r \in Requests : (status[r] = "open" ~> Settled(r))
=============================================================================
