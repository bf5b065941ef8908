------------------------------ MODULE MCBroker ------------------------------
(***************************************************************************)
(* Small instances of NMBBroker for TLC.  Sockets, sandboxes and request   *)
(* ids are interchangeable, so safety runs use symmetry.                   *)
(***************************************************************************)
EXTENDS NMBBroker, TLC

CONSTANTS c1, c2, c3, a, b, r1, r2, r3, r4, system, news

RequestOps   == {"request", "reply"}
OneWayOps    == {"send", "stream", "subscribe", "unsubscribe", "publish", "invalid"}
OnlyRequests == {"request"}

Symmetry == Permutations(Conns) \cup Permutations(Sandboxes)
              \cup Permutations(Requests)
=============================================================================
