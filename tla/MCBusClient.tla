----------------------------- MODULE MCBusClient -----------------------------
(* MessageBusClient for TLC: two calls, each of any kind.                   *)
EXTENDS MessageBusClient, TLC

CONSTANTS c1, c2
MCCalls == {c1, c2}
=============================================================================
