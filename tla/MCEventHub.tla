----------------------------- MODULE MCEventHub -----------------------------
(* EventHub for TLC: two subscriptions, a window of two events.            *)
EXTENDS EventHub, TLC

CONSTANTS c1, c2
=============================================================================
