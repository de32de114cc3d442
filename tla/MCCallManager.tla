--------------------------- MODULE MCCallManager ---------------------------
(* CallManager for TLC: two calls, of different contacts or of one.        *)
EXTENDS CallManager, TLC

CONSTANTS c1, c2

Mixed == (c1 :> "incoming") @@ (c2 :> "outgoing")
BothOutgoing == [c \in Calls |-> "outgoing"]
DistinctPeers == [c \in Calls |-> c]
OnePeer == [c \in Calls |-> c1]
=============================================================================
