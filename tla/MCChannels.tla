----------------------------- MODULE MCChannels -----------------------------
(* Channels for TLC: two channels, the first of which a bot before this    *)
(* one may have left.                                                      *)
EXTENDS Channels, TLC

CONSTANTS m1, m2, k1, c0, c1
=============================================================================
