--------------------------- MODULE MCFirstContact ---------------------------
(* FirstContact for TLC: the messages are interchangeable.                 *)
EXTENDS FirstContact, TLC

CONSTANTS m1, m2, m3

MsgSymmetry == Permutations(Msgs)
=============================================================================
