----------------------------- MODULE MCAuthFlow -----------------------------
(* AuthFlow for TLC.                                                       *)
EXTENDS AuthFlow, TLC

CONSTANTS s1, s2
=============================================================================
