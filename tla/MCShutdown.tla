----------------------------- MODULE MCShutdown -----------------------------
(* Shutdown for TLC.                                                       *)
EXTENDS Shutdown

CONSTANTS b1, b2, start, mod
=============================================================================
