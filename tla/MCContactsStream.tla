-------------------------- MODULE MCContactsStream --------------------------
(* ContactsStream for TLC.                                                 *)
EXTENDS ContactsStream
=============================================================================
