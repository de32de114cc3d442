----------------------------- MODULE EventFeed -----------------------------
(***************************************************************************)
(* What the event stream of one WhatsApp call promises to its gRPC         *)
(* subscribers, without channels, buffers, a replay window or a mutex.     *)
(*                                                                         *)
(* A call publishes events numbered 1, 2, 3, ... and ends once.  A         *)
(* subscriber joins at some point of that numbering and is then handed     *)
(* event numbers in increasing order, each at most once.  As long as the   *)
(* feed has not declared it lossy, it is handed every number, and its      *)
(* stream completes normally only when the feed has ended and everything   *)
(* published has been handed over.  EventHub implements this module.       *)
(***************************************************************************)
EXTENDS Naturals

CONSTANT Channels   \* the subscriptions

VARIABLES
    published,   \* the number of events published so far
    ended,       \* no further event will be published
    state,       \* state[c]: "out", "in", "done" (completed) or "gone"
    last,        \* last[c]: the number after which c's stream continues
    lossy        \* lossy[c]: c fell too far behind, numbers may be missing

vars == <<published, ended, state, last, lossy>>

Init ==
    /\ published = 0
    /\ ended = FALSE
    /\ state = [c \in Channels |-> "out"]
    /\ last = [c \in Channels |-> 0]
    /\ lossy = [c \in Channels |-> FALSE]

\* One more event; any subscriber may be given up as lossy by it.
Publish ==
    /\ ~ended
    /\ published' = published + 1
    /\ lossy' \in [Channels -> BOOLEAN]
    /\ \A c \in Channels : lossy[c] => lossy'[c]
    /\ UNCHANGED <<ended, state, last>>

End ==
    /\ ~ended
    /\ ended' = TRUE
    /\ UNCHANGED <<published, state, last, lossy>>

\* The stream of c starts after some number already published (or at the end).
Join(c) ==
    /\ ~ended
    /\ state[c] = "out"
    /\ state' = [state EXCEPT ![c] = "in"]
    /\ \E n \in 0..published : last' = [last EXCEPT ![c] = n]
    /\ UNCHANGED <<published, ended, lossy>>

\* Handing over a number may be the last thing that happens on the stream.
Deliver(c) ==
    /\ state[c] = "in"
    /\ \E n \in (last[c] + 1)..published :
          /\ lossy[c] \/ n = last[c] + 1
          /\ last' = [last EXCEPT ![c] = n]
    /\ \/ UNCHANGED state
       \/ state' = [state EXCEPT ![c] = "gone"]
    /\ UNCHANGED <<published, ended, lossy>>

Complete(c) ==
    /\ state[c] = "in"
    /\ ended
    /\ lossy[c] \/ last[c] = published
    /\ state' = [state EXCEPT ![c] = "done"]
    /\ UNCHANGED <<published, ended, last, lossy>>

Leave(c) ==
    /\ state[c] = "in"
    /\ state' = [state EXCEPT ![c] = "gone"]
    /\ UNCHANGED <<published, ended, last, lossy>>

Next ==
    \/ Publish
    \/ End
    \/ \E c \in Channels : Join(c) \/ Deliver(c) \/ Complete(c) \/ Leave(c)

Spec == Init /\ [][Next]_vars
=============================================================================
