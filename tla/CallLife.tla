------------------------------ MODULE CallLife ------------------------------
(***************************************************************************)
(* The life of the calls of one WhatsApp bot as subscribers and the rest   *)
(* of the service may rely on it, without threads, session.once, timers,   *)
(* contexts or realtime sessions.                                          *)
(*                                                                         *)
(* A call is listed once, and then goes through its end in one order: it   *)
(* is given up, its subscribers are told, their streams are closed, and it *)
(* leaves the list for good.  Who sweeps the list, to offer another call   *)
(* or to stop the bot, notes the calls in it and passes only when all of   *)
(* them have left; an outgoing call is listed after its sweep has passed.  *)
(* CallManager implements this module.                                     *)
(***************************************************************************)
EXTENDS Naturals

CONSTANTS
    Calls,
    Sweepers   \* the outgoing calls, listed after a sweep

VARIABLES
    life,        \* how far each call has come
    told,        \* how often its subscribers were told that it ended
    sweep,       \* the sweep before each outgoing call
    noted,       \* the calls that it found
    stop,        \* the sweep of the stop
    stopNoted    \* the calls that it found

callVars == <<life, told>>
sweepVars == <<sweep, noted>>
stopVars == <<stop, stopNoted>>
vars == <<callVars, sweepVars, stopVars>>

Listed == {c \in Calls : life[c] \notin {"none", "left"}}

Init ==
    /\ life = [c \in Calls |-> "none"]
    /\ told = [c \in Calls |-> 0]
    /\ sweep = [c \in Calls |-> "before"]
    /\ noted = [c \in Calls |-> {}]
    /\ stop = "before"
    /\ stopNoted = {}

Enter(c) ==
    /\ life[c] = "none"
    /\ c \in Sweepers => sweep[c] = "past"
    /\ life' = [life EXCEPT ![c] = "listed"]
    /\ UNCHANGED <<told, sweepVars, stopVars>>

GiveUp(c) ==
    /\ life[c] = "listed"
    /\ life' = [life EXCEPT ![c] = "ending"]
    /\ UNCHANGED <<told, sweepVars, stopVars>>

Tell(c) ==
    /\ life[c] = "ending"
    /\ life' = [life EXCEPT ![c] = "told"]
    /\ told' = [told EXCEPT ![c] = @ + 1]
    /\ UNCHANGED <<sweepVars, stopVars>>

Close(c) ==
    /\ life[c] = "told"
    /\ life' = [life EXCEPT ![c] = "closed"]
    /\ UNCHANGED <<told, sweepVars, stopVars>>

Leave(c) ==
    /\ life[c] = "closed"
    /\ life' = [life EXCEPT ![c] = "left"]
    /\ UNCHANGED <<told, sweepVars, stopVars>>

BeginSweep(c) ==
    /\ c \in Sweepers
    /\ sweep[c] = "before"
    /\ sweep' = [sweep EXCEPT ![c] = "sweeping"]
    /\ noted' = [noted EXCEPT ![c] = Listed]
    /\ UNCHANGED <<callVars, stopVars>>

PassSweep(c) ==
    /\ sweep[c] = "sweeping"
    /\ \A d \in noted[c] : life[d] = "left"
    /\ sweep' = [sweep EXCEPT ![c] = "past"]
    /\ UNCHANGED <<callVars, noted, stopVars>>

BeginStop ==
    /\ stop = "before"
    /\ stop' = "sweeping"
    /\ stopNoted' = Listed
    /\ UNCHANGED <<callVars, sweepVars>>

PassStop ==
    /\ stop = "sweeping"
    /\ \A d \in stopNoted : life[d] = "left"
    /\ stop' = "past"
    /\ UNCHANGED <<callVars, sweepVars, stopNoted>>

Next ==
    \/ BeginStop \/ PassStop
    \/ \E c \in Calls :
          \/ Enter(c) \/ GiveUp(c) \/ Tell(c) \/ Close(c) \/ Leave(c)
          \/ BeginSweep(c) \/ PassSweep(c)

Spec == Init /\ [][Next]_vars
=============================================================================
