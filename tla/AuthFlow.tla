------------------------------ MODULE AuthFlow ------------------------------
(***************************************************************************)
(* The QR authorization of one user as the browser sees it                 *)
(* (internal/whatsapp/handlers/handler.go, auth/flow.go, auth/registry.go):*)
(* one WebSocket handler and one goroutine with the authorization for each *)
(* connection, the bounded channel of states between them, and the         *)
(* registry through which a new connection cancels the one before it.      *)
(* What the authorization does to bots, clients and the database is the    *)
(* module BotLifecycle.                                                    *)
(*                                                                         *)
(* A definition marked "slip" is no part of the specification: it is what  *)
(* the definition after it would be with a plausible mistake in the code,  *)
(* kept to see that the properties would notice.                           *)
(***************************************************************************)
EXTENDS Naturals, Sequences, FiniteSets

CONSTANTS
    Sessions,  \* the connections, all of one user
    Capacity,  \* capacity of stateChan
    MaxCodes   \* how many codes WhatsApp sends for one authorization

ASSUME MaxCodesAssumption == MaxCodes \in Nat
\* A cancellation, qr-success and the outcome must have room beside the codes: the
\* capacity of the code, 10, is enough for seven codes.
ASSUME CapacityAssumption == Capacity \in Nat /\ Capacity >= MaxCodes + 3

VARIABLES
    registry,    \* h.auth: the sessions registered
    socket,      \* the handler of each connection
    queue,       \* stateChan
    flow,        \* AuthenticateWithQR and the goroutine it runs in
    check,       \* the goroutine that looks whether the scan led to a login
    codes,       \* the number of codes sent
    lost,        \* history: a state has found the channel full
    told,        \* history: the sessions that CancelUser has found
    refused      \* history: the sessions that Add has refused

socketVars == <<registry, socket, told, refused>>
flowVars == <<flow, check, codes>>
vars == <<socketVars, queue, flowVars, lost>>

States == {"qr_code", "qr-success", "success", "error", "cancelled"}
Terminal == {"success", "error"}
SocketPcs == {"new", "cancel", "add", "serve", "close", "gone"}
FlowPcs == {"off", "ensure", "codes", "wait", "save", "report", "over"}
CheckPcs == {"off", "sleep", "in", "out"}

-----------------------------------------------------------------------------
Init ==
    /\ registry = {}
    /\ socket = [s \in Sessions |-> "new"]
    /\ queue = [s \in Sessions |-> <<>>]
    /\ flow = [s \in Sessions |-> "off"]
    /\ check = [s \in Sessions |-> "off"]
    /\ codes = [s \in Sessions |-> 0]
    /\ lost = [s \in Sessions |-> FALSE]
    /\ told = {} /\ refused = {}

Room(s) == Len(queue[s]) < Capacity

\* safeStateSend: a state that finds the channel full is dropped.
Send(s, state) ==
    IF Room(s)
    THEN queue' = [queue EXCEPT ![s] = Append(@, state)] /\ UNCHANGED lost
    ELSE lost' = [lost EXCEPT ![s] = TRUE] /\ UNCHANGED queue

-----------------------------------------------------------------------------
(* AuthWebSocketHandler and the registry.                                  *)

\* Upgrade; when it fails there is no session.
Connect(s) ==
    /\ socket[s] = "new"
    /\ socket' = [socket EXCEPT ![s] = "cancel"]
    /\ UNCHANGED <<registry, told, refused, queue, flowVars, lost>>

\* CancelUser tells the sessions that are registered and forgets them; nothing
\* stops their authorizations.
CancelUser(s) ==
    /\ socket[s] = "cancel"
    /\ socket' = [socket EXCEPT ![s] = "add"]
    /\ queue' = [t \in Sessions |-> IF t \in registry /\ Room(t)
                                    THEN Append(queue[t], "cancelled") ELSE queue[t]]
    /\ lost' = [t \in Sessions |-> lost[t] \/ (t \in registry /\ ~Room(t))]
    /\ told' = told \cup registry
    /\ registry' = {}
    /\ UNCHANGED <<refused, flowVars>>

\* Add refuses when another connection has been quicker; its result is not looked
\* at, and the authorization starts in either case.
Add(s) ==
    /\ socket[s] = "add"
    /\ \/ registry = {} /\ registry' = {s} /\ UNCHANGED refused
       \/ registry # {} /\ refused' = refused \cup {s} /\ UNCHANGED registry
    /\ socket' = [socket EXCEPT ![s] = "serve"]
    /\ flow' = [flow EXCEPT ![s] = "ensure"]
    /\ UNCHANGED <<told, queue, check, codes, lost>>

\* The loop writes the states; a terminal one ends it.  A write fails when the
\* browser has left, which nothing else tells the handler.
Deliver(s) ==
    /\ socket[s] = "serve" /\ queue[s] # <<>>
    /\ queue' = [queue EXCEPT ![s] = Tail(@)]
    /\ \/ socket' = [socket EXCEPT ![s] = "close"]
       \/ Head(queue[s]) \notin Terminal /\ UNCHANGED socket
    /\ UNCHANGED <<registry, told, refused, flowVars, lost>>

\* Slip: the sessions of the user are removed, as CancelUser does.
CloseUser(s) ==
    /\ socket[s] = "close"
    /\ socket' = [socket EXCEPT ![s] = "gone"]
    /\ registry' = {}
    /\ UNCHANGED <<told, refused, queue, flowVars, lost>>

Close(s) ==
    /\ socket[s] = "close"
    /\ socket' = [socket EXCEPT ![s] = "gone"]
    /\ registry' = registry \ {s}
    /\ UNCHANGED <<told, refused, queue, flowVars, lost>>

-----------------------------------------------------------------------------
(* AuthenticateWithQR.                                                     *)

Flow(s, where) == flow' = [flow EXCEPT ![s] = where]

\* An error is reported by the flow, and once more by the goroutine it runs in.
Fail(s) == Send(s, "error") /\ Flow(s, "report")

\* EnsureAuthBot, GetQRChannel and Connect; without a bot, or its client, the
\* flow itself reports nothing.
Ensure(s) ==
    /\ flow[s] = "ensure"
    /\ \/ Flow(s, "codes") /\ UNCHANGED <<queue, lost>>
       \/ Fail(s)
       \/ Flow(s, "report") /\ UNCHANGED <<queue, lost>>
    /\ UNCHANGED <<socketVars, check, codes>>

Code(s) ==
    /\ flow[s] = "codes" /\ codes[s] < MaxCodes
    /\ codes' = [codes EXCEPT ![s] = @ + 1]
    /\ Send(s, "qr_code")
    /\ UNCHANGED <<socketVars, flow, check>>

\* Slip: the scan is reported with every code.
ScanTwice(s) ==
    /\ flow[s] = "codes"
    /\ Send(s, "qr-success")
    /\ check' = [check EXCEPT ![s] = "sleep"]
    /\ UNCHANGED <<socketVars, flow, codes>>

\* The scan is reported, and checked by a goroutine three seconds later.
Scan(s) ==
    /\ flow[s] = "codes"
    /\ Flow(s, "wait")
    /\ Send(s, "qr-success")
    /\ check' = [check EXCEPT ![s] = "sleep"]
    /\ UNCHANGED <<socketVars, codes>>

\* A timeout or an error of the QR channel, or its end after an event that the
\* flow does not know.
CodesEnd(s) ==
    /\ flow[s] = "codes"
    /\ Fail(s) \/ (Flow(s, "wait") /\ UNCHANGED <<queue, lost>>)
    /\ UNCHANGED <<socketVars, check, codes>>

CheckLogin(s) ==
    /\ check[s] = "sleep"
    /\ \/ check' = [check EXCEPT ![s] = "in"] /\ Send(s, "success")
       \/ check' = [check EXCEPT ![s] = "out"] /\ UNCHANGED <<queue, lost>>
    /\ UNCHANGED <<socketVars, flow, codes>>

\* Slip: the end of the context is not an error.
WaitQuietly(s) ==
    /\ flow[s] = "wait"
    /\ \/ check[s] = "in" /\ Flow(s, "save") /\ UNCHANGED <<queue, lost>>
       \/ check[s] \in {"in", "out"} /\ Fail(s)
       \/ Flow(s, "over") /\ UNCHANGED <<queue, lost>>
    /\ UNCHANGED <<socketVars, check, codes>>

\* doneChan (with another look at the login), errChan, or the end of the context
\* after five minutes.
Wait(s) ==
    /\ flow[s] = "wait"
    /\ \/ check[s] = "in" /\ Flow(s, "save") /\ UNCHANGED <<queue, lost>>
       \/ Fail(s)
    /\ UNCHANGED <<socketVars, check, codes>>

\* SaveJSON, DeleteBot and StartUserBot, whose error is returned.
Save(s) ==
    /\ flow[s] = "save"
    /\ Flow(s, "over") \/ Flow(s, "report")
    /\ UNCHANGED <<socketVars, queue, check, codes, lost>>

\* safeSendState of the handler, which gives up once the socket is closed.
Report(s) ==
    /\ flow[s] = "report"
    /\ Flow(s, "over")
    /\ Send(s, "error") \/ (socket[s] = "gone" /\ UNCHANGED <<queue, lost>>)
    /\ UNCHANGED <<socketVars, check, codes>>

-----------------------------------------------------------------------------
Socket(s) == CancelUser(s) \/ Add(s) \/ Deliver(s) \/ Close(s)

\* Steps that WhatsApp or the clock bring about if nothing else does.
Authenticate(s) ==
    Ensure(s) \/ Scan(s) \/ CodesEnd(s) \/ Wait(s) \/ Save(s) \/ Report(s)

Next ==
    \E s \in Sessions :
       \/ Connect(s) \/ Socket(s)
       \/ Authenticate(s) \/ Code(s) \/ CheckLogin(s)

Spec == Init /\ [][Next]_vars

\* Goroutines that can run do run.  Every wait of the flow is bounded by its
\* context of five minutes, and every write to a connection ends.
Fairness ==
    \A s \in Sessions : /\ WF_vars(Socket(s)) /\ WF_vars(Authenticate(s))
                        /\ WF_vars(CheckLogin(s))

FairSpec == Spec /\ Fairness

-----------------------------------------------------------------------------
TypeOK ==
    /\ registry \subseteq Sessions
    /\ socket \in [Sessions -> SocketPcs]
    /\ queue \in [Sessions -> Seq(States)]
    /\ \A s \in Sessions : Len(queue[s]) <= Capacity
    /\ flow \in [Sessions -> FlowPcs]
    /\ check \in [Sessions -> CheckPcs]
    /\ codes \in [Sessions -> 0..MaxCodes]
    /\ lost \in [Sessions -> BOOLEAN]
    /\ told \subseteq Sessions /\ refused \subseteq Sessions

\* A new connection replaces the one before it: of two connections that are served
\* one has been told that it is cancelled, and a connection that has not been told
\* stays where the next one will find it, whichever of the others ends meanwhile.
\* Excepted are connections that Add has refused, which happens when two have
\* passed CancelUser before either is registered: both are then served, and the
\* refused one cannot be told, against registry.go:41-44.
ReplacedIsTold ==
    /\ \A s, t \in Sessions :
          s # t /\ socket[s] = "serve" /\ socket[t] = "serve" =>
             {s, t} \cap (told \cup refused) # {}
    /\ \A s \in Sessions :
          socket[s] = "serve" => s \in registry \cup told \cup refused

\* The outcome of an authorization is never the state that finds the channel
\* full, however slow the browser reads: a state is dropped without a trace, and
\* the handler would wait for the outcome for ever.
OutcomeNotLost ==
    \A s \in Sessions :
       lost[s] => \/ \E i \in 1..Len(queue[s]) : queue[s][i] \in Terminal
                  \/ socket[s] \in {"close", "gone"}

\* A handler that still reads when the authorization is over finds the outcome in the
\* channel: whichever way the authorization went, through an error, a login checked
\* late or a failure to save, and though nobody had read the channel meanwhile.
OutcomeAwaits ==
    \A s \in Sessions :
       socket[s] = "serve" /\ flow[s] = "over" =>
          \E i \in 1..Len(queue[s]) : queue[s][i] \in Terminal

\* Every connection comes to an end, cancelled ones included: each way out of the
\* authorization leads to a terminal state.
ConnectionsEnd == \A s \in Sessions : (socket[s] = "serve") ~> (socket[s] = "gone")
=============================================================================
