---------------------------- MODULE CallManager ----------------------------
(***************************************************************************)
(* The call manager of one WhatsApp bot (internal/whatsapp/calls/calls.go) *)
(* with the threads that meet in it: the goroutine of every incoming call, *)
(* the RPC thread of every outgoing call, the OnReady and OnEnd callbacks, *)
(* the watchdog and the realtime event loop of every session, HangupCall,  *)
(* and the thread that stops or resets the bot (user_bots.go and           *)
(* bot_lifecycle.go).                                                      *)
(*                                                                         *)
(* Calls are identified by their call id, used once.  A step of a thread   *)
(* reaches from one call of another component, one access to shared state  *)
(* or one wait to the next; accesses in a row between which no other       *)
(* thread can tell a difference are one step.  Time is abstract: a timer   *)
(* may fire whenever it is armed.  The hub of a call is EventHub's: here   *)
(* are only call_ended and the closing of the hub, since no thread waits   *)
(* for what it publishes.                                                  *)
(*                                                                         *)
(* A definition marked "slip" is no part of the specification: it is what  *)
(* the definition after it would be with a plausible mistake in the code,  *)
(* kept to see that the properties would notice.                           *)
(***************************************************************************)
EXTENDS Integers, FiniteSets

CONSTANTS
    Calls,          \* call ids
    Direction,      \* who starts each call: "incoming" or "outgoing"
    PeerOf,         \* the contact (respID) of each call
    StopKind,       \* how the bot is stopped: "stop", "reset", or "none"
    MaxCalls,       \* bound on the number of calls
    MaxHangups,     \* bound on the HangupCall requests at the same time
    Silent,         \* bound: incoming calls whose media never gets ready
    SetupTimeout,   \* callSetupTimeout, in seconds
    TickPeriod,     \* the period of idleTicker
    IdleLimit       \* silence after which a ticking watchdog ends the call

ASSUME TimersAssumption ==
    SetupTimeout \in Nat /\ TickPeriod \in Nat /\ IdleLimit \in Nat
ASSUME BoundsAssumption ==
    MaxCalls \in Nat /\ MaxHangups \in Nat /\ Silent \subseteq Calls
ASSUME DirectionAssumption == Direction \in [Calls -> {"incoming", "outgoing"}]
ASSUME StopKindAssumption == StopKind \in {"stop", "reset", "none"}

VARIABLES
    \* the bot
    stopped,      \* bot.stopped
    cancelled,    \* the bot's context is done
    connected,    \* the WhatsApp client is connected and logged in
    stopPc,       \* the next step of the thread that stops the bot
    stopSet,      \* the calls its Range started with
    \* the manager and its sessions
    active,       \* keys of m.active
    ready,        \* session.ready
    respSet,      \* session.respID # 0
    once,         \* session.once, and the progress of cleanup inside it
    \* threads of a call
    starter,      \* handleIncoming or InitiateOutgoing
    replace,      \* the calls that InitiateOutgoing's Range started with
    visited,      \* the call that its Range is at
    rpc,          \* HangupCall of a call
    realtime,     \* startRealtime, failRealtime and the event loop
    watch,        \* the watchdog
    \* outside the manager
    phone,        \* the call as WhatsApp sees it
    core,         \* the realtime session of the core Start
    \* history
    endings,      \* the number of call_ended events published
    abandoned     \* the manager gave the call up without a successful hangup

botVars == <<stopped, cancelled, connected, stopPc, stopSet>>
sessionVars == <<active, ready, respSet, once>>
replaceVars == <<replace, visited>>
threadVars == <<starter, replaceVars, rpc, realtime, watch>>
outsideVars == <<phone, core>>
vars == <<botVars, sessionVars, threadVars, outsideVars, endings, abandoned>>

StopPcs == {"idle", "flag", "calls", "cleaning", "cancel", "disconnect", "done"}
OncePcs == {"idle", "wanted", "ended", "released", "done"}
ReplacingPcs == {"replacing", "visiting", "hungUp", "joining"}
StarterPcs == {"none", "deciding", "registering", "answering", "dialing", "resolving",
               "inside", "done"} \cup ReplacingPcs
RealtimePcs == {"none", "starting", "assigning", "running", "failing", "joining", "over"}
RpcPcs == {"none", "hanging", "hungUp"}
TimeoutPcs == {"expired", "hanging", "hungUp"}
WatchPcs == {"none", "setup", "ticking", "over"} \cup TimeoutPcs
-----------------------------------------------------------------------------
(* Helpers.                                                                *)

\* session.ctx: a child of the bot's context for an incoming call, independent
\* of it (context.WithoutCancel) for an outgoing one; cancelled by cleanup.
ContextDone(c) ==
    once[c] \notin {"idle", "wanted"} \/ (Direction[c] = "incoming" /\ cancelled)

HubClosed(c) == once[c] \in {"released", "done"}

\* call.Hangup() of a call that is cleaned up whatever it returns.
TryHangup(c) ==
    \/ /\ phone' = [phone EXCEPT ![c] = "over"]
       /\ UNCHANGED abandoned
    \/ /\ phone[c] = "alive"
       /\ abandoned' = [abandoned EXCEPT ![c] = TRUE]
       /\ UNCHANGED phone

\* Another call may begin (a bound of the model).
MayBegin == Cardinality({c \in Calls : starter[c] # "none"}) < MaxCalls

\* cleanup has run, so that a call of cleanup has returned.
CleanedUp(c) == once[c] = "done"

\* A call of cleanup: nothing for a call that is not active, and the first
\* caller to find the session runs the function given to session.once.Do.
WantCleanup(c) ==
    once' = [once EXCEPT ![c] = IF c \in active /\ @ = "idle" THEN "wanted" ELSE @]

-----------------------------------------------------------------------------
Init ==
    /\ stopped = FALSE
    /\ cancelled = FALSE
    /\ connected = TRUE
    /\ stopPc = "idle"
    /\ stopSet = {}
    /\ active = {}
    /\ ready = [c \in Calls |-> FALSE]
    /\ respSet = [c \in Calls |-> FALSE]
    /\ once = [c \in Calls |-> "idle"]
    /\ starter = [c \in Calls |-> "none"]
    /\ replace = [c \in Calls |-> {}]
    /\ visited = [c \in Calls |-> c]
    /\ rpc = [c \in Calls |-> "none"]
    /\ realtime = [c \in Calls |-> "none"]
    /\ watch = [c \in Calls |-> "none"]
    /\ phone = [c \in Calls |-> "none"]
    /\ core = [c \in Calls |-> "none"]
    /\ endings = [c \in Calls |-> 0]
    /\ abandoned = [c \in Calls |-> FALSE]

-----------------------------------------------------------------------------
(* Incoming calls.                                                         *)

\* The callback given to OnIncomingCall starts the goroutine.
IncomingCall(c) ==
    /\ Direction[c] = "incoming"
    /\ starter[c] = "none"
    /\ MayBegin
    /\ connected
    /\ starter' = [starter EXCEPT ![c] = "deciding"]
    /\ phone' = [phone EXCEPT ![c] = "alive"]
    /\ UNCHANGED <<botVars, sessionVars, replaceVars, rpc, realtime, watch, core,
                   endings, abandoned>>

\* handleIncoming rejects the call of a contact that is not allowed, or any
\* call when voice calls are off; the error of Reject is only logged.
RejectIncoming(c) ==
    /\ starter[c] = "deciding"
    /\ starter' = [starter EXCEPT ![c] = "done"]
    /\ phone' \in {phone, [phone EXCEPT ![c] = "over"]}
    /\ UNCHANGED <<botVars, sessionVars, replaceVars, rpc, realtime, watch, core,
                   endings, abandoned>>

\* registerSession: the session enters the table, its watchdog starts and OnEnd
\* is set.  A call that has ended by now may never be reported to it.
Register(c) ==
    /\ starter[c] \in {"deciding", "registering"}
    /\ starter' = [starter EXCEPT ![c] = IF Direction[c] = "incoming"
                                         THEN "answering" ELSE "resolving"]
    /\ active' = active \cup {c}
    /\ watch' = [watch EXCEPT ![c] = "setup"]
    /\ UNCHANGED <<botVars, ready, respSet, once, replaceVars, rpc, realtime,
                   outsideVars, endings, abandoned>>

\* call.Answer(): an error is followed by cleanup, without a hangup.
Answer(c) ==
    /\ starter[c] = "answering"
    /\ starter' = [starter EXCEPT ![c] = "done"]
    /\ \/ UNCHANGED <<once, abandoned>>
       \/ /\ WantCleanup(c)
          /\ abandoned' = [abandoned EXCEPT ![c] = TRUE]
    /\ UNCHANGED <<botVars, active, ready, respSet, replaceVars, rpc, realtime,
                   watch, outsideVars, endings>>

\* The OnReady callback up to startRealtime: the media is there, maybe before
\* Answer has returned.  A contact that cannot be resolved goes to failRealtime.
MediaReady(c) ==
    /\ Direction[c] = "incoming"
    /\ starter[c] \in {"answering", "done"}
    /\ watch[c] # "none"
    /\ phone[c] = "alive"
    /\ realtime[c] = "none"
    /\ c \notin Silent
    /\ ready' = [ready EXCEPT ![c] = TRUE]
    /\ \E next \in {"starting", "failing"} : realtime' = [realtime EXCEPT ![c] = next]
    /\ UNCHANGED <<botVars, active, respSet, once, starter, replaceVars, rpc, watch,
                   outsideVars, endings, abandoned>>

-----------------------------------------------------------------------------
(* Outgoing calls.                                                         *)

\* InitiateOutgoing up to its Range: the checks, the flag stopped among them.
BeginOutgoing(c) ==
    /\ Direction[c] = "outgoing"
    /\ starter[c] = "none"
    /\ MayBegin
    /\ connected
    /\ ~stopped
    /\ starter' = [starter EXCEPT ![c] = "replacing"]
    /\ replace' = [replace EXCEPT ![c] = active]
    /\ UNCHANGED <<botVars, sessionVars, visited, rpc, realtime, watch, outsideVars,
                   endings, abandoned>>

\* The Range comes to d, maybe one registered meanwhile.
ReplaceVisit(c, d) ==
    /\ starter[c] = "replacing"
    /\ d \in active
    /\ starter' = [starter EXCEPT ![c] = "visiting"]
    /\ visited' = [visited EXCEPT ![c] = d]
    /\ UNCHANGED <<botVars, sessionVars, replace, rpc, realtime, watch, outsideVars,
                   endings, abandoned>>

ReplaceHangup(c) ==
    /\ starter[c] = "visiting"
    /\ TryHangup(visited[c])
    /\ starter' = [starter EXCEPT ![c] = "hungUp"]
    /\ UNCHANGED <<botVars, sessionVars, replaceVars, rpc, realtime, watch, core,
                   endings>>

ReplaceCleanup(c) ==
    /\ starter[c] = "hungUp"
    /\ WantCleanup(visited[c])
    /\ starter' = [starter EXCEPT ![c] = "joining"]
    /\ UNCHANGED <<botVars, active, ready, respSet, replaceVars, rpc, realtime,
                   watch, outsideVars, endings, abandoned>>

\* Its cleanup has returned, and the Range goes on.
ReplaceJoin(c) ==
    /\ starter[c] = "joining"
    /\ CleanedUp(visited[c])
    /\ starter' = [starter EXCEPT ![c] = "replacing"]
    /\ visited' = [visited EXCEPT ![c] = c]
    /\ UNCHANGED <<botVars, sessionVars, replace, rpc, realtime, watch, outsideVars,
                   endings, abandoned>>

\* Slip: a call that somebody is cleaning up already is not waited for.
ReplaceDoneEarly(c) ==
    /\ starter[c] = "replacing"
    /\ \A d \in replace[c] : once[d] # "idle"
    /\ starter' = [starter EXCEPT ![c] = "dialing"]
    /\ UNCHANGED <<botVars, sessionVars, replaceVars, rpc, realtime, watch,
                   outsideVars, endings, abandoned>>

\* None of the calls that the Range has to visit is left.
ReplaceDone(c) ==
    /\ starter[c] = "replacing"
    /\ replace[c] \cap active = {}
    /\ starter' = [starter EXCEPT ![c] = "dialing"]
    /\ UNCHANGED <<botVars, sessionVars, replaceVars, rpc, realtime, watch,
                   outsideVars, endings, abandoned>>

\* callClient.Call: an error ends the RPC, and so does a lost connection.
Dial(c) ==
    /\ starter[c] = "dialing"
    /\ \/ /\ connected
          /\ phone' = [phone EXCEPT ![c] = "alive"]
          /\ starter' = [starter EXCEPT ![c] = "registering"]
       \/ /\ starter' = [starter EXCEPT ![c] = "done"]
          /\ UNCHANGED phone
    /\ UNCHANGED <<botVars, sessionVars, replaceVars, rpc, realtime, watch, core,
                   endings, abandoned>>

\* The call is marked ready before its media is.  While the thread is "inside"
\* startRealtime or failRealtime, realtime[c] says where.
ResolvePeer(c) ==
    /\ starter[c] = "resolving"
    /\ starter' = [starter EXCEPT ![c] = "inside"]
    /\ \/ /\ ready' = [ready EXCEPT ![c] = TRUE]
          /\ realtime' = [realtime EXCEPT ![c] = "starting"]
       \/ /\ realtime' = [realtime EXCEPT ![c] = "failing"]
          /\ UNCHANGED ready
    /\ UNCHANGED <<botVars, active, respSet, once, replaceVars, rpc, watch,
                   outsideVars, endings, abandoned>>

-----------------------------------------------------------------------------
(* The realtime session of a call.                                         *)

\* The RPC thread of an outgoing call returns with startRealtime or failRealtime;
\* elsewhere it is a callback or the event loop that ends there.
Return(c) ==
    starter' = [starter EXCEPT ![c] = IF @ = "inside" THEN "done" ELSE @]

\* startRealtime up to and including StartSession, in the bot's context.
StartSession(c) ==
    /\ realtime[c] = "starting"
    /\ \/ /\ ~cancelled
          /\ realtime' = [realtime EXCEPT ![c] = "assigning"]
          /\ core' = [core EXCEPT ![c] = "open"]
       \/ /\ realtime' = [realtime EXCEPT ![c] = "failing"]
          /\ UNCHANGED core
    /\ UNCHANGED <<botVars, sessionVars, starter, replaceVars, rpc, watch, phone,
                   endings, abandoned>>

\* The session learns its respID, the event loop starts and startRealtime returns.
AssignSession(c) ==
    /\ realtime[c] = "assigning"
    /\ respSet' = [respSet EXCEPT ![c] = TRUE]
    /\ realtime' = [realtime EXCEPT ![c] = "running"]
    /\ Return(c)
    /\ UNCHANGED <<botVars, active, ready, once, replaceVars, rpc, watch,
                   outsideVars, endings, abandoned>>

\* An error event, maybe one buffered before the core closed the channel, makes
\* the event loop call failRealtime.
RealtimeError(c) ==
    /\ realtime[c] = "running"
    /\ realtime' = [realtime EXCEPT ![c] = "failing"]
    /\ UNCHANGED <<botVars, sessionVars, starter, replaceVars, rpc, watch,
                   outsideVars, endings, abandoned>>

\* failRealtime: the cleanup.
FailCleanup(c) ==
    /\ realtime[c] = "failing"
    /\ WantCleanup(c)
    /\ realtime' = [realtime EXCEPT ![c] = "joining"]
    /\ UNCHANGED <<botVars, active, ready, respSet, starter, replaceVars, rpc,
                   watch, outsideVars, endings, abandoned>>

\* The cleanup has returned: the hangup, and then the RPC of an outgoing call
\* whose thread this is returns the error.
FailHangup(c) ==
    /\ realtime[c] = "joining"
    /\ CleanedUp(c)
    /\ TryHangup(c)
    /\ realtime' = [realtime EXCEPT ![c] = "over"]
    /\ Return(c)
    /\ UNCHANGED <<botVars, sessionVars, replaceVars, rpc, watch, core, endings>>

\* The event loop ends with the context, or when the core closes the channel.
EventLoopExit(c) ==
    /\ realtime[c] = "running"
    /\ ContextDone(c) \/ core[c] = "closed"
    /\ realtime' = [realtime EXCEPT ![c] = "over"]
    /\ UNCHANGED <<botVars, sessionVars, starter, replaceVars, rpc, watch,
                   outsideVars, endings, abandoned>>

-----------------------------------------------------------------------------
(* cleanup, inside session.once; the steps other threads can tell apart.   *)

\* session.cancel() and the last event.
CleanupEmit(c) ==
    /\ once[c] = "wanted"
    /\ endings' = [endings EXCEPT ![c] = @ + 1]
    /\ once' = [once EXCEPT ![c] = "ended"]
    /\ UNCHANGED <<botVars, active, ready, respSet, threadVars, outsideVars,
                   abandoned>>

\* Slip: cleanup waits for the event loop, which may be waiting for cleanup.
CleanupJoinsLoop(c) ==
    /\ once[c] = "ended"
    /\ realtime[c] \notin {"running", "failing", "joining"}
    /\ once' = [once EXCEPT ![c] = "released"]
    /\ core' = [d \in Calls |->
                  IF respSet[c] /\ PeerOf[d] = PeerOf[c] /\ core[d] = "open"
                  THEN "closed" ELSE core[d]]
    /\ UNCHANGED <<botVars, active, ready, respSet, threadVars, phone, endings,
                   abandoned>>

\* The hub is closed, and then, for a session that knows its respID, comes
\* CloseSession(session.respID): the core closes what it runs for that contact.
CleanupRelease(c) ==
    /\ once[c] = "ended"
    /\ once' = [once EXCEPT ![c] = "released"]
    /\ core' = [d \in Calls |->
                  IF respSet[c] /\ PeerOf[d] = PeerOf[c] /\ core[d] = "open"
                  THEN "closed" ELSE core[d]]
    /\ UNCHANGED <<botVars, active, ready, respSet, threadVars, phone, endings,
                   abandoned>>

CleanupDelete(c) ==
    /\ once[c] = "released"
    /\ once' = [once EXCEPT ![c] = "done"]
    /\ active' = active \ {c}
    /\ UNCHANGED <<botVars, ready, respSet, threadVars, outsideVars, endings,
                   abandoned>>

Cleanup(c) == CleanupEmit(c) \/ CleanupRelease(c) \/ CleanupDelete(c)

-----------------------------------------------------------------------------
(* The ends of a call.                                                     *)

\* The peer ends the call, or never answered.
RemoteEnd(c) ==
    /\ phone[c] = "alive"
    /\ phone' = [phone EXCEPT ![c] = "over"]
    /\ UNCHANGED <<botVars, sessionVars, threadVars, core, endings, abandoned>>

\* The callback given to OnEnd: when, and for which ends, meowcaller calls it is
\* its own affair.
OnEnd(c) ==
    /\ watch[c] # "none"
    /\ phone[c] = "over"
    /\ WantCleanup(c)
    /\ UNCHANGED <<botVars, active, ready, respSet, threadVars, outsideVars,
                   endings, abandoned>>

\* HangupCall finds the call in the table.
HangupCall(c) ==
    /\ rpc[c] = "none"
    /\ Cardinality({d \in Calls : rpc[d] # "none"}) < MaxHangups
    /\ c \in active
    /\ rpc' = [rpc EXCEPT ![c] = "hanging"]
    /\ UNCHANGED <<botVars, sessionVars, starter, replaceVars, realtime, watch,
                   outsideVars, endings, abandoned>>

\* When call.Hangup() fails, HangupCall returns the error and changes nothing.
HangupAttempt(c) ==
    /\ rpc[c] = "hanging"
    /\ \/ /\ phone' = [phone EXCEPT ![c] = "over"]
          /\ rpc' = [rpc EXCEPT ![c] = "hungUp"]
       \/ /\ rpc' = [rpc EXCEPT ![c] = "none"]
          /\ UNCHANGED phone
    /\ UNCHANGED <<botVars, sessionVars, starter, replaceVars, realtime, watch,
                   core, endings, abandoned>>

HangupCleanup(c) ==
    /\ rpc[c] = "hungUp"
    /\ WantCleanup(c)
    /\ rpc' = [rpc EXCEPT ![c] = "none"]
    /\ UNCHANGED <<botVars, active, ready, respSet, starter, replaceVars, realtime,
                   watch, outsideVars, endings, abandoned>>

\* Slip: the setup timer does not look at ready.
SetupTimerBlind(c) ==
    /\ watch[c] = "setup"
    /\ watch' = [watch EXCEPT ![c] = "ticking"]
    /\ UNCHANGED <<botVars, sessionVars, starter, replaceVars, rpc, realtime,
                   outsideVars, endings, abandoned>>

\* The setup timer of the watchdog looks at ready, which may change as soon as
\* it has.
SetupTimer(c) ==
    /\ watch[c] = "setup"
    /\ watch' = [watch EXCEPT ![c] = IF ready[c] THEN "ticking" ELSE "expired"]
    /\ UNCHANGED <<botVars, sessionVars, starter, replaceVars, rpc, realtime,
                   outsideVars, endings, abandoned>>

\* The second select of the watchdog runs once.  Its ticker is the first to
\* fire (the lifetime timer is two hours), and by then the call has been silent
\* for at most the setup time and one period.
IdleTick(c) ==
    /\ watch[c] = "ticking"
    /\ watch' = [watch EXCEPT ![c] = IF SetupTimeout + TickPeriod > IdleLimit
                                     THEN "expired" ELSE "over"]
    /\ UNCHANGED <<botVars, sessionVars, starter, replaceVars, rpc, realtime,
                   outsideVars, endings, abandoned>>

\* endTimedOut: a call that has left the table is not touched.
TimeoutLookup(c) ==
    /\ watch[c] = "expired"
    /\ watch' = [watch EXCEPT ![c] = IF c \in active THEN "hanging" ELSE "over"]
    /\ UNCHANGED <<botVars, sessionVars, starter, replaceVars, rpc, realtime,
                   outsideVars, endings, abandoned>>

\* Slip: endTimedOut without the hangup.
TimeoutQuietly(c) ==
    /\ watch[c] = "hanging"
    /\ watch' = [watch EXCEPT ![c] = "hungUp"]
    /\ UNCHANGED <<botVars, sessionVars, starter, replaceVars, rpc, realtime,
                   outsideVars, endings, abandoned>>

TimeoutHangup(c) ==
    /\ watch[c] = "hanging"
    /\ TryHangup(c)
    /\ watch' = [watch EXCEPT ![c] = "hungUp"]
    /\ UNCHANGED <<botVars, sessionVars, starter, replaceVars, rpc, realtime, core,
                   endings>>

\* Slip: endTimedOut leaves the cleanup to OnEnd.
TimeoutOpen(c) ==
    /\ watch[c] = "hungUp"
    /\ watch' = [watch EXCEPT ![c] = "over"]
    /\ UNCHANGED <<botVars, sessionVars, starter, replaceVars, rpc, realtime,
                   outsideVars, endings, abandoned>>

TimeoutCleanup(c) ==
    /\ watch[c] = "hungUp"
    /\ WantCleanup(c)
    /\ watch' = [watch EXCEPT ![c] = "over"]
    /\ UNCHANGED <<botVars, active, ready, respSet, starter, replaceVars, rpc,
                   realtime, outsideVars, endings, abandoned>>

EndTimedOut(c) == TimeoutLookup(c) \/ TimeoutHangup(c) \/ TimeoutCleanup(c)

WatchdogExit(c) ==
    /\ watch[c] \in {"setup", "ticking"}
    /\ ContextDone(c)
    /\ watch' = [watch EXCEPT ![c] = "over"]
    /\ UNCHANGED <<botVars, sessionVars, starter, replaceVars, rpc, realtime,
                   outsideVars, endings, abandoned>>

-----------------------------------------------------------------------------
(* Stopping the bot.                                                       *)

\* The order of the steps: stopUserBot and StopUserBot set the flag first,
\* resetSession ends the calls and disconnects first.
FirstStop == IF StopKind = "stop" THEN "flag" ELSE "calls"
AfterCallsLost == "return"   \* slip: nothing after Manager.Stop
AfterCalls == IF StopKind = "stop" THEN "cancel" ELSE "disconnect"
AfterFlag == IF StopKind = "stop" THEN "calls" ELSE "cancel"
AfterCancel == IF StopKind = "stop" THEN "disconnect" ELSE "done"
AfterDisconnect == IF StopKind = "stop" THEN "done" ELSE "flag"

BeginStop ==
    /\ StopKind # "none"
    /\ stopPc = "idle"
    /\ stopPc' = FirstStop
    /\ UNCHANGED <<stopped, cancelled, connected, stopSet, sessionVars, threadVars,
                   outsideVars, endings, abandoned>>

StopFlag ==
    /\ stopPc = "flag"
    /\ stopped' = TRUE
    /\ stopPc' = AfterFlag
    /\ UNCHANGED <<cancelled, connected, stopSet, sessionVars, threadVars,
                   outsideVars, endings, abandoned>>

\* Manager.Stop starts its Range.
StopCalls ==
    /\ stopPc = "calls"
    /\ stopSet' = active
    /\ stopPc' = "cleaning"
    /\ UNCHANGED <<stopped, cancelled, connected, sessionVars, threadVars,
                   outsideVars, endings, abandoned>>

\* Manager.Stop calls cleanup only: the call itself is not hung up.
StopCall(c) ==
    /\ stopPc = "cleaning"
    /\ c \in active
    /\ once[c] = "idle"
    /\ WantCleanup(c)
    /\ abandoned' = [abandoned EXCEPT ![c] = TRUE]
    /\ UNCHANGED <<botVars, active, ready, respSet, threadVars, outsideVars,
                   endings>>

\* Slip: Manager.Stop starts the cleanups and does not wait for them.
StopCallsNotAwaited ==
    /\ stopPc = "cleaning"
    /\ \A c \in stopSet : once[c] # "idle"
    /\ stopPc' = AfterCalls
    /\ UNCHANGED <<stopped, cancelled, connected, stopSet, sessionVars, threadVars,
                   outsideVars, endings, abandoned>>

\* The last cleanup has returned.
StopCallsDone ==
    /\ stopPc = "cleaning"
    /\ \A c \in stopSet : CleanedUp(c)
    /\ stopPc' = AfterCalls
    /\ UNCHANGED <<stopped, cancelled, connected, stopSet, sessionVars, threadVars,
                   outsideVars, endings, abandoned>>

\* bot.cancel(): the core ends the realtime sessions started in this context.
StopCancel ==
    /\ stopPc = "cancel"
    /\ cancelled' = TRUE
    /\ core' = [c \in Calls |-> IF core[c] = "open" THEN "closed" ELSE core[c]]
    /\ stopPc' = AfterCancel
    /\ UNCHANGED <<stopped, connected, stopSet, sessionVars, threadVars, phone,
                   endings, abandoned>>

StopDisconnect ==
    /\ stopPc = "disconnect"
    /\ connected' = FALSE
    /\ stopPc' = AfterDisconnect
    /\ UNCHANGED <<stopped, cancelled, stopSet, sessionVars, threadVars,
                   outsideVars, endings, abandoned>>

StopBot ==
    \/ StopFlag \/ StopCalls \/ StopCallsDone \/ StopCancel \/ StopDisconnect
    \/ \E c \in Calls : StopCall(c)

-----------------------------------------------------------------------------
Incoming(c) == RejectIncoming(c) \/ Answer(c)
Outgoing(c) ==
    \/ ReplaceHangup(c) \/ ReplaceCleanup(c) \/ ReplaceJoin(c) \/ ReplaceDone(c)
    \/ Dial(c) \/ ResolvePeer(c)
    \/ \E d \in Calls : ReplaceVisit(c, d)
Realtime(c) ==
    \/ StartSession(c) \/ AssignSession(c) \/ FailCleanup(c) \/ FailHangup(c)
    \/ EventLoopExit(c)
Watchdog(c) == SetupTimer(c) \/ IdleTick(c) \/ EndTimedOut(c) \/ WatchdogExit(c)
Hangup(c) == HangupAttempt(c) \/ HangupCleanup(c)

\* What may happen, and what may not: calls arrive, RPCs come in, media gets
\* ready, the core reports events, the peer hangs up and meowcaller says so.
Environment(c) ==
    \/ IncomingCall(c) \/ MediaReady(c) \/ BeginOutgoing(c) \/ RealtimeError(c)
    \/ RemoteEnd(c) \/ OnEnd(c) \/ HangupCall(c)

Next ==
    \/ BeginStop \/ StopBot
    \/ \E c \in Calls :
          \/ Incoming(c) \/ Outgoing(c) \/ Register(c) \/ Realtime(c)
          \/ Cleanup(c) \/ Watchdog(c) \/ Hangup(c) \/ Environment(c)

Spec == Init /\ [][Next]_vars

\* Goroutines that can run do run, the timers fire, and the calls into
\* meowcaller and the core return.
Fairness ==
    /\ WF_vars(StopBot)
    /\ \A c \in Calls :
          /\ WF_vars(Incoming(c))
          /\ WF_vars(Outgoing(c))
          /\ WF_vars(Register(c))
          /\ WF_vars(Realtime(c))
          /\ WF_vars(Cleanup(c))
          /\ WF_vars(Watchdog(c))
          /\ WF_vars(Hangup(c))

FairSpec == Spec /\ Fairness

-----------------------------------------------------------------------------
(* Properties.                                                             *)

TypeOK ==
    /\ stopped \in BOOLEAN /\ cancelled \in BOOLEAN /\ connected \in BOOLEAN
    /\ stopPc \in StopPcs
    /\ stopSet \subseteq Calls
    /\ active \subseteq Calls
    /\ ready \in [Calls -> BOOLEAN]
    /\ respSet \in [Calls -> BOOLEAN]
    /\ once \in [Calls -> OncePcs]
    /\ starter \in [Calls -> StarterPcs]
    /\ replace \in [Calls -> SUBSET Calls]
    /\ realtime \in [Calls -> RealtimePcs]
    /\ visited \in [Calls -> Calls]
    /\ rpc \in [Calls -> RpcPcs]
    /\ watch \in [Calls -> WatchPcs]
    /\ phone \in [Calls -> {"none", "alive", "over"}]
    /\ core \in [Calls -> {"none", "open", "closed"}]
    /\ endings \in [Calls -> Nat]
    /\ abandoned \in [Calls -> BOOLEAN]

\* However many threads clean a call up at the same time (OnEnd, HangupCall, the
\* watchdog, failRealtime, a replacing call, a stop), its subscribers are told
\* once that it ended, and before their streams are closed (calls.go, cleanup).
EndedOnce ==
    \A c \in Calls :
        /\ endings[c] <= 1
        /\ HubClosed(c) => endings[c] = 1

\* A call that the manager has dropped is not left ringing or talking: it is
\* over, about to be hung up by failRealtime, or its hangup was not attempted
\* or failed (calls.go, endTimedOut, failRealtime, InitiateOutgoing).
DroppedCallsHungUp ==
    \A c \in Calls :
        once[c] = "done" /\ phone[c] = "alive"
            => realtime[c] = "joining" \/ abandoned[c]

\* A call without media is under the setup timer or being ended by it, unless
\* somebody else cleans it up or its context ended: no interleaving of the callbacks,
\* the hangups and the watchdog leaves a silent call to itself (calls.go,
\* watchTimeout, endTimedOut).
UnreadyCallsWatched ==
    \A c \in active :
        \/ ready[c] \/ once[c] # "idle" \/ ContextDone(c)
        \/ watch[c] \in {"setup"} \cup TimeoutPcs

\* When an outgoing call is offered, the calls found before it have ended: their
\* subscribers know, they left the table, and they were hung up as far as that
\* was possible (calls.go, InitiateOutgoing).
ReplacedCallsEnded ==
    \A c \in Calls : \A d \in replace[c] :
        starter[c] \notin {"none"} \cup ReplacingPcs
            => /\ d \notin active
               /\ endings[d] = 1
               /\ phone[d] = "alive" => realtime[d] = "joining" \/ abandoned[d]

\* When the stop has passed Manager.Stop, the calls that were active then have
\* left the table and their subscribers know that they ended (calls.go, Stop);
\* when it is over no realtime session is open, not even that of a call that
\* slipped in or of one whose session was being started (user_bots.go).
StopEndsCalls ==
    /\ stopPc # "cleaning" =>
           \A c \in stopSet : c \notin active /\ endings[c] = 1
    /\ stopPc = "done" => \A c \in Calls : core[c] # "open"

\* A call gets its media, or leaves the table in spite of a peer that says nothing,
\* a hangup that fails and an end that is never reported; only a stop can take the
\* watchdog away (calls.go, watchTimeout, endTimedOut).
UnreadyCallsEnd ==
    \A c \in Calls :
        (c \in active /\ ~ready[c]) ~> (ready[c] \/ c \notin active \/ cancelled)

\* StartOutgoingCall, the goroutine of an incoming call and the stop of the bot
\* return, although each of them waits in cleanup for whoever is inside it.
ThreadsReturn ==
    /\ \A c \in Calls : (starter[c] # "none") ~> (starter[c] = "done")
    /\ (stopPc # "idle") ~> (stopPc = "done")

-----------------------------------------------------------------------------
(* The life of calls as others may rely on it.                             *)

LifeOf(listed, progress) ==
    CASE progress = "idle" -> IF listed THEN "listed" ELSE "none"
      [] progress = "wanted" -> "ending"
      [] progress = "ended" -> "told"
      [] progress = "released" -> "closed"
      [] progress = "done" -> "left"

CallLives == [c \in Calls |-> LifeOf(c \in active, once[c])]

\* The Range of InitiateOutgoing, and that of Manager.Stop.
SweepOf(dir, pc) ==
    IF dir = "incoming" \/ pc = "none" THEN "before"
    ELSE IF pc \in ReplacingPcs THEN "sweeping" ELSE "past"

CallSweeps == [c \in Calls |-> SweepOf(Direction[c], starter[c])]

StopSweep ==
    IF stopPc = "cleaning" THEN "sweeping"
    ELSE IF stopPc \in {"idle", "calls"} \/ (stopPc = "flag" /\ StopKind = "stop")
         THEN "before" ELSE "past"

Life == INSTANCE CallLife WITH
    Sweepers <- {c \in Calls : Direction[c] = "outgoing"},
    life <- CallLives, told <- endings,
    sweep <- CallSweeps, noted <- replace,
    stop <- StopSweep, stopNoted <- stopSet

\* A call never goes back in its life, tells its end once on the way, and is listed,
\* if it is outgoing, when those it replaces have left: whatever the threads do to
\* it, they implement CallLife.
LifeSpec == Life!Spec

-----------------------------------------------------------------------------
(* What comments say.                                                      *)

\* calls.go:276: "One active call is allowed per WhatsApp bot/user."
OneActiveCall == Cardinality(active) <= 1

\* calls.go:63: respID # 0 says that the realtime session runs, and cleanup
\* relies on it to close the session of a call that has ended.
EndedCallHasNoSession ==
    \A c \in Calls :
        once[c] = "done" /\ realtime[c] = "over" => core[c] # "open"
=============================================================================
