------------------------- MODULE CallManagerProofs -------------------------
(***************************************************************************)
(* Proofs about CallManager, for any number of calls and contacts, every   *)
(* direction of theirs, and either way of stopping the bot.                *)
(*                                                                         *)
(* The invariants of CallManager are not inductive.  The strengthening is  *)
(* about what holds while a cleanup is under way, not only after it: the   *)
(* count of endings follows the progress of session.once, a call somebody  *)
(* wants to clean up is already over or doomed, whoever is between hangup  *)
(* and cleanup has hung the call up, and nobody undoes a finished cleanup. *)
(***************************************************************************)
EXTENDS CallManager, TLAPS

-----------------------------------------------------------------------------
(* The inductive invariant.                                                *)

\* call_ended has been published exactly when cleanup is past that point.
Counted(c) ==
    /\ once[c] \in {"idle", "wanted"} => endings[c] = 0
    /\ once[c] \notin {"idle", "wanted"} => endings[c] = 1

\* An outgoing call on the way to its offer, an incoming one that is being decided.
Unregistered == {"none", "deciding", "dialing", "registering"} \cup ReplacingPcs

\* The table and session.once: a call enters the table before anybody can clean
\* it up, stays in it while that lasts, and is never in it afterwards; its
\* realtime session comes after its registration.
Tabled(c) ==
    /\ starter[c] \in Unregistered => c \notin active /\ once[c] = "idle"
    /\ starter[c] \in Unregistered \cup {"resolving"} => realtime[c] = "none"
    /\ c \in active => once[c] # "done"
    /\ once[c] \notin {"idle", "done"} => c \in active

\* A hangup of the call succeeded, or failed once and for all.
Attempted(c) == phone[c] = "over" \/ abandoned[c]

\* Whoever wants a live call cleaned up has hung it up, will, or never does; the
\* threads between hangup and cleanup are among those who have.
Doomed(c) ==
    /\ once[c] # "idle" /\ phone[c] = "alive" => realtime[c] = "joining" \/ abandoned[c]
    /\ rpc[c] = "hungUp" => phone[c] = "over"
    /\ watch[c] = "hungUp" => Attempted(c)

Watched(c) ==
    c \in active /\ ~ready[c] /\ once[c] = "idle" /\ ~ContextDone(c)
        => watch[c] \in {"setup"} \cup TimeoutPcs

\* The calls that an outgoing call replaces are in the table until they are cleaned
\* up for good, and all of them are when it is offered.
Replaced(c) ==
    /\ starter[c] = "none" => replace[c] = {}
    /\ \A d \in replace[c] : d \in active \/ CleanedUp(d)
    /\ starter[c] \notin {"none"} \cup ReplacingPcs => \A d \in replace[c] : CleanedUp(d)

\* The call that its Range is at is registered, and hung up before it is cleaned up.
Visiting(c) ==
    /\ starter[c] \in ReplacingPcs \ {"replacing"} => watch[visited[c]] # "none"
    /\ starter[c] = "hungUp" => Attempted(visited[c])

\* A call goes through the steps of its direction.  It is registered with its
\* watchdog, and what is registered is in the table or has been cleaned up.
Registered(c) ==
    /\ starter[c] \in {"deciding", "answering"} => Direction[c] = "incoming"
    /\ starter[c] \in {"dialing", "registering", "resolving", "inside"} \cup ReplacingPcs
          => Direction[c] = "outgoing"
    /\ starter[c] \in {"answering", "resolving", "inside"} => watch[c] # "none"
    /\ rpc[c] # "none" \/ realtime[c] # "none" \/ c \in active => watch[c] # "none"
    /\ watch[c] # "none" => c \in active \/ once[c] = "done"

Stopping ==
    /\ stopPc = "cleaning" => \A c \in stopSet : c \in active \/ once[c] = "done"
    /\ stopPc # "cleaning" => \A c \in stopSet : CleanedUp(c)
    /\ stopPc = "done" => cancelled
    /\ stopPc = "disconnect" /\ StopKind = "stop" => cancelled
    /\ cancelled => \A c \in Calls : core[c] # "open"
    /\ stopPc # "idle" => StopKind # "none"

IInv ==
    /\ TypeOK
    /\ \A c \in Calls : Counted(c)
    /\ \A c \in Calls : Tabled(c)
    /\ \A c \in Calls : Doomed(c)
    /\ \A c \in Calls : Watched(c)
    /\ \A c \in Calls : Replaced(c)
    /\ \A c \in Calls : Visiting(c)
    /\ \A c \in Calls : Registered(c)
    /\ Stopping

-----------------------------------------------------------------------------
(* The actions preserve it, one lemma for each.                            *)

USE DEF IInv, TypeOK, Counted, Tabled, Attempted, Doomed, Watched, Replaced, Visiting,
        Registered, Stopping, Unregistered,
        HubClosed, ContextDone, CleanedUp,
        StopPcs, OncePcs, ReplacingPcs, StarterPcs, RealtimePcs, RpcPcs, TimeoutPcs,
        WatchPcs, vars, botVars, sessionVars, replaceVars, threadVars, outsideVars

(* What the shared steps of the actions leave behind.                       *)

LEMMA WantCleanupType ==
  ASSUME TypeOK, NEW c \in Calls, WantCleanup(c)
  PROVE  once' \in [Calls -> OncePcs]
  BY DEF WantCleanup

LEMMA TryHangupType ==
  ASSUME TypeOK, NEW c \in Calls, TryHangup(c)
  PROVE  /\ phone' \in [Calls -> {"none", "alive", "over"}]
         /\ abandoned' \in [Calls -> BOOLEAN]
<1>1. CASE phone' = [phone EXCEPT ![c] = "over"] /\ UNCHANGED abandoned
  BY <1>1
<1>2. CASE abandoned' = [abandoned EXCEPT ![c] = TRUE] /\ UNCHANGED phone
  BY <1>2
<1>3. QED  BY <1>1, <1>2 DEF TryHangup

(* The goroutine of an incoming call.                                      *)

LEMMA IncomingCallInv ==
  ASSUME IInv, NEW c \in Calls, IncomingCall(c) PROVE IInv'
  BY DEF IncomingCall, MayBegin

LEMMA RejectIncomingInv ==
  ASSUME IInv, NEW c \in Calls, RejectIncoming(c) PROVE IInv'
  BY DEF RejectIncoming

LEMMA RegisterInv ==
  ASSUME IInv, NEW c \in Calls, Register(c) PROVE IInv'
  BY DEF Register

LEMMA AnswerInv == ASSUME IInv, NEW c \in Calls, Answer(c) PROVE IInv'
<1>1. TypeOK'
  <2>1. CASE UNCHANGED <<once, abandoned>>
    BY <2>1 DEF Answer
  <2>2. CASE WantCleanup(c) /\ abandoned' = [abandoned EXCEPT ![c] = TRUE]
    BY <2>2, WantCleanupType DEF Answer
  <2>3. QED  BY <2>1, <2>2 DEF Answer
<1>2. (\A e \in Calls : Counted(e))'
  BY DEF Answer, WantCleanup
<1>3. (\A e \in Calls : Tabled(e))'
  BY DEF Answer, WantCleanup
<1>4. (\A e \in Calls : Doomed(e))'
  BY DEF Answer, WantCleanup
<1>5. (\A e \in Calls : Watched(e))'
  BY DEF Answer, WantCleanup
<1>6. (\A e \in Calls : Replaced(e))'
  BY DEF Answer, WantCleanup
<1>7. (\A e \in Calls : Visiting(e))'
  BY DEF Answer, WantCleanup
<1>8. (\A e \in Calls : Registered(e))'
  BY DEF Answer, WantCleanup
<1>9. Stopping'
  BY DEF Answer, WantCleanup
<1> QED
  BY <1>1, <1>2, <1>3, <1>4, <1>5, <1>6, <1>7, <1>8, <1>9 DEF IInv

LEMMA MediaReadyInv ==
  ASSUME IInv, NEW c \in Calls, MediaReady(c) PROVE IInv'
  BY DEF MediaReady

(* The thread of an outgoing call.                                         *)

LEMMA BeginOutgoingInv ==
  ASSUME IInv, NEW c \in Calls, BeginOutgoing(c) PROVE IInv'
  BY DEF BeginOutgoing, MayBegin

LEMMA ReplaceVisitInv ==
  ASSUME IInv, NEW c \in Calls, NEW d \in Calls, ReplaceVisit(c, d) PROVE IInv'
  BY DEF ReplaceVisit

LEMMA ReplaceHangupInv == ASSUME IInv, NEW c \in Calls, ReplaceHangup(c) PROVE IInv'
<1>1. TypeOK'
  BY TryHangupType DEF ReplaceHangup
<1>2. (\A e \in Calls : Counted(e))'
  BY DEF ReplaceHangup, TryHangup
<1>3. (\A e \in Calls : Tabled(e))'
  BY DEF ReplaceHangup, TryHangup
<1>4. (\A e \in Calls : Doomed(e))'
  BY DEF ReplaceHangup, TryHangup
<1>5. (\A e \in Calls : Watched(e))'
  BY DEF ReplaceHangup, TryHangup
<1>6. (\A e \in Calls : Replaced(e))'
  BY DEF ReplaceHangup, TryHangup
<1>7. (\A e \in Calls : Visiting(e))'
  BY DEF ReplaceHangup, TryHangup
<1>8. (\A e \in Calls : Registered(e))'
  BY DEF ReplaceHangup, TryHangup
<1>9. Stopping'
  BY DEF ReplaceHangup, TryHangup
<1> QED
  BY <1>1, <1>2, <1>3, <1>4, <1>5, <1>6, <1>7, <1>8, <1>9 DEF IInv

LEMMA ReplaceCleanupInv == ASSUME IInv, NEW c \in Calls, ReplaceCleanup(c) PROVE IInv'
<1>1. TypeOK'
  BY WantCleanupType DEF ReplaceCleanup
<1>2. (\A e \in Calls : Counted(e))'
  BY DEF ReplaceCleanup, WantCleanup
<1>3. (\A e \in Calls : Tabled(e))'
  BY DEF ReplaceCleanup, WantCleanup
<1>4. (\A e \in Calls : Doomed(e))'
  BY DEF ReplaceCleanup, WantCleanup
<1>5. (\A e \in Calls : Watched(e))'
  BY DEF ReplaceCleanup, WantCleanup
<1>6. (\A e \in Calls : Replaced(e))'
  BY DEF ReplaceCleanup, WantCleanup
<1>7. (\A e \in Calls : Visiting(e))'
  BY DEF ReplaceCleanup, WantCleanup
<1>8. (\A e \in Calls : Registered(e))'
  BY DEF ReplaceCleanup, WantCleanup
<1>9. Stopping'
  BY DEF ReplaceCleanup, WantCleanup
<1> QED
  BY <1>1, <1>2, <1>3, <1>4, <1>5, <1>6, <1>7, <1>8, <1>9 DEF IInv

LEMMA ReplaceJoinInv ==
  ASSUME IInv, NEW c \in Calls, ReplaceJoin(c) PROVE IInv'
  BY DEF ReplaceJoin

LEMMA ReplaceDoneInv ==
  ASSUME IInv, NEW c \in Calls, ReplaceDone(c) PROVE IInv'
  BY DEF ReplaceDone

LEMMA DialInv == ASSUME IInv, NEW c \in Calls, Dial(c) PROVE IInv'
<1>1. CASE /\ phone' = [phone EXCEPT ![c] = "alive"]
           /\ starter' = [starter EXCEPT ![c] = "registering"]
  <2>1. TypeOK' /\ Stopping'
    BY <1>1 DEF Dial
  <2>2. \A e \in Calls : /\ Counted(e)' /\ Tabled(e)' /\ Doomed(e)' /\ Watched(e)'
                        /\ Replaced(e)' /\ Visiting(e)' /\ Registered(e)'
    BY <1>1 DEF Dial
  <2> QED
    BY <2>1, <2>2 DEF IInv
<1>2. CASE starter' = [starter EXCEPT ![c] = "done"] /\ UNCHANGED phone
  <2>1. TypeOK' /\ Stopping'
    BY <1>2 DEF Dial
  <2>2. \A e \in Calls : /\ Counted(e)' /\ Tabled(e)' /\ Doomed(e)' /\ Watched(e)'
                        /\ Replaced(e)' /\ Visiting(e)' /\ Registered(e)'
    BY <1>2 DEF Dial
  <2> QED
    BY <2>1, <2>2 DEF IInv
<1> QED
  BY <1>1, <1>2 DEF Dial

LEMMA ResolvePeerInv == ASSUME IInv, NEW c \in Calls, ResolvePeer(c) PROVE IInv'
<1>1. CASE /\ ready' = [ready EXCEPT ![c] = TRUE]
           /\ realtime' = [realtime EXCEPT ![c] = "starting"]
  <2>1. TypeOK' /\ Stopping'
    BY <1>1 DEF ResolvePeer
  <2>2. \A e \in Calls : /\ Counted(e)' /\ Tabled(e)' /\ Doomed(e)' /\ Watched(e)'
                        /\ Replaced(e)' /\ Visiting(e)' /\ Registered(e)'
    BY <1>1 DEF ResolvePeer
  <2> QED
    BY <2>1, <2>2 DEF IInv
<1>2. CASE realtime' = [realtime EXCEPT ![c] = "failing"] /\ UNCHANGED ready
  <2>1. TypeOK' /\ Stopping'
    BY <1>2 DEF ResolvePeer
  <2>2. \A e \in Calls : /\ Counted(e)' /\ Tabled(e)' /\ Doomed(e)' /\ Watched(e)'
                        /\ Replaced(e)' /\ Visiting(e)' /\ Registered(e)'
    BY <1>2 DEF ResolvePeer
  <2> QED
    BY <2>1, <2>2 DEF IInv
<1> QED
  BY <1>1, <1>2 DEF ResolvePeer

(* The realtime session.                                                   *)

LEMMA StartSessionInv ==
  ASSUME IInv, NEW c \in Calls, StartSession(c) PROVE IInv'
  BY DEF StartSession

LEMMA AssignSessionInv ==
  ASSUME IInv, NEW c \in Calls, AssignSession(c) PROVE IInv'
  BY DEF AssignSession, Return

LEMMA RealtimeErrorInv ==
  ASSUME IInv, NEW c \in Calls, RealtimeError(c) PROVE IInv'
  BY DEF RealtimeError

LEMMA FailCleanupInv == ASSUME IInv, NEW c \in Calls, FailCleanup(c) PROVE IInv'
<1>1. TypeOK'
  BY WantCleanupType DEF FailCleanup
<1>2. (\A e \in Calls : Counted(e))'
  BY DEF FailCleanup, WantCleanup
<1>3. (\A e \in Calls : Tabled(e))'
  BY DEF FailCleanup, WantCleanup
<1>4. (\A e \in Calls : Doomed(e))'
  BY DEF FailCleanup, WantCleanup
<1>5. (\A e \in Calls : Watched(e))'
  BY DEF FailCleanup, WantCleanup
<1>6. (\A e \in Calls : Replaced(e))'
  BY DEF FailCleanup, WantCleanup
<1>7. (\A e \in Calls : Visiting(e))'
  BY DEF FailCleanup, WantCleanup
<1>8. (\A e \in Calls : Registered(e))'
  BY DEF FailCleanup, WantCleanup
<1>9. Stopping'
  BY DEF FailCleanup, WantCleanup
<1> QED
  BY <1>1, <1>2, <1>3, <1>4, <1>5, <1>6, <1>7, <1>8, <1>9 DEF IInv

LEMMA FailHangupInv == ASSUME IInv, NEW c \in Calls, FailHangup(c) PROVE IInv'
<1>1. TypeOK'
  BY TryHangupType DEF FailHangup, Return
<1>2. (\A e \in Calls : Counted(e))'
  BY DEF FailHangup, TryHangup, Return
<1>3. (\A e \in Calls : Tabled(e))'
  BY DEF FailHangup, TryHangup, Return
<1>4. (\A e \in Calls : Doomed(e))'
  BY DEF FailHangup, TryHangup, Return
<1>5. (\A e \in Calls : Watched(e))'
  BY DEF FailHangup, TryHangup, Return
<1>6. (\A e \in Calls : Replaced(e))'
  BY DEF FailHangup, TryHangup, Return
<1>7. (\A e \in Calls : Visiting(e))'
  BY DEF FailHangup, TryHangup, Return
<1>8. (\A e \in Calls : Registered(e))'
  BY DEF FailHangup, TryHangup, Return
<1>9. Stopping'
  BY DEF FailHangup, TryHangup, Return
<1> QED
  BY <1>1, <1>2, <1>3, <1>4, <1>5, <1>6, <1>7, <1>8, <1>9 DEF IInv

LEMMA EventLoopExitInv ==
  ASSUME IInv, NEW c \in Calls, EventLoopExit(c) PROVE IInv'
  BY DEF EventLoopExit

(* Cleanup.                                                                *)

LEMMA CleanupEmitInv ==
  ASSUME IInv, NEW c \in Calls, CleanupEmit(c) PROVE IInv'
  BY DEF CleanupEmit

LEMMA CleanupReleaseInv ==
  ASSUME IInv, NEW c \in Calls, CleanupRelease(c) PROVE IInv'
  BY DEF CleanupRelease

LEMMA CleanupDeleteInv ==
  ASSUME IInv, NEW c \in Calls, CleanupDelete(c) PROVE IInv'
  BY DEF CleanupDelete

(* The ends of a call.                                                     *)

LEMMA RemoteEndInv ==
  ASSUME IInv, NEW c \in Calls, RemoteEnd(c) PROVE IInv'
  BY DEF RemoteEnd

LEMMA OnEndInv ==
  ASSUME IInv, NEW c \in Calls, OnEnd(c) PROVE IInv'
  BY DEF OnEnd, WantCleanup

LEMMA HangupCallInv ==
  ASSUME IInv, NEW c \in Calls, HangupCall(c) PROVE IInv'
  BY DEF HangupCall

LEMMA HangupAttemptInv == ASSUME IInv, NEW c \in Calls, HangupAttempt(c) PROVE IInv'
<1>1. CASE /\ phone' = [phone EXCEPT ![c] = "over"]
           /\ rpc' = [rpc EXCEPT ![c] = "hungUp"]
  <2>1. TypeOK' /\ Stopping'
    BY <1>1 DEF HangupAttempt
  <2>2. \A e \in Calls : /\ Counted(e)' /\ Tabled(e)' /\ Doomed(e)' /\ Watched(e)'
                        /\ Replaced(e)' /\ Visiting(e)' /\ Registered(e)'
    BY <1>1 DEF HangupAttempt
  <2> QED
    BY <2>1, <2>2 DEF IInv
<1>2. CASE rpc' = [rpc EXCEPT ![c] = "none"] /\ UNCHANGED phone
  <2>1. TypeOK' /\ Stopping'
    BY <1>2 DEF HangupAttempt
  <2>2. \A e \in Calls : /\ Counted(e)' /\ Tabled(e)' /\ Doomed(e)' /\ Watched(e)'
                        /\ Replaced(e)' /\ Visiting(e)' /\ Registered(e)'
    BY <1>2 DEF HangupAttempt
  <2> QED
    BY <2>1, <2>2 DEF IInv
<1> QED
  BY <1>1, <1>2 DEF HangupAttempt

LEMMA HangupCleanupInv == ASSUME IInv, NEW c \in Calls, HangupCleanup(c) PROVE IInv'
<1>1. TypeOK'
  BY WantCleanupType DEF HangupCleanup
<1>2. (\A e \in Calls : Counted(e))'
  BY DEF HangupCleanup, WantCleanup
<1>3. (\A e \in Calls : Tabled(e))'
  BY DEF HangupCleanup, WantCleanup
<1>4. (\A e \in Calls : Doomed(e))'
  BY DEF HangupCleanup, WantCleanup
<1>5. (\A e \in Calls : Watched(e))'
  BY DEF HangupCleanup, WantCleanup
<1>6. (\A e \in Calls : Replaced(e))'
  BY DEF HangupCleanup, WantCleanup
<1>7. (\A e \in Calls : Visiting(e))'
  BY DEF HangupCleanup, WantCleanup
<1>8. (\A e \in Calls : Registered(e))'
  BY DEF HangupCleanup, WantCleanup
<1>9. Stopping'
  BY DEF HangupCleanup, WantCleanup
<1> QED
  BY <1>1, <1>2, <1>3, <1>4, <1>5, <1>6, <1>7, <1>8, <1>9 DEF IInv

LEMMA SetupTimerInv ==
  ASSUME IInv, NEW c \in Calls, SetupTimer(c) PROVE IInv'
  BY DEF SetupTimer

LEMMA IdleTickInv ==
  ASSUME IInv, NEW c \in Calls, IdleTick(c) PROVE IInv'
  BY DEF IdleTick

LEMMA TimeoutLookupInv ==
  ASSUME IInv, NEW c \in Calls, TimeoutLookup(c) PROVE IInv'
  BY DEF TimeoutLookup

LEMMA TimeoutHangupInv == ASSUME IInv, NEW c \in Calls, TimeoutHangup(c) PROVE IInv'
<1>1. TypeOK'
  BY TryHangupType DEF TimeoutHangup
<1>2. (\A e \in Calls : Counted(e))'
  BY DEF TimeoutHangup, TryHangup
<1>3. (\A e \in Calls : Tabled(e))'
  BY DEF TimeoutHangup, TryHangup
<1>4. (\A e \in Calls : Doomed(e))'
  BY DEF TimeoutHangup, TryHangup
<1>5. (\A e \in Calls : Watched(e))'
  BY DEF TimeoutHangup, TryHangup
<1>6. (\A e \in Calls : Replaced(e))'
  BY DEF TimeoutHangup, TryHangup
<1>7. (\A e \in Calls : Visiting(e))'
  BY DEF TimeoutHangup, TryHangup
<1>8. (\A e \in Calls : Registered(e))'
  BY DEF TimeoutHangup, TryHangup
<1>9. Stopping'
  BY DEF TimeoutHangup, TryHangup
<1> QED
  BY <1>1, <1>2, <1>3, <1>4, <1>5, <1>6, <1>7, <1>8, <1>9 DEF IInv

LEMMA TimeoutCleanupInv == ASSUME IInv, NEW c \in Calls, TimeoutCleanup(c) PROVE IInv'
<1>1. TypeOK'
  BY WantCleanupType DEF TimeoutCleanup
<1>2. (\A e \in Calls : Counted(e))'
  BY DEF TimeoutCleanup, WantCleanup
<1>3. (\A e \in Calls : Tabled(e))'
  BY DEF TimeoutCleanup, WantCleanup
<1>4. (\A e \in Calls : Doomed(e))'
  BY DEF TimeoutCleanup, WantCleanup
<1>5. (\A e \in Calls : Watched(e))'
  BY DEF TimeoutCleanup, WantCleanup
<1>6. (\A e \in Calls : Replaced(e))'
  BY DEF TimeoutCleanup, WantCleanup
<1>7. (\A e \in Calls : Visiting(e))'
  BY DEF TimeoutCleanup, WantCleanup
<1>8. (\A e \in Calls : Registered(e))'
  BY DEF TimeoutCleanup, WantCleanup
<1>9. Stopping'
  BY DEF TimeoutCleanup, WantCleanup
<1> QED
  BY <1>1, <1>2, <1>3, <1>4, <1>5, <1>6, <1>7, <1>8, <1>9 DEF IInv

LEMMA WatchdogExitInv ==
  ASSUME IInv, NEW c \in Calls, WatchdogExit(c) PROVE IInv'
  BY DEF WatchdogExit

(* Stopping the bot.                                                       *)

LEMMA BeginStopInv == ASSUME IInv, BeginStop PROVE IInv'
  BY StopKindAssumption DEF BeginStop, FirstStop

LEMMA StopFlagInv == ASSUME IInv, StopFlag PROVE IInv'
  BY StopKindAssumption DEF StopFlag, AfterFlag

LEMMA StopCallsInv == ASSUME IInv, StopCalls PROVE IInv'
  BY StopKindAssumption DEF StopCalls

LEMMA StopCallInv == ASSUME IInv, NEW c \in Calls, StopCall(c) PROVE IInv'
  BY DEF StopCall, WantCleanup

LEMMA StopCallsDoneInv == ASSUME IInv, StopCallsDone PROVE IInv'
  BY StopKindAssumption DEF StopCallsDone, AfterCalls

LEMMA StopCancelInv == ASSUME IInv, StopCancel PROVE IInv'
  BY StopKindAssumption DEF StopCancel, AfterCancel

LEMMA StopDisconnectInv == ASSUME IInv, StopDisconnect PROVE IInv'
<1>1. TypeOK' /\ Stopping'
  BY StopKindAssumption DEF StopDisconnect, AfterDisconnect
<1>2. \A c \in Calls : /\ Counted(c)' /\ Tabled(c)' /\ Doomed(c)' /\ Watched(c)'
                      /\ Replaced(c)' /\ Visiting(c)' /\ Registered(c)'
  BY DEF StopDisconnect
<1>3. QED  BY <1>1, <1>2 DEF IInv

-----------------------------------------------------------------------------
(* The theorems.                                                           *)

LEMMA InitInv == Init => IInv
<1> SUFFICES ASSUME Init PROVE IInv
  OBVIOUS
<1>1. TypeOK
  <2>1. endings \in [Calls -> Nat]
    BY DEF Init
  <2>2. stopped \in BOOLEAN /\ cancelled \in BOOLEAN /\ connected \in BOOLEAN
    BY DEF Init
  <2>3. /\ ready \in [Calls -> BOOLEAN] /\ respSet \in [Calls -> BOOLEAN]
        /\ abandoned \in [Calls -> BOOLEAN]
    BY DEF Init
  <2>4. QED  BY <2>1, <2>2, <2>3 DEF Init
<1>2. \A c \in Calls : Counted(c) /\ Tabled(c) /\ Doomed(c) /\ Watched(c)
  BY DEF Init
<1>3. \A c \in Calls : Replaced(c) /\ Visiting(c) /\ Registered(c)
  BY DEF Init
<1>4. Stopping
  BY DEF Init
<1>5. QED  BY <1>1, <1>2, <1>3, <1>4 DEF IInv

LEMMA NextInv == IInv /\ [Next]_vars => IInv'
<1> SUFFICES ASSUME IInv, [Next]_vars PROVE IInv'
  OBVIOUS
<1>1. CASE BeginStop
  BY <1>1, BeginStopInv
<1>2. CASE StopBot
  BY <1>2, StopFlagInv, StopCallsInv, StopCallsDoneInv, StopCancelInv,
     StopDisconnectInv, StopCallInv DEF StopBot
<1>3. ASSUME NEW c \in Calls, Incoming(c) PROVE IInv'
  BY <1>3, RejectIncomingInv, AnswerInv DEF Incoming
<1>4. ASSUME NEW c \in Calls, Outgoing(c) PROVE IInv'
  BY <1>4, ReplaceVisitInv, ReplaceHangupInv, ReplaceCleanupInv, ReplaceJoinInv,
     ReplaceDoneInv, DialInv, ResolvePeerInv DEF Outgoing
<1>5. ASSUME NEW c \in Calls, Register(c) PROVE IInv'
  BY <1>5, RegisterInv
<1>6. ASSUME NEW c \in Calls, Realtime(c) PROVE IInv'
  BY <1>6, StartSessionInv, AssignSessionInv, FailCleanupInv, FailHangupInv,
     EventLoopExitInv DEF Realtime
<1>7. ASSUME NEW c \in Calls, Cleanup(c) PROVE IInv'
  BY <1>7, CleanupEmitInv, CleanupReleaseInv, CleanupDeleteInv DEF Cleanup
<1>8. ASSUME NEW c \in Calls, Watchdog(c) PROVE IInv'
  BY <1>8, SetupTimerInv, IdleTickInv, TimeoutLookupInv, TimeoutHangupInv,
     TimeoutCleanupInv, WatchdogExitInv DEF Watchdog, EndTimedOut
<1>h. ASSUME NEW c \in Calls, Hangup(c) PROVE IInv'
  BY <1>h, HangupAttemptInv, HangupCleanupInv DEF Hangup
<1>9. ASSUME NEW c \in Calls, Environment(c) PROVE IInv'
  BY <1>9, IncomingCallInv, MediaReadyInv, BeginOutgoingInv, RealtimeErrorInv,
     RemoteEndInv, OnEndInv, HangupCallInv DEF Environment
<1>10. CASE UNCHANGED vars
  BY <1>10
<1>11. QED
  BY <1>1, <1>2, <1>3, <1>4, <1>5, <1>6, <1>7, <1>8, <1>h, <1>9, <1>10 DEF Next

LEMMA Invariance == Spec => []IInv
  BY InitInv, NextInv, PTL DEF Spec

\* Every reachable state is one the declarations of the variables describe.
THEOREM TypeCorrect == Spec => []TypeOK
<1>1. IInv => TypeOK
  OBVIOUS
<1>2. QED  BY Invariance, <1>1, PTL

\* A call is reported as ended once, before its streams are closed, however many
\* calls there are and however many threads clean one up (calls.go, cleanup).
THEOREM EndsOnce == Spec => []EndedOnce
<1>1. IInv => EndedOnce
  BY DEF EndedOnce
<1>2. QED  BY Invariance, <1>1, PTL

\* No call is dropped from the table and left alive by accident (calls.go,
\* endTimedOut, failRealtime, InitiateOutgoing).
THEOREM DropsHungUp == Spec => []DroppedCallsHungUp
<1>1. IInv => DroppedCallsHungUp
  BY DEF DroppedCallsHungUp
<1>2. QED  BY Invariance, <1>1, PTL

\* Every call without media is under the setup timer (calls.go, watchTimeout).
THEOREM WatchesUnready == Spec => []UnreadyCallsWatched
<1>1. IInv => UnreadyCallsWatched
  BY DEF UnreadyCallsWatched
<1>2. QED  BY Invariance, <1>1, PTL

\* When an outgoing call is offered, those it replaces have ended (calls.go,
\* InitiateOutgoing).
THEOREM ReplacesEnded == Spec => []ReplacedCallsEnded
<1>1. IInv => ReplacedCallsEnded
  BY DEF ReplacedCallsEnded
<1>2. QED  BY Invariance, <1>1, PTL

\* A stop ends the calls it finds and leaves no realtime session open
\* (calls.go, Stop; user_bots.go; bot_lifecycle.go).
THEOREM StopsCalls == Spec => []StopEndsCalls
<1>1. IInv => StopEndsCalls
  BY DEF StopEndsCalls
<1>2. QED  BY Invariance, <1>1, PTL
-----------------------------------------------------------------------------
(* CallManager implements CallLife.                                        *)

\* A call is in the table as long as its life is neither before it nor after it.
LEMMA ListedIsActive ==
  ASSUME IInv PROVE Life!Listed = active
<1>1. ASSUME NEW c \in Calls
      PROVE  CallLives[c] \notin {"none", "left"} <=> c \in active
  BY DEF CallLives, LifeOf
<1> QED
  BY <1>1 DEF Life!Listed

\* What the lives and the sweeps are, call by call.
LEMMA CallLivesAre ==
  ASSUME NEW c \in Calls
  PROVE  /\ CallLives[c] = LifeOf(c \in active, once[c])
         /\ CallLives'[c] = LifeOf(c \in active', once'[c])
BY DEF CallLives

LEMMA CallLivesChange ==
  ASSUME NEW c \in Calls,
         \A e \in Calls \ {c} : (e \in active' <=> e \in active) /\ once'[e] = once[e]
  PROVE  CallLives' = [CallLives EXCEPT ![c] = LifeOf(c \in active', once'[c])]
<1>1. \A e \in Calls \ {c} : CallLives'[e] = CallLives[e]
  BY CallLivesAre
<1>2. CallLives'[c] = LifeOf(c \in active', once'[c])
  BY CallLivesAre
<1> HIDE DEF LifeOf
<1> QED
  BY <1>1, <1>2 DEF CallLives

LEMMA CallLivesStay ==
  ASSUME \A e \in Calls : (e \in active' <=> e \in active) /\ once'[e] = once[e]
  PROVE  CallLives' = CallLives
BY DEF CallLives

LEMMA CallSweepsChange ==
  ASSUME NEW c \in Calls, \A e \in Calls \ {c} : starter'[e] = starter[e]
  PROVE  CallSweeps' = [CallSweeps EXCEPT ![c] = SweepOf(Direction[c], starter'[c])]
BY DEF CallSweeps

LEMMA CallSweepsStay ==
  ASSUME NEW c \in Calls, \A e \in Calls \ {c} : starter'[e] = starter[e],
         SweepOf(Direction[c], starter'[c]) = SweepOf(Direction[c], starter[c])
  PROVE  CallSweeps' = CallSweeps
BY DEF CallSweeps

\* The sweeps that a step leaves alone.
SweepsStay == CallSweeps' = CallSweeps /\ replace' = replace
StopStays == StopSweep' = StopSweep /\ stopSet' = stopSet

LEMMA SweepsStayThen ==
  ASSUME UNCHANGED <<starter, replace>> PROVE SweepsStay
BY DEF SweepsStay, CallSweeps

LEMMA StopStaysThen ==
  ASSUME UNCHANGED <<stopPc, stopSet>> PROVE StopStays
BY DEF StopStays, StopSweep

\* A step that touches neither the table nor session.once.
LEMMA LifeStutters ==
  ASSUME UNCHANGED <<active, once, endings>>, SweepsStay, StopStays
  PROVE  UNCHANGED Life!vars
<1>1. CallLives' = CallLives
  BY CallLivesStay
<1> QED
  BY <1>1 DEF SweepsStay, StopStays, Life!vars, Life!callVars, Life!sweepVars,
              Life!stopVars

\* A call of cleanup gives the call up, or comes too late to.
LEMMA LifeGivenUp ==
  ASSUME IInv, NEW c \in Calls, WantCleanup(c), UNCHANGED <<active, endings>>,
         SweepsStay, StopStays
  PROVE  [Life!Next]_Life!vars
<1>1. CASE c \in active /\ once[c] = "idle"
  <2>1. once'[c] = "wanted" /\ \A e \in Calls \ {c} : once'[e] = once[e]
    BY <1>1 DEF WantCleanup
  <2>2. CallLives' = [CallLives EXCEPT ![c] = "ending"] /\ CallLives[c] = "listed"
    BY <1>1, <2>1, CallLivesChange, CallLivesAre DEF LifeOf
  <2>3. Life!GiveUp(c)
    BY <2>2 DEF Life!GiveUp, SweepsStay, StopStays, Life!sweepVars, Life!stopVars
  <2> QED
    BY <2>3 DEF Life!Next
<1>2. CASE ~(c \in active /\ once[c] = "idle")
  <2>1. UNCHANGED once
    BY <1>2 DEF WantCleanup
  <2> QED
    BY <2>1, LifeStutters
<1> QED
  BY <1>1, <1>2

LEMMA LifeEntered ==
  ASSUME IInv, NEW c \in Calls, Register(c) PROVE Life!Enter(c)
<1>1. /\ once[c] = "idle" /\ c \notin active /\ c \in active'
      /\ once'[c] = "idle"
      /\ \A e \in Calls \ {c} : (e \in active' <=> e \in active) /\ once'[e] = once[e]
  BY DEF Register
<1>2. /\ CallLives[c] = "none"
      /\ CallLives' = [CallLives EXCEPT ![c] = "listed"]
  BY <1>1, CallLivesChange, CallLivesAre DEF LifeOf
<1>3. CallSweeps' = CallSweeps /\ StopStays
  <2>1. /\ starter'[c] \in {"answering", "resolving"}
        /\ Direction[c] = "outgoing" => starter[c] = "registering"
        /\ \A e \in Calls \ {c} : starter'[e] = starter[e]
    BY DirectionAssumption DEF Register, IInv
  <2>2. SweepOf(Direction[c], starter'[c]) = SweepOf(Direction[c], starter[c])
    BY <2>1, DirectionAssumption DEF SweepOf
  <2> QED
    BY <2>1, <2>2, CallSweepsStay, StopStaysThen DEF Register
<1>4. Direction[c] = "outgoing" => CallSweeps[c] = "past"
  BY DEF CallSweeps, SweepOf, Register
<1> QED
  BY <1>2, <1>3, <1>4 DEF Life!Enter, Register, StopStays, Life!sweepVars,
                          Life!stopVars

LEMMA LifeToldClosedLeft ==
  ASSUME IInv, NEW c \in Calls, Cleanup(c)
  PROVE  Life!Tell(c) \/ Life!Close(c) \/ Life!Leave(c)
<1>s. SweepsStay /\ StopStays
  BY SweepsStayThen, StopStaysThen
     DEF Cleanup, CleanupEmit, CleanupRelease, CleanupDelete
<1>1. CASE CleanupEmit(c)
  <2>1. /\ once[c] = "wanted" /\ once'[c] = "ended" /\ active' = active
        /\ \A e \in Calls \ {c} : once'[e] = once[e]
        /\ endings' = [endings EXCEPT ![c] = endings[c] + 1]
    BY <1>1 DEF CleanupEmit
  <2>2. CallLives[c] = "ending" /\ CallLives' = [CallLives EXCEPT ![c] = "told"]
    BY <2>1, CallLivesChange, CallLivesAre DEF LifeOf
  <2> QED
    BY <1>s, <2>1, <2>2 DEF Life!Tell, SweepsStay, StopStays, Life!sweepVars,
                            Life!stopVars
<1>2. CASE CleanupRelease(c)
  <2>1. /\ once[c] = "ended" /\ once'[c] = "released" /\ active' = active
        /\ \A e \in Calls \ {c} : once'[e] = once[e]
        /\ endings' = endings
    BY <1>2 DEF CleanupRelease
  <2>2. CallLives[c] = "told" /\ CallLives' = [CallLives EXCEPT ![c] = "closed"]
    BY <2>1, CallLivesChange, CallLivesAre DEF LifeOf
  <2> QED
    BY <1>s, <2>1, <2>2 DEF Life!Close, SweepsStay, StopStays, Life!sweepVars,
                            Life!stopVars
<1>3. CASE CleanupDelete(c)
  <2>1. /\ once[c] = "released" /\ once'[c] = "done" /\ c \notin active'
        /\ \A e \in Calls \ {c} : (e \in active' <=> e \in active) /\ once'[e] = once[e]
        /\ endings' = endings
    BY <1>3 DEF CleanupDelete
  <2>2. CallLives[c] = "closed" /\ CallLives' = [CallLives EXCEPT ![c] = "left"]
    BY <2>1, CallLivesChange, CallLivesAre DEF LifeOf
  <2> QED
    BY <1>s, <2>1, <2>2 DEF Life!Leave, SweepsStay, StopStays, Life!sweepVars,
                            Life!stopVars
<1> QED
  BY <1>1, <1>2, <1>3 DEF Cleanup

LEMMA LifeSwept ==
  ASSUME IInv, NEW c \in Calls
  PROVE  /\ BeginOutgoing(c) => Life!BeginSweep(c)
         /\ ReplaceDone(c) => Life!PassSweep(c)
<1>1. ASSUME BeginOutgoing(c) PROVE Life!BeginSweep(c)
  <2>1. /\ starter[c] = "none" /\ Direction[c] = "outgoing" /\ StopStays
        /\ starter'[c] = "replacing" /\ \A e \in Calls \ {c} : starter'[e] = starter[e]
    BY <1>1, StopStaysThen DEF BeginOutgoing
  <2>2. /\ CallSweeps[c] = "before"
        /\ CallSweeps' = [CallSweeps EXCEPT ![c] = "sweeping"]
    BY <2>1, CallSweepsChange DEF SweepOf, CallSweeps
  <2>3. replace' = [replace EXCEPT ![c] = Life!Listed]
    BY <1>1, ListedIsActive DEF BeginOutgoing
  <2>4. CallLives' = CallLives /\ endings' = endings
    BY <1>1, CallLivesStay DEF BeginOutgoing
  <2> QED
    BY <2>1, <2>2, <2>3, <2>4 DEF Life!BeginSweep, StopStays, Life!callVars,
                                  Life!stopVars
<1>2. ASSUME ReplaceDone(c) PROVE Life!PassSweep(c)
  <2>1. /\ starter[c] = "replacing" /\ StopStays
        /\ starter'[c] = "dialing" /\ \A e \in Calls \ {c} : starter'[e] = starter[e]
    BY <1>2, StopStaysThen DEF ReplaceDone
  <2>o. Direction[c] = "outgoing"
    BY <2>1, DirectionAssumption
  <2>2. /\ CallSweeps[c] = "sweeping"
        /\ CallSweeps' = [CallSweeps EXCEPT ![c] = "past"]
    BY <2>1, <2>o, CallSweepsChange DEF SweepOf, CallSweeps
  <2>3. \A d \in replace[c] : CallLives[d] = "left"
    BY <1>2, CallLivesAre DEF ReplaceDone, LifeOf
  <2>4. CallLives' = CallLives /\ endings' = endings /\ replace' = replace
    BY <1>2, CallLivesStay DEF ReplaceDone
  <2> QED
    BY <2>1, <2>2, <2>3, <2>4 DEF Life!PassSweep, StopStays, Life!callVars,
                                  Life!stopVars
<1> QED
  BY <1>1, <1>2

LEMMA LifeStops ==
  ASSUME IInv
  PROVE  /\ StopCalls => Life!BeginStop
         /\ StopCallsDone => Life!PassStop
         /\ BeginStop \/ StopFlag \/ StopCancel \/ StopDisconnect
               => UNCHANGED Life!vars
<1>1. ASSUME StopCalls PROVE Life!BeginStop
  <2>1. StopSweep = "before" /\ StopSweep' = "sweeping" /\ stopSet' = Life!Listed
    BY <1>1, ListedIsActive DEF StopCalls, StopSweep
  <2>2. CallLives' = CallLives /\ endings' = endings /\ SweepsStay
    BY <1>1, CallLivesStay, SweepsStayThen DEF StopCalls
  <2> QED
    BY <2>1, <2>2 DEF Life!BeginStop, SweepsStay, Life!callVars, Life!sweepVars
<1>2. ASSUME StopCallsDone PROVE Life!PassStop
  <2>1. StopSweep = "sweeping" /\ StopSweep' = "past" /\ stopSet' = stopSet
    BY <1>2, StopKindAssumption DEF StopCallsDone, StopSweep, AfterCalls
  <2>2. CallLives' = CallLives /\ endings' = endings /\ SweepsStay
    BY <1>2, CallLivesStay, SweepsStayThen DEF StopCallsDone
  <2>3. \A d \in stopSet : CallLives[d] = "left"
    BY <1>2, CallLivesAre DEF StopCallsDone, LifeOf
  <2> QED
    BY <2>1, <2>2, <2>3 DEF Life!PassStop, SweepsStay, Life!callVars, Life!sweepVars
<1>3. ASSUME BeginStop \/ StopFlag \/ StopCancel \/ StopDisconnect
      PROVE  UNCHANGED Life!vars
  <2>1. StopStays
    BY <1>3, StopKindAssumption
       DEF StopStays, BeginStop, StopFlag, StopCancel, StopDisconnect, StopSweep,
           FirstStop, AfterFlag, AfterCancel, AfterDisconnect
  <2>2. UNCHANGED <<active, once, endings, starter, replace>>
    BY <1>3 DEF BeginStop, StopFlag, StopCancel, StopDisconnect
  <2> QED
    BY <2>1, <2>2, SweepsStayThen, LifeStutters
<1> QED
  BY <1>1, <1>2, <1>3

\* The other steps give a call up, or do nothing that matters here.
LEMMA LifeQuiet ==
  ASSUME IInv, NEW c \in Calls,
         \/ Incoming(c) \/ Dial(c) \/ ResolvePeer(c)
         \/ (\E d \in Calls : ReplaceVisit(c, d)) \/ ReplaceHangup(c)
         \/ ReplaceCleanup(c) \/ ReplaceJoin(c)
         \/ Realtime(c) \/ Watchdog(c) \/ Hangup(c) \/ StopCall(c)
         \/ IncomingCall(c) \/ MediaReady(c) \/ RealtimeError(c)
         \/ RemoteEnd(c) \/ OnEnd(c) \/ HangupCall(c)
  PROVE  [Life!Next]_Life!vars
<1>g. ASSUME NEW d \in Calls, UNCHANGED once \/ WantCleanup(d),
             UNCHANGED <<active, endings>>, SweepsStay, StopStays
      PROVE  [Life!Next]_Life!vars
  BY <1>g, LifeStutters, LifeGivenUp
<1>1. CASE Incoming(c)
  <2>1. starter[c] \in {"deciding", "answering"} /\ starter'[c] = "done"
        /\ \A e \in Calls \ {c} : starter'[e] = starter[e]
    BY <1>1 DEF Incoming, RejectIncoming, Answer
  <2>2. Direction[c] = "incoming"
    BY <2>1
  <2>3. SweepsStay /\ StopStays
    BY <1>1, <2>1, <2>2, CallSweepsStay, StopStaysThen
       DEF SweepsStay, SweepOf, Incoming, RejectIncoming, Answer
  <2> QED
    BY <1>1, <1>g, <2>3 DEF Incoming, RejectIncoming, Answer
<1>2. CASE IncomingCall(c)
  <2>1. SweepsStay /\ StopStays
    BY <1>2, CallSweepsStay, StopStaysThen DEF SweepsStay, SweepOf, IncomingCall
  <2> QED
    BY <1>2, <1>g, <2>1 DEF IncomingCall
<1>3. CASE Dial(c) \/ ResolvePeer(c)
  <2>1. /\ starter[c] \notin {"none"} \cup ReplacingPcs
        /\ starter'[c] \notin {"none"} \cup ReplacingPcs
        /\ \A e \in Calls \ {c} : starter'[e] = starter[e]
    BY <1>3 DEF Dial, ResolvePeer
  <2>2. SweepsStay /\ StopStays
    BY <1>3, <2>1, CallSweepsStay, StopStaysThen DEF SweepsStay, SweepOf, Dial, ResolvePeer
  <2> QED
    BY <1>3, <1>g, <2>2 DEF Dial, ResolvePeer
<1>4. CASE \/ (\E d \in Calls : ReplaceVisit(c, d)) \/ ReplaceHangup(c)
           \/ ReplaceCleanup(c) \/ ReplaceJoin(c)
  <2>1. /\ starter[c] \in ReplacingPcs /\ starter'[c] \in ReplacingPcs
        /\ \A e \in Calls \ {c} : starter'[e] = starter[e]
        /\ visited[c] \in Calls
    BY <1>4 DEF ReplaceVisit, ReplaceHangup, ReplaceCleanup, ReplaceJoin
  <2>2. SweepsStay /\ StopStays
    BY <1>4, <2>1, CallSweepsStay, StopStaysThen
       DEF SweepsStay, SweepOf, ReplaceVisit, ReplaceHangup, ReplaceCleanup, ReplaceJoin
  <2> QED
    BY <1>4, <1>g, <2>1, <2>2
       DEF ReplaceVisit, ReplaceHangup, ReplaceCleanup, ReplaceJoin
<1>5. CASE AssignSession(c) \/ FailHangup(c)
  <2>1. /\ \/ starter'[c] = starter[c]
           \/ starter[c] = "inside" /\ starter'[c] = "done"
        /\ \A e \in Calls \ {c} : starter'[e] = starter[e]
    BY <1>5 DEF AssignSession, FailHangup, Return
  <2>2. SweepsStay /\ StopStays
    BY <1>5, <2>1, CallSweepsStay, StopStaysThen
       DEF SweepsStay, SweepOf, AssignSession, FailHangup
  <2> QED
    BY <1>5, <1>g, <2>2 DEF AssignSession, FailHangup
<1>6. CASE StartSession(c) \/ FailCleanup(c) \/ EventLoopExit(c) \/ RealtimeError(c)
  BY <1>6, <1>g, SweepsStayThen, StopStaysThen
     DEF StartSession, FailCleanup, EventLoopExit, RealtimeError
<1>7. CASE Watchdog(c)
  BY <1>7, <1>g, SweepsStayThen, StopStaysThen
     DEF Watchdog, SetupTimer, IdleTick, EndTimedOut, TimeoutLookup, TimeoutHangup,
         TimeoutCleanup, WatchdogExit
<1>8. CASE StopCall(c) \/ RemoteEnd(c) \/ OnEnd(c) \/ HangupCall(c) \/ Hangup(c)
  BY <1>8, <1>g, SweepsStayThen, StopStaysThen
     DEF StopCall, RemoteEnd, OnEnd, HangupCall, Hangup, HangupAttempt, HangupCleanup
<1>9. CASE MediaReady(c)
  BY <1>9, <1>g, SweepsStayThen, StopStaysThen DEF MediaReady
<1> QED
  BY <1>1, <1>2, <1>3, <1>4, <1>5, <1>6, <1>7, <1>8, <1>9 DEF Realtime

LEMMA LifeInit == Init => Life!Init
<1> SUFFICES ASSUME Init PROVE Life!Init
  OBVIOUS
<1>1. CallLives = [c \in Calls |-> "none"]
  BY DEF Init, CallLives, LifeOf
<1>2. CallSweeps = [c \in Calls |-> "before"]
  BY DEF Init, CallSweeps, SweepOf
<1>3. StopSweep = "before"
  BY DEF Init, StopSweep
<1> QED
  BY <1>1, <1>2, <1>3 DEF Init, Life!Init

LEMMA LifeStep == IInv /\ [Next]_vars => [Life!Next]_Life!vars
<1> SUFFICES ASSUME IInv, [Next]_vars PROVE [Life!Next]_Life!vars
  OBVIOUS
<1>1. CASE BeginStop \/ StopBot
  BY <1>1, LifeStops, LifeQuiet DEF StopBot, Life!Next
<1>2. ASSUME NEW c \in Calls, Incoming(c) \/ Outgoing(c)
      PROVE  [Life!Next]_Life!vars
  BY <1>2, LifeSwept, LifeQuiet DEF Outgoing, Life!Next
<1>3. ASSUME NEW c \in Calls, Register(c) \/ Cleanup(c)
      PROVE  [Life!Next]_Life!vars
  BY <1>3, LifeEntered, LifeToldClosedLeft DEF Life!Next
<1>4. ASSUME NEW c \in Calls,
             Realtime(c) \/ Watchdog(c) \/ Hangup(c) \/ Environment(c)
      PROVE  [Life!Next]_Life!vars
  BY <1>4, LifeSwept, LifeQuiet DEF Environment, Life!Next
<1>5. CASE UNCHANGED vars
  BY <1>5, LifeStutters, SweepsStayThen, StopStaysThen
<1> QED
  BY <1>1, <1>2, <1>3, <1>4, <1>5 DEF Next

\* For every number and direction of calls and every way to stop the bot, the threads
\* take a call through its life in one order, once, and a sweep passes only when the
\* calls it found have left (calls.go; CallLife).
THEOREM ImplementsLife == Spec => LifeSpec
<1>1. Spec => Life!Init /\ [][Life!Next]_Life!vars
  BY LifeInit, LifeStep, Invariance, PTL DEF Spec
<1> QED
  BY <1>1 DEF LifeSpec, Life!Spec
=============================================================================
