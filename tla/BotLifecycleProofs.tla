------------------------ MODULE BotLifecycleProofs ------------------------
(***************************************************************************)
(* Proofs about BotLifecycle, for any number of bots and requests, however *)
(* many of them overlap; and then for requests that do not.                *)
(*                                                                         *)
(* StoppedIsFinished needs to know two things that it does not say: that   *)
(* a request which is about to end a bot has one, and that a bot which is  *)
(* created has not been touched before, so that what is known of the bots  *)
(* that exist stays true when another joins them.                          *)
(***************************************************************************)
EXTENDS BotLifecycle, FiniteSetTheorems, TLAPS

-----------------------------------------------------------------------------
(* The inductive invariant.                                                *)

\* A bot that has not been created does nothing.
Untouched(b) ==
    b \notin made => /\ ~stopped[b]
                     /\ client[b] = "off"
                     /\ connect[b] = "none"
                     /\ reauth[b] = "idle"

IInv ==
    /\ TypeOK
    /\ \A b \in Bots : Untouched(b)
    /\ StoppedIsFinished

-----------------------------------------------------------------------------
(* The actions preserve it, one lemma for each.                            *)

USE NoBotAssumption
    DEF IInv, TypeOK, Untouched, StoppedIsFinished, Ending, HoldsBot, Ops, Pcs,
        ClientStates, ConnectPcs, ReauthPcs, vars, storeVars, botVars, requestVars

\* What a Connected event leaves to the handler that saves the session.
LEMMA SavingType ==
  ASSUME saving \in [Bots -> BOOLEAN], rebuilt \in [Bots -> BOOLEAN], NEW b \in Bots,
         saving' = saving \/ saving' = [saving EXCEPT ![b] = ~rebuilt[b]]
  PROVE  saving' \in [Bots -> BOOLEAN]
<1>1. CASE rebuilt[b] = TRUE
  <2>1. saving' = saving \/ saving' = [saving EXCEPT ![b] = FALSE]
    BY <1>1, Zenon
  <2>2. QED  BY <2>1
<1>2. CASE rebuilt[b] = FALSE
  <2>1. saving' = saving \/ saving' = [saving EXCEPT ![b] = TRUE]
    BY <1>2, Zenon
  <2>2. QED  BY <2>1
<1>3. QED  BY <1>1, <1>2

(* Requests.                                                               *)

LEMMA ArriveInv == ASSUME IInv, NEW r \in Requests, Arrive(r) PROVE IInv'
  BY DEF Arrive, Goto

LEMMA StartCheckInv ==
  ASSUME IInv, NEW r \in Requests, StartCheck(r) PROVE IInv'
  BY DEF StartCheck, Goto, Return, AfterStop

LEMMA StartReadInv ==
  ASSUME IInv, NEW r \in Requests, StartRead(r) PROVE IInv'
  BY DEF StartRead, Goto, Return, AfterStop

LEMMA RestartReadInv ==
  ASSUME IInv, NEW r \in Requests, RestartRead(r) PROVE IInv'
  BY DEF RestartRead, Goto, Return, AfterStop

LEMMA RestartExistsInv ==
  ASSUME IInv, NEW r \in Requests, RestartExists(r) PROVE IInv'
  BY DEF RestartExists, Goto, Return, AfterStop

LEMMA CancelExistingInv ==
  ASSUME IInv, NEW r \in Requests, CancelExisting(r) PROVE IInv'
<1>1. TypeOK'
  <2>1. cancelled' \in [Bots -> BOOLEAN]
    BY DEF CancelExisting, Goto, Return
  <2>2. /\ pc' \in [Requests -> Pcs]
        /\ result' \in [Requests -> {"none", "ok", "error"}]
        /\ (\A q \in Requests : pc[q] \in HoldsBot => mine[q] \in made)'
    BY DEF CancelExisting, Goto, Return
  <2>3. QED  BY <2>1, <2>2 DEF CancelExisting
<1>2. (\A a \in Bots : Untouched(a))'
  BY DEF CancelExisting, Goto, Return
<1>3. StoppedIsFinished'
  BY DEF CancelExisting, Goto, Return
<1>4. QED  BY <1>1, <1>2, <1>3 DEF IInv

LEMMA CreateBotInv ==
  ASSUME IInv, NEW r \in Requests, CreateBot(r) PROVE IInv'
  BY DEF CreateBot, Goto, Return, AfterStop

LEMMA StoreBotInv ==
  ASSUME IInv, NEW r \in Requests, StoreBot(r) PROVE IInv'
  BY DEF StoreBot, Goto, Return, AfterStop

LEMMA StopLoadInv ==
  ASSUME IInv, NEW r \in Requests, StopLoad(r) PROVE IInv'
  BY DEF StopLoad, Goto, Return, AfterStop

LEMMA StopFlagInv ==
  ASSUME IInv, NEW r \in Requests, StopFlag(r) PROVE IInv'
  BY DEF StopFlag, Goto, Return, AfterStop

LEMMA StopEndInv ==
  ASSUME IInv, NEW r \in Requests, StopEnd(r) PROVE IInv'
  BY DEF StopEnd, Goto, Return, AfterStop

LEMMA StopDeleteInv ==
  ASSUME IInv, NEW r \in Requests, StopDelete(r) PROVE IInv'
  BY DEF StopDelete, Goto, Return, AfterStop

LEMMA AuthEnsureInv ==
  ASSUME IInv, NEW r \in Requests, AuthEnsure(r) PROVE IInv'
  BY DEF AuthEnsure, Goto, Return, AfterStop

LEMMA AuthBuildInv ==
  ASSUME IInv, NEW r \in Requests, AuthBuild(r) PROVE IInv'
  BY DEF AuthBuild, Goto, Return, AfterStop

LEMMA AuthPrepareInv ==
  ASSUME IInv, NEW r \in Requests, AuthPrepare(r) PROVE IInv'
<1>1. /\ pc[r] = "prepare"
      /\ pc' = [pc EXCEPT ![r] = "dial"]
      /\ mine[r] \in made
  BY DEF AuthPrepare, Goto
<1>2. CASE UNCHANGED <<linked, rebuilt, client>>
  BY <1>1, <1>2 DEF AuthPrepare
<1>3. CASE /\ linked' = [linked EXCEPT ![mine[r]] = FALSE]
           /\ rebuilt' = [rebuilt EXCEPT ![mine[r]] = TRUE]
           /\ client' = [client EXCEPT ![mine[r]] = "off"]
  BY <1>1, <1>3 DEF AuthPrepare
<1>4. QED  BY <1>2, <1>3, Zenon DEF AuthPrepare

LEMMA AuthDialInv ==
  ASSUME IInv, NEW r \in Requests, AuthDial(r) PROVE IInv'
  BY DEF AuthDial, Goto, Return, AfterStop

LEMMA AuthScanInv ==
  ASSUME IInv, NEW r \in Requests, AuthScan(r) PROVE IInv'
<1>1. TypeOK'
  <2>1. client' \in [Bots -> ClientStates]
    BY DEF AuthScan, Goto, Return
  <2>2. linked' \in [Bots -> BOOLEAN]
    <3>1. mine[r] \in Bots
      BY DEF AuthScan
    <3>2. linked' = linked \/ linked' = [linked EXCEPT ![mine[r]] = TRUE]
      BY Zenon DEF AuthScan
    <3>3. linked \in [Bots -> BOOLEAN]
      OBVIOUS
    <3>4. QED  BY ONLY <3>1, <3>2, <3>3
  <2>3. saving' \in [Bots -> BOOLEAN]
    <3>1. mine[r] \in Bots
      BY DEF AuthScan
    <3>2. saving' = saving \/ saving' = [saving EXCEPT ![mine[r]] = ~rebuilt[mine[r]]]
      BY Zenon DEF AuthScan
    <3>3. QED  BY <3>1, <3>2, SavingType, Zenon
  <2>4. /\ pc' \in [Requests -> Pcs]
        /\ result' \in [Requests -> {"none", "ok", "error"}]
        /\ (\A q \in Requests : pc[q] \in HoldsBot => mine[q] \in made)'
    BY DEF AuthScan, Goto, Return
  <2>5. QED  BY <2>1, <2>2, <2>3, <2>4 DEF AuthScan
<1>2. (\A a \in Bots : Untouched(a))'
  BY DEF AuthScan, Goto, Return
<1>3. StoppedIsFinished'
  BY DEF AuthScan, Goto, Return
<1>4. QED  BY <1>1, <1>2, <1>3 DEF IInv

LEMMA AuthSaveInv ==
  ASSUME IInv, NEW r \in Requests, AuthSave(r) PROVE IInv'
<1>1. TypeOK'
  <2>1. enabled' \in BOOLEAN
    BY Zenon DEF AuthSave
  <2>2. client' \in [Bots -> ClientStates]
    BY DEF AuthSave, Goto, Return
  <2>3. /\ pc' \in [Requests -> Pcs]
        /\ result' \in [Requests -> {"none", "ok", "error"}]
        /\ (\A q \in Requests : pc[q] \in HoldsBot => mine[q] \in made)'
    <3>1. (Goto(r, "drop") /\ UNCHANGED result) \/ Return(r, "error")
      BY Zenon DEF AuthSave
    <3>2. UNCHANGED <<made, mine>>
      BY Zenon DEF AuthSave
    <3>3. QED  BY <3>1, <3>2 DEF Goto, Return
  <2>4. QED  BY <2>1, <2>2, <2>3 DEF AuthSave
<1>2. (\A a \in Bots : Untouched(a))'
  BY DEF AuthSave, Goto, Return
<1>3. StoppedIsFinished'
  <2>1. \A q \in Requests : pc[q] = "end" => pc'[q] = "end"
    BY DEF AuthSave, Goto, Return
  <2>2. UNCHANGED <<stopped, cancelled, connect, reauth, mine>>
    BY DEF AuthSave
  <2>3. QED  BY <2>1, <2>2
<1>4. QED  BY <1>1, <1>2, <1>3 DEF IInv

LEMMA AuthDropInv ==
  ASSUME IInv, NEW r \in Requests, AuthDrop(r) PROVE IInv'
  BY DEF AuthDrop, Goto, Return, AfterStop

(* Bots.                                                                   *)

LEMMA ConnectBotInv == ASSUME IInv, NEW b \in Bots, ConnectBot(b) PROVE IInv'
<1>1. TypeOK'
  <2>1. client' \in [Bots -> ClientStates] /\ connect' \in [Bots -> ConnectPcs]
    BY DEF ConnectBot
  <2>2. saving' \in [Bots -> BOOLEAN]
    <3>1. saving' = saving \/ saving' = [saving EXCEPT ![b] = ~rebuilt[b]]
      BY Zenon DEF ConnectBot
    <3>2. QED  BY <3>1, SavingType, Zenon
  <2>3. QED  BY <2>1, <2>2 DEF ConnectBot
<1>2. (\A a \in Bots : Untouched(a))'
  BY DEF ConnectBot
<1>3. StoppedIsFinished'
  BY DEF ConnectBot
<1>4. QED  BY <1>1, <1>2, <1>3 DEF IInv

LEMMA ConnectDisableInv == ASSUME IInv, NEW b \in Bots, ConnectDisable(b) PROVE IInv'
  BY DEF ConnectDisable

LEMMA ConnectMarkInv == ASSUME IInv, NEW b \in Bots, ConnectMark(b) PROVE IInv'
  BY DEF ConnectMark

LEMMA SaveConnectedInv == ASSUME IInv, NEW b \in Bots, SaveConnected(b) PROVE IInv'
  BY DEF SaveConnected

LEMMA ReauthDisableInv == ASSUME IInv, NEW b \in Bots, ReauthDisable(b) PROVE IInv'
  BY DEF ReauthDisable

LEMMA ReauthDisconnectInv == ASSUME IInv, NEW b \in Bots, ReauthDisconnect(b) PROVE IInv'
  BY DEF ReauthDisconnect

LEMMA ReauthFlagInv == ASSUME IInv, NEW b \in Bots, ReauthFlag(b) PROVE IInv'
  BY DEF ReauthFlag

LEMMA ReauthCancelInv == ASSUME IInv, NEW b \in Bots, ReauthCancel(b) PROVE IInv'
<1>1. linked' \in [Bots -> BOOLEAN]
  BY DEF ReauthCancel
<1>2. TypeOK'
  BY <1>1 DEF ReauthCancel
<1>3. (\A a \in Bots : Untouched(a))'
  BY DEF ReauthCancel
<1>4. StoppedIsFinished'
  BY DEF ReauthCancel
<1>5. QED  BY <1>2, <1>3, <1>4 DEF IInv

LEMMA ConnectionLostInv == ASSUME IInv, NEW b \in Bots, ConnectionLost(b) PROVE IInv'
  BY DEF ConnectionLost, TriggerReauth

LEMMA ConnectionRestoredInv == ASSUME IInv, NEW b \in Bots, ConnectionRestored(b) PROVE IInv'
  BY DEF ConnectionRestored

LEMMA LoggedOutInv == ASSUME IInv, NEW b \in Bots, LoggedOut(b) PROVE IInv'
  BY DEF LoggedOut, TriggerReauth

LEMMA BadMessageInv == ASSUME IInv, NEW b \in Bots, BadMessage(b) PROVE IInv'
  BY DEF BadMessage, TriggerReauth

-----------------------------------------------------------------------------
(* The theorems.                                                           *)

LEMMA InitInv == Init => IInv
<1>1. Init => TypeOK
  <2>1. Init => enabled \in BOOLEAN /\ overlapped \in BOOLEAN
    BY Zenon DEF Init
  <2>2. Init => /\ stopped \in [Bots -> BOOLEAN] /\ cancelled \in [Bots -> BOOLEAN]
                /\ linked \in [Bots -> BOOLEAN] /\ rebuilt \in [Bots -> BOOLEAN]
                /\ saving \in [Bots -> BOOLEAN]
    BY DEF Init
  <2>3. Init => /\ table \in made \cup {NoBot} /\ made \subseteq Bots
                /\ client \in [Bots -> ClientStates]
                /\ connect \in [Bots -> ConnectPcs]
                /\ reauth \in [Bots -> ReauthPcs]
    BY DEF Init
  <2>4. Init => /\ op \in [Requests -> Ops] /\ pc \in [Requests -> Pcs]
                /\ mine \in [Requests -> made \cup {NoBot}]
                /\ result \in [Requests -> {"none", "ok", "error"}]
                /\ \A r \in Requests : pc[r] \in HoldsBot => mine[r] \in made
    BY DEF Init
  <2>5. QED  BY <2>1, <2>2, <2>3, <2>4
<1>2. Init => \A a \in Bots : Untouched(a)
  BY DEF Init
<1>3. Init => StoppedIsFinished
  BY DEF Init
<1>4. QED  BY <1>1, <1>2, <1>3 DEF IInv

LEMMA RequestInv == ASSUME IInv, NEW r \in Requests, Request(r) PROVE IInv'
  BY StartCheckInv, StartReadInv, RestartReadInv, RestartExistsInv,
     CancelExistingInv, CreateBotInv, StoreBotInv, StopLoadInv, StopFlagInv,
     StopEndInv, StopDeleteInv, AuthEnsureInv, AuthBuildInv, AuthPrepareInv,
     AuthDialInv, AuthScanInv, AuthSaveInv, AuthDropInv DEF Request

LEMMA NextInv == IInv /\ [Next]_vars => IInv'
<1> SUFFICES ASSUME IInv, [Next]_vars PROVE IInv'
  OBVIOUS
<1>1. CASE UNCHANGED vars
  BY <1>1
<1>2. ASSUME NEW r \in Requests, Arrive(r) PROVE IInv'
  BY <1>2, ArriveInv
<1>3. ASSUME NEW r \in Requests, Request(r) PROVE IInv'
  BY <1>3, RequestInv
<1>4. ASSUME NEW b \in Bots, Connecting(b) PROVE IInv'
  BY <1>4, ConnectBotInv, ConnectDisableInv, ConnectMarkInv DEF Connecting
<1>5. ASSUME NEW b \in Bots, SaveConnected(b) PROVE IInv'
  BY <1>5, SaveConnectedInv
<1>6. ASSUME NEW b \in Bots, Reauth(b) PROVE IInv'
  BY <1>6, ReauthDisableInv, ReauthDisconnectInv, ReauthFlagInv, ReauthCancelInv
     DEF Reauth
<1>7. ASSUME NEW b \in Bots, WhatsApp(b) PROVE IInv'
  BY <1>7, ConnectionLostInv, ConnectionRestoredInv, LoggedOutInv, BadMessageInv
     DEF WhatsApp
<1>8. QED  BY <1>1, <1>2, <1>3, <1>4, <1>5, <1>6, <1>7 DEF Next

LEMMA Invariance == Spec => []IInv
  BY InitInv, NextInv, PTL DEF Spec

\* Every reachable state is one the declarations describe, and no request works
\* on a bot it does not have.
THEOREM TypeCorrect == Spec => []TypeOK
<1>1. IInv => TypeOK
  OBVIOUS
<1>2. QED  BY Invariance, <1>1, PTL

\* Whoever marks a bot as stopped finishes the job, whatever else goes on: a stop
\* that returns early because of the mark may rely on it (user_bots.go,
\* stopUserBot; bot_lifecycle.go, resetSession).
THEOREM StopsFinish == Spec => []StoppedIsFinished
<1>1. IInv => StoppedIsFinished
  OBVIOUS
<1>2. QED  BY Invariance, <1>1, PTL
-----------------------------------------------------------------------------
(* Requests that come one at a time.                                       *)

HIDE DEF IInv, TypeOK, Untouched, StoppedIsFinished, Ending, HoldsBot

\* b answers messages, or may come to do so without any request.
May(b) == ~stopped[b] /\ (client[b] # "off" \/ connect[b] = "dial")

\* b has not been connected for the first time.
New(b) == connect[b] \in {"dial", "disable", "mark"}

Alone == \A q, r \in Requests : Running(q) /\ Running(r) => q = r

\* A bot makes its first connection after the request that has created it, and no
\* other request begins before.
Settled ==
    \A r \in Requests, b \in Bots :
        Running(r) /\ New(b) => pc[r] = "store" /\ mine[r] = b

\* A bot that answers is in the table, or about to be stored.
Stored ==
    \A b \in Bots : May(b) =>
        table = b \/ \E r \in Requests : pc[r] = "store" /\ mine[r] = b

\* r is about to create a bot, or to have one created.
Clear(r) ==
    \/ pc[r] \in {"create", "cancel", "build", "drop"}
    \/ pc[r] = "check" /\ op[r] = "auth"
    \/ pc[r] = "read" /\ op[r] \in {"start", "auth"}

\* Then no bot answers, and none but the new one when that is stored.
NoneElse ==
    /\ \A r \in Requests : Clear(r) => \A b \in Bots : ~May(b)
    /\ \A r \in Requests, b \in Bots : pc[r] = "store" /\ May(b) => mine[r] = b
    /\ (\A r \in Requests : pc[r] = "new") => \A b \in Bots : ~May(b)

\* A request that stops or authorizes a bot holds the one in the table.
HoldsEntry(where) ==
    where \in {"flag", "end", "delete", "prepare", "dial", "scan", "save"}

Held ==
    \A r \in Requests :
        /\ HoldsEntry(pc[r]) => table = mine[r]
        /\ pc[r] \in {"end", "delete"} => stopped[mine[r]]

Serial == Alone /\ Settled /\ Stored /\ NoneElse /\ Held

SInv == ~overlapped => Serial

LEMMA SInvInit == Init => SInv
<1> SUFFICES ASSUME Init PROVE Serial
  BY DEF SInv
<1> USE DEF Init
<1>1. Alone /\ Settled
  BY DEF Alone, Settled, Running
<1>2. Stored /\ NoneElse
  BY DEF Stored, NoneElse, May, Clear
<1>3. Held
  BY DEF Held, HoldsEntry
<1> QED
  BY <1>1, <1>2, <1>3 DEF Serial

LEMMA HistoryGrows == ASSUME [Next]_vars PROVE overlapped => overlapped'
<1>1. CASE UNCHANGED vars
  BY <1>1
<1>2. ASSUME NEW r \in Requests, Arrive(r) PROVE overlapped => overlapped'
  BY <1>2 DEF Arrive
<1>3. ASSUME NEW r \in Requests, Request(r) PROVE UNCHANGED overlapped
  BY <1>3 DEF Request, StartCheck, StartRead, RestartRead, RestartExists,
     CancelExisting, CreateBot, StoreBot, StopLoad, StopFlag, StopEnd, StopDelete,
     AuthEnsure, AuthBuild, AuthPrepare, AuthDial, AuthScan, AuthSave, AuthDrop
<1>4. ASSUME NEW b \in Bots,
             Connecting(b) \/ SaveConnected(b) \/ Reauth(b) \/ WhatsApp(b)
      PROVE  UNCHANGED overlapped
  BY <1>4 DEF Connecting, ConnectBot, ConnectDisable, ConnectMark, SaveConnected,
     Reauth, ReauthDisable, ReauthDisconnect, ReauthFlag, ReauthCancel, WhatsApp,
     ConnectionLost, ConnectionRestored, LoggedOut, BadMessage
<1> QED
  BY <1>1, <1>2, <1>3, <1>4 DEF Next

\* The types that the following steps need.
LEMMA Types ==
  ASSUME TypeOK
  PROVE  /\ table \in Bots \cup {NoBot} /\ made \subseteq Bots
         /\ stopped \in [Bots -> BOOLEAN] /\ client \in [Bots -> ClientStates]
         /\ connect \in [Bots -> ConnectPcs] /\ reauth \in [Bots -> ReauthPcs]
         /\ op \in [Requests -> Ops] /\ pc \in [Requests -> Pcs]
         /\ mine \in [Requests -> Bots \cup {NoBot}]
         /\ \A r \in Requests : HoldsEntry(pc[r]) \/ pc[r] = "store" => mine[r] \in Bots
  BY DEF TypeOK, HoldsBot, HoldsEntry

(* Bots.                                                                   *)

\* What bots do by themselves brings no further bot into service.
LEMMA BotStep ==
  ASSUME Serial, UNCHANGED <<table, pc, mine, op>>,
         \A b \in Bots : May(b)' => May(b),
         \A b \in Bots : New(b)' => New(b),
         TypeOK, \A b \in Bots : stopped[b] => stopped'[b]
  PROVE  Serial'
<1>1. Alone' /\ Settled'
  BY DEF Serial, Alone, Settled, Running
<1>2. Stored'
  BY DEF Serial, Stored
<1>3. NoneElse'
  BY DEF Serial, NoneElse, Clear
<1>4. Held'
  BY Types DEF Serial, Held, HoldsEntry
<1> QED
  BY <1>1, <1>2, <1>3, <1>4 DEF Serial

LEMMA BotsSerial ==
  ASSUME TypeOK, Serial, NEW b \in Bots,
         Connecting(b) \/ SaveConnected(b) \/ Reauth(b) \/ WhatsApp(b)
  PROVE  Serial'
<1> USE Types DEF May, New
<1>1. CASE ConnectBot(b)
  <2>1. \A a \in Bots : May(a)' => May(a)
    BY <1>1 DEF ConnectBot
  <2>2. \A a \in Bots : New(a)' => New(a)
    BY <1>1 DEF ConnectBot
  <2> QED
    BY <1>1, <2>1, <2>2, BotStep DEF ConnectBot
<1>2. CASE ConnectDisable(b) \/ ConnectMark(b)
  <2>1. /\ New(b)
        /\ \E where \in {"mark", "failed"} : connect' = [connect EXCEPT ![b] = where]
    BY <1>2 DEF ConnectDisable, ConnectMark
  <2>2. stopped' = stopped \/ stopped' = [stopped EXCEPT ![b] = TRUE]
    BY <1>2, Zenon DEF ConnectDisable, ConnectMark
  <2>3. \A a \in Bots : stopped[a] => stopped'[a]
    BY <2>2
  <2>4. UNCHANGED <<table, pc, mine, op, client>>
    BY <1>2 DEF ConnectDisable, ConnectMark
  <2>5. \A a \in Bots : (May(a)' => May(a)) /\ (New(a)' => New(a))
    BY <2>1, <2>3, <2>4
  <2> QED
    BY <2>3, <2>4, <2>5, BotStep
<1>3. CASE SaveConnected(b)
  BY <1>3, BotStep DEF SaveConnected
<1>4. CASE ReauthDisable(b) \/ ReauthDisconnect(b)
  <2>1. client' = client \/ client' = [client EXCEPT ![b] = "off"]
    BY <1>4, Zenon DEF ReauthDisable, ReauthDisconnect
  <2>2. stopped' = stopped /\ connect' = connect
    BY <1>4 DEF ReauthDisable, ReauthDisconnect
  <2>3. \A a \in Bots : (May(a)' => May(a)) /\ (New(a)' => New(a))
    BY <2>1, <2>2
  <2> QED
    BY <1>4, <2>2, <2>3, BotStep DEF ReauthDisable, ReauthDisconnect
<1>5. CASE ReauthFlag(b) \/ ReauthCancel(b)
  <2>1. \A a \in Bots : stopped[a] => stopped'[a]
    BY <1>5 DEF ReauthFlag, ReauthCancel
  <2>2. \A a \in Bots : (May(a)' => May(a)) /\ (New(a)' => New(a))
    BY <1>5, <2>1 DEF ReauthFlag, ReauthCancel
  <2> QED
    BY <1>5, <2>1, <2>2, BotStep DEF ReauthFlag, ReauthCancel
<1>6. CASE ConnectionLost(b) \/ ConnectionRestored(b)
  <2>1. \A a \in Bots : (May(a)' => May(a)) /\ (New(a)' => New(a))
    BY <1>6 DEF ConnectionLost, ConnectionRestored
  <2> QED
    BY <1>6, <2>1, BotStep DEF ConnectionLost, ConnectionRestored
<1>7. CASE LoggedOut(b) \/ BadMessage(b)
  <2>1. \A a \in Bots : (May(a)' => May(a)) /\ (New(a)' => New(a))
    BY <1>7 DEF LoggedOut, BadMessage
  <2> QED
    BY <1>7, <2>1, BotStep DEF LoggedOut, BadMessage
<1> QED
  BY <1>1, <1>2, <1>3, <1>4, <1>5, <1>6, <1>7 DEF Connecting, Reauth, WhatsApp

(* Requests.                                                               *)

\* While a request runs that stores no bot, the table says which bot may answer.
LEMMA OnlyEntry ==
  ASSUME Serial, NEW r \in Requests, Running(r), pc[r] # "store"
  PROVE  /\ \A b \in Bots : May(b) => table = b
         /\ \A b \in Bots : ~New(b)
         /\ \A q \in Requests \ {r} : ~Running(q)
  BY DEF Serial, Alone, Settled, Stored, Running

\* A step of the only request that keeps to this.
LEMMA RequestStep ==
  ASSUME TypeOK, Serial, NEW r \in Requests, Running(r), pc[r] # "store",
         NEW where \in Pcs \ {"new", "store"}, pc' = [pc EXCEPT ![r] = where],
         UNCHANGED connect,
         \A b \in Bots : May(b)' => table' = b,
         Clear(r)' => \A b \in Bots : ~May(b)',
         HoldsEntry(where) => table' = mine'[r],
         where \in {"end", "delete"} => stopped'[mine'[r]]
  PROVE  Serial'
<1>1. /\ \A q \in Requests \ {r} : ~Running(q) /\ pc'[q] = pc[q]
      /\ pc'[r] = where
  BY OnlyEntry, Types
<1>2. Alone' /\ Settled'
  BY <1>1, OnlyEntry DEF Alone, Settled, Running, New
<1>3. Stored'
  BY <1>1 DEF Stored
<1>4. NoneElse'
  BY <1>1 DEF NoneElse, Clear, Running
<1>5. Held'
  BY <1>1 DEF Held, HoldsEntry, Running
<1> QED
  BY <1>2, <1>3, <1>4, <1>5 DEF Serial

\* ... and that leaves the table and the bots alone.
LEMMA QuietStep ==
  ASSUME TypeOK, Serial, NEW r \in Requests, Running(r), pc[r] # "store",
         UNCHANGED <<table, stopped, client, connect>>,
         NEW where \in Pcs \ {"new", "store", "end", "delete"},
         pc' = [pc EXCEPT ![r] = where],
         Clear(r)' => table = NoBot \/ Clear(r) \/ (table = mine'[r] /\ stopped[table]),
         HoldsEntry(where) => table = mine'[r]
  PROVE  Serial'
<1>1. \A b \in Bots : May(b)' = May(b)
  BY DEF May
<1>2. \A b \in Bots : May(b)' => table' = b
  BY <1>1, OnlyEntry
<1>3. Clear(r)' => \A b \in Bots : ~May(b)'
  BY <1>1, OnlyEntry DEF Serial, NoneElse, May
<1> QED
  BY <1>2, <1>3, RequestStep

LEMMA ArriveSerial ==
  ASSUME TypeOK, Serial, NEW r \in Requests, Arrive(r), ~overlapped'
  PROVE  Serial'
<1>1. /\ \A q \in Requests : ~Running(q)
      /\ \A b \in Bots : ~New(b)
      /\ pc[r] = "new"
      /\ UNCHANGED <<table, stopped, client, connect, mine>>
  BY DEF Arrive, Busy, New
<1>2. PICK where \in {"check", "load", "read", "ensure", "cancel"} :
         pc' = [pc EXCEPT ![r] = where]
  BY DEF Arrive, Goto
<1>3. /\ where = "check" => op'[r] = "start"
      /\ where = "read" => op'[r] = "restart"
      /\ where = "cancel" => \A q \in Requests : pc[q] = "new"
  BY <1>2, Types DEF Arrive, Goto
<1>4. /\ \A q \in Requests \ {r} : ~Running(q)' /\ pc'[q] = pc[q]
      /\ pc'[r] = where
  BY <1>1, <1>2, Types DEF Running
<1>5. \A b \in Bots : (May(b)' => May(b)) /\ (May(b) => table = b)
  BY <1>1 DEF May, Serial, Stored, Running
<1>6. Alone' /\ Settled'
  BY <1>1, <1>4 DEF Alone, Settled, Running, New
<1>7. Stored'
  BY <1>1, <1>5 DEF Stored
<1>8. NoneElse'
  <2>1. \A q \in Requests : Clear(q)' => \A b \in Bots : ~May(b)
    BY <1>3, <1>4 DEF Clear, Running, Serial, NoneElse
  <2> QED
    BY <1>4, <1>5, <2>1 DEF NoneElse, Running
<1>9. Held'
  BY <1>4 DEF Held, HoldsEntry, Running
<1> QED
  BY <1>6, <1>7, <1>8, <1>9 DEF Serial

LEMMA StartSerial ==
  ASSUME TypeOK, Serial, NEW r \in Requests,
         StartCheck(r) \/ StartRead(r) \/ RestartRead(r) \/ RestartExists(r)
  PROVE  Serial'
<1>1. /\ Running(r) /\ pc[r] # "store"
      /\ UNCHANGED <<table, stopped, client, connect>>
  BY DEF StartCheck, StartRead, RestartRead, RestartExists, Running
<1>2. CASE StartCheck(r)
  BY <1>1, <1>2, QuietStep, Types DEF StartCheck, Goto, Return, Clear, HoldsEntry
<1>3. CASE StartRead(r)
  BY <1>1, <1>3, QuietStep, Types DEF StartRead, Goto, Return, Clear, HoldsEntry
<1>4. CASE RestartRead(r)
  BY <1>1, <1>4, QuietStep, Types DEF RestartRead, Goto, Return, Clear, HoldsEntry
<1>5. CASE RestartExists(r)
  BY <1>1, <1>5, QuietStep, Types DEF RestartExists, Goto, Return, Clear, HoldsEntry
<1> QED
  BY <1>2, <1>3, <1>4, <1>5

LEMMA CancelSerial ==
  ASSUME TypeOK, Serial, NEW r \in Requests, CancelExisting(r)
  PROVE  Serial'
<1>1. /\ Running(r) /\ pc[r] = "cancel" /\ Clear(r)
      /\ UNCHANGED <<table, stopped, client, connect>>
  BY DEF CancelExisting, Running, Clear
<1>2. \E where \in {"create", "done"} : pc' = [pc EXCEPT ![r] = where]
  BY DEF CancelExisting, Goto, Return
<1> QED
  BY <1>1, <1>2, QuietStep DEF HoldsEntry

LEMMA CreateSerial ==
  ASSUME IInv, Serial, NEW r \in Requests, CreateBot(r)
  PROVE  Serial'
<1> USE Types DEF IInv
<1>1. PICK b \in Bots \ made : /\ connect' = [connect EXCEPT ![b] = "dial"]
                               /\ mine' = [mine EXCEPT ![r] = b]
  BY DEF CreateBot
<1>2. /\ Running(r) /\ pc[r] = "create" /\ Clear(r)
      /\ pc' = [pc EXCEPT ![r] = "store"]
      /\ UNCHANGED <<table, stopped, client, op>>
  BY DEF CreateBot, Goto, Running, Clear
<1>3. \A a \in Bots : ~May(a) /\ ~New(a)
  BY <1>2, OnlyEntry DEF Serial, NoneElse
<1>4. /\ \A q \in Requests \ {r} : ~Running(q) /\ pc'[q] = pc[q]
      /\ pc'[r] = "store" /\ mine'[r] = b
  BY <1>1, <1>2, OnlyEntry
<1>5. \A a \in Bots : May(a)' \/ New(a)' => a = b
  BY <1>1, <1>2, <1>3 DEF May, New
<1>6. Alone' /\ Settled'
  BY <1>4, <1>5 DEF Alone, Settled, Running
<1>7. Stored' /\ NoneElse'
  BY <1>4, <1>5 DEF Stored, NoneElse, Clear, Running
<1>8. Held'
  BY <1>4 DEF Held, HoldsEntry, Running
<1> QED
  BY <1>6, <1>7, <1>8 DEF Serial

LEMMA StoreSerial ==
  ASSUME TypeOK, Serial, NEW r \in Requests, StoreBot(r)
  PROVE  Serial'
<1>1. /\ Running(r) /\ pc[r] = "store" /\ table' = mine[r]
      /\ pc' = [pc EXCEPT ![r] = "done"]
      /\ UNCHANGED <<stopped, client, connect, mine, op>>
  BY DEF StoreBot, Return, Running
<1>2. /\ \A q \in Requests \ {r} : ~Running(q) /\ pc'[q] = pc[q]
      /\ pc'[r] = "done"
  BY <1>1, Types DEF Serial, Alone
<1>3. \A b \in Bots : May(b)' => mine[r] = b
  BY <1>1 DEF Serial, NoneElse, May
<1>4. Alone' /\ Settled' /\ NoneElse' /\ Held'
  BY <1>2 DEF Alone, Settled, NoneElse, Held, Running, Clear, HoldsEntry
<1>5. Stored'
  BY <1>1, <1>3 DEF Stored
<1> QED
  BY <1>4, <1>5 DEF Serial

LEMMA StopSerial ==
  ASSUME TypeOK, Serial, NEW r \in Requests,
         StopLoad(r) \/ StopFlag(r) \/ StopEnd(r) \/ StopDelete(r)
  PROVE  Serial'
<1> USE Types
<1>1. Running(r) /\ pc[r] # "store" /\ UNCHANGED <<connect, op>>
  BY DEF StopLoad, StopFlag, StopEnd, StopDelete, Running
<1>2. CASE StopLoad(r)
  <2>1. UNCHANGED <<table, stopped, client>>
    BY <1>2 DEF StopLoad
  <2>2. CASE table = NoBot
    BY <1>1, <1>2, <2>1, <2>2, QuietStep
       DEF StopLoad, Return, HoldsEntry
  <2>3. CASE table # NoBot /\ stopped[table]
    <3>1. /\ \E where \in {"done", "cancel"} : pc' = [pc EXCEPT ![r] = where]
          /\ table = mine'[r]
      BY <1>2, <2>3 DEF StopLoad, AfterStop, Return, Goto
    <3> QED
      BY <1>1, <2>1, <2>3, <3>1, QuietStep DEF HoldsEntry
  <2>4. CASE table # NoBot /\ ~stopped[table]
    <3>1. pc' = [pc EXCEPT ![r] = "flag"] /\ table = mine'[r]
      BY <1>2, <2>4 DEF StopLoad, Goto
    <3> QED
      BY <1>1, <2>1, <3>1, QuietStep DEF Clear
  <2> QED
    BY <2>2, <2>3, <2>4
<1>3. CASE StopFlag(r)
  <2>1. /\ pc' = [pc EXCEPT ![r] = "end"] /\ table = mine[r] /\ mine[r] \in Bots
        /\ stopped' = [stopped EXCEPT ![mine[r]] = TRUE]
        /\ UNCHANGED <<table, client, mine>>
    BY <1>3 DEF StopFlag, Goto, Serial, Held, HoldsEntry
  <2>2. \A b \in Bots : May(b)' => table' = b
    BY <1>1, <2>1, OnlyEntry DEF May
  <2> QED
    BY <1>1, <2>1, <2>2, RequestStep DEF Clear
<1>4. CASE StopEnd(r)
  <2>1. /\ pc' = [pc EXCEPT ![r] = "delete"] /\ table = mine[r] /\ mine[r] \in Bots
        /\ stopped[mine[r]] /\ client' = [client EXCEPT ![mine[r]] = "off"]
        /\ UNCHANGED <<table, stopped, mine>>
    BY <1>4 DEF StopEnd, Goto, Serial, Held, HoldsEntry
  <2>2. \A b \in Bots : May(b)' => table' = b
    BY <1>1, <2>1, OnlyEntry DEF May
  <2> QED
    BY <1>1, <2>1, <2>2, RequestStep DEF Clear
<1>5. CASE StopDelete(r)
  <2>1. /\ table = mine[r] /\ stopped[mine[r]]
        /\ UNCHANGED <<stopped, client, mine>>
    BY <1>5 DEF StopDelete, Serial, Held, HoldsEntry
  <2>2. \A b \in Bots : ~May(b)'
    BY <1>1, <2>1, OnlyEntry DEF May
  <2>3. \E where \in {"done", "cancel"} : pc' = [pc EXCEPT ![r] = where]
    BY <1>5 DEF StopDelete, AfterStop, Return, Goto
  <2> QED
    BY <1>1, <2>2, <2>3, RequestStep DEF HoldsEntry
<1> QED
  BY <1>2, <1>3, <1>4, <1>5

LEMMA AuthSerial ==
  ASSUME IInv, Serial, NEW r \in Requests,
         \/ AuthEnsure(r) \/ AuthBuild(r) \/ AuthPrepare(r) \/ AuthDial(r)
         \/ AuthScan(r) \/ AuthSave(r) \/ AuthDrop(r)
  PROVE  Serial'
<1> USE Types DEF IInv
<1>1. Running(r) /\ pc[r] # "store" /\ UNCHANGED <<connect, stopped, op>>
  BY DEF AuthEnsure, AuthBuild, AuthPrepare, AuthDial, AuthScan, AuthSave, AuthDrop,
     Running
<1>e. \A b \in Bots : (May(b) => table = b) /\ ~New(b)
  BY <1>1, OnlyEntry
<1>h. HoldsEntry(pc[r]) => table = mine[r] /\ mine[r] \in Bots
  BY DEF Serial, Held
<1>2. CASE AuthEnsure(r)
  <2>1. UNCHANGED <<table, client>>
    BY <1>2 DEF AuthEnsure
  <2>2. CASE table = NoBot
    BY <1>1, <1>2, <2>1, <2>2, QuietStep
       DEF AuthEnsure, Goto, HoldsEntry
  <2>3. CASE table # NoBot
    <3>1. pc' = [pc EXCEPT ![r] = "prepare"] /\ mine'[r] = table
      BY <1>2, <2>3 DEF AuthEnsure, Goto
    <3> QED
      BY <1>1, <2>1, <3>1, QuietStep DEF Clear
  <2> QED
    BY <2>2, <2>3
<1>3. CASE AuthBuild(r)
  <2>1. /\ pc' = [pc EXCEPT ![r] = "prepare"] /\ table' = mine'[r]
        /\ UNCHANGED client /\ Clear(r)
    BY <1>3 DEF AuthBuild, Goto, Clear
  <2>2. \A b \in Bots : ~May(b)'
    BY <1>1, <2>1 DEF Serial, NoneElse, May
  <2> QED
    BY <1>1, <2>1, <2>2, RequestStep
<1>4. CASE AuthPrepare(r)
  <2>1. /\ pc' = [pc EXCEPT ![r] = "dial"] /\ UNCHANGED <<table, mine>>
        /\ table = mine[r]
        /\ \A b \in Bots : client'[b] # "off" => client[b] # "off"
    BY <1>4, <1>h DEF AuthPrepare, Goto, HoldsEntry
  <2>2. \A b \in Bots : May(b)' => table' = b
    BY <1>1, <1>e, <2>1 DEF May
  <2> QED
    BY <1>1, <2>1, <2>2, RequestStep DEF Clear
<1>5. CASE AuthDial(r)
  <2>1. /\ UNCHANGED <<table, mine>> /\ table = mine[r] /\ mine[r] \in Bots
        /\ \E where \in {"scan", "done"} : pc' = [pc EXCEPT ![r] = where]
        /\ \A b \in Bots \ {mine[r]} : client'[b] = client[b]
    BY <1>5, <1>h DEF AuthDial, Goto, Return, HoldsEntry
  <2>2. \A b \in Bots : May(b)' => table' = b
    BY <1>1, <1>e, <2>1 DEF May
  <2> QED
    BY <1>1, <2>1, <2>2, RequestStep DEF Clear, HoldsEntry
<1>6. CASE AuthScan(r)
  <2>1. /\ UNCHANGED <<table, mine>> /\ table = mine[r] /\ mine[r] \in Bots
        /\ \E where \in {"save", "done"} : pc' = [pc EXCEPT ![r] = where]
        /\ \A b \in Bots \ {mine[r]} : client'[b] = client[b]
    BY <1>6, <1>h DEF AuthScan, Goto, Return, HoldsEntry
  <2>2. \A b \in Bots : May(b)' => table' = b
    BY <1>1, <1>e, <2>1 DEF May
  <2> QED
    BY <1>1, <2>1, <2>2, RequestStep DEF Clear, HoldsEntry
<1>7. CASE AuthSave(r)
  <2>1. /\ UNCHANGED <<table, mine>> /\ table = mine[r] /\ mine[r] \in Bots
        /\ \E where \in {"drop", "done"} : pc' = [pc EXCEPT ![r] = where]
        /\ client' = [client EXCEPT ![mine[r]] = "off"]
    BY <1>7, <1>h DEF AuthSave, Goto, Return, HoldsEntry
  <2>2. \A b \in Bots : ~May(b)'
    BY <1>1, <1>e, <2>1 DEF May, New
  <2> QED
    BY <1>1, <2>1, <2>2, RequestStep DEF HoldsEntry
<1>8. CASE AuthDrop(r)
  <2>1. pc' = [pc EXCEPT ![r] = "check"] /\ UNCHANGED client /\ Clear(r)
    BY <1>8 DEF AuthDrop, Goto, Clear
  <2>2. \A b \in Bots : ~May(b)'
    BY <1>1, <2>1 DEF Serial, NoneElse, May
  <2> QED
    BY <1>1, <2>1, <2>2, RequestStep DEF HoldsEntry
<1> QED
  BY <1>2, <1>3, <1>4, <1>5, <1>6, <1>7, <1>8

LEMMA SInvStep == IInv /\ SInv /\ [Next]_vars => SInv'
<1> SUFFICES ASSUME IInv, SInv, [Next]_vars, ~overlapped' PROVE Serial'
  BY DEF SInv
<1>1. TypeOK /\ Serial
  BY HistoryGrows DEF SInv, IInv
<1>2. CASE UNCHANGED vars
  BY <1>1, <1>2, BotStep DEF May, New
<1>3. ASSUME NEW r \in Requests, Arrive(r) PROVE Serial'
  BY <1>1, <1>3, ArriveSerial
<1>4. ASSUME NEW r \in Requests, Request(r) PROVE Serial'
  BY <1>1, <1>4, StartSerial, CancelSerial, CreateSerial, StoreSerial, StopSerial,
     AuthSerial DEF Request
<1>5. ASSUME NEW b \in Bots,
             Connecting(b) \/ SaveConnected(b) \/ Reauth(b) \/ WhatsApp(b)
      PROVE  Serial'
  BY <1>1, <1>5, BotsSerial
<1> QED
  BY <1>2, <1>3, <1>4, <1>5 DEF Next

LEMMA SInvariance == Spec => []SInv
  BY Invariance, SInvInit, SInvStep, PTL DEF Spec

\* As long as requests come one at a time, no bot in service is lost: it is in the
\* table, where the next request finds it, or with the request that made it
\* (user_bots.go, StartUserBot, stopUserBot and restartUserBot; auth/flow.go).
THEOREM ServiceIsReachable == Spec => []ServiceReachable
<1>1. SInv => ServiceReachable
  <2> SUFFICES ASSUME SInv, ~overlapped, NEW b \in Bots, InService(b)
               PROVE  table = b \/ \E r \in Requests : Running(r) /\ mine[r] = b
    BY DEF ServiceReachable
  <2>1. May(b)
    BY DEF InService, May
  <2>2. table = b \/ \E r \in Requests : pc[r] = "store" /\ mine[r] = b
    BY <2>1 DEF SInv, Serial, Stored
  <2> QED
    BY <2>2 DEF Running
<1> QED
  BY <1>1, SInvariance, PTL

\* As long as requests come one at a time, one bot at a time answers the messages of
\* the user, whatever was restarted, reset or authorized before.
THEOREM OneClient == Spec => []SerialOneClient
<1>1. SInv => SerialOneClient
  <2> SUFFICES ASSUME SInv, ~overlapped
               PROVE  Cardinality({b \in Bots : InService(b)}) <= 1
    BY DEF SerialOneClient
  <2>1. \A a, b \in Bots : InService(a) /\ InService(b) => a = b
    <3> SUFFICES ASSUME NEW a \in Bots, NEW b \in Bots, May(a), May(b) PROVE a = b
      BY DEF InService, May
    <3>1. CASE \E r \in Requests : pc[r] = "store"
      BY <3>1 DEF SInv, Serial, NoneElse
    <3>2. CASE ~\E r \in Requests : pc[r] = "store"
      BY <3>2 DEF SInv, Serial, Stored
    <3> QED
      BY <3>1, <3>2
  <2>2. CASE \E b \in Bots : InService(b)
    <3>1. PICK b \in Bots : InService(b)
      BY <2>2
    <3>2. {a \in Bots : InService(a)} = {b}
      BY <2>1, <3>1
    <3> QED
      BY <3>2, FS_Singleton
  <2>3. CASE ~\E b \in Bots : InService(b)
    <3>1. {a \in Bots : InService(a)} = {}
      BY <2>3
    <3> QED
      BY <3>1, FS_EmptySet
  <2> QED
    BY <2>2, <2>3
<1> QED
  BY <1>1, SInvariance, PTL
=============================================================================
