---------------------------- MODULE BotLifecycle ----------------------------
(***************************************************************************)
(* The life of the bots of one user (internal/whatsapp): the table uBot,   *)
(* the flag that enables the channel in the database, the WhatsApp client  *)
(* of every bot, and the threads that create, connect, reset, authorize    *)
(* and stop them: HTTP requests (user_bots.go), QR authorizations          *)
(* (auth/flow.go, user_auth.go, bot_auth.go), the start of the process,    *)
(* the goroutine that connects a bot, the handler of its Connected events  *)
(* (bot_lifecycle.go) and its re-authorization (bot_event.go, reauth.go).  *)
(*                                                                         *)
(* Nothing synchronizes these threads.  A step of a thread reaches from    *)
(* one access to the table, the database or a client to the next.  Bots    *)
(* are identified by their pointer and never reused.                       *)
(*                                                                         *)
(* A definition marked "slip" is no part of the specification: it is what  *)
(* the definition after it would be with a plausible mistake in the code,  *)
(* kept to see that the properties would notice.                           *)
(***************************************************************************)
EXTENDS Integers, FiniteSets

CONSTANTS
    Bots,            \* the bots that may be created
    NoBot,           \* no entry in the table
    Requests,        \* the requests that may arrive
    MaxConcurrent    \* bound on the requests under way at the same time

ASSUME NoBotAssumption == NoBot \notin Bots
ASSUME MaxConcurrentAssumption == MaxConcurrent \in Nat

VARIABLES
    table,       \* u.uBot of the user
    enabled,     \* WaUserBotEnabled in the database
    \* a bot
    made,        \* the bots created
    stopped,     \* bot.stopped
    cancelled,   \* bot.cancel has been called
    linked,      \* b.Store.ID # nil
    rebuilt,     \* PrepareReauth has replaced the client
    client,      \* the connection of the client
    connect,     \* the goroutine that connects the bot
    saving,      \* a Connected event has yet to be handled
    reauth,      \* triggerReauth and runReauth
    \* a request
    op, pc, mine, result,
    overlapped   \* history: a request began too early (see Busy)

storeVars == <<table, enabled>>
botVars == <<made, stopped, cancelled, linked, rebuilt, client, connect, saving,
             reauth>>
requestVars == <<op, pc, mine, result, overlapped>>
vars == <<storeVars, botVars, requestVars>>

Ops == {"none", "start", "stop", "restart", "retire", "boot", "auth"}
Pcs == {"new", "check", "read", "exists", "create", "store", "load", "flag", "end",
        "delete", "cancel", "ensure", "build", "prepare", "dial", "scan", "save",
        "drop", "done"}
ClientStates == {"off", "pairing", "on", "retry"}
ConnectPcs == {"none", "dial", "disable", "mark", "connected", "failed"}
ReauthPcs == {"idle", "disable", "disconnect", "flag", "cancel"}

Running(r) == pc[r] \notin {"new", "done"}

\* A request is under way, or a bot has not been connected for the first time.
Busy == \/ \E r \in Requests : Running(r)
        \/ \E b \in Bots : connect[b] \in {"dial", "disable", "mark"}

-----------------------------------------------------------------------------
Init ==
    /\ table = NoBot
    /\ enabled \in BOOLEAN
    /\ made = {}
    /\ stopped = [b \in Bots |-> FALSE]
    /\ cancelled = [b \in Bots |-> FALSE]
    /\ linked = [b \in Bots |-> FALSE]
    /\ rebuilt = [b \in Bots |-> FALSE]
    /\ client = [b \in Bots |-> "off"]
    /\ connect = [b \in Bots |-> "none"]
    /\ saving = [b \in Bots |-> FALSE]
    /\ reauth = [b \in Bots |-> "idle"]
    /\ op = [r \in Requests |-> "none"]
    /\ pc = [r \in Requests |-> "new"]
    /\ mine = [r \in Requests |-> NoBot]
    /\ result = [r \in Requests |-> "none"]
    /\ overlapped = FALSE

-----------------------------------------------------------------------------
(* The start and the end of a request.                                     *)

Goto(r, where) == pc' = [pc EXCEPT ![r] = where]

Return(r, res) ==
    /\ pc' = [pc EXCEPT ![r] = "done"]
    /\ result' = [result EXCEPT ![r] = res]

\* The process starts the bots that are enabled before it serves requests.
Arrive(r) ==
    /\ pc[r] = "new"
    /\ Cardinality({q \in Requests : Running(q)}) < MaxConcurrent
    /\ \A q \in Requests : Running(q) => op[q] # "boot"
    /\ overlapped' = (overlapped \/ Busy)
    /\ \/ /\ op' = [op EXCEPT ![r] = "start"]
          /\ Goto(r, "check")
       \/ /\ op' = [op EXCEPT ![r] = "stop"]
          /\ Goto(r, "load")
       \/ /\ op' = [op EXCEPT ![r] = "restart"]
          /\ Goto(r, "read")
       \/ /\ op' = [op EXCEPT ![r] = "auth"]
          /\ Goto(r, "ensure")
       \/ /\ enabled
          /\ \A q \in Requests : pc[q] = "new"
          /\ op' = [op EXCEPT ![r] = "boot"]
          /\ Goto(r, "cancel")
    /\ UNCHANGED <<storeVars, botVars, mine, result>>

-----------------------------------------------------------------------------
(* StartUserBot, restartUserBot and processBotsState.                      *)

\* StartUserBot: a user who has a bot gets an error, whatever state it is in.
StartCheck(r) ==
    /\ pc[r] = "check"
    /\ IF table # NoBot
       THEN Return(r, "error")
       ELSE Goto(r, "read") /\ UNCHANGED result
    /\ UNCHANGED <<storeVars, botVars, op, mine, overlapped>>

\* The data of the user; subscription, decryption and parsing may fail.
StartRead(r) ==
    /\ pc[r] = "read"
    /\ op[r] \in {"start", "auth"}
    /\ \/ enabled /\ Goto(r, "create") /\ UNCHANGED result
       \/ Return(r, "error")
    /\ UNCHANGED <<storeVars, botVars, op, mine, overlapped>>

\* restartUserBot: the data of the user, who may be disabled.
RestartRead(r) ==
    /\ pc[r] = "read"
    /\ op[r] = "restart"
    /\ \/ /\ op' = [op EXCEPT ![r] = IF enabled THEN "restart" ELSE "retire"]
          /\ Goto(r, "exists")
          /\ UNCHANGED result
       \/ Return(r, "error") /\ UNCHANGED op
    /\ UNCHANGED <<storeVars, botVars, mine, overlapped>>

\* Slip: restartUserBot leaves the bot it replaces to createOrUpdateBot.
RestartInPlace(r) ==
    /\ pc[r] = "exists"
    /\ IF op[r] = "restart"
       THEN Goto(r, "cancel") /\ UNCHANGED result
       ELSE Return(r, "error")
    /\ UNCHANGED <<storeVars, botVars, op, mine, overlapped>>

\* The bot of a disabled user is stopped, that of an enabled one is stopped and
\* replaced.
RestartExists(r) ==
    /\ pc[r] = "exists"
    /\ \/ table # NoBot /\ Goto(r, "load") /\ UNCHANGED result
       \/ table = NoBot /\ op[r] = "restart" /\ Goto(r, "cancel") /\ UNCHANGED result
       \/ table = NoBot /\ op[r] = "retire" /\ Return(r, "error")
    /\ UNCHANGED <<storeVars, botVars, op, mine, overlapped>>

\* createOrUpdateBot cancels the context of the bot it finds; restartUserBot has
\* checked the subscription and parsed the session before, which may fail.
CancelExisting(r) ==
    /\ pc[r] = "cancel"
    /\ \/ /\ cancelled' = IF table = NoBot THEN cancelled
                          ELSE [cancelled EXCEPT ![table] = TRUE]
          /\ Goto(r, "create")
          /\ UNCHANGED result
       \/ Return(r, "error") /\ UNCHANGED cancelled
    /\ UNCHANGED <<storeVars, made, stopped, linked, rebuilt, client, connect,
                   saving, reauth, op, mine, overlapped>>

\* initializeBot for a session read from the database: the goroutine that
\* connects the bot starts at once.
CreateBot(r) ==
    /\ pc[r] = "create"
    /\ \E b \in Bots \ made :
          /\ made' = made \cup {b}
          /\ linked' = [linked EXCEPT ![b] = TRUE]
          /\ connect' = [connect EXCEPT ![b] = "dial"]
          /\ mine' = [mine EXCEPT ![r] = b]
    /\ Goto(r, "store")
    /\ UNCHANGED <<storeVars, stopped, cancelled, rebuilt, client, saving, reauth,
                   op, result, overlapped>>

StoreBot(r) ==
    /\ pc[r] = "store"
    /\ table' = mine[r]
    /\ Return(r, "ok")
    /\ UNCHANGED <<enabled, botVars, op, mine, overlapped>>

-----------------------------------------------------------------------------
(* stopUserBot.                                                            *)

AfterStop(r) ==
    \/ op[r] = "stop" /\ Return(r, "ok")
    \/ op[r] = "retire" /\ Return(r, "error")
    \/ op[r] = "restart" /\ Goto(r, "cancel") /\ UNCHANGED result

\* A bot that is stopped already stays where it is.
StopLoad(r) ==
    /\ pc[r] = "load"
    /\ \/ table = NoBot /\ Return(r, "error") /\ UNCHANGED mine
       \/ /\ table # NoBot
          /\ mine' = [mine EXCEPT ![r] = table]
          /\ IF stopped[table]
             THEN AfterStop(r)
             ELSE Goto(r, "flag") /\ UNCHANGED result
    /\ UNCHANGED <<storeVars, botVars, op, overlapped>>

StopFlag(r) ==
    /\ pc[r] = "flag"
    /\ stopped' = [stopped EXCEPT ![mine[r]] = TRUE]
    /\ Goto(r, "end")
    /\ UNCHANGED <<storeVars, made, cancelled, linked, rebuilt, client, connect,
                   saving, reauth, op, mine, result, overlapped>>

\* bot.cancel and Disconnect.
StopEnd(r) ==
    /\ pc[r] = "end"
    /\ cancelled' = [cancelled EXCEPT ![mine[r]] = TRUE]
    /\ client' = [client EXCEPT ![mine[r]] = "off"]
    /\ Goto(r, "delete")
    /\ UNCHANGED <<storeVars, made, stopped, linked, rebuilt, connect, saving,
                   reauth, op, mine, result, overlapped>>

\* Half a second later the entry of the user is deleted, whichever it is.
StopDelete(r) ==
    /\ pc[r] = "delete"
    /\ table' = NoBot
    /\ AfterStop(r)
    /\ UNCHANGED <<enabled, botVars, op, mine, overlapped>>

-----------------------------------------------------------------------------
(* AuthenticateWithQR.                                                     *)

\* Slip: EnsureAuthBot takes what the table holds.
AuthEnsureUnchecked(r) ==
    /\ pc[r] = "ensure"
    /\ mine' = [mine EXCEPT ![r] = table]
    /\ Goto(r, "prepare")
    /\ UNCHANGED <<storeVars, botVars, op, result, overlapped>>

\* EnsureAuthBot: the bot of the user, or else one made for the authorization.
AuthEnsure(r) ==
    /\ pc[r] = "ensure"
    /\ IF table # NoBot
       THEN mine' = [mine EXCEPT ![r] = table] /\ Goto(r, "prepare")
       ELSE Goto(r, "build") /\ UNCHANGED mine
    /\ UNCHANGED <<storeVars, botVars, op, result, overlapped>>

\* It is not connected by initializeBot.
AuthBuild(r) ==
    /\ pc[r] = "build"
    /\ \E b \in Bots \ made :
          /\ made' = made \cup {b}
          /\ mine' = [mine EXCEPT ![r] = b]
          /\ table' = b
    /\ Goto(r, "prepare")
    /\ UNCHANGED <<enabled, stopped, cancelled, linked, rebuilt, client, connect,
                   saving, reauth, op, result, overlapped>>

\* PrepareReauth, for a bot that has a device: its client is disconnected and
\* replaced by one without the handler that saves the session.
AuthPrepare(r) ==
    /\ pc[r] = "prepare"
    /\ Goto(r, "dial")
    /\ IF linked[mine[r]]
       THEN /\ linked' = [linked EXCEPT ![mine[r]] = FALSE]
            /\ rebuilt' = [rebuilt EXCEPT ![mine[r]] = TRUE]
            /\ client' = [client EXCEPT ![mine[r]] = "off"]
       ELSE UNCHANGED <<linked, rebuilt, client>>
    /\ UNCHANGED <<storeVars, made, stopped, cancelled, connect, saving, reauth, op,
                   mine, result, overlapped>>

\* GetQRChannel and Connect; an error leaves the bot in the table.
AuthDial(r) ==
    /\ pc[r] = "dial"
    /\ \/ /\ client[mine[r]] = "off"
          /\ client' = [client EXCEPT ![mine[r]] = "pairing"]
          /\ Goto(r, "scan")
          /\ UNCHANGED result
       \/ Return(r, "error") /\ UNCHANGED client
    /\ UNCHANGED <<storeVars, made, stopped, cancelled, linked, rebuilt, connect,
                   saving, reauth, op, mine, overlapped>>

\* The code is scanned, or the attempt times out, fails, or is given up.
AuthScan(r) ==
    /\ pc[r] = "scan"
    /\ \/ /\ client[mine[r]] = "pairing"
          /\ client' = [client EXCEPT ![mine[r]] = "on"]
          /\ linked' = [linked EXCEPT ![mine[r]] = TRUE]
          /\ saving' = [saving EXCEPT ![mine[r]] = ~rebuilt[mine[r]]]
          /\ Goto(r, "save")
          /\ UNCHANGED result
       \/ /\ client' = [client EXCEPT ![mine[r]] = "off"]
          /\ Return(r, "error")
          /\ UNCHANGED <<linked, saving>>
    /\ UNCHANGED <<storeVars, made, stopped, cancelled, rebuilt, connect, reauth, op,
                   mine, overlapped>>

\* Slip: the client stays connected when the session is saved.
AuthSaveOnly(r) ==
    /\ pc[r] = "save"
    /\ IF client[mine[r]] = "on"
       THEN enabled' \in {enabled, TRUE} /\ Goto(r, "drop") /\ UNCHANGED result
       ELSE Return(r, "error") /\ UNCHANGED enabled
    /\ UNCHANGED <<table, botVars, op, mine, overlapped>>

\* SaveJSON enables the channel; its error is only logged.  Then Disconnect.  A
\* client that is logged out by now ends the authorization before.
AuthSave(r) ==
    /\ pc[r] = "save"
    /\ client' = [client EXCEPT ![mine[r]] = "off"]
    /\ \/ /\ client[mine[r]] = "on"
          /\ enabled' \in {enabled, TRUE}
          /\ Goto(r, "drop")
          /\ UNCHANGED result
       \/ Return(r, "error") /\ UNCHANGED enabled
    /\ UNCHANGED <<table, made, stopped, cancelled, linked, rebuilt, connect, saving,
                   reauth, op, mine, overlapped>>

\* DeleteBot deletes the entry of the user; StartUserBot follows.
AuthDrop(r) ==
    /\ pc[r] = "drop"
    /\ table' = NoBot
    /\ Goto(r, "check")
    /\ UNCHANGED <<enabled, botVars, op, mine, result, overlapped>>

-----------------------------------------------------------------------------
(* The client of a bot and its events.                                     *)

\* The goroutine of initializeBot: Connect, of a bot that may be stopped by now.
ConnectBot(b) ==
    /\ connect[b] = "dial"
    /\ \/ /\ linked[b]
          /\ client[b] = "off"
          /\ client' = [client EXCEPT ![b] = "on"]
          /\ saving' = [saving EXCEPT ![b] = ~rebuilt[b]]
          /\ connect' = [connect EXCEPT ![b] = "connected"]
       \/ /\ connect' = [connect EXCEPT ![b] = "disable"]
          /\ UNCHANGED <<client, saving>>
    /\ UNCHANGED <<storeVars, made, stopped, cancelled, linked, rebuilt, reauth,
                   requestVars>>

\* After an error the channel is disabled, which may fail as well,
ConnectDisable(b) ==
    /\ connect[b] = "disable"
    /\ enabled' \in {enabled, FALSE}
    /\ connect' = [connect EXCEPT ![b] = "mark"]
    /\ UNCHANGED <<table, made, stopped, cancelled, linked, rebuilt, client, saving,
                   reauth, requestVars>>

\* and the bot is marked as stopped; nothing else ends it.
ConnectMark(b) ==
    /\ connect[b] = "mark"
    /\ stopped' = [stopped EXCEPT ![b] = TRUE]
    /\ connect' = [connect EXCEPT ![b] = "failed"]
    /\ UNCHANGED <<storeVars, made, cancelled, linked, rebuilt, client, saving,
                   reauth, requestVars>>

\* The handler of Connected saves the session and enables the channel with it.
SaveConnected(b) ==
    /\ saving[b]
    /\ saving' = [saving EXCEPT ![b] = FALSE]
    /\ enabled' \in {enabled, TRUE}
    /\ UNCHANGED <<table, made, stopped, cancelled, linked, rebuilt, client, connect,
                   reauth, requestVars>>

\* A run of runReauth that is under way makes a second one of no account: it
\* would repeat the same steps.
TriggerReauth(b) ==
    reauth' = [reauth EXCEPT ![b] = IF @ = "idle" THEN "disable" ELSE @]

\* The connection is lost; the client will try again by itself.  The session may
\* turn out to be invalid.
ConnectionLost(b) ==
    /\ client[b] = "on"
    /\ client' = [client EXCEPT ![b] = "retry"]
    /\ TriggerReauth(b) \/ UNCHANGED reauth
    /\ UNCHANGED <<storeVars, made, stopped, cancelled, linked, rebuilt, connect,
                   saving, requestVars>>

ConnectionRestored(b) ==
    /\ client[b] = "retry"
    /\ client' = [client EXCEPT ![b] = "on"]
    /\ saving' = [saving EXCEPT ![b] = ~rebuilt[b]]
    /\ UNCHANGED <<storeVars, made, stopped, cancelled, linked, rebuilt, connect,
                   reauth, requestVars>>

\* The user removes the device.
LoggedOut(b) ==
    /\ client[b] = "on"
    /\ client' = [client EXCEPT ![b] = "off"]
    /\ linked' = [linked EXCEPT ![b] = FALSE]
    /\ TriggerReauth(b)
    /\ UNCHANGED <<storeVars, made, stopped, cancelled, rebuilt, connect, saving,
                   requestVars>>

\* A message whose MAC does not match.
BadMessage(b) ==
    /\ client[b] = "on"
    /\ TriggerReauth(b)
    /\ UNCHANGED <<storeVars, made, stopped, cancelled, linked, rebuilt, client,
                   connect, saving, requestVars>>

-----------------------------------------------------------------------------
(* runReauth: every step is taken whether or not the one before it failed. *)

\* Slip: an error of SetChannelEnabled ends runReauth.
ReauthGivesUp(b) ==
    /\ reauth[b] = "disable"
    /\ \/ enabled' = FALSE /\ reauth' = [reauth EXCEPT ![b] = "disconnect"]
       \/ reauth' = [reauth EXCEPT ![b] = "idle"] /\ UNCHANGED enabled
    /\ UNCHANGED <<table, made, stopped, cancelled, linked, rebuilt, client, connect,
                   saving, requestVars>>

ReauthDisable(b) ==
    /\ reauth[b] = "disable"
    /\ enabled' \in {enabled, FALSE}
    /\ reauth' = [reauth EXCEPT ![b] = "disconnect"]
    /\ UNCHANGED <<table, made, stopped, cancelled, linked, rebuilt, client, connect,
                   saving, requestVars>>

\* resetSession: stopCalls and Disconnect,
ReauthDisconnect(b) ==
    /\ reauth[b] = "disconnect"
    /\ client' = [client EXCEPT ![b] = "off"]
    /\ reauth' = [reauth EXCEPT ![b] = "flag"]
    /\ UNCHANGED <<storeVars, made, stopped, cancelled, linked, rebuilt, connect,
                   saving, requestVars>>

\* Slip: resetSession does not cancel the context.
ReauthFlagLast(b) ==
    /\ reauth[b] = "flag"
    /\ stopped' = [stopped EXCEPT ![b] = TRUE]
    /\ reauth' = [reauth EXCEPT ![b] = "idle"]
    /\ UNCHANGED <<storeVars, made, cancelled, linked, rebuilt, client, connect,
                   saving, requestVars>>

\* the flag,
ReauthFlag(b) ==
    /\ reauth[b] = "flag"
    /\ stopped' = [stopped EXCEPT ![b] = TRUE]
    /\ reauth' = [reauth EXCEPT ![b] = "cancel"]
    /\ UNCHANGED <<storeVars, made, cancelled, linked, rebuilt, client, connect,
                   saving, requestVars>>

\* the deletion of the device, and cancel.
ReauthCancel(b) ==
    /\ reauth[b] = "cancel"
    /\ linked' \in {linked, [linked EXCEPT ![b] = FALSE]}
    /\ cancelled' = [cancelled EXCEPT ![b] = TRUE]
    /\ reauth' = [reauth EXCEPT ![b] = "idle"]
    /\ UNCHANGED <<storeVars, made, stopped, rebuilt, client, connect, saving,
                   requestVars>>

-----------------------------------------------------------------------------
Request(r) ==
    \/ StartCheck(r) \/ StartRead(r) \/ RestartRead(r) \/ RestartExists(r)
    \/ CancelExisting(r) \/ CreateBot(r) \/ StoreBot(r)
    \/ StopLoad(r) \/ StopFlag(r) \/ StopEnd(r) \/ StopDelete(r)
    \/ AuthEnsure(r) \/ AuthBuild(r) \/ AuthPrepare(r) \/ AuthDial(r)
    \/ AuthScan(r) \/ AuthSave(r) \/ AuthDrop(r)

Connecting(b) == ConnectBot(b) \/ ConnectDisable(b) \/ ConnectMark(b)

Reauth(b) ==
    \/ ReauthDisable(b) \/ ReauthDisconnect(b) \/ ReauthFlag(b) \/ ReauthCancel(b)

WhatsApp(b) ==
    ConnectionLost(b) \/ ConnectionRestored(b) \/ LoggedOut(b) \/ BadMessage(b)

Next ==
    \/ \E r \in Requests : Arrive(r) \/ Request(r)
    \/ \E b \in Bots : \/ Connecting(b) \/ SaveConnected(b) \/ Reauth(b)
                       \/ WhatsApp(b)

Spec == Init /\ [][Next]_vars

\* A re-authorization that is under way goes on.  Nothing else needs to be fair:
\* requests, connections and WhatsApp may stand still.
Fairness == \A b \in Bots : WF_vars(Reauth(b))

FairSpec == Spec /\ Fairness

-----------------------------------------------------------------------------
(* Properties.                                                             *)

\* Where a request works on a bot of its own.
HoldsBot == {"store", "flag", "end", "delete", "prepare", "dial", "scan", "save"}

\* The types; and no request that dereferences its bot has none.
TypeOK ==
    /\ table \in made \cup {NoBot}
    /\ enabled \in BOOLEAN
    /\ made \subseteq Bots
    /\ stopped \in [Bots -> BOOLEAN]
    /\ cancelled \in [Bots -> BOOLEAN]
    /\ linked \in [Bots -> BOOLEAN]
    /\ rebuilt \in [Bots -> BOOLEAN]
    /\ client \in [Bots -> ClientStates]
    /\ connect \in [Bots -> ConnectPcs]
    /\ saving \in [Bots -> BOOLEAN]
    /\ reauth \in [Bots -> ReauthPcs]
    /\ op \in [Requests -> Ops]
    /\ pc \in [Requests -> Pcs]
    /\ mine \in [Requests -> made \cup {NoBot}]
    /\ \A r \in Requests : pc[r] \in HoldsBot => mine[r] \in made
    /\ result \in [Requests -> {"none", "ok", "error"}]
    /\ overlapped \in BOOLEAN

\* b is in service: its client is, or will be again, connected as the user's
\* device, and it answers messages.
InService(b) == client[b] \in {"on", "retry"} /\ ~stopped[b]

\* Somebody is about to cancel b, having marked it as stopped.
Ending(b) ==
    reauth[b] = "cancel" \/ \E r \in Requests : pc[r] = "end" /\ mine[r] = b

\* stopped is what makes every later stop return early, so whoever sets it has
\* to finish the job: a stopped bot is cancelled, or about to be, or it never got
\* a connection (user_bots.go:204; bot_lifecycle.go:30 and 232).
StoppedIsFinished ==
    \A b \in Bots :
        stopped[b] => cancelled[b] \/ Ending(b) \/ connect[b] = "failed"

\* As long as requests come one at a time and leave a bot the time to make its
\* first connection, a bot in service is in the table,
\* where a request can stop it, or in the hands of the request that made it:
\* restarts, authorizations, reconnections and resets lose none.
ServiceReachable ==
    ~overlapped =>
        \A b \in Bots : InService(b) =>
            table = b \/ \E r \in Requests : Running(r) /\ mine[r] = b

\* Under the same condition one bot at a time answers the messages of the user.
SerialOneClient ==
    ~overlapped => Cardinality({b \in Bots : InService(b)}) <= 1

\* Once the session of a bot is found to be lost, the bot is taken out of service
\* although the database may fail at the time (reauth.go, runReauth).
ReauthEndsService ==
    \A b \in Bots : (reauth[b] = "disable") ~> (stopped[b] /\ cancelled[b])

=============================================================================
