---------------------------- MODULE FirstContact ----------------------------
(***************************************************************************)
(* What a bot knows of one contact (internal/whatsapp/bot_message.go,      *)
(* bot_responder.go, responder/): the record that handleMessage looks up   *)
(* and completes, the mark in Redis that outlives the process, the preload *)
(* that reads it when the bot starts, and the goroutine that announces a   *)
(* new contact beside the handler of its first message.                    *)
(*                                                                         *)
(* Records are shared by pointer: whoever holds one may change it, and the *)
(* table may hold another one by then.  initializeUserChannels is one step *)
(* here; its own steps are the module Channels.  Calls of the contact use  *)
(* the same record when they have channels made.  The lifetime of the mark *)
(* (a week) is left out.                                                   *)
(*                                                                         *)
(* A definition marked "slip" is no part of the specification: it is what  *)
(* the definition after it would be with a plausible mistake in the code,  *)
(* kept to see that the properties would notice.                           *)
(***************************************************************************)
EXTENDS Naturals, FiniteSets

CONSTANTS
    Msgs,         \* the messages of the contact
    Preloaded,    \* the record that the preload makes
    NoInfo,       \* no record
    MaxHandlers,  \* bound on the messages handled at the same time
    MaxRestarts   \* bound on the restarts of the process

ASSUME RecordsAssumption ==
    NoInfo \notin Msgs \cup {Preloaded} /\ Preloaded \notin Msgs
ASSUME BoundsAssumption == MaxHandlers \in Nat /\ MaxRestarts \in Nat

\* Records, by the handler or the preload that makes them.
Infos == Msgs \cup {Preloaded}

VARIABLES
    entry,       \* b.responders: the record in the table
    known,       \* Info.Known of each record
    hasJid,      \* Info.JID and Info.RealPhone of each record are set
    preload,     \* preloadFirstInteraction: "run" or "over"
    synced,      \* b.offlineMsgSync is closed
    answerTo,    \* the addresses that listeners have been given
    mark,        \* Redis: the contact is known
    pc,          \* handleMessage
    info,        \* respInfo
    greeter,     \* sendFirstContactMessage
    \* history
    greetings,   \* how often the contact has been announced, before the start too
    dialogs,     \* how often a message was taken for the first, before the start too
    restarts,    \* how often the process has been restarted
    met,         \* a message has been looked up since the start
    skipped,     \* an announcement was given up: the handler has been faster
    faults       \* what has failed, overlapped or come too early or too late

botVars == <<entry, known, hasJid, preload, synced, answerTo>>
threadVars == <<pc, info, greeter>>
history == <<greetings, dialogs, restarts, met, skipped, faults>>
vars == <<botVars, mark, threadVars, history>>

Faults == {"overlap", "preload", "call", "init", "redis", "crash"}

Running(m) == pc[m] \notin {"new", "done"}
Greeting(m) == greeter[m] \notin {"off", "over"}

-----------------------------------------------------------------------------
\* A contact that is marked has been announced and has its dialog.
Init ==
    /\ entry = NoInfo
    /\ known = [i \in Infos |-> FALSE]
    /\ hasJid = [i \in Infos |-> FALSE]
    /\ preload = "run" /\ synced = FALSE
    /\ answerTo = {}
    /\ mark \in BOOLEAN
    /\ pc = [m \in Msgs |-> "new"]
    /\ info = [m \in Msgs |-> NoInfo]
    /\ greeter = [m \in Msgs |-> "off"]
    /\ greetings = IF mark THEN 1 ELSE 0
    /\ dialogs = greetings
    /\ restarts = 0
    /\ met = FALSE /\ skipped = FALSE
    /\ faults = {}

Fault(condition, name) == faults' = IF condition THEN faults \cup {name} ELSE faults

-----------------------------------------------------------------------------
(* handleMessage.                                                          *)

Goto(m, where) == pc' = [pc EXCEPT ![m] = where]

Receive(m) ==
    /\ pc[m] = "new"
    /\ Cardinality({n \in Msgs : Running(n)}) < MaxHandlers
    /\ Goto(m, "sync")
    /\ Fault(\E n \in Msgs : Running(n), "overlap")
    /\ UNCHANGED <<botVars, mark, info, greeter, greetings, dialogs, restarts, met,
                   skipped>>

\* The handler waits for offlineMsgSync; then the filter, the list of allowed
\* users and the type of the message decide whether it goes on.
Filter(m) ==
    /\ pc[m] = "sync" /\ synced
    /\ Goto(m, "lookup") \/ Goto(m, "done")
    /\ UNCHANGED <<botVars, mark, info, greeter, history>>

\* Slip: a record that is there is taken as it is.
LookupBare(m) ==
    /\ pc[m] = "lookup"
    /\ entry' = IF entry = NoInfo THEN m ELSE entry
    /\ info' = [info EXCEPT ![m] = entry']
    /\ hasJid' = [hasJid EXCEPT ![m] = TRUE]
    /\ Fault(preload = "run", "preload") /\ met' = TRUE
    /\ Goto(m, "decide")
    /\ UNCHANGED <<known, preload, synced, answerTo, mark, greeter, greetings,
                   dialogs, restarts, skipped>>

\* Slip: a new record is not put into the table.
LookupUnstored(m) ==
    /\ pc[m] = "lookup"
    /\ info' = [info EXCEPT ![m] = IF entry = NoInfo THEN m ELSE entry]
    /\ hasJid' = [hasJid EXCEPT ![info'[m]] = TRUE]
    /\ Fault(preload = "run", "preload") /\ met' = TRUE
    /\ Goto(m, "decide")
    /\ UNCHANGED <<entry, known, preload, synced, answerTo, mark, greeter, greetings,
                   dialogs, restarts, skipped>>

\* LoadOrStore, and restoreResponderFields for a record that was preloaded.
Lookup(m) ==
    /\ pc[m] = "lookup"
    /\ entry' = IF entry = NoInfo THEN m ELSE entry
    /\ info' = [info EXCEPT ![m] = entry']
    /\ hasJid' = [hasJid EXCEPT ![entry'] = TRUE]
    /\ Fault(preload = "run", "preload") /\ met' = TRUE
    /\ Goto(m, "decide")
    /\ UNCHANGED <<known, preload, synced, answerTo, mark, greeter, greetings,
                   dialogs, restarts, skipped>>

\* A contact that is not known yet is announced while its channels are made.
Decide(m) ==
    /\ pc[m] = "decide"
    /\ IF known[info[m]]
       THEN Goto(m, "process") /\ UNCHANGED greeter
       ELSE Goto(m, "channels") /\ greeter' = [greeter EXCEPT ![m] = "check"]
    /\ UNCHANGED <<botVars, mark, info, history>>

\* The address that startResponseListener finds: the contact's, or one made up
\* from its number when there is no record or an empty one.
Address == IF entry # NoInfo /\ hasJid[entry] THEN "sender" ELSE "number"

\* initializeUserChannels may find channels, make them and start a listener, or
\* fail; an error ends the handler.
InitChannels(m, where) ==
    \/ /\ Goto(m, where) /\ UNCHANGED faults
       /\ answerTo' \in {answerTo, answerTo \cup {Address}}
    \/ Goto(m, "done") /\ Fault(TRUE, "init") /\ UNCHANGED answerTo

\* Slip: the record is not marked as known.
KnowForgotten(m) ==
    /\ pc[m] = "know"
    /\ entry' = info[m]
    /\ dialogs' = dialogs + 1
    /\ Goto(m, "process")
    /\ UNCHANGED <<known, hasJid, preload, synced, answerTo, mark, info, greeter,
                   greetings, restarts, met, skipped, faults>>

Channels(m) ==
    /\ pc[m] = "channels"
    /\ InitChannels(m, "know")
    /\ UNCHANGED <<entry, known, hasJid, preload, synced, mark, info, greeter,
                   greetings, dialogs, restarts, met, skipped>>

\* The contact is known now, and this message is taken for the one that opens its
\* dialog in the CRM.
Know(m) ==
    /\ pc[m] = "know"
    /\ known' = [known EXCEPT ![info[m]] = TRUE]
    /\ entry' = info[m]
    /\ dialogs' = dialogs + 1
    /\ Goto(m, "process")
    /\ UNCHANGED <<hasJid, preload, synced, answerTo, mark, info, greeter, greetings,
                   restarts, met, skipped, faults>>

\* processMessage makes channels, too, when there are none or they are closed.
Process(m) ==
    /\ pc[m] = "process"
    /\ InitChannels(m, "done")
    /\ UNCHANGED <<entry, known, hasJid, preload, synced, mark, info, greeter,
                   greetings, dialogs, restarts, met, skipped>>

\* A call has channels made when it finds none, whatever the record says by then
\* (EnsureUserChannels); it makes no record.
EnsureUserChannels ==
    /\ answerTo' = answerTo \cup {Address}
    /\ Fault(~met, "call")
    /\ UNCHANGED <<entry, known, hasJid, preload, synced, mark, threadVars, greetings,
                   dialogs, restarts, met, skipped>>

-----------------------------------------------------------------------------
(* sendFirstContactMessage and the preload.  Errors of Redis are logged.   *)

SetKnown ==
    \/ mark' = TRUE /\ UNCHANGED faults
    \/ Fault(TRUE, "redis") /\ UNCHANGED mark

\* A contact that has become known meanwhile is only marked.
GreetCheck(m) ==
    /\ greeter[m] = "check"
    /\ \/ /\ known[entry]
          /\ greeter' = [greeter EXCEPT ![m] = "over"]
          /\ SetKnown
          /\ skipped' = TRUE
       \/ /\ ~known[entry]
          /\ greeter' = [greeter EXCEPT ![m] = "ask"]
          /\ UNCHANGED <<mark, faults, skipped>>
    /\ UNCHANGED <<botVars, pc, info, greetings, dialogs, restarts, met>>

\* Slip: Redis is not asked.
GreetUnasked(m) ==
    /\ greeter[m] = "ask"
    /\ greeter' = [greeter EXCEPT ![m] = "mark"]
    /\ greetings' = greetings + 1
    /\ UNCHANGED <<botVars, mark, pc, info, dialogs, restarts, met, skipped, faults>>

\* A contact that Redis does not know, or cannot tell of, is announced (by users who
\* want to be told, as all are here).
Greet(m) ==
    /\ greeter[m] = "ask"
    /\ greeter' = [greeter EXCEPT ![m] = "mark"]
    /\ \/ greetings' = (IF mark THEN greetings ELSE greetings + 1) /\ UNCHANGED faults
       \/ greetings' = greetings + 1 /\ Fault(TRUE, "redis")
    /\ UNCHANGED <<botVars, mark, pc, info, dialogs, restarts, met, skipped>>

GreetMark(m) ==
    /\ greeter[m] = "mark"
    /\ greeter' = [greeter EXCEPT ![m] = "know"]
    /\ SetKnown
    /\ UNCHANGED <<botVars, pc, info, greetings, dialogs, restarts, met, skipped>>

GreetKnow(m) ==
    /\ greeter[m] = "know"
    /\ greeter' = [greeter EXCEPT ![m] = "over"]
    /\ known' = [known EXCEPT ![entry] = TRUE]
    /\ UNCHANGED <<entry, hasJid, preload, synced, answerTo, mark, pc, info, history>>

\* The contacts that Redis knows get records that say nothing else, in place of
\* those that are there.
Preload ==
    /\ preload = "run"
    /\ preload' = "over"
    /\ \/ /\ mark
          /\ entry' = Preloaded
          /\ known' = [known EXCEPT ![Preloaded] = TRUE]
          /\ hasJid' = [hasJid EXCEPT ![Preloaded] = FALSE]
          /\ UNCHANGED faults
       \/ /\ ~mark
          /\ UNCHANGED <<entry, known, hasJid, faults>>
       \/ /\ Fault(TRUE, "redis")
          /\ UNCHANGED <<entry, known, hasJid>>
    /\ UNCHANGED <<synced, answerTo, mark, threadVars, greetings, dialogs, restarts, met,
                   skipped>>

-----------------------------------------------------------------------------
\* Connected or OfflineSyncCompleted.
Synced ==
    /\ ~synced
    /\ synced' = TRUE
    /\ UNCHANGED <<entry, known, hasJid, preload, answerTo, mark, threadVars,
                   history>>

\* The process ends with whatever is under way; the new bot knows what Redis does.
Restart ==
    /\ restarts < MaxRestarts
    /\ restarts' = restarts + 1
    /\ Fault(\E m \in Msgs : Running(m) \/ Greeting(m), "crash")
    /\ entry' = NoInfo
    /\ known' = [i \in Infos |-> FALSE]
    /\ hasJid' = [i \in Infos |-> FALSE]
    /\ preload' = "run" /\ synced' = FALSE
    /\ answerTo' = {} /\ met' = FALSE
    /\ pc' = [m \in Msgs |-> IF Running(m) THEN "done" ELSE pc[m]]
    /\ greeter' = [m \in Msgs |-> IF Greeting(m) THEN "over" ELSE greeter[m]]
    /\ UNCHANGED <<mark, info, greetings, dialogs, skipped>>

HandleMessage(m) ==
    \/ Receive(m) \/ Filter(m) \/ Lookup(m) \/ Decide(m)
    \/ Channels(m) \/ Know(m) \/ Process(m)

SendFirstContactMessage(m) ==
    GreetCheck(m) \/ Greet(m) \/ GreetMark(m) \/ GreetKnow(m)

Next ==
    \/ \E m \in Msgs : HandleMessage(m) \/ SendFirstContactMessage(m)
    \/ EnsureUserChannels \/ Preload \/ Synced \/ Restart

Spec == Init /\ [][Next]_vars

-----------------------------------------------------------------------------
TypeOK ==
    /\ entry \in Infos \cup {NoInfo}
    /\ known \in [Infos -> BOOLEAN] /\ hasJid \in [Infos -> BOOLEAN]
    /\ preload \in {"run", "over"} /\ synced \in BOOLEAN /\ mark \in BOOLEAN
    /\ answerTo \subseteq {"sender", "number"}
    /\ pc \in [Msgs -> {"new", "sync", "lookup", "decide", "channels", "know",
                        "process", "done"}]
    /\ info \in [Msgs -> Infos \cup {NoInfo}]
    /\ greeter \in [Msgs -> {"off", "check", "ask", "mark", "know", "over"}]
    /\ greetings \in Nat /\ dialogs \in Nat /\ restarts \in 0..MaxRestarts
    /\ met \in BOOLEAN /\ skipped \in BOOLEAN /\ faults \subseteq Faults
    /\ \A m \in Msgs : /\ pc[m] \in {"decide", "channels", "know"} => info[m] # NoInfo
                       /\ Greeting(m) => entry # NoInfo

\* Answers go to the address that the contact has written from, never to one made up
\* from a record that was only preloaded or is missing (the promise at
\* bot_message.go:100), if the preload is over when the first message is looked up and
\* no call comes before that message: whoever makes channels then finds a record that
\* a message has completed.
AnswersAddressed == faults \cap {"preload", "call"} = {} => "number" \notin answerTo

\* A contact is announced once, restarts included: never twice, and, when its first
\* message has been handled and no announcement is under way, not less, unless the
\* handler was faster than the goroutine that announces, which then gives up
\* (bot_responder.go:35, against the comment at bot_message.go:124).  Failures, and
\* messages that overlap, may announce it again or not at all.
GreetedOnce ==
    faults \cap {"overlap", "init", "redis", "crash"} = {} =>
        /\ greetings <= 1
        /\ dialogs >= 1 => greetings = 1 \/ skipped \/ \E m \in Msgs : Greeting(m)

\* One message of a contact at most is taken for the one that opens its dialog in the
\* CRM (bot_message.go:141), restarts included, as long as the preload is in time and
\* Redis has kept the mark.  Whether the CRM hears of it depends on what processMessage
\* does next, which is left out here.
OneNewDialog ==
    faults \cap {"overlap", "preload", "redis", "crash"} = {} => dialogs <= 1
=============================================================================
