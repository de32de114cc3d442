------------------------------ MODULE Shutdown ------------------------------
(***************************************************************************)
(* The end of the process (cmd/main.go, internal/app/app.go, User.StopBot  *)
(* in internal/whatsapp/whatsapp.go, internal/db/db.go).  A signal cancels *)
(* the context all goroutines share.  One of them stops the bots, then the *)
(* modules, and closes DoneCh; a ticker closes it after five seconds in    *)
(* any case; HandlerClose waits for DoneCh, closes the database and ends   *)
(* main.                                                                   *)
(*                                                                         *)
(* A definition marked "slip" is no part of the specification: it is what  *)
(* the definition after it would be with a plausible mistake in the code,  *)
(* kept to see that the properties would notice.                           *)
(***************************************************************************)
EXTENDS Naturals, FiniteSets

CONSTANTS
    Bots,      \* the bots of all users
    Modules,   \* Start, CRM, Mod and End
    Listener   \* the notification listener, which reports on the same bus

ASSUME ListenerAssumption == Listener \notin Modules

VARIABLES
    signalled,   \* the context is cancelled
    table,       \* uBot
    bot,         \* how far each bot is from its end
    stopping,    \* the goroutines of StopBot that stop one bot each
    due,         \* the bots in uBot when Range began
    visited,     \* the bots that Range has come to
    stopper,     \* the goroutine of StopBot that waits for them
    app,         \* the goroutine of Run that shuts down
    timedOut,    \* history: StopBot has not waited for the bots
    bus,         \* the producers of the bus, which runs them
    emergency,   \* the ticker of Run
    doneCh,      \* DoneCh is closed
    database,    \* the database, as HandlerClose leaves it
    main,        \* main
    panicked     \* a closed channel has been closed

botVars == <<table, bot, stopping, due, visited, stopper>>
appVars == <<app, timedOut, bus, emergency>>
endVars == <<doneCh, database, main, panicked>>
vars == <<signalled, botVars, appVars, endVars>>

Producers == Modules \cup {Listener}

-----------------------------------------------------------------------------
Init ==
    /\ signalled = FALSE
    /\ table = {} /\ bot = [b \in Bots |-> "off"]
    /\ stopping = {} /\ due = {} /\ visited = {} /\ stopper = "off"
    /\ app = "wait" /\ timedOut = FALSE
    /\ bus = [p \in Producers |-> IF p = Listener THEN "run" ELSE "off"]
    /\ emergency = "off"
    /\ doneCh = FALSE /\ database = "open" /\ main = "run" /\ panicked = FALSE

Signal ==
    /\ ~signalled
    /\ signalled' = TRUE
    /\ UNCHANGED <<botVars, appVars, endVars>>

-----------------------------------------------------------------------------
(* The bots.  Until the process ends they come and go by StartBots (which  *)
(* is taken to succeed, since its failure ends the process) and by         *)
(* requests, which the shutdown does not refuse.                           *)

StartUserBot(b) ==
    /\ bot[b] = "off"
    /\ bot' = [bot EXCEPT ![b] = "run"] /\ table' = table \cup {b}
    /\ UNCHANGED <<signalled, stopping, due, visited, stopper, appVars, endVars>>

\* A request stops a bot: it sets the flag, and later deletes the bot.
RequestStop(b) ==
    /\ \/ bot[b] = "run" /\ bot' = [bot EXCEPT ![b] = "flagged"] /\ UNCHANGED table
       \/ /\ bot[b] = "flagged"
          /\ bot' = [bot EXCEPT ![b] = "stopped"] /\ table' = table \ {b}
    /\ UNCHANGED <<signalled, stopping, due, visited, stopper, appVars, endVars>>

\* Range starts a goroutine for every bot that it comes to; it misses none that
\* has been in the table all the time.
Visit(b) ==
    /\ stopper = "range" /\ b \in table \ visited
    /\ visited' = visited \cup {b} /\ stopping' = stopping \cup {b}
    /\ UNCHANGED <<signalled, table, bot, due, stopper, appVars, endVars>>

\* StopUserBot: CompareAndSwap, then the end of the bot.  The goroutine returns at
\* once if a request has set the flag, finished with the bot or not.
StopOne(b) ==
    /\ b \in stopping
    /\ \/ /\ bot[b] = "run" /\ bot' = [bot EXCEPT ![b] = "ending"]
          /\ UNCHANGED stopping
       \/ /\ bot[b] = "ending" /\ bot' = [bot EXCEPT ![b] = "stopped"]
          /\ stopping' = stopping \ {b}
       \/ /\ bot[b] \in {"flagged", "stopped"} /\ UNCHANGED bot
          /\ stopping' = stopping \ {b}
    /\ UNCHANGED <<signalled, table, due, visited, stopper, appVars, endVars>>

\* Range, wg.Wait and close(done), after which the contexts are saved.
StopperStep ==
    /\ \/ stopper = "start" /\ stopper' = "range" /\ due' = table
       \/ /\ UNCHANGED due
          /\ \/ /\ stopper = "range" /\ due \cap table \subseteq visited
                /\ stopper' = "wait"
             \/ stopper = "wait" /\ stopping = {} /\ stopper' = "save"
             \/ stopper = "save" /\ stopper' = "over"
    /\ UNCHANGED <<signalled, table, bot, stopping, visited, appVars, endVars>>

-----------------------------------------------------------------------------
(* The goroutine of Run.                                                   *)

\* Slip: the time limit of StopBot is taken to be enough.
BeginUnlimited ==
    /\ app = "wait" /\ signalled
    /\ stopper' = "start" /\ app' = "stop"
    /\ UNCHANGED <<signalled, table, bot, stopping, due, visited, timedOut, bus,
                   emergency, endVars>>

\* The ticker is started, then StopBot is called.
Begin ==
    /\ app = "wait" /\ signalled
    /\ emergency' = "armed" /\ stopper' = "start" /\ app' = "stop"
    /\ UNCHANGED <<signalled, table, bot, stopping, due, visited, timedOut, bus,
                   endVars>>

\* StopBot returns when done is closed, or five seconds after its start.
StopBotReturns ==
    /\ app = "stop"
    /\ app' = "modules"
    /\ \/ stopper \in {"save", "over"} /\ UNCHANGED timedOut
       \/ timedOut' = TRUE
    /\ UNCHANGED <<signalled, botVars, bus, emergency, endVars>>

ShutModules ==
    /\ app = "modules"
    /\ bus' = [p \in Producers |-> IF p \in Modules THEN "run" ELSE bus[p]]
    /\ app' = "drain"
    /\ UNCHANGED <<signalled, botVars, timedOut, emergency, endVars>>

\* A module ends its work with the database; the listener ends with the context.
ProducerEnds(p) ==
    /\ bus[p] = "run" /\ (p = Listener => signalled)
    /\ bus' = [bus EXCEPT ![p] = "over"]
    /\ UNCHANGED <<signalled, botVars, app, timedOut, emergency, endVars>>

\* Slip: the modules have been started and are taken to be done.
DrainNoWait ==
    /\ app = "drain"
    /\ app' = "close"
    /\ UNCHANGED <<signalled, botVars, timedOut, bus, emergency, endVars>>

\* bus.WaitAndClose.
Drain ==
    /\ app = "drain" /\ \A p \in Producers : bus[p] = "over"
    /\ app' = "close"
    /\ UNCHANGED <<signalled, botVars, timedOut, bus, emergency, endVars>>

\* Slip: DoneCh is closed without sync.Once.
CloseDoneChAgain ==
    /\ doneCh' = TRUE
    /\ panicked' = doneCh
    /\ UNCHANGED <<database, main>>

CloseDoneCh == doneCh' = TRUE /\ UNCHANGED <<database, main, panicked>>

CloseDatabase ==
    /\ app = "close"
    /\ CloseDoneCh /\ app' = "over"
    /\ UNCHANGED <<signalled, botVars, timedOut, bus, emergency>>

Emergency ==
    /\ emergency = "armed"
    /\ CloseDoneCh /\ emergency' = "over"
    /\ UNCHANGED <<signalled, botVars, app, timedOut, bus>>

-----------------------------------------------------------------------------
\* HandlerClose: DoneCh, d.Close and close(d.Exit), upon which main returns.
HandlerClose ==
    /\ \/ /\ signalled /\ doneCh /\ database = "open"
          /\ database' = "closed" /\ UNCHANGED main
       \/ database = "closed" /\ main' = "exited" /\ UNCHANGED database
    /\ UNCHANGED <<signalled, botVars, appVars, doneCh, panicked>>

-----------------------------------------------------------------------------
App == Begin \/ StopBotReturns \/ ShutModules \/ Drain \/ CloseDatabase

\* With main everything ends.
Next ==
    /\ main = "run"
    /\ \/ Signal \/ App \/ Emergency \/ HandlerClose \/ StopperStep
       \/ \E b \in Bots : StartUserBot(b) \/ RequestStop(b) \/ Visit(b) \/ StopOne(b)
       \/ \E p \in Producers : ProducerEnds(p)

Spec == Init /\ [][Next]_vars

\* The goroutine of Run and HandlerClose run when they can, and the ticker fires.
\* Nobody promises that the bots or the modules come to an end.
Alive(A) == main = "run" /\ A
FairSpec ==
    /\ Spec
    /\ WF_vars(Alive(App))
    /\ WF_vars(Alive(Emergency)) /\ WF_vars(Alive(HandlerClose))

-----------------------------------------------------------------------------
\* The types; and DoneCh is closed once, although two goroutines close it.
TypeOK ==
    /\ signalled \in BOOLEAN
    /\ table \subseteq Bots
    /\ bot \in [Bots -> {"off", "run", "flagged", "ending", "stopped"}]
    /\ stopping \subseteq visited /\ visited \subseteq Bots /\ due \subseteq Bots
    /\ stopper \in {"off", "start", "range", "wait", "save", "over"}
    /\ app \in {"wait", "stop", "modules", "drain", "close", "over"}
    /\ timedOut \in BOOLEAN
    /\ bus \in [Producers -> {"off", "run", "over"}]
    /\ emergency \in {"off", "armed", "over"}
    /\ doneCh \in BOOLEAN
    /\ database \in {"open", "closed"} /\ main \in {"run", "exited"}
    /\ panicked = FALSE

\* The modules shut down when the bots that StopBot has found are stopped, or left to
\* the request that is stopping them, and the database closes when the modules have;
\* the two time limits are the only exceptions (app.go:192 to 204).
ShutdownOrder ==
    /\ app \notin {"wait", "stop"} /\ ~timedOut =>
          \A b \in visited : bot[b] \in {"flagged", "stopped"}
    /\ database = "closed" /\ emergency # "over" =>
          \A p \in Producers : bus[p] = "over"

\* After a signal the process ends, whatever bots and modules do.
ProcessEnds == signalled ~> (main = "exited")

-----------------------------------------------------------------------------
(* What comments say.                                                      *)

\* whatsapp.go:309: the data are saved at the end; a shutdown that no time limit
\* has cut short has saved them.
ContextsSaved ==
    main = "exited" /\ ~timedOut /\ emergency # "over" => stopper = "over"
=============================================================================
