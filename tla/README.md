# Formal models of the WhatsApp bot service

TLA+ models, model-checking runs and machine-checked proofs for the service in
this repository: a Go process that runs one WhatsApp client ("bot") per user,
answers messages through an AI core, conducts voice calls, and is controlled
over HTTP, WebSockets and gRPC.

* `*.tla` without a prefix are models; `*Proofs.tla` hold the theorems about
  them; `MC*.tla` only add what TLC needs (symmetry sets, constant functions).
* A run is an `MC*.tla` module with a `.cfg`:
  `tlc -config EventHub.cfg MCEventHub`. A proof module is checked with
  `tlapm EventHubProofs.tla`.
* `PROJECT.json` maps every definition to the lines it models and lists the
  runs, the mutants, the hazards, the findings and the theorems.
* A definition marked *slip* is not part of a specification. It is the
  definition after it with a plausible mistake, and shows which property would
  notice that mistake. Every checked property has one.

## 1. Inventory

Paths are below `src/internal/whatsapp/` unless they start with `src/`.

| Component | State | Operations | What is hard | What makes it correct |
|---|---|---|---|---|
| Event hub, `calls/events.go`, with the stream RPC, `src/internal/delivery/rpc/server.go` | sequence, replay window, subscriber channels, closed | publish, subscribe, unsubscribe, close; receive loop | blocking sends under the mutex; three parties close channels | no panic, no block, ordered and gapless streams, streams end |
| Call manager, `calls/calls.go` | table of active calls; per call ctx, ready, respID, once | incoming, outgoing, hangup, realtime start, failure, watchdog, cleanup, Stop | seven threads clean up the same call; callbacks before and after registration; stop in the middle | one end per call, nothing dropped alive, nothing silent unwatched, no leaked session, everybody returns |
| Bot and call wiring, `bot_calls.go`, `user_calls.go` | settings of the bot | host checks, delegation | the bot is replaced while an RPC uses it | calls go to the bot in the table |
| Bot lifecycle, `user_bots.go`, `bot_lifecycle.go` | `uBot`, `stopped`, context, client, channel flag | start, stop, restart, boot, connect | check-then-act without locks; a connect goroutine that outlives the stop | one client in service, reachable for a stop; stops finish |
| Re-authorization, `bot_event.go`, `reauth.go`, `bot_auth.go` | the same | triggerReauth, runReauth, resetSession, PrepareReauth | runs beside requests; steps fail one by one | a lost session ends service in spite of failures |
| QR authorization, `auth/flow.go`, `user_auth.go` | temporary bot in `uBot` | EnsureAuthBot, AuthenticateWithQR, DeleteBot | time limits, abandoned attempts, deletes by user | replaces the bot, loses none |
| Authorization registry and WebSocket, `auth/registry.go`, `handlers/` | sessions by id | Add, Remove, CancelUser; socket loop | cancel and add are two steps; the old flow goes on | a new connection replaces the one before, its browser gets the verdict |
| Message pipeline, `bot_message.go`, `messages/` | offline sync, known contacts | handleMessage, processMessage, processVoiceMessage | concurrent first messages, full channels | one greeting, no message lost or doubled |
| Channels and listener, `bot_channels.go`, `bot_typing.go` | user channels, StartCh (100), typing cancels | initialize, start listener, answer | partial failure when StartCh is full | a channel that exists is served |
| Responder and cache, `bot_responder.go`, `responder/` | known responders, Redis | preload, restore, store | preload races with new contacts | known contacts stay known |
| Operator mode, `whatsapp.go` | dialogs under an operator | set, disable | flag read before, used after | answers go to one of bot and operator |
| Media, `bot_media.go` | none | send, upload with retries | retries | mostly I/O |
| Call audio, `calls/audio.go` | queue of 8 frames, closed | Push, ReadFrame, Close, resampling | blocking Push against Close; index bounds | never blocks past the end of the call |
| Master key cache, `master_key.go` | keys with expiry | get, invalidate, decrypt | fetch and invalidation race | a stale key is used at most once |
| Contact stream, `contacts/contacts.go` | a channel | Stream | producer outlives consumer | the producer ends |
| Device store, `devicestore/` | device, settings | SaveJSON, parse | SaveJSON enables the channel | the flag says what happened last |
| Application, `src/cmd`, `src/internal/app`, `whatsapp.go` StopBot, `src/internal/db/db.go` | signal, done channels, bus, ticker | Run, StopBot, HandlerClose | two time limits, two closers of one channel, a save nobody waits for | bots, then modules, then database; the process ends |
| Database, `src/internal/db`, `src/internal/repository` | rows | queries | I/O | — |
| HTTP server and metrics, generated gRPC code | — | — | — | — |

How they interact. The gRPC server calls the call manager of the bot it finds in
`uBot` and reads the hub of a call. The call manager calls meowcaller (the
phone) and the core Start (realtime sessions) and is called back by both. The
lifecycle stops the calls of a bot before its client. WhatsApp events reach the
bot on goroutines of the client, and some of them start a re-authorization,
which runs beside HTTP requests that start, stop and restart the same bot.
A message is handled on a goroutine of the client: it looks up the responder,
makes the user's channels, offers them to the core through StartCh, and puts
itself into RxCh; a listener sends the answers. A browser that authorizes a user
or reads contacts has a handler and one or more goroutines that send to it
through a bounded channel. On a signal the application stops the bots, then the
modules, then the database, under two time limits.
Nothing but `sync.Map`, atomics, `sync.Once` and the hub's mutex synchronizes
all this, so a check and the act that relies on it are nearly always two steps.

`PROJECT.json` lists the hazards line by line.

## 2. The models

### EventFeed and EventHub

`EventFeed` is what a subscriber may rely on, without buffers: numbers in
increasing order, each at most once, none missing unless the feed has declared
the subscriber lossy, and a normal end only after everything was handed over.

`EventHub` models every method of `eventHub` and the handler that serves a
stream. A method that holds `h.mu` throughout is one action; `subscribe` is
several (`SubscribeBegin`, one `SubscribeReplay` per iteration, `SubscribeEnd`),
because it sends on the channel under the mutex and would block there if the
channel were full; nobody else enters the hub meanwhile (`Locked`). A Go channel
is everything sent on it plus the number of values received. `panicked` records
a send on, or a close of, a closed channel. `first` and `lagged` are history:
the number a stream is entitled to start with, and whether a full buffer has
dropped an event. `FeedSpec` is the refinement: `EventHub` implements
`EventFeed` under the mapping at the end of the module.

### CallLife and CallManager

`CallLife` is the life of the calls of a bot without threads, contexts or timers: a
call is listed once, given up, told, closed and left, in this order and never back;
who sweeps the list, to offer another call or to stop the bot, passes when all the
calls it noted have left, and an outgoing call is listed after its sweep.

`CallManager` has the threads of every call and what they share. `starter` is the goroutine of
`handleIncoming` or the RPC thread in `InitiateOutgoing`; while that thread is
"inside" `startRealtime` or `failRealtime`, which it calls itself, `realtime` says
where, and its return is the end of that call. `realtime` is `startRealtime`,
`failRealtime` and the event loop; `watch` is the watchdog with `endTimedOut`; `rpc` is
`HangupCall`; `once` is `session.once` and the progress of the cleanup in it; `active`
is the table; `phone` and `core` are what WhatsApp and the core hold for the call. The
look at `ready`, the look at the table, the hangup and the cleanup are steps of their
own wherever one thread does several of them: the watchdog (`SetupTimer`,
`TimeoutLookup`, `TimeoutHangup`, `TimeoutCleanup`), `HangupCall` (`HangupAttempt`,
`HangupCleanup`), a replacement (`ReplaceVisit`, `ReplaceHangup`, `ReplaceCleanup`,
`ReplaceJoin`, one call after the other) and `failRealtime` (`FailCleanup`,
`FailHangup`). The thread that stops the bot (`stopPc`) follows
`stopUserBot`/`StopUserBot` (`StopKind = "stop"`: flag, calls, cancel, disconnect) or
`resetSession` (`"reset"`: calls, disconnect, flag, cancel).

What is assumed of code outside the repository: the core ends a session when its
context, the bot's, is cancelled, and `CloseSession` closes what runs for that contact.
Of meowcaller nothing is assumed but that its calls return: it may report the end of a
call that is over through `OnEnd`, once, several times or never. The `Range` of
`Manager.Stop`, unlike that of a replacement, is modelled side by side for all calls
instead of one after the other, which allows more interleavings than the code has. A
range may miss a call that is registered while it runs, and visits those that were
there when it began. Call ids are used once. What a call publishes is left to
`EventHub`: no thread of the manager waits for it.

`LifeSpec` is the refinement: under the mapping at the end of the module
(`session.once` and the table for the life of a call, the `Range` of
`InitiateOutgoing` and of `Stop` for the sweeps) `CallManager` implements `CallLife`.

Two traits of the code that the model makes visible: an outgoing call is marked
ready before it has media, so the setup timer protects incoming calls only; and
the second `select` of the watchdog is not in a loop, so its first tick (15 s
after the 45 s of the setup timer) ends it, and the idle limit of two minutes
and the lifetime of two hours are never applied (`IdleTick` has the three
constants as parameters).

### BotLifecycle

The bots of one user. `table` is the user's entry in `uBot`, `enabled` the flag
in the database. A request is a thread with a program counter whose steps lie
between two accesses to the table, the database or a client; `op` is `start`,
`stop`, `restart`, `retire` (a restart that found the user disabled), `auth`
(the whole of `AuthenticateWithQR`, which ends in `StartUserBot`) or `boot`
(`StartBots`, which runs before requests are served). Bots are pointers and are
never reused. Every bot has a goroutine that connects it (`connect`), a pending
Connected event (`saving`), a run of `runReauth` (`reauth`) and a client that
loses and regains its connection or is logged out. A client replaced by
`PrepareReauth` lacks the handler that saves the session (`rebuilt`).

Bounds are named constants: `MaxConcurrent` requests at the same time, each
request used once, one run of `runReauth` per bot at a time.

### FirstContact

What a bot knows of one contact. A record (`responderInfo`) is named after the
handler, or the preload, that made it; `entry` is the record in `b.responders`,
`known` and `hasJid` are its fields, `mark` is what Redis keeps and the only thing
that survives `Restart`. `pc` is `handleMessage` from `offlineMsgSync` to
`processMessage`, `greeter` the goroutine `sendFirstContactMessage` that it starts,
`preload` the goroutine `preloadFirstInteraction`. `EnsureUserChannels` is the call
that finds no channels and has them made, which starts a listener for whatever the
record says by then. Records are pointers: a handler
goes on with the one it has looked up although the table may hold another by now.
`faults` is history: which of overlap, late preload, a call before the first message,
failed channels, Redis error and crash has happened; every property names the ones it
cannot do without. `skipped` is history, too: a goroutine has found the contact known
before it could announce it.

### Channels

The channels of one contact between bot and core, with the access to them as the
unit of a step. Threads are handlers of messages (`processMessage`) and calls
(`startRealtime`: `Ensure`, `EnsureAgain`, `StartCallSession`, which starts a session of
the call's own with the channels it has found or has had made). All go through
`initUserChannels`: `Dialog`, `Channel` (open ones are used), `Clean` (closed ones are
forgotten), `Make` (`GetOrSetRespGPT`), `Listen` and `Offer` (StartCh). `Listen` lets the
error for empty data through as the code does: then there are no channels, no listener,
and the offer is made all the same; nor is there a listener for a contact whose number
makes no address (`Addressless`). `back` is where a thread goes on
when it returns without error. `Send` puts a message into RxCh or initializes once
more; `Resend` is the second attempt. The core starts a session for channels it has
been given (`session`) or that a call hands it (`realtime`), consumes messages, and ends
sessions at any time; a session for messages closes the channels when it ends, that of
a call may. `Leftover` are the channels a previous bot may have left, with or without
a session (`old` says whether it has). The number of threads that run side by side is
bounded by `MaxHandlers`; that handlers may overlap is assumed of the WhatsApp library.

Three histories say what the properties except: `raced` (two threads have been in
`initUserChannels` at the same time), `refused` (StartCh was full) and `strays` (channels
that `GetOrSetRespGPT` has made for a call, `calls.go:379`, because the dialog had been
forgotten after `GetCh`; the call uses the old ones and nobody offers the new ones).
Assumed of code outside the repository: `GetOrSetRespGPT` makes channels only if there
are none, and the channels it makes are new.

### AuthFlow

The QR authorization as the browser sees it: the WebSocket handler, the goroutine in
which `AuthenticateWithQR` runs, the goroutine that checks the login three seconds
after the scan, the channel of states between them (`safeStateSend` drops what finds
it full), and the registry. `CancelUser` and `Add` are two steps, and the result of
`Add` is not looked at; `told` and `refused` record whom `CancelUser` has found and whom
`Add` has refused. What the authorization does to bot, client and database is in
`BotLifecycle`.

### ContactsStream

The handler, the goroutine that runs `Stream`, and the two goroutines that read
contacts and groups and send on the same channel, which blocks when it is full.
Contents are abstracted to counts; a message is a `status`, a `progress` or an outcome
(`result`, `completed`, `error`). `Verdict` is the decision after `wg.Wait`, in the
order of the code. The contact loop reports every contact, because the counter it
compares with is the same number (the comment at `contacts.go:157` says every tenth).

### Shutdown

The end of the process: the signal, the goroutine of `Run`, `StopBot` with one
goroutine per bot, the bus with the modules and the notification listener, the ticker
of five seconds, `HandlerClose`, `main`. Requests start and stop bots meanwhile, for
nothing refuses them; `visited` are the bots that `Range` has come to. `timedOut`
records that `StopBot` has stopped waiting. Whether bots and modules ever end is open.

## 3. Runs

| Run | Instance | Shows |
|---|---|---|
| `EventHub` | 2 subscribers, window and buffers of 2, 3 events | safety of the hub, refinement of `EventFeed`, no stream waits for what cannot come, every stream and goroutine ends with the call |
| `CallManager` | an incoming and an outgoing call, not stopped (1.3 million states) | refinement of `CallLife`, replacement included: one end per call, told before its streams close; nothing dropped alive, every call without media watched |
| `CallManagerStop` | one call of either direction, a stop, one `HangupCall` at a time | a stop ends what it finds and leaves no session open; nothing dropped alive; calls without media leave the table, whatever is reported; starters and stop return |
| `BotLifecycle` | 2 requests, overlapping or not, 2 bots | stops finish; without overlap no bot in service is lost or doubled; a lost session ends service although the database fails |
| `FirstContact` | 3 messages, 2 at a time, calls, 1 restart, symmetry (7.6 million states) | answers are addressed to the sender; one announcement, neither two nor none, and one new dialog, restarts included |
| `Channels` | 2 messages, a call, 2 at a time, 2 pairs of channels, RxCh of 1 (1 million states) | no channels offered before they are listened to; served once by messages if no two threads make them at the same time, and then what is sent has a session or an offer that leads to one, and is served |
| `AuthFlow` | 2 connections, 1 code, channel of 4 | a new connection replaces the one before, but for the race at `Add`; the outcome is never lost, and is in the queue when the authorization is over; every connection ends |
| `ContactsStream` | 3 contacts, 6 groups, channel of 2 | the stream ends, with a result or with errors; an empty result is true |
| `Shutdown` | 2 bots, 2 modules and the listener | order of the shutdown but for the time limits; the process ends |

Why the bounds are enough. Subscribers do not touch each other except through
the mutex, and two of them with a window of two cover a replay and a live
publish side by side, a lag and a trimmed window. Two calls are what replacement
needs; one call with all its threads is what a stop meets. `HangupCall` is left to the
second of the two runs (`MaxHangups` is 0 in the first), and no incoming call is made
`Silent`, that is, without media by fiat; with a silent incoming call and a hangup the
first has been checked as well, and the second for a reset instead of a stop. Two requests
with two bots are what an overlap needs; the second bot is the one a restart or
an authorization creates; serial runs with three requests were checked as well (4
million states). Three messages let one come before, during and after a restart, and
let two overlap. One place in RxCh makes it full with the second message; the pairs
of channels are one that may be left over, for a contact without an address, and the
one that replaces it. The
channel of states is as small as the assumption of `AuthFlow` allows; the code has
10, which is enough for seven codes. Six groups give a progress message in the middle
(the fifth) and at the end, and
the channel of two fills up, which the 100 of the code does too when more is
found. For all of these but the liveness properties, the proofs cover every size.

Some invariants are proved and checked by no run of their own: `StreamOrdered` and
`EndedOnce`, which `FeedSpec` and `LifeSpec` say for those outside; `ReplacedCallsEnded`,
which follows from `LifeSpec` and `DroppedCallsHungUp`; `ReplayWindow`, from which
`ReplayNeverBlocks` follows; and the types of `EventHub`, `AuthFlow` and
`ContactsStream`. TLC has confirmed each of them on the instance of its module, and
`LifeSpec` for a stop and a reset as well.

Deadlock checking is off everywhere because these systems may come to rest:
calls end, requests are answered, streams close, the process exits.

`ServiceReachable` and `SerialOneClient` hold under a condition the code does
not enforce, so it is part of them: requests of the user do not overlap, and a
new bot gets the time to make its first connection (`overlapped` records the
opposite). The properties thus say nothing of the races at `user_bots.go:231` and `246`
themselves. `ServedOnce`, `SentHasServer` and `SentIsServed` hold if no two threads are in
`initUserChannels` at the same time, the last two also only if StartCh has never been full and
for channels that are no strays; `ReplacedIsTold` for connections that `Add` has not
refused; the properties of `FirstContact` without the faults they name. What happens
otherwise is under *Observations*.

### Findings

| Run | What the code says | What happens |
|---|---|---|
| `OneActiveCall` | `calls.go:276` one active call per bot | two outgoing calls pass each other, and incoming calls are not checked at all |
| `EndedCallHasNoSession` | `calls.go:63` respID says that the session runs | a cleanup between `StartSession` (398) and the assignment (410) leaves the session open |
| `ContextsSaved` | `whatsapp.go:309` the data are saved at the end | `done` is closed at 307, before the save, which nobody awaits: the process may end first |

### Observations

What the models make visible beside the findings. Most of it no line of the repository
contradicts; where one does, it is quoted, and the property that covers the rest of the
behaviour excepts it:

* Two starts that overlap (`user_bots.go:246` and `295`) leave two clients in service,
  one of them out of reach. A stop of a bot that is already marked as stopped returns
  no error and leaves it in the table, where it makes every later start fail. A stop
  before the first connection of a new bot is followed by that connection.
* When StartCh is full (`bot_channels.go:224`) the channels stay, nobody serves them,
  and the next message believes in them. Channels left by a previous bot have no
  listener of the new one. Two threads that make channels at the same time listen to
  them and offer them twice. When the channels of a contact are forgotten between
  `GetCh` and `GetOrSetRespGPT` of a call (`calls.go:367`, `379`), new ones are made that
  nobody offers, and the next message believes in them.
* An error for empty data is let through (`bot_channels.go:211`): StartCh then gets a
  request without channels, and nobody listens.
* A call that comes before the first message of a contact starts a listener with an
  address made up from the number (`calls.go:369`, `bot_channels.go:69`), although
  `bot_message.go:100` speaks of restoring the address before answers are sent.
* A call that is over before its `OnEnd` is set, or whose end meowcaller never reports,
  stays in the table once it is ready, until a stop or a replacement: the watchdog has
  given up after its first tick.
* The announcement of a new contact is skipped when the handler marks the contact as
  known before the goroutine looks (`bot_responder.go:35`), against the comment at
  `bot_message.go:124` that a new contact is announced; when the channels fail, the
  goroutine marks it instead, and the CRM is never told of the new dialog. A preload
  that is late replaces records that are in use.
* A session that is cancelled by a newer connection gets the state `cancelled`, but
  its authorization goes on. When two connections have both passed `CancelUser`, `Add`
  refuses the later and its result is ignored (`handlers/handler.go:82`): both sockets are
  served and neither is told of the other, although `auth/registry.go:41` says that a new
  connection replaces the one before it.
* A browser that leaves a contact stream leaves its goroutines blocked on the full
  channel for ever. `hasError` (`handler.go:214`) is written and read by two goroutines
  without synchronization; it only decides a log line.
* During the shutdown a bot that a request is stopping is not awaited, requests are
  not refused, and `GracefulStop` of the gRPC server is awaited by nobody.

### Fairness

Only code that is under way is fair: goroutines that can run do run, timers
fire, calls into meowcaller, the core and the database return (weak fairness per
thread). Nothing forces a call, a publish, a hangup, a request, a cancellation
or anything WhatsApp does. In `EventHub` the handler is fair because a client
either reads or goes away, and gRPC then ends `Send`. `BotLifecycle` is fair to the
steps of a re-authorization only. In `AuthFlow` the steps of the authorization are
fair because its context ends them after five minutes, in `ContactsStream` for the same
reason; a new code and a new connection are not. In `Channels` the core is fair to the
channels it is given, and nothing else ends a session by itself. In `CallManager` no end
is ever reported by fairness: `RemoteEnd` and `OnEnd` belong to the environment. In
`Shutdown` only the goroutine of `Run`, its ticker and
`HandlerClose` are fair: the process must end although bots and modules do not.

## 4. Proofs

For every value of the constants, checked by TLAPS from nothing but the named
assumptions (`Limit`, `Capacity`, `RxCap` positive; the capacity of the channel of
states three more than the codes; `NoBot`, `NoCh`, `NoInfo` none of the things they
stand in for; the directions and the kind of stop among those that exist; bounds
natural numbers).

| Module | Theorems |
|---|---|
| `EventHubProofs` | `TypeCorrect`, `NeverPanics`, `WindowCorrect`, `ReplayNonBlocking`, `StreamsOrdered`, `StreamsComplete`, `NoneStranded`, `ImplementsFeed` |
| `CallManagerProofs` | `TypeCorrect`, `EndsOnce`, `DropsHungUp`, `WatchesUnready`, `ReplacesEnded`, `StopsCalls`, `ImplementsLife` |
| `BotLifecycleProofs` | `TypeCorrect`, `StopsFinish`, `ServiceIsReachable`, `OneClient` |
| `FirstContactProofs` | `TypeCorrect`, `Addressed`, `AnnouncedOnce`, `DialogOnce` |
| `ChannelsProofs` | `TypeCorrect`, `ListenedTo`, `OnceServed`, `WaitsForServer` |
| `AuthFlowProofs` | `TypeCorrect`, `OneIsReplaced`, `OutcomeKept`, `OutcomeIsThere` |
| `ContactsStreamProofs` | `TypeCorrect`, `EmptyIsTrue`, `OutcomeEnds` |
| `ShutdownProofs` | `TypeCorrect`, `ShutsInOrder` |

*EventHub.* The invariant ties together who owns a channel (`RegistrationInv`:
registered from `subscribe` until exactly one of `unsubscribe` and `close`
removes it), who owns the mutex (`MutexInv`), how far the replay loop has copied
the window (`ReplayInv`) and what a stream contains (`StreamInv`). None of the
properties is inductive alone: that the replay cannot block follows from the
shape of the window, which `TrimAppend` keeps; that a stream has no hole at the
switch to live events follows from the loop having copied exactly the window
when the channel is registered. `NothingStranded` needs, beside these, that whoever
reads without being registered has a channel that is closed, and that a handler which
has returned has had its context ended (`Attended`). `ImplementsFeed` shows that initial states map
to initial states and every step to a step of `EventFeed` or a stutter.

*CallManager.* What the properties say of a finished cleanup is strengthened to
what holds while one is under way: the number of `call_ended` events follows
`session.once` (`Counted`), a call is in the table before anybody can clean it
up and never afterwards (`Tabled`), whoever wants a live call cleaned up has
hung it up, will, or never does, and so have the threads that are between hangup and
cleanup (`Doomed`, `Visiting`), replaced and stopped calls are
cleaned up for good (`Replaced`, `Stopping`), and what has a watchdog is in the table or
has left it by a cleanup (`Registered`). `ImplementsLife`
maps every action to at most one step of `CallLife`: the sweep of a replacement or a
stop passes only because all that it noted is cleaned up for good by then, and the
only way out of the table is the last of the steps of the end.

*BotLifecycle.* `StoppedIsFinished` is inductive together with the fact that a
request which is about to end a bot has one (part of `TypeOK`) and that a bot
which is not created yet is untouched (`Untouched`). `ServiceReachable` and
`SerialOneClient` share an invariant of requests that do not overlap (`Serial`): one
request runs (`Alone`), no new bot is left with its first connection open when a
request arrives (`Settled`), a bot that may come into service, which is more than one
that is in it, is the one in the table or the one about to be stored (`Stored`), there
is none while a request is about to create one and no other while one is about to be
stored (`NoneElse`), and what a request has loaded
from the table is still there (`Held`).

*FirstContact.* `Complete`: after a preload in time, the record that a handler holds
and, from the first message on (`met`), the one in the table have an address. `Announced`: while one
announcement is under
way, whoever else decides holds a known record, and an announcement made is marked or
about to be; so a second one never passes the question to Redis; and
once a dialog is open an announcement has been made, is under way or was skipped. `Opened`: once a
dialog is open the contact is known, or, between a restart and its preload, marked.

*Channels.* `HeardFromTheStart` needs that channels about to be offered have a
listener (`HeardWhenOffered`), which needs that channels in use were closed by nothing
but the end of a session and are therefore never made again (`ClosedBySession`).
If no two threads are in `initUserChannels`, the one that makes channels knows that
nobody listens to them and that the core has not heard of them, whatever the others and
the sessions of calls do with older ones (`Serial`), so they are served once;
and while StartCh takes the offers, channels that the next message may go to are
served or about to be offered (`Attended`), so what is sent has a server.

*AuthFlow.* `Registered`: the registry is empty or one served session, and who is served
and not in it has been told or refused. `Accounted`:
until an outcome is in the queue or the socket closes, the queue holds no more than
the codes, the report of the scan and one cancellation, which is less than its
capacity; so no state is lost before the outcome, and the outcome finds room. From there on
`Ended` says which ways out of the authorization have left it in the queue: the check
of the login before the flow goes on to save, or the flow itself at its end; and it stays
there until the socket has read it, which is when the socket closes.

*ContactsStream.* `Phases` orders the three goroutines. `OutcomesInv`: what the browser
has read and what is in the channel are, for one of the sequences of outcomes that
`stream` may have sent (`Sent`), that sequence with status and progress before it
(`Split`, over positions). At the end of the channel nothing but the sequence is left.

*Shutdown.* What `ShutdownOrder` says of the end is strengthened to the steps that lead
there: who waits for whom, and that DoneCh is closed by its two closers only.

Every invariant and both refinements that a passing run checks are theorems.
Only
model-checked are the liveness properties (`StreamsWindDown`,
`UnreadyCallsEnd`, `ThreadsReturn`, `ReauthEndsService`, `SentIsServed`,
`ConnectionsEnd`, `StreamEnds`, `ProcessEnds`), because fairness and ENABLED are outside
the prover's reach. What can go wrong in some of them without any unfairness is an
invariant, and proved: `NothingStranded` (a stream nobody will end),
`UnreadyCallsWatched` (a silent call without a timer),
`SentHasServer` (a message in channels nobody serves), `OutcomeAwaits` (a handler that
waits for an outcome that was never sent). The three properties of the findings are
refuted.

## 5. Not modelled

* The third way of stopping the calls of a bot, `PrepareReauth` (`bot_auth.go:19`), in
  `CallManager`: it ends the calls and disconnects like the first half of
  `resetSession`, and neither sets the flag nor cancels the context, so that a session
  which is being started may survive it. Its effects on the bot are in `BotLifecycle`.
* Operator mode (`whatsapp.go`): a flag per dialog in a `sync.Map`, set by an answer,
  deleted by a command and read twice per message. An answer that was under way when
  the operator left may set it again; which of the two should win is stated nowhere.
* Media and voice messages (`bot_media.go`), call audio (`calls/audio.go`): I/O with
  retries, sample arithmetic and one queue between two goroutines. `Push` leaves by
  the same `select` for room, for the end of the call and for its context.
* Master key cache (`master_key.go`): what a stale key does depends on cryptography
  outside the repository; a failed decryption asks for a fresh key.
* Typing indicator (`bot_typing.go`): a later message replaces the cancel function of
  an earlier one; only the indicator itself depends on it.
* The contents of messages, answers, contacts and device keys: conversions that no
  property tells apart. The message to the CRM and the file store: I/O.
* Order of construction of the modules, `GracefulStop`, HTTP routing, metrics, logging,
  configuration, SQL, and generated gRPC code.

## 6. What may follow

Abstract specifications of the channels and of the authorization, and that the models
implement them; the hub composed with the threads that publish into it and with clients
that reconnect with `after_sequence`; the lifecycle of a bot composed with its channels,
which would show what `Leftover` now takes as given; operator mode, if its intent gets
written down.
