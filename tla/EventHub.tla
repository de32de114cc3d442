------------------------------ MODULE EventHub ------------------------------
(***************************************************************************)
(* The event hub of one WhatsApp call (internal/whatsapp/calls/events.go)  *)
(* together with the gRPC handlers that read from it                       *)
(* (internal/delivery/rpc/server.go, SubscribeCallEvents).                 *)
(*                                                                         *)
(* An event is its Sequence number.  A Go channel is the sequence of all   *)
(* the values ever sent on it and the number of values received from it,   *)
(* so that the buffered values are those between the two.  Every method of *)
(* the hub holds h.mu from its first statement to its last, so each is one *)
(* action, with one exception: subscribe performs blocking sends while it  *)
(* holds the mutex, so it is three actions during which nobody else can    *)
(* enter the hub.  Sending on a closed channel and closing a closed        *)
(* channel panic, which ends the process.                                  *)
(*                                                                         *)
(* A definition marked "slip" is no part of the specification: it is what  *)
(* the definition after it would be with a plausible mistake in the code,  *)
(* kept to see that the properties would notice.                           *)
(***************************************************************************)
EXTENDS Integers, Sequences

CONSTANTS
    Channels,    \* the identities of the subscriptions
    Limit,       \* callEventReplayLimit (128): replay window and capacity
    MaxEvents    \* bound on the number of events of a call

ASSUME LimitAssumption == Limit \in Nat \ {0}
ASSUME MaxEventsAssumption == MaxEvents \in Nat

VARIABLES
    sequence,      \* h.sequence
    replay,        \* h.replay
    subscribers,   \* h.subscribers
    closed,        \* h.closed
    panicked,      \* a send on, or a close of, a closed channel has happened
    phase,         \* where the subscription and its gRPC handler are
    from,          \* afterSequence of the subscription
    pos,           \* index of the replay loop of subscribe
    sent,          \* values sent on the channel
    taken,         \* number of values received from the channel
    shut,          \* the channel is closed
    ctxDone,       \* the context of the stream is done
    watching,      \* the goroutine waiting on ctx.Done() is alive
    first,         \* history: the first number the stream ought to contain
    lagged         \* history: an event was dropped because the buffer was full

hubVars == <<sequence, replay, subscribers, closed, panicked>>
chanVars == <<sent, taken, shut>>
rpcVars == <<phase, from, pos, ctxDone, watching>>
history == <<first, lagged>>
vars == <<hubVars, chanVars, rpcVars, history>>

Phases == {"new", "replaying", "refused", "serving", "completed", "aborted"}

-----------------------------------------------------------------------------
(* Helpers.                                                                *)

\* Slip: the window is one longer than the channels.
TrimLate(s) == IF Len(s) > Limit + 1
               THEN SubSeq(s, Len(s) - Limit, Len(s))
               ELSE s

\* The last Limit elements of a sequence that publish has just extended.
Trim(s) == IF Len(s) > Limit
           THEN SubSeq(s, Len(s) - Limit + 1, Len(s))
           ELSE s

Buffered(c) == Len(sent[c]) - taken[c]

\* A send on c would block, or takes the default branch of the select.
Full(c) == Buffered(c) >= Limit

LockedNever == FALSE   \* slip: subscribe replays without the mutex

\* subscribe is inside its replay loop, holding the mutex.
Locked == \E c \in Channels : phase[c] = "replaying"

\* The first number a stream subscribed now, after n, is entitled to.
FirstAfter(n) ==
    LET oldest == sequence - Len(replay) + 1
    IN  IF n >= sequence THEN sequence + 1
        ELSE IF n >= oldest THEN n + 1 ELSE oldest

-----------------------------------------------------------------------------
Init ==
    /\ sequence = 0
    /\ replay = <<>>
    /\ subscribers = {}
    /\ closed = FALSE
    /\ panicked = FALSE
    /\ phase = [c \in Channels |-> "new"]
    /\ from = [c \in Channels |-> 0]
    /\ pos = [c \in Channels |-> 1]
    /\ sent = [c \in Channels |-> <<>>]
    /\ taken = [c \in Channels |-> 0]
    /\ shut = [c \in Channels |-> FALSE]
    /\ ctxDone = [c \in Channels |-> FALSE]
    /\ watching = [c \in Channels |-> FALSE]
    /\ first = [c \in Channels |-> 1]
    /\ lagged = [c \in Channels |-> FALSE]

\* publish: number the event, keep it for replay, offer it to every subscriber
\* without waiting.  A closed hub ignores the event.
Publish ==
    /\ ~Locked
    /\ ~closed
    /\ sequence < MaxEvents
    /\ sequence' = sequence + 1
    /\ replay' = Trim(Append(replay, sequence'))
    /\ sent' = [c \in Channels |-> IF c \in subscribers /\ ~Full(c)
                                   THEN Append(sent[c], sequence')
                                   ELSE sent[c]]
    /\ lagged' = [c \in Channels |-> lagged[c] \/ (c \in subscribers /\ Full(c))]
    /\ panicked' = (\E c \in subscribers : shut[c])
    /\ UNCHANGED <<subscribers, closed, taken, shut, rpcVars, first>>

\* subscribe, up to the loop: a closed hub answers with an error, otherwise the
\* channel is made and the mutex stays held.
SubscribeBegin(c) ==
    /\ ~Locked
    /\ phase[c] = "new"
    /\ IF closed
       THEN /\ phase' = [phase EXCEPT ![c] = "refused"]
            /\ UNCHANGED <<from, first>>
       ELSE /\ phase' = [phase EXCEPT ![c] = "replaying"]
            /\ \E n \in 0..MaxEvents :
                  /\ from' = [from EXCEPT ![c] = n]
                  /\ first' = [first EXCEPT ![c] = FirstAfter(n)]
    /\ UNCHANGED <<hubVars, chanVars, pos, ctxDone, watching, lagged>>

\* Slip: the event the client names is sent again.
ReplayInclusive(c) ==
    /\ phase[c] = "replaying"
    /\ pos[c] <= Len(replay)
    /\ IF replay[pos[c]] >= from[c]
       THEN /\ ~Full(c)
            /\ sent' = [sent EXCEPT ![c] = Append(@, replay[pos[c]])]
       ELSE UNCHANGED sent
    /\ pos' = [pos EXCEPT ![c] = @ + 1]
    /\ UNCHANGED <<hubVars, taken, shut, phase, from, ctxDone, watching, history>>

\* One iteration of the replay loop; the send blocks while the channel is full.
SubscribeReplay(c) ==
    /\ phase[c] = "replaying"
    /\ pos[c] <= Len(replay)
    /\ IF replay[pos[c]] > from[c]
       THEN /\ ~Full(c)
            /\ sent' = [sent EXCEPT ![c] = Append(@, replay[pos[c]])]
       ELSE UNCHANGED sent
    /\ pos' = [pos EXCEPT ![c] = @ + 1]
    /\ UNCHANGED <<hubVars, taken, shut, phase, from, ctxDone, watching, history>>

\* The rest of subscribe: register the channel, start the goroutine that waits
\* for the end of the context, release the mutex, return the channel.
SubscribeEnd(c) ==
    /\ phase[c] = "replaying"
    /\ pos[c] > Len(replay)
    /\ subscribers' = subscribers \cup {c}
    /\ phase' = [phase EXCEPT ![c] = "serving"]
    /\ watching' = [watching EXCEPT ![c] = TRUE]
    /\ UNCHANGED <<sequence, replay, closed, panicked, chanVars, from, pos,
                   ctxDone, history>>

\* The client goes away, or its deadline passes.
ContextDone(c) ==
    /\ phase[c] \in {"replaying", "serving"}
    /\ ~ctxDone[c]
    /\ ctxDone' = [ctxDone EXCEPT ![c] = TRUE]
    /\ UNCHANGED <<hubVars, chanVars, phase, from, pos, watching, history>>

\* Slip: unsubscribe does not look whether the channel is still registered.
UnsubscribeUnchecked(c) ==
    /\ ~Locked
    /\ watching[c]
    /\ ctxDone[c]
    /\ watching' = [watching EXCEPT ![c] = FALSE]
    /\ subscribers' = subscribers \ {c}
    /\ shut' = [shut EXCEPT ![c] = TRUE]
    /\ panicked' = shut[c]
    /\ UNCHANGED <<sequence, replay, closed, sent, taken, phase, from, pos,
                   ctxDone, history>>

\* unsubscribe, from the goroutine started by subscribe.
Unsubscribe(c) ==
    /\ ~Locked
    /\ watching[c]
    /\ ctxDone[c]
    /\ watching' = [watching EXCEPT ![c] = FALSE]
    /\ IF c \in subscribers
       THEN /\ subscribers' = subscribers \ {c}
            /\ shut' = [shut EXCEPT ![c] = TRUE]
            /\ panicked' = shut[c]
       ELSE UNCHANGED <<subscribers, shut, panicked>>
    /\ UNCHANGED <<sequence, replay, closed, sent, taken, phase, from, pos,
                   ctxDone, history>>

\* Slip: the subscribers are forgotten and their channels stay open.
CloseSilently ==
    /\ ~Locked
    /\ ~closed
    /\ closed' = TRUE
    /\ subscribers' = {}
    /\ UNCHANGED <<sequence, replay, panicked, chanVars, rpcVars, history>>

\* close, called once by the cleanup of the call.
Close ==
    /\ ~Locked
    /\ ~closed
    /\ closed' = TRUE
    /\ shut' = [c \in Channels |-> shut[c] \/ c \in subscribers]
    /\ panicked' = (\E c \in subscribers : shut[c])
    /\ subscribers' = {}
    /\ UNCHANGED <<sequence, replay, sent, taken, rpcVars, history>>

\* The gRPC handler receives an event and sends it to the client.  When the
\* send fails the handler returns, and gRPC ends the stream's context.
Receive(c) ==
    /\ phase[c] = "serving"
    /\ Buffered(c) > 0
    /\ taken' = [taken EXCEPT ![c] = @ + 1]
    /\ \/ UNCHANGED <<phase, ctxDone>>
       \/ /\ phase' = [phase EXCEPT ![c] = "aborted"]
          /\ ctxDone' = [ctxDone EXCEPT ![c] = TRUE]
    /\ UNCHANGED <<hubVars, sent, shut, from, pos, watching, history>>

\* The handler finds the channel closed and drained: the stream completes.  A
\* client whose context is already done does not see how the stream ended.
StreamEnd(c) ==
    /\ phase[c] = "serving"
    /\ Buffered(c) = 0
    /\ shut[c]
    /\ phase' = [phase EXCEPT ![c] = IF ctxDone[c] THEN "aborted" ELSE "completed"]
    /\ ctxDone' = [ctxDone EXCEPT ![c] = TRUE]
    /\ UNCHANGED <<hubVars, chanVars, from, pos, watching, history>>

\* The handler's select picks the done context.
StreamAbort(c) ==
    /\ phase[c] = "serving"
    /\ ctxDone[c]
    /\ phase' = [phase EXCEPT ![c] = "aborted"]
    /\ UNCHANGED <<hubVars, chanVars, from, pos, ctxDone, watching, history>>

Subscribe(c) == SubscribeBegin(c) \/ SubscribeReplay(c) \/ SubscribeEnd(c)
Handle(c) == Receive(c) \/ StreamEnd(c) \/ StreamAbort(c)

Next ==
    /\ ~panicked
    /\ \/ Publish
       \/ Close
       \/ \E c \in Channels : Subscribe(c) \/ ContextDone(c) \/ Unsubscribe(c)
                              \/ Handle(c)

Spec == Init /\ [][Next]_vars

\* The code that is already running continues: the replay loop, the goroutine
\* that unsubscribes, and the handler's receive loop as long as its client
\* either reads or goes away.  Publishing, closing, subscribing and cancelling
\* are up to the environment.
Fairness ==
    /\ \A c \in Channels :
          /\ WF_vars(~panicked /\ (SubscribeReplay(c) \/ SubscribeEnd(c)))
          /\ WF_vars(~panicked /\ Unsubscribe(c))
          /\ WF_vars(~panicked /\ Handle(c))

FairSpec == Spec /\ Fairness

-----------------------------------------------------------------------------
(* Properties.                                                             *)

TypeOK ==
    /\ sequence \in Nat
    /\ replay \in Seq(Nat)
    /\ subscribers \subseteq Channels
    /\ closed \in BOOLEAN
    /\ panicked \in BOOLEAN
    /\ phase \in [Channels -> Phases]
    /\ from \in [Channels -> Nat]
    /\ pos \in [Channels -> Nat \ {0}]
    /\ sent \in [Channels -> Seq(Nat)]
    /\ taken \in [Channels -> Nat]
    /\ shut \in [Channels -> BOOLEAN]
    /\ ctxDone \in [Channels -> BOOLEAN]
    /\ watching \in [Channels -> BOOLEAN]
    /\ first \in [Channels -> Nat \ {0}]
    /\ lagged \in [Channels -> BOOLEAN]

\* Neither publish nor close nor unsubscribe ever touches a channel that one of
\* the others has closed, in whatever order the end of the call, the end of the
\* client's context and the events come (events.go, publish, unsubscribe, close).
NoPanic == ~panicked

\* s holds the newest of the numbers 1..n, all of them up to Limit.
IsWindow(s, n) ==
    /\ n <= Limit => Len(s) = n
    /\ n > Limit => Len(s) = Limit
    /\ \A i \in 1..Len(s) : s[i] = n - Len(s) + i

\* The replay window is exactly the newest events, without a hole, and never
\* longer than the capacity of a subscriber's channel (events.go, publish).
ReplayWindow == IsWindow(replay, sequence)

\* The send in subscribe's replay loop never blocks: nobody can receive from
\* the channel before subscribe returns, and the hub is locked, so a full
\* channel there would freeze every publisher of the call (events.go, subscribe).
ReplayNeverBlocks ==
    \A c \in Channels :
        phase[c] = "replaying" /\ pos[c] <= Len(replay) => ~Full(c)

\* A subscriber receives strictly increasing sequence numbers: the switch from
\* replayed to live events neither repeats nor reorders any of them.
StreamOrdered ==
    \A c \in Channels :
        /\ \A i, j \in 1..Len(sent[c]) : i < j => sent[c][i] < sent[c][j]
        /\ \A i \in 1..Len(sent[c]) : sent[c][i] <= sequence

\* Without lag there is no hole: the stream consists of consecutive numbers
\* from the first it is entitled to; while its context lives it reaches up to
\* the latest event of the call, also after the call has ended; and a stream
\* that completes has handed all of that to the client (server.go, the loop).
StreamComplete ==
    \A c \in Channels :
        ~lagged[c] =>
            /\ \A i \in 1..Len(sent[c]) : sent[c][i] = first[c] + i - 1
            /\ phase[c] = "serving" /\ ~ctxDone[c]
                 => first[c] + Len(sent[c]) = sequence + 1
            /\ phase[c] = "completed"
                 => closed /\ first[c] + taken[c] = sequence + 1

\* No stream waits for an event that cannot come, and no subscription outlives its
\* reader unnoticed: when the call has ended the channel is closed or the context
\* done, whoever is registered is watched over, and a handler that has returned has
\* left a context that is done (events.go, subscribe and close; server.go).
NothingStranded ==
    \A c \in Channels :
        /\ closed /\ phase[c] = "serving" => shut[c] \/ ctxDone[c]
        /\ c \in subscribers => watching[c]
        /\ watching[c] /\ phase[c] # "serving" => ctxDone[c]

\* Once the call has ended every open stream ends, and the goroutine that
\* subscribe started for it ends too (events.go, close; server.go, the loop).
StreamsWindDown ==
    \A c \in Channels :
        (closed /\ phase[c] = "serving") ~> (phase[c] # "serving" /\ ~watching[c])

-----------------------------------------------------------------------------
(* The hub implements the abstract feed.                                   *)

FeedStateOf(p) ==
    IF p \in {"new", "replaying", "refused"} THEN "out"
    ELSE IF p = "serving" THEN "in"
    ELSE IF p = "completed" THEN "done" ELSE "gone"

\* The last number received, or the one before the first, by a stream whose
\* handler is running or has returned.
FeedLastOf(p, n, s, lo) ==
    IF FeedStateOf(p) = "out" THEN 0 ELSE IF n = 0 THEN lo - 1 ELSE s[n]

FeedState == [c \in Channels |-> FeedStateOf(phase[c])]
FeedLast == [c \in Channels |-> FeedLastOf(phase[c], taken[c], sent[c], first[c])]

Feed == INSTANCE EventFeed WITH
    published <- sequence, ended <- closed, state <- FeedState,
    last <- FeedLast, lossy <- lagged

\* Every behaviour of the hub is a behaviour of the feed: numbers in order,
\* at most once, none missing and no early completion unless the buffer was full.
FeedSpec == Feed!Spec
=============================================================================
