------------------------------ MODULE Channels ------------------------------
(***************************************************************************)
(* The channels between a bot and the core for one contact                 *)
(* (internal/whatsapp/bot_channels.go, bot_message.go): initUserChannels,  *)
(* the goroutine that listens for answers, StartCh, and processMessage,    *)
(* which puts a message into RxCh and makes the channels anew when it      *)
(* cannot.                                                                 *)
(*                                                                         *)
(* Threads are the handlers of messages and the calls of the contact,      *)
(* which start a session of their own with the same channels               *)
(* (calls.go, startRealtime).  Nothing synchronizes them; a step reaches   *)
(* from one access to the channels to the next.  What handleMessage does   *)
(* before is the module FirstContact, what becomes of the call is          *)
(* CallManager.  The model provider b.mod and the core that serves the     *)
(* channels are external.                                                  *)
(*                                                                         *)
(* A definition marked "slip" is no part of the specification: it is what  *)
(* the definition after it would be with a plausible mistake in the code,  *)
(* kept to see that the properties would notice.                           *)
(***************************************************************************)
EXTENDS Integers, FiniteSets

CONSTANTS
    Msgs,        \* the messages
    Calls,       \* the calls of the contact
    Chans,       \* the channels that may be made
    Leftover,    \* those that the bot before this one may have left
    NoCh,        \* no channels
    Addressless, \* those made while the contact has no address that can be parsed
    RxCap,       \* capacity of a channel to the core
    MaxHandlers  \* bound on the threads that run at the same time

ASSUME ChansAssumption ==
    NoCh \notin Chans /\ Leftover \in Chans /\ Addressless \subseteq Chans
ASSUME ThreadsAssumption == Msgs \cap Calls = {}
ASSUME RxCapAssumption == RxCap \in Nat \ {0}
ASSUME MaxHandlersAssumption == MaxHandlers \in Nat

Threads == Msgs \cup Calls

VARIABLES
    live,        \* b.ctx is not cancelled
    old,         \* the channels that the bot before this one has left
    \* the channels
    current,     \* what GetCh returns
    open,        \* the channels that are open
    rx,          \* the number of messages in RxCh
    starts,      \* how often the channels have been put into StartCh
    session,     \* the core's session for messages: "none", "run" or "over"
    realtime,    \* the number of sessions that calls have started
    listeners,   \* the goroutines that read TxCh
    \* the threads
    pc, back,    \* the next step; where initUserChannels returns to
    ch,          \* usrCh
    \* history
    raced,       \* two threads have been in initUserChannels at the same time
    refused,     \* StartCh was full
    strays       \* the channels that a call has had made, which it does not offer

chanVars == <<current, open, rx, starts, session, realtime, listeners>>
threadVars == <<pc, back, ch>>
history == <<raced, refused, strays>>
botVars == <<live, old>>
vars == <<botVars, chanVars, threadVars, history>>

InitPcs == {"channel", "clean", "make", "listen", "offer"}
CallPcs == {"found", "session"}
Pcs == {"new", "process", "again", "send", "resend", "done"} \cup InitPcs \cup CallPcs

Running(t) == pc[t] \notin {"new", "done"}

-----------------------------------------------------------------------------
\* The channels of the bot before this one may still be there, with the core's
\* session on them or without it, and nobody listens to them.
Init ==
    /\ live = TRUE
    /\ old \in {NoCh, Leftover} /\ current = old
    /\ open \in SUBSET ({old} \ {NoCh})
    /\ rx = [c \in Chans |-> 0]
    /\ starts = [c \in Chans |-> 0]
    /\ session \in {[c \in Chans |-> IF c \in open THEN s ELSE "none"] :
                       s \in {"run", "over"}}
    /\ realtime = [c \in Chans |-> 0]
    /\ listeners = [c \in Chans |-> 0]
    /\ pc = [t \in Threads |-> "new"]
    /\ back = [t \in Threads |-> "done"]
    /\ ch = [t \in Threads |-> NoCh]
    /\ raced = FALSE /\ refused = FALSE
    /\ strays = {}

-----------------------------------------------------------------------------
(* Steps of threads.                                                       *)

Goto(t, where) ==
    /\ pc' = [pc EXCEPT ![t] = where]
    /\ UNCHANGED back

\* A thread calls initUserChannels, to go on at where if it returns no error.
Call(t, where) ==
    /\ pc' = [pc EXCEPT ![t] = "channel"]
    /\ back' = [back EXCEPT ![t] = where]
    /\ raced' = (raced \/ \E u \in Threads \ {t} : pc[u] \in InitPcs)
    /\ UNCHANGED ch

\* The thread returns; an error is only logged.
Return(t) ==
    /\ pc' = [pc EXCEPT ![t] = "done"]
    /\ back' = [back EXCEPT ![t] = "done"]
    /\ ch' = [ch EXCEPT ![t] = NoCh]

\* GetCh finds channels, with which the thread goes on at where.
Found(t, where) ==
    /\ current # NoCh
    /\ ch' = [ch EXCEPT ![t] = current]
    /\ Goto(t, where)

\* initUserChannels returns no error.
Back(t) == Goto(t, back[t]) /\ UNCHANGED ch

Begin(t) ==
    /\ pc[t] = "new"
    /\ Cardinality({u \in Threads : Running(u)}) < MaxHandlers
    /\ UNCHANGED <<botVars, chanVars, refused, strays>>

\* handleMessage initializes the channels of a contact that is not known yet.
Handle(m) ==
    /\ Begin(m)
    /\ Call(m, "process") \/ (Goto(m, "process") /\ UNCHANGED <<ch, raced>>)

-----------------------------------------------------------------------------
(* initUserChannels.                                                       *)

\* The id of the dialog is not read from the database.  handleMessage goes on in spite
\* of an error for empty data.
Dialog(t) ==
    /\ pc[t] = "channel"
    /\ Return(t) \/ (back[t] = "process" /\ Back(t))
    /\ UNCHANGED <<botVars, chanVars, history>>

\* Slip: channels that are open are made once more.
ChannelUnchecked(t) ==
    /\ pc[t] = "channel"
    /\ Goto(t, IF current \in open \cup {NoCh} THEN "make" ELSE "clean")
    /\ UNCHANGED <<botVars, chanVars, ch, history>>

\* GetCh and IsRxOpen: channels that are open are used as they are.
Channel(t) ==
    /\ pc[t] = "channel"
    /\ \/ current \in open /\ Back(t)
       \/ current = NoCh /\ Goto(t, "make") /\ UNCHANGED ch
       \/ current \notin open \cup {NoCh} /\ Goto(t, "clean") /\ UNCHANGED ch
    /\ UNCHANGED <<botVars, chanVars, history>>

\* CleanDialogData forgets what the dialog has by now.
Clean(t) ==
    /\ pc[t] = "clean"
    /\ current' = NoCh
    /\ Goto(t, "make")
    /\ UNCHANGED <<botVars, open, rx, starts, session, realtime, listeners, ch, history>>

\* GetOrSetRespGPT makes channels if there are none; not always, as one of its errors,
\* for empty data, is let through by the callers.
GetOrSetRespGPT ==
    \/ /\ current = NoCh
       /\ current' \in Chans \ ({old} \cup open)
       /\ session[current'] = "none" /\ starts[current'] = 0 /\ listeners[current'] = 0
       /\ open' = open \cup {current'}
    \/ UNCHANGED <<current, open>>

Make(t) ==
    /\ pc[t] = "make"
    /\ \/ GetOrSetRespGPT /\ Goto(t, "listen") /\ UNCHANGED ch
       \/ Return(t) /\ UNCHANGED <<current, open>>
    /\ UNCHANGED <<botVars, rx, starts, session, realtime, listeners, history>>

\* A listener reads TxCh, unless there are no channels or no address can be made
\* for the contact.
StartResponseListener(c) ==
    \/ c \in Chans \ Addressless /\ listeners' = [listeners EXCEPT ![c] = @ + 1]
    \/ c \in Addressless \cup {NoCh} /\ UNCHANGED listeners

\* Slip: the channels are offered before anybody listens.
ListenLate(t) ==
    /\ pc[t] = "listen"
    /\ ch' = [ch EXCEPT ![t] = current]
    /\ Goto(t, "offer")
    /\ UNCHANGED <<botVars, chanVars, history>>

\* GetCh, whose error for empty data is let through too, with no channels; and the
\* listener before the channels are offered to the core.
Listen(t) ==
    /\ pc[t] = "listen"
    /\ \/ /\ current = NoCh
          /\ Return(t)
          /\ UNCHANGED listeners
       \/ /\ ch' = [ch EXCEPT ![t] = current]
          /\ Goto(t, "offer")
          /\ StartResponseListener(current)
    /\ UNCHANGED <<botVars, current, open, rx, starts, session, realtime, raced, refused,
                   strays>>

\* What is put into StartCh may be without channels.
Started(c) == starts' = [d \in Chans |-> IF d = c THEN starts[d] + 1 ELSE starts[d]]

\* Slip: a full StartCh is no error.
OfferAndHope(t) ==
    /\ pc[t] = "offer"
    /\ Back(t)
    /\ Started(ch[t]) \/ UNCHANGED starts
    /\ UNCHANGED <<botVars, current, open, rx, session, realtime, listeners, history>>

\* The channels go into StartCh, which all bots share, unless it is full.
Offer(t) ==
    /\ pc[t] = "offer"
    /\ \/ Started(ch[t]) /\ Back(t) /\ UNCHANGED refused
       \/ Return(t) /\ refused' = TRUE /\ UNCHANGED starts
    /\ UNCHANGED <<botVars, current, open, rx, session, realtime, listeners, raced, strays>>

-----------------------------------------------------------------------------
(* processMessage.                                                         *)

\* Slip: the error of GetCh is ignored.
ProcessBlind(m) ==
    /\ pc[m] = "process"
    /\ ch' = [ch EXCEPT ![m] = current] /\ Goto(m, "send")
    /\ UNCHANGED <<botVars, chanVars, history>>

\* GetCh; a voice message is transcribed before, or dropped.
Process(m) ==
    /\ pc[m] = "process"
    /\ \/ Found(m, "send") /\ UNCHANGED raced
       \/ current = NoCh /\ Call(m, "again")
       \/ Return(m) /\ UNCHANGED raced
    /\ UNCHANGED <<botVars, chanVars, refused, strays>>

Again(m) ==
    /\ pc[m] = "again"
    /\ Found(m, "send") \/ (current = NoCh /\ Return(m))
    /\ UNCHANGED <<botVars, chanVars, history>>

HasRoom(c) == c \in open /\ rx[c] < RxCap

\* SendToRx; channels that are closed or full are initialized once more.
Send(m) ==
    /\ pc[m] = "send"
    /\ \/ /\ HasRoom(ch[m])
          /\ rx' = [rx EXCEPT ![ch[m]] = @ + 1]
          /\ Return(m)
          /\ UNCHANGED raced
       \/ /\ ~HasRoom(ch[m])
          /\ Call(m, "resend")
          /\ UNCHANGED rx
    /\ UNCHANGED <<botVars, current, open, starts, session, realtime, listeners, refused,
                   strays>>

\* GetCh and the second SendToRx, whose error ends the handler.
Resend(m) ==
    /\ pc[m] = "resend"
    /\ IF HasRoom(current) THEN rx' = [rx EXCEPT ![current] = @ + 1] ELSE UNCHANGED rx
    /\ Return(m)
    /\ UNCHANGED <<botVars, current, open, starts, session, realtime, listeners, history>>

-----------------------------------------------------------------------------
(* startRealtime: a call starts a session of its own with the channels, those that *)
(* are there or those that EnsureUserChannels has made.                            *)

Ensure(k) ==
    /\ Begin(k)
    /\ \/ Found(k, "session") /\ UNCHANGED raced
       \/ current = NoCh /\ Call(k, "found")

EnsureAgain(k) ==
    /\ pc[k] = "found"
    /\ Found(k, "session") \/ (current = NoCh /\ Return(k))
    /\ UNCHANGED <<botVars, chanVars, history>>

\* GetOrSetRespGPT restores the model; should the channels have been forgotten
\* meanwhile, it makes others, of which the call knows nothing.  Then the core starts
\* the session of the call, or does not.
StartCallSession(k) ==
    /\ pc[k] = "session"
    /\ \/ /\ GetOrSetRespGPT
          /\ strays' = strays \cup (open' \ open)
          /\ realtime' = [realtime EXCEPT ![ch[k]] = @ + 1] \/ UNCHANGED realtime
       \/ UNCHANGED <<current, open, realtime, strays>>
    /\ Return(k)
    /\ UNCHANGED <<botVars, rx, starts, session, listeners, raced, refused>>

-----------------------------------------------------------------------------
(* The bot, its listeners and the core.                                    *)

StopBot ==
    /\ live
    /\ live' = FALSE
    /\ UNCHANGED <<old, chanVars, threadVars, history>>

\* The listener ends with the bot's context or with TxCh.
ListenerEnd(c) ==
    /\ listeners[c] > 0
    /\ ~live \/ c \notin open
    /\ listeners' = [listeners EXCEPT ![c] = @ - 1]
    /\ UNCHANGED <<botVars, current, open, rx, starts, session, realtime, threadVars, history>>

\* Starter hands the channels to the core.
StartSession(c) ==
    /\ starts[c] > 0 /\ session[c] = "none"
    /\ session' = [session EXCEPT ![c] = "run"]
    /\ UNCHANGED <<botVars, current, open, rx, starts, realtime, listeners, threadVars, history>>

Consume(c) ==
    /\ session[c] = "run" /\ rx[c] > 0
    /\ rx' = [rx EXCEPT ![c] = @ - 1]
    /\ UNCHANGED <<botVars, current, open, starts, session, realtime, listeners, threadVars,
                   history>>

\* Channels that the core closes it serves no more; it may forget them.
Close(c) ==
    /\ session' = [session EXCEPT ![c] = "over"]
    /\ open' = open \ {c}
    /\ rx' = [rx EXCEPT ![c] = 0]
    /\ current' \in {current, IF current = c THEN NoCh ELSE current}

\* A session for messages that ends closes its channels.
EndSession(c) ==
    /\ session[c] = "run"
    /\ Close(c)
    /\ UNCHANGED <<botVars, starts, realtime, listeners, threadVars, history>>

\* The session of a call that ends closes them or leaves them as they are.
EndCallSession(c) ==
    /\ realtime[c] > 0
    /\ realtime' = [realtime EXCEPT ![c] = @ - 1]
    /\ Close(c) \/ UNCHANGED <<current, open, rx, session>>
    /\ UNCHANGED <<botVars, starts, listeners, threadVars, history>>

-----------------------------------------------------------------------------
InitUserChannels(t) ==
    Dialog(t) \/ Channel(t) \/ Clean(t) \/ Make(t) \/ Listen(t) \/ Offer(t)

ProcessMessage(m) == Process(m) \/ Again(m) \/ Send(m) \/ Resend(m)

StartRealtime(k) == Ensure(k) \/ EnsureAgain(k) \/ StartCallSession(k)

Core(c) == StartSession(c) \/ Consume(c)

Next ==
    \/ \E m \in Msgs : Handle(m) \/ ProcessMessage(m)
    \/ \E k \in Calls : StartRealtime(k)
    \/ \E t \in Threads : InitUserChannels(t)
    \/ StopBot
    \/ \E c \in Chans : ListenerEnd(c) \/ Core(c) \/ EndSession(c) \/ EndCallSession(c)

Spec == Init /\ [][Next]_vars

\* Goroutines that can run do run, and the core serves what it is given.
Fairness ==
    /\ \A t \in Threads : WF_vars(InitUserChannels(t))
    /\ \A m \in Msgs : WF_vars(ProcessMessage(m))
    /\ \A c \in Chans : WF_vars(Core(c))

FairSpec == Spec /\ Fairness

-----------------------------------------------------------------------------
TypeOK ==
    /\ live \in BOOLEAN /\ old \in Chans \cup {NoCh}
    /\ current \in Chans \cup {NoCh} /\ open \subseteq Chans
    /\ rx \in [Chans -> 0..RxCap]
    /\ starts \in [Chans -> Nat] /\ listeners \in [Chans -> Nat]
    /\ session \in [Chans -> {"none", "run", "over"}]
    /\ realtime \in [Chans -> Nat]
    /\ pc \in [Threads -> Pcs]
    /\ back \in [Threads -> {"process", "again", "resend", "found", "done"}]
    /\ ch \in [Threads -> Chans \cup {NoCh}]
    /\ raced \in BOOLEAN /\ refused \in BOOLEAN
    /\ strays \subseteq Chans
    /\ \A t \in Threads : pc[t] \in {"send", "session"} => ch[t] \in Chans

\* What a handler gives the core through StartCh is listened to already, so that no
\* answer comes before its listener: channels that are open have one as long as the
\* bot is not stopped, unless no address could be made for the contact
\* (bot_channels.go:224).  Channels that the bot before this one has left, and the
\* session that a call starts with channels it finds, are not given in this way.
HeardFromTheStart ==
    \A c \in Chans \ Addressless :
       starts[c] > 0 /\ c \in open /\ live => listeners[c] > 0

\* However handlers and calls overlap otherwise: if no two of them are in
\* initUserChannels at the same time, the channels get one listener and go into
\* StartCh once, so that no two listeners share the answers to a contact and no two
\* sessions for messages what it writes.  A call that finds channels adds a session of
\* its own, and no listener (bot_channels.go:197, calls.go:366).
ServedOnce ==
    ~raced => \A c \in Chans : listeners[c] <= 1 /\ starts[c] <= 1

\* The core serves c, or has been told to.
Served(c) == session[c] = "run" \/ (session[c] = "none" /\ starts[c] > 0)

\* A thread is about to offer c.
Offering(c) ==
    \E t \in Threads : \/ pc[t] = "listen" /\ current = c
                       \/ pc[t] = "offer" /\ ch[t] = c

\* No message waits in channels that nobody serves: a handler puts it into channels
\* that have been offered to the core or are about to be, and takes those whose
\* session is over for closed (bot_channels.go:224 and bot_message.go:287).  A full
\* StartCh, two threads in initUserChannels at the same time and channels that a call
\* had made break this.
SentHasServer ==
    (~raced /\ ~refused) =>
        \A c \in Chans \ ({old} \cup strays) :
            rx[c] > 0 => Served(c) \/ Offering(c)

\* A message that is in the channels this bot has made reaches the core, unless
\* the channels close, with the exceptions of SentHasServer.
SentIsServed ==
    \A c \in Chans :
       (rx[c] > 0 /\ c # old) ~> (rx[c] = 0 \/ refused \/ raced \/ c \in strays)
=============================================================================
