--------------------------- MODULE ChannelsProofs ---------------------------
(* Proofs about Channels.                                                  *)
EXTENDS Channels, TLAPS

\* Channels that a thread is about to offer have a listener.
HeardWhenOffered ==
    \A t \in Threads :
       pc[t] = "offer" /\ ch[t] \in open \ Addressless /\ live => listeners[ch[t]] > 0

\* Channels in use have not been closed by anything but the end of a session; those
\* are never made again.
InUse(c) == c = current \/ \E t \in Threads : pc[t] = "offer" /\ ch[t] = c

ClosedBySession ==
    \A c \in Chans \ {old} : InUse(c) => c \in open \/ session[c] = "over"

\* Nothing goes into channels whose session is over.
OverIsClosed ==
    \A c \in Chans \ {old} : session[c] = "over" => c \notin open /\ rx[c] = 0

HInv ==
    TypeOK /\ HeardFromTheStart /\ HeardWhenOffered /\ ClosedBySession /\ OverIsClosed

Backs == {"process", "again", "resend", "found", "done"}

LEMMA HInvInit == Init => HInv
<1> SUFFICES ASSUME Init PROVE HInv
  OBVIOUS
<1> USE ChansAssumption, RxCapAssumption
<1>1. old \in Chans \cup {NoCh} /\ current = old /\ open \subseteq {old} \cap Chans
  BY DEF Init
<1>2. PICK s \in {"run", "over"} :
         session = [c \in Chans |-> IF c \in open THEN s ELSE "none"]
  BY DEF Init
<1>3. /\ rx \in [Chans -> 0..RxCap]
      /\ starts \in [Chans -> Nat] /\ listeners \in [Chans -> Nat]
      /\ realtime \in [Chans -> Nat]
  BY DEF Init
<1>4. /\ pc \in [Threads -> Pcs] /\ back \in [Threads -> Backs]
      /\ ch \in [Threads -> Chans \cup {NoCh}]
      /\ \A t \in Threads : pc[t] = "new"
  BY DEF Init, Pcs, Backs
<1>5. TypeOK
  BY <1>1, <1>2, <1>3, <1>4 DEF Init, TypeOK, Backs
<1>6. ClosedBySession /\ OverIsClosed
  BY <1>1, <1>2, <1>4 DEF ClosedBySession, InUse, OverIsClosed
<1>7. HeardFromTheStart /\ HeardWhenOffered
  BY <1>4 DEF Init, HeardFromTheStart, HeardWhenOffered
<1> QED
  BY <1>5, <1>6, <1>7 DEF HInv

\* A thread that comes to no offer, and leaves the channels alone but for a message.
LEMMA ThreadStep ==
  ASSUME HInv, NEW t \in Threads,
         UNCHANGED <<live, old, current, open, starts, session, listeners, strays>>,
         rx' \in [Chans -> 0..RxCap], realtime' \in [Chans -> Nat],
         \A c \in Chans : rx'[c] > 0 => rx[c] > 0 \/ c \in open,
         raced' \in BOOLEAN, refused' \in BOOLEAN,
         \E where \in Pcs \ {"offer"} : pc' = [pc EXCEPT ![t] = where],
         \E where \in Backs : back' = back \/ back' = [back EXCEPT ![t] = where],
         \E c \in Chans \cup {NoCh} : ch' = ch \/ ch' = [ch EXCEPT ![t] = c],
         pc'[t] \in {"send", "session"} => ch'[t] \in Chans
  PROVE  HInv'
<1>1. /\ pc' \in [Threads -> Pcs] /\ ch' \in [Threads -> Chans \cup {NoCh}]
      /\ back' \in [Threads -> Backs]
      /\ \A u \in Threads : pc'[u] = "offer" => pc[u] = "offer" /\ ch'[u] = ch[u]
      /\ \A u \in Threads \ {t} : pc'[u] = pc[u] /\ ch'[u] = ch[u]
      /\ pc'[t] # "offer"
  BY DEF HInv, TypeOK, Backs
<1>2. TypeOK'
  BY <1>1 DEF HInv, TypeOK, Backs
<1>3. HeardFromTheStart' /\ HeardWhenOffered'
  BY <1>1 DEF HInv, HeardFromTheStart, HeardWhenOffered
<1>4. ClosedBySession'
  BY <1>1 DEF HInv, ClosedBySession, InUse
<1>5. OverIsClosed'
  <2>1. ASSUME NEW c \in Chans \ {old}, session[c] = "over"
        PROVE  c \notin open /\ rx'[c] = 0
    BY <2>1 DEF HInv, TypeOK, OverIsClosed
  <2> QED
    BY <2>1 DEF OverIsClosed
<1> QED
  BY <1>2, <1>3, <1>4, <1>5 DEF HInv

\* What GetOrSetRespGPT does to the channels, at whatever step.
LEMMA ModelStep ==
  ASSUME HInv, GetOrSetRespGPT, NEW t \in Threads, pc[t] # "offer",
         UNCHANGED <<live, old, rx, starts, session, listeners>>,
         realtime' \in [Chans -> Nat], raced' \in BOOLEAN, refused' \in BOOLEAN,
         strays' \subseteq Chans,
         \E where \in {"listen", "done"} : pc' = [pc EXCEPT ![t] = where],
         back' \in [Threads -> Backs],
         \E c \in Chans \cup {NoCh} : ch' = ch \/ ch' = [ch EXCEPT ![t] = c]
  PROVE  HInv'
<1> USE ChansAssumption
<1>1. /\ pc' \in [Threads -> Pcs] /\ ch' \in [Threads -> Chans \cup {NoCh}]
      /\ \A u \in Threads : pc'[u] = "offer" => pc[u] = "offer" /\ ch'[u] = ch[u]
      /\ \A u \in Threads \ {t} : pc'[u] = pc[u] /\ ch'[u] = ch[u]
      /\ pc'[t] \in {"listen", "done"}
  BY DEF HInv, TypeOK, Pcs, InitPcs
<1>2. current' \in Chans \cup {NoCh} /\ open' \subseteq Chans
  BY DEF GetOrSetRespGPT, HInv, TypeOK
<1>3. TypeOK'
  BY <1>1, <1>2 DEF HInv, TypeOK, Backs
<1>4. CASE UNCHANGED <<current, open>>
  BY <1>1, <1>3, <1>4 DEF HInv, HeardFromTheStart, HeardWhenOffered, ClosedBySession,
     OverIsClosed, InUse
<1>5. CASE /\ current' \in Chans \ ({old} \cup open) /\ open' = open \cup {current'}
           /\ session[current'] = "none" /\ starts[current'] = 0
  <2>1. HeardFromTheStart' /\ OverIsClosed'
    BY <1>5 DEF HInv, TypeOK, HeardFromTheStart, OverIsClosed
  <2>2. HeardWhenOffered'
    BY <1>1, <1>5 DEF HInv, HeardWhenOffered, ClosedBySession, InUse
  <2>3. ClosedBySession'
    BY <1>1, <1>5 DEF HInv, ClosedBySession, InUse
  <2> QED
    BY <1>3, <2>1, <2>2, <2>3 DEF HInv
<1> QED
  BY <1>4, <1>5 DEF GetOrSetRespGPT

\* The core closes channels.
LEMMA CloseStep ==
  ASSUME HInv, NEW c \in Chans, Close(c),
         UNCHANGED <<live, old, starts, listeners, threadVars, history>>,
         realtime' \in [Chans -> Nat]
  PROVE  HInv'
<1>1. /\ rx' \in [Chans -> 0..RxCap] /\ open' = open \ {c} /\ rx'[c] = 0
      /\ session' = [session EXCEPT ![c] = "over"]
      /\ current' = current \/ current' = NoCh
      /\ \A d \in Chans \ {c} : rx'[d] = rx[d]
  BY RxCapAssumption DEF Close, HInv, TypeOK
<1>2. TypeOK'
  BY <1>1, ChansAssumption DEF HInv, TypeOK, threadVars, history
<1> QED
  BY <1>1, <1>2, ChansAssumption DEF HInv, TypeOK, HeardFromTheStart, HeardWhenOffered,
     ClosedBySession, OverIsClosed, InUse, threadVars, history

LEMMA HInvStep == HInv /\ [Next]_vars => HInv'
<1> SUFFICES ASSUME HInv, [Next]_vars PROVE HInv'
  OBVIOUS
<1> USE ChansAssumption DEF botVars, chanVars, history, threadVars
<1>t. /\ Msgs \subseteq Threads /\ Calls \subseteq Threads
      /\ rx \in [Chans -> 0..RxCap] /\ raced \in BOOLEAN /\ refused \in BOOLEAN
      /\ realtime \in [Chans -> Nat]
      /\ current \in Chans \cup {NoCh} /\ open \subseteq Chans
      /\ \A t \in Threads : back[t] \in Backs
      /\ back \in [Threads -> Backs]
      /\ pc \in [Threads -> Pcs]
      /\ \A t \in Threads : pc[t] \in {"send", "session"} => ch[t] \in Chans
      /\ \A t \in Threads : ch[t] \in Chans \cup {NoCh}
  BY DEF HInv, TypeOK, Threads, Backs
<1>p. {"new", "process", "again", "send", "resend", "done", "found", "session", "channel",
       "clean", "make", "listen"} \subseteq Pcs \ {"offer"}
  BY DEF Pcs, InitPcs, CallPcs
<1>1. CASE UNCHANGED vars
  BY <1>1 DEF vars, HInv, TypeOK, HeardFromTheStart, HeardWhenOffered, ClosedBySession,
              OverIsClosed, InUse
\* The steps that leave the channels alone.
<1>c. ASSUME NEW t \in Threads, NEW where \in {"process", "again", "resend", "found"},
             Call(t, where), UNCHANGED <<botVars, chanVars, refused, strays>>
      PROVE  HInv'
  <2>1. raced' \in BOOLEAN
    BY <1>c, <1>t DEF Call
  <2> QED
    BY <1>c, <1>t, <1>p, <2>1, ThreadStep DEF Call, Backs
<1>r. ASSUME NEW t \in Threads, Return(t), UNCHANGED <<botVars, chanVars, history>>
      PROVE  HInv'
  BY <1>r, <1>t, <1>p, ThreadStep DEF Return, Backs
<1>g. ASSUME NEW t \in Threads, NEW where \in Pcs \ {"offer", "send", "session"},
             Goto(t, where), UNCHANGED <<botVars, chanVars, ch, history>>
      PROVE  HInv'
  BY <1>g, <1>t, ThreadStep DEF Goto, Backs
<1>f. ASSUME NEW t \in Threads, NEW where \in {"send", "session"},
             Found(t, where), UNCHANGED <<botVars, chanVars, history>>
      PROVE  HInv'
  <2>1. ch'[t] \in Chans
    BY <1>f, <1>t DEF Found, HInv, TypeOK
  <2> QED
    BY <1>f, <1>t, <1>p, <2>1, ThreadStep DEF Found, Goto, Backs
<1>b. ASSUME NEW t \in Threads, Back(t), UNCHANGED <<botVars, chanVars, history>>
      PROVE  HInv'
  BY <1>b, <1>t, <1>p, <1>g DEF Back, Backs
<1>2. ASSUME NEW m \in Msgs, Handle(m) PROVE HInv'
  BY <1>2, <1>t, <1>p, <1>c, <1>g DEF Handle, Begin
<1>3. ASSUME NEW k \in Calls, Ensure(k) \/ EnsureAgain(k) PROVE HInv'
  BY <1>3, <1>t, <1>p, <1>c, <1>f, <1>r DEF Ensure, EnsureAgain, Begin
<1>4. ASSUME NEW k \in Calls, StartCallSession(k) PROVE HInv'
  <2>1. /\ k \in Threads /\ pc[k] = "session" /\ ch[k] \in Chans /\ Return(k)
        /\ UNCHANGED <<botVars, rx, starts, session, listeners, raced, refused>>
    BY <1>4, <1>t DEF StartCallSession
  <2>2. CASE UNCHANGED <<current, open, realtime, strays>>
    BY <1>r, <2>1, <2>2
  <2>3. CASE /\ GetOrSetRespGPT /\ strays' = strays \cup (open' \ open)
             /\ realtime' = [realtime EXCEPT ![ch[k]] = @ + 1] \/ UNCHANGED realtime
    <3>1. realtime' \in [Chans -> Nat]
      BY <1>t, <2>1, <2>3
    <3>2. strays' \subseteq Chans
      BY <2>3 DEF GetOrSetRespGPT, HInv, TypeOK
    <3>3. /\ back' \in [Threads -> Backs] /\ pc' = [pc EXCEPT ![k] = "done"]
          /\ ch' = [ch EXCEPT ![k] = NoCh]
      BY <2>1, <1>t DEF Return, Backs
    <3> QED
      BY <2>1, <2>3, <3>1, <3>2, <3>3, <1>t, ModelStep
  <2> QED
    BY <1>4, <2>2, <2>3 DEF StartCallSession
<1>5. ASSUME NEW t \in Threads, Dialog(t) \/ Channel(t) PROVE HInv'
  BY <1>5, <1>p, <1>b, <1>g, <1>r DEF Dialog, Channel
<1>6. ASSUME NEW m \in Msgs, Process(m) \/ Again(m) PROVE HInv'
  BY <1>6, <1>t, <1>c, <1>f, <1>r DEF Process, Again
<1>7. ASSUME NEW m \in Msgs, Send(m) \/ Resend(m) PROVE HInv'
  <2>1. /\ UNCHANGED <<botVars, current, open, starts, session, realtime, listeners,
                       refused, strays>>
        /\ m \in Threads /\ pc[m] \in {"send", "resend"}
    BY <1>7, <1>t DEF Send, Resend
  <2>2. CASE Call(m, "resend") /\ UNCHANGED rx
    BY <1>c, <2>1, <2>2
  <2>3. CASE Return(m) /\ UNCHANGED <<rx, raced>>
    BY <1>r, <2>1, <2>3
  <2>4. ASSUME NEW c, HasRoom(c), rx' = [rx EXCEPT ![c] = @ + 1], Return(m), UNCHANGED raced
        PROVE  HInv'
    <3>1. rx[c] + 1 \in 0..RxCap /\ c \in open /\ c \in Chans
      BY <2>4, <1>t, RxCapAssumption DEF HasRoom
    <3>2. /\ rx' \in [Chans -> 0..RxCap]
          /\ \A d \in Chans : rx'[d] > 0 => rx[d] > 0 \/ d \in open
      BY <2>4, <3>1, <1>t
    <3> QED
      BY <2>1, <2>4, <3>2, <1>t, <1>p, ThreadStep DEF Return, Backs
  <2> QED
    BY <1>7, <2>2, <2>3, <2>4 DEF Send, Resend
<1>8. ASSUME NEW t \in Threads, Clean(t) PROVE HInv'
  <2>1. TypeOK'
    BY <1>8, <1>p DEF Clean, Goto, HInv, TypeOK
  <2> QED
    BY <1>8, <2>1 DEF Clean, Goto, HInv, TypeOK, HeardFromTheStart, HeardWhenOffered,
       ClosedBySession, OverIsClosed, InUse
<1>9. ASSUME NEW t \in Threads, Make(t) PROVE HInv'
  <2>1. /\ pc[t] = "make"
        /\ UNCHANGED <<botVars, rx, starts, session, realtime, listeners, history>>
    BY <1>9 DEF Make
  <2>2. CASE GetOrSetRespGPT /\ Goto(t, "listen") /\ UNCHANGED ch
    <3>1. strays \subseteq Chans
      BY DEF HInv, TypeOK
    <3> QED
      BY <2>1, <2>2, <3>1, <1>t, ModelStep DEF Goto
  <2>3. CASE Return(t) /\ UNCHANGED <<current, open>>
    BY <1>r, <2>1, <2>3
  <2> QED
    BY <1>9, <2>2, <2>3 DEF Make
<1>10. ASSUME NEW t \in Threads, Listen(t) PROVE HInv'
  <2>1. /\ pc[t] = "listen"
        /\ UNCHANGED <<botVars, current, open, rx, starts, session, realtime, history>>
    BY <1>10 DEF Listen
  <2>2. CASE Return(t) /\ UNCHANGED listeners
    BY <1>r, <2>1, <2>2
  <2>3. CASE /\ ch' = [ch EXCEPT ![t] = current] /\ Goto(t, "offer")
             /\ StartResponseListener(current)
    <3>1. /\ listeners' \in [Chans -> Nat]
          /\ \A c \in Chans : listeners[c] > 0 => listeners'[c] > 0
          /\ current \in Chans \ Addressless => listeners'[current] > 0
      BY <2>3, <1>t DEF StartResponseListener, HInv, TypeOK
    <3>2. /\ pc' \in [Threads -> Pcs] /\ pc'[t] = "offer" /\ ch'[t] = current
          /\ \A u \in Threads \ {t} : pc'[u] = pc[u] /\ ch'[u] = ch[u]
          /\ ch' \in [Threads -> Chans \cup {NoCh}] /\ UNCHANGED back
      BY <2>3, <1>t DEF Goto, Pcs, InitPcs, HInv, TypeOK
    <3>3. TypeOK'
      BY <2>1, <3>1, <3>2 DEF HInv, TypeOK
    <3>4. HeardFromTheStart' /\ HeardWhenOffered'
      BY <2>1, <3>1, <3>2, <1>t DEF HInv, HeardFromTheStart, HeardWhenOffered
    <3>5. ClosedBySession' /\ OverIsClosed'
      BY <2>1, <3>2 DEF HInv, ClosedBySession, OverIsClosed, InUse
    <3> QED
      BY <3>3, <3>4, <3>5 DEF HInv
  <2> QED
    BY <1>10, <2>2, <2>3 DEF Listen
<1>11. ASSUME NEW t \in Threads, Offer(t) PROVE HInv'
  <2>1. /\ pc[t] = "offer"
        /\ UNCHANGED <<botVars, current, open, rx, session, realtime, listeners, raced,
                       strays>>
        /\ refused' \in BOOLEAN
        /\ UNCHANGED starts \/ Started(ch[t])
    BY <1>11, <1>t DEF Offer
  <2>2. /\ pc' \in [Threads -> Pcs] /\ ch' \in [Threads -> Chans \cup {NoCh}]
        /\ back' \in [Threads -> Backs]
        /\ \A u \in Threads \ {t} : pc'[u] = pc[u] /\ ch'[u] = ch[u]
        /\ pc'[t] \notin {"offer", "send", "session"}
    <3>1. CASE Return(t)
      BY <3>1, <1>t, <1>p DEF Return, HInv, TypeOK, Backs
    <3>2. CASE Back(t)
      BY <3>2, <1>t, <1>p DEF Back, Goto, HInv, TypeOK, Backs
    <3> QED
      BY <1>11, <3>1, <3>2 DEF Offer
  <2>3. /\ starts' \in [Chans -> Nat]
        /\ \A c \in Chans \ {ch[t]} : starts'[c] = starts[c]
    BY <2>1 DEF Started, HInv, TypeOK
  <2>4. TypeOK'
    BY <2>1, <2>2, <2>3 DEF HInv, TypeOK, Backs
  <2>5. HeardFromTheStart'
    BY <2>1, <2>3 DEF HInv, HeardFromTheStart, HeardWhenOffered
  <2>6. HeardWhenOffered' /\ ClosedBySession' /\ OverIsClosed'
    BY <2>1, <2>2 DEF HInv, HeardWhenOffered, ClosedBySession, OverIsClosed, InUse
  <2> QED
    BY <2>4, <2>5, <2>6 DEF HInv
<1>12. CASE StopBot
  BY <1>12 DEF StopBot, HInv, TypeOK, HeardFromTheStart, HeardWhenOffered,
     ClosedBySession, OverIsClosed, InUse
<1>13. ASSUME NEW c \in Chans, ListenerEnd(c) PROVE HInv'
  <2>1. /\ ~live \/ c \notin open
        /\ UNCHANGED <<botVars, current, open, rx, starts, session, realtime, threadVars,
                       history>>
        /\ listeners' \in [Chans -> Nat]
        /\ \A d \in Chans \ {c} : listeners'[d] = listeners[d]
    BY <1>13 DEF ListenerEnd, HInv, TypeOK
  <2>2. TypeOK' /\ ClosedBySession' /\ OverIsClosed'
    BY <2>1 DEF HInv, TypeOK, ClosedBySession, OverIsClosed, InUse
  <2>3. HeardFromTheStart' /\ HeardWhenOffered'
    BY <2>1, <1>t DEF HInv, HeardFromTheStart, HeardWhenOffered
  <2> QED
    BY <2>2, <2>3 DEF HInv
<1>14. ASSUME NEW c \in Chans, StartSession(c) PROVE HInv'
  BY <1>14 DEF StartSession, HInv, TypeOK, HeardFromTheStart, HeardWhenOffered,
     ClosedBySession, OverIsClosed, InUse
<1>15. ASSUME NEW c \in Chans, Consume(c) PROVE HInv'
  <2>1. /\ rx' \in [Chans -> 0..RxCap] /\ \A d \in Chans : rx[d] = 0 => rx'[d] = 0
    <3>1. rx[c] - 1 \in 0..RxCap /\ rx[c] # 0
      BY <1>15, <1>t, RxCapAssumption DEF Consume
    <3> QED
      BY <1>15, <1>t, <3>1 DEF Consume
  <2> QED
    BY <1>15, <2>1 DEF Consume, HInv, TypeOK, HeardFromTheStart, HeardWhenOffered,
       ClosedBySession, OverIsClosed, InUse
<1>16. ASSUME NEW c \in Chans, EndSession(c) PROVE HInv'
  BY <1>16, <1>t, CloseStep DEF EndSession
<1>17. ASSUME NEW c \in Chans, EndCallSession(c) PROVE HInv'
  <2>1. realtime' \in [Chans -> Nat]
    BY <1>17, <1>t DEF EndCallSession
  <2>2. CASE Close(c)
    BY <1>17, <2>1, <2>2, CloseStep DEF EndCallSession
  <2>3. CASE UNCHANGED <<current, open, rx, session>>
    BY <1>17, <2>1, <2>3 DEF EndCallSession, HInv, TypeOK, HeardFromTheStart,
       HeardWhenOffered, ClosedBySession, OverIsClosed, InUse
  <2> QED
    BY <1>17, <2>2, <2>3 DEF EndCallSession
<1> QED
  BY <1>1, <1>2, <1>3, <1>4, <1>5, <1>6, <1>7, <1>8, <1>9, <1>10, <1>11, <1>12, <1>13,
     <1>14, <1>15, <1>16, <1>17 DEF Next, ProcessMessage, InitUserChannels, StartRealtime,
     Core

-----------------------------------------------------------------------------
(* While no two threads are in initUserChannels.  What the thread that      *)
(* makes channels knows of them stays true until it has offered them: the   *)
(* others only use them, and the core has not heard of them yet.            *)

Alone == \A t, u \in Threads : pc[t] \in InitPcs /\ pc[u] \in InitPcs => t = u

\* Nobody listens to c, and it has not been offered.
Fresh(c) == listeners[c] = 0 /\ starts[c] = 0

Serial ==
    /\ Alone
    /\ \A c \in Chans : listeners[c] <= 1 /\ starts[c] <= 1
    /\ \A t \in Threads :
          /\ pc[t] \in {"make", "listen"} /\ current # NoCh => Fresh(current)
          /\ pc[t] = "offer" /\ ch[t] # NoCh => starts[ch[t]] = 0

\* Where the next message may go.
InHand(c) == c = current \/ \E t \in Threads : pc[t] = "send" /\ ch[t] = c

Attended ==
    \A c \in Chans \ ({old} \cup strays) :
        (InHand(c) /\ c \in open) \/ rx[c] > 0 => Served(c) \/ Offering(c)

SInv == ~raced => Serial /\ (~refused => Attended)

LEMMA SInvInit == Init => SInv
<1> SUFFICES ASSUME Init PROVE Serial /\ Attended
  BY DEF SInv
<1>1. Serial
  BY DEF Init, Serial, Alone, InitPcs
<1>2. Attended
  BY DEF Init, Attended, InHand
<1> QED
  BY <1>1, <1>2

\* What has happened is not forgotten.
LEMMA HistoryGrows ==
  ASSUME HInv, [Next]_vars PROVE (raced => raced') /\ (refused => refused')
<1> DEFINE G == (raced => raced') /\ (refused => refused')
<1> USE DEF history
<1>b. raced \in BOOLEAN
  BY DEF HInv, TypeOK
<1>1. CASE UNCHANGED vars
  BY <1>1 DEF vars
<1>2. ASSUME NEW m \in Msgs, Handle(m) PROVE G
  BY <1>b, <1>2 DEF Handle, Begin, Call
<1>3. ASSUME NEW k \in Calls, StartRealtime(k) PROVE G
  BY <1>b, <1>3 DEF StartRealtime, Ensure, Begin, Call, EnsureAgain, StartCallSession
<1>4. ASSUME NEW t \in Threads, InitUserChannels(t) PROVE G
  BY <1>4 DEF InitUserChannels, Dialog, Channel, Clean, Make, Listen, Offer
<1>5. ASSUME NEW m \in Msgs, ProcessMessage(m) PROVE G
  BY <1>b, <1>5 DEF ProcessMessage, Process, Again, Send, Resend, Call
<1>6. ASSUME NEW c \in Chans, ListenerEnd(c) \/ Core(c) \/ EndSession(c) \/ EndCallSession(c)
      PROVE  G
  BY <1>6 DEF ListenerEnd, Core, StartSession, Consume, EndSession, EndCallSession
<1>7. CASE StopBot
  BY <1>7 DEF StopBot
<1> QED
  BY <1>1, <1>2, <1>3, <1>4, <1>5, <1>6, <1>7 DEF Next

\* A step to a place where the thread needs to know nothing, and that leaves the channels
\* alone but for a message to those at hand.
LEMMA SerialStep ==
  ASSUME HInv, SInv, ~raced, NEW t \in Threads,
         UNCHANGED <<old, current, open, starts, session, listeners, strays>>,
         \E where \in Pcs \ {"make", "listen", "offer"} : pc' = [pc EXCEPT ![t] = where],
         \E c \in Chans \cup {NoCh} : ch' = ch \/ ch' = [ch EXCEPT ![t] = c],
         pc'[t] \in InitPcs =>
            pc[t] \in InitPcs \/ \A u \in Threads \ {t} : pc[u] \notin InitPcs,
         pc'[t] = "send" => ch'[t] = current,
         pc[t] \notin {"listen", "offer"},
         ~refused' => ~refused,
         \A c \in Chans : rx'[c] > 0 => rx[c] > 0 \/ (c \in open /\ InHand(c))
  PROVE  Serial' /\ (~refused' => Attended')
<1>1. /\ \A u \in Threads \ {t} : pc'[u] = pc[u] /\ ch'[u] = ch[u]
      /\ pc'[t] \notin {"make", "listen", "offer"}
  BY DEF HInv, TypeOK
<1>2. \A c \in Chans : Offering(c) => Offering(c)'
  BY <1>1 DEF Offering
<1>3. Serial'
  BY <1>1 DEF SInv, Serial, Alone, Fresh
<1>4. ASSUME ~refused, Attended PROVE Attended'
  <2>1. \A c \in Chans : InHand(c)' => InHand(c)
    BY <1>1 DEF InHand
  <2> QED
    BY <1>2, <1>4, <2>1 DEF Attended, Served
<1> QED
  BY <1>3, <1>4 DEF SInv

\* GetOrSetRespGPT makes channels that are fresh.
LEMMA FreshStep ==
  ASSUME HInv, GetOrSetRespGPT, ~UNCHANGED <<current, open>>
  PROVE  /\ current = NoCh /\ current' \in Chans \ ({old} \cup open) /\ Fresh(current')
         /\ open' = open \cup {current'}
BY DEF GetOrSetRespGPT, Fresh

\* The core closes channels.
LEMMA SerialClose ==
  ASSUME HInv, SInv, ~raced, NEW c \in Chans, Close(c),
         UNCHANGED <<old, starts, listeners, threadVars, history>>
  PROVE  Serial' /\ (~refused' => Attended')
<1> USE DEF threadVars, history
<1>1. /\ rx'[c] = 0 /\ open' = open \ {c}
      /\ \A d \in Chans \ {c} : rx'[d] = rx[d] /\ session'[d] = session[d]
      /\ current' = current \/ (current = c /\ current' = NoCh)
  BY DEF Close, HInv, TypeOK
<1>2. Serial'
  BY <1>1 DEF SInv, Serial, Alone, Fresh
<1>3. ASSUME ~refused PROVE Attended'
  <2> SUFFICES ASSUME NEW d \in Chans \ ({old} \cup strays),
                      ((InHand(d) /\ d \in open) \/ rx[d] > 0)'
               PROVE  (Served(d) \/ Offering(d))'
    BY DEF Attended
  <2>1. d # c
    BY <1>1
  <2>2. InHand(d)' => InHand(d)
    BY <1>1, ChansAssumption DEF InHand
  <2>3. Served(d) \/ Offering(d)
    BY <1>1, <1>3, <2>1, <2>2 DEF SInv, Attended
  <2> QED
    BY <1>1, <2>1, <2>3 DEF Served, Offering
<1> QED
  BY <1>2, <1>3

LEMMA SInvStep == HInv /\ SInv /\ [Next]_vars => SInv'
<1> SUFFICES ASSUME HInv, SInv, [Next]_vars, ~raced'
             PROVE  Serial' /\ (~refused' => Attended')
  BY DEF SInv
<1> DEFINE G == Serial' /\ (~refused' => Attended')
<1> USE ChansAssumption DEF botVars, chanVars, history, threadVars
<1>t. /\ Msgs \subseteq Threads /\ Calls \subseteq Threads
      /\ rx \in [Chans -> 0..RxCap] /\ rx \in [Chans -> Nat]
      /\ current \in Chans \cup {NoCh} /\ open \subseteq Chans
      /\ \A t \in Threads : back[t] \in Backs
      /\ pc \in [Threads -> Pcs] /\ ch \in [Threads -> Chans \cup {NoCh}]
      /\ \A t \in Threads : pc[t] \in {"send", "session"} => ch[t] \in Chans
      /\ starts \in [Chans -> Nat] /\ listeners \in [Chans -> Nat]
      /\ session \in [Chans -> {"none", "run", "over"}]
  BY DEF HInv, TypeOK, Threads, Backs
<1>p. {"new", "process", "again", "send", "resend", "done", "found", "session", "channel",
       "clean"} \subseteq Pcs \ {"make", "listen", "offer"}
  BY DEF Pcs, InitPcs, CallPcs
<1>o. ~raced /\ Serial /\ (~refused => Attended) /\ (~refused' => ~refused)
  BY HistoryGrows DEF SInv
<1>a. \A t \in Threads : pc[t] \in InitPcs => \A u \in Threads \ {t} : pc[u] \notin InitPcs
  BY <1>o DEF Serial, Alone
<1>i. InitPcs = {"channel", "clean", "make", "listen", "offer"}
  BY DEF InitPcs
<1>1. CASE UNCHANGED vars
  BY <1>1, <1>o DEF vars, Serial, Alone, Fresh, Attended, InHand, Offering, Served
\* The steps that leave the channels alone.
<1>c. ASSUME NEW t \in Threads, NEW where, Call(t, where), pc[t] \notin InitPcs,
             UNCHANGED <<botVars, chanVars, refused, strays>>
      PROVE  G
  <2>1. \A u \in Threads \ {t} : pc[u] \notin InitPcs
    BY <1>c DEF Call
  <2>2. pc' = [pc EXCEPT ![t] = "channel"] /\ ch' = ch
    BY <1>c DEF Call
  <2> QED
    BY <1>c, <1>o, <1>p, <1>t, <1>i, <2>1, <2>2, SerialStep
<1>r. ASSUME NEW t \in Threads, Return(t), pc[t] \notin {"listen", "offer"},
             UNCHANGED <<botVars, chanVars, history>>
      PROVE  G
  BY <1>r, <1>o, <1>p, <1>t, <1>i, SerialStep DEF Return
<1>g. ASSUME NEW t \in Threads, pc[t] \notin {"listen", "offer"},
             NEW where \in {"process", "again", "resend", "found", "done"},
             Goto(t, where), UNCHANGED <<botVars, chanVars, ch, history>>
      PROVE  G
  BY <1>g, <1>o, <1>p, <1>t, <1>i, SerialStep DEF Goto
<1>f. ASSUME NEW t \in Threads, NEW where \in {"send", "session"},
             pc[t] \notin {"listen", "offer"},
             Found(t, where), UNCHANGED <<botVars, chanVars, history>>
      PROVE  G
  <2>1. /\ pc' = [pc EXCEPT ![t] = where] /\ ch' = [ch EXCEPT ![t] = current]
        /\ ch'[t] = current
    BY <1>f, <1>t DEF Found, Goto
  <2> QED
    BY <1>f, <1>o, <1>p, <1>t, <1>i, <2>1, SerialStep
<1>b. ASSUME NEW t \in Threads, Back(t), pc[t] \notin {"listen", "offer"},
             UNCHANGED <<botVars, chanVars, history>>
      PROVE  G
  BY <1>b, <1>g, <1>t DEF Back, Backs
<1>2. ASSUME NEW m \in Msgs, Handle(m) PROVE G
  BY <1>2, <1>t, <1>i, <1>c, <1>g DEF Handle, Begin
<1>3. ASSUME NEW k \in Calls, Ensure(k) \/ EnsureAgain(k) PROVE G
  BY <1>3, <1>t, <1>i, <1>c, <1>f, <1>r DEF Ensure, EnsureAgain, Begin
<1>4. ASSUME NEW k \in Calls, StartCallSession(k) PROVE G
  <2>1. /\ k \in Threads /\ pc[k] = "session" /\ pc' = [pc EXCEPT ![k] = "done"]
        /\ ch' = [ch EXCEPT ![k] = NoCh]
        /\ UNCHANGED <<botVars, rx, starts, session, listeners, raced, refused>>
        /\ strays \subseteq strays'
    BY <1>4, <1>t DEF StartCallSession, Return
  <2>2. /\ \A u \in Threads \ {k} : pc'[u] = pc[u] /\ ch'[u] = ch[u]
        /\ pc'[k] = "done"
    BY <2>1, <1>t
  <2>3. CASE UNCHANGED <<current, open>>
    <3>1. Serial'
      BY <1>o, <1>i, <2>1, <2>2, <2>3 DEF Serial, Alone, Fresh
    <3>2. \A c \in Chans : (Offering(c) => Offering(c)') /\ (InHand(c)' => InHand(c))
      BY <2>1, <2>2, <2>3 DEF Offering, InHand
    <3>3. ~refused => Attended'
      BY <1>o, <2>1, <2>3, <3>2 DEF Attended, Served
    <3> QED
      BY <2>1, <3>1, <3>3
  <2>4. CASE ~UNCHANGED <<current, open>>
    <3>1. /\ current = NoCh /\ current' \in Chans \ ({old} \cup open) /\ Fresh(current')
          /\ open' = open \cup {current'} /\ strays' = strays \cup (open' \ open)
      BY <1>4, <2>4, FreshStep DEF StartCallSession
    <3>2. Serial'
      BY <1>o, <1>i, <2>1, <2>2, <3>1 DEF Serial, Alone, Fresh
    <3>3. \A c \in Chans : /\ Offering(c) => Offering(c)'
                           /\ InHand(c)' => InHand(c) \/ c = current'
      BY <2>1, <2>2, <3>1 DEF Offering, InHand
    <3>4. ~refused => Attended'
      BY <1>o, <2>1, <3>1, <3>3 DEF Attended, Served
    <3> QED
      BY <2>1, <3>2, <3>4
  <2> QED
    BY <2>3, <2>4
<1>5. ASSUME NEW t \in Threads, Dialog(t) PROVE G
  BY <1>5, <1>b, <1>r DEF Dialog
<1>6. ASSUME NEW t \in Threads, Channel(t) PROVE G
  <2>1. pc[t] = "channel" /\ UNCHANGED <<botVars, chanVars, history>>
    BY <1>6 DEF Channel
  <2>2. CASE current = NoCh /\ Goto(t, "make") /\ UNCHANGED ch
    <3>1. /\ pc'[t] = "make"
          /\ \A u \in Threads \ {t} : pc'[u] = pc[u]
      BY <1>t, <2>2 DEF Goto
    <3>2. Serial'
      BY <1>a, <1>o, <1>i, <2>1, <2>2, <3>1 DEF Serial, Alone, Fresh
    <3>3. \A c \in Chans : (Offering(c) => Offering(c)') /\ (InHand(c)' => InHand(c))
      BY <2>1, <2>2, <3>1 DEF Offering, InHand
    <3>4. ~refused => Attended'
      BY <1>o, <2>1, <3>3 DEF Attended, Served
    <3> QED
      BY <2>1, <3>2, <3>4
  <2>3. CASE Goto(t, "clean") /\ UNCHANGED ch
    BY <1>o, <1>p, <1>t, <1>i, <2>1, <2>3, SerialStep DEF Goto
  <2> QED
    BY <1>6, <1>b, <2>1, <2>2, <2>3 DEF Channel
<1>7. ASSUME NEW t \in Threads, Clean(t) PROVE G
  <2>1. /\ pc[t] = "clean" /\ pc'[t] = "make" /\ current' = NoCh
        /\ \A u \in Threads \ {t} : pc'[u] = pc[u]
        /\ UNCHANGED <<botVars, open, rx, starts, session, listeners, ch, history>>
    BY <1>7, <1>t DEF Clean, Goto
  <2>2. Serial'
    BY <1>a, <1>o, <1>i, <2>1 DEF Serial, Alone, Fresh
  <2>3. \A c \in Chans : ~Offering(c) /\ (InHand(c)' => InHand(c))
    BY <1>a, <1>i, <2>1 DEF Offering, InHand
  <2>4. ~refused => Attended'
    BY <1>o, <2>1, <2>3 DEF Attended, Served
  <2> QED
    BY <2>1, <2>2, <2>4
<1>8. ASSUME NEW t \in Threads, Make(t) PROVE G
  <2>1. /\ pc[t] = "make"
        /\ UNCHANGED <<botVars, rx, starts, session, listeners, history>>
    BY <1>8 DEF Make
  <2>2. CASE Return(t) /\ UNCHANGED <<current, open>>
    BY <1>8, <1>r, <2>1, <2>2 DEF Make
  <2>3. CASE GetOrSetRespGPT /\ Goto(t, "listen") /\ UNCHANGED ch
    <3>1. /\ pc'[t] = "listen"
          /\ \A u \in Threads \ {t} : pc'[u] = pc[u]
      BY <1>t, <2>3 DEF Goto
    <3>2. current' = current \/ (current = NoCh /\ Fresh(current'))
      BY <2>3, FreshStep
    <3>3. Serial'
      BY <1>a, <1>o, <1>i, <2>1, <2>3, <3>1, <3>2 DEF Serial, Alone, Fresh
    <3>4. \A c \in Chans : /\ ~Offering(c)
                           /\ InHand(c)' => InHand(c) \/ c = current'
                           /\ c = current' => Offering(c)'
      BY <1>a, <1>i, <2>1, <2>3, <3>1 DEF Offering, InHand
    <3>5. open' = open \/ (open' = open \cup {current'})
      BY <2>3 DEF GetOrSetRespGPT
    <3>6. ~refused => Attended'
      BY <1>o, <2>1, <3>4, <3>5 DEF Attended, Served
    <3> QED
      BY <2>1, <3>3, <3>6
  <2> QED
    BY <1>8, <2>2, <2>3 DEF Make
<1>9. ASSUME NEW t \in Threads, Listen(t) PROVE G
  <2>1. /\ pc[t] = "listen"
        /\ UNCHANGED <<botVars, current, open, rx, starts, session, history>>
    BY <1>9 DEF Listen
  <2>2. CASE current = NoCh /\ Return(t) /\ UNCHANGED listeners
    <3>1. pc'[t] = "done" /\ \A u \in Threads \ {t} : pc'[u] = pc[u] /\ ch'[u] = ch[u]
      BY <1>t, <2>2 DEF Return
    <3>2. Serial'
      BY <1>a, <1>o, <1>i, <2>1, <2>2, <3>1 DEF Serial, Alone, Fresh
    <3>3. \A c \in Chans : ~Offering(c) /\ (InHand(c)' => InHand(c))
      BY <1>a, <1>i, <2>1, <2>2, <3>1 DEF Offering, InHand
    <3>4. ~refused => Attended'
      BY <1>o, <2>1, <3>3 DEF Attended, Served
    <3> QED
      BY <2>1, <3>2, <3>4
  <2>3. CASE /\ ch' = [ch EXCEPT ![t] = current] /\ Goto(t, "offer")
             /\ StartResponseListener(current)
    <3>1. /\ pc'[t] = "offer" /\ ch'[t] = current
          /\ \A u \in Threads \ {t} : pc'[u] = pc[u] /\ ch'[u] = ch[u]
      BY <1>t, <2>3 DEF Goto
    <3>2. \A c \in Chans : listeners'[c] <= 1
      BY <1>o, <1>t, <2>1, <2>3 DEF StartResponseListener, Serial, Fresh
    <3>3. Serial'
      BY <1>a, <1>o, <1>i, <2>1, <3>1, <3>2 DEF Serial, Alone, Fresh
    <3>4. \A c \in Chans : (Offering(c) => Offering(c)') /\ (InHand(c)' => InHand(c))
      BY <1>a, <1>i, <2>1, <3>1 DEF Offering, InHand
    <3>5. ~refused => Attended'
      BY <1>o, <2>1, <3>4 DEF Attended, Served
    <3> QED
      BY <2>1, <3>3, <3>5
  <2> QED
    BY <1>9, <2>2, <2>3 DEF Listen
<1>10. ASSUME NEW t \in Threads, Offer(t) PROVE G
  <2>1. /\ pc[t] = "offer"
        /\ UNCHANGED <<botVars, current, open, rx, session, listeners, raced, strays>>
    BY <1>10 DEF Offer
  <2>2. /\ \A u \in Threads \ {t} : pc'[u] = pc[u] /\ ch'[u] = ch[u]
        /\ pc'[t] \in Backs
    BY <1>10, <1>t DEF Offer, Back, Return, Goto, Backs
  <2>3. \A c \in Chans : InHand(c)' => InHand(c)
    BY <2>1, <2>2 DEF InHand, Backs
  <2>4. CASE Started(ch[t])
    <3>1. \A c \in Chans : starts'[c] = IF c = ch[t] THEN starts[c] + 1 ELSE starts[c]
      BY <2>4 DEF Started
    <3>2. \A c \in Chans : c = ch[t] => starts'[c] = 1
      BY <1>o, <1>t, <2>1, <3>1 DEF Serial
    <3>3. Serial'
      BY <1>a, <1>o, <1>i, <2>1, <2>2, <3>1, <3>2 DEF Serial, Alone, Fresh, Backs
    <3>4. ASSUME ~refused PROVE Attended'
      <4> SUFFICES ASSUME NEW c \in Chans \ ({old} \cup strays),
                          (InHand(c) /\ c \in open) \/ rx[c] > 0
                   PROVE  (Served(c) \/ Offering(c))'
        BY <2>1, <2>3 DEF Attended
      <4>1. CASE c = ch[t]
        BY <1>t, <2>1, <3>2, <4>1 DEF Served, HInv, OverIsClosed
      <4>2. CASE c # ch[t]
        <5>1. ~Offering(c)
          BY <1>a, <1>i, <2>1, <4>2 DEF Offering
        <5> QED
          BY <1>o, <2>1, <3>1, <3>4, <4>2, <5>1 DEF Attended, Served
      <4> QED
        BY <4>1, <4>2
    <3> QED
      BY <1>o, <3>3, <3>4
  <2>5. CASE refused' = TRUE /\ UNCHANGED starts
    BY <1>a, <1>o, <1>i, <2>1, <2>2, <2>5 DEF Serial, Alone, Fresh, Backs
  <2> QED
    BY <1>10, <2>4, <2>5 DEF Offer
<1>11. ASSUME NEW m \in Msgs, Process(m) \/ Again(m) PROVE G
  BY <1>11, <1>t, <1>i, <1>c, <1>f, <1>r DEF Process, Again
<1>12. ASSUME NEW m \in Msgs, Send(m) \/ Resend(m) PROVE G
  <2>1. /\ m \in Threads /\ pc[m] \in {"send", "resend"}
        /\ UNCHANGED <<botVars, current, open, starts, session, realtime, listeners,
                       refused, strays>>
    BY <1>12, <1>t DEF Send, Resend
  <2>2. CASE Call(m, "resend") /\ UNCHANGED rx
    BY <1>c, <1>i, <2>1, <2>2
  <2>3. CASE Return(m) /\ UNCHANGED raced
    <3>1. pc' = [pc EXCEPT ![m] = "done"] /\ ch' = [ch EXCEPT ![m] = NoCh]
      BY <2>3 DEF Return
    <3>2. \A c \in Chans : rx'[c] > 0 => rx[c] > 0 \/ (c \in open /\ InHand(c))
      BY <1>12, <1>t, <2>1 DEF Send, Resend, HasRoom, InHand
    <3> QED
      BY <1>o, <1>p, <1>t, <1>i, <2>1, <3>1, <3>2, SerialStep
  <2> QED
    BY <1>12, <2>2, <2>3 DEF Send, Resend
<1>13. CASE StopBot
  BY <1>13, <1>o DEF StopBot, Serial, Alone, Fresh, Attended, InHand, Offering, Served
<1>14. ASSUME NEW c \in Chans, ListenerEnd(c) PROVE G
  <2>1. \A d \in Chans : listeners'[d] <= listeners[d] /\ listeners'[d] \in Nat
    BY <1>14, <1>t DEF ListenerEnd
  <2>2. UNCHANGED <<botVars, current, open, rx, starts, session, threadVars, history>>
    BY <1>14 DEF ListenerEnd
  <2>3. Serial'
    BY <1>o, <1>t, <2>1, <2>2 DEF Serial, Alone, Fresh
  <2>4. ~refused => Attended'
    BY <1>o, <2>2 DEF Attended, InHand, Offering, Served
  <2> QED
    BY <2>2, <2>3, <2>4
<1>15. ASSUME NEW c \in Chans, StartSession(c) PROVE G
  <2>1. /\ starts[c] > 0 /\ session[c] = "none"
        /\ session' = [session EXCEPT ![c] = "run"]
        /\ UNCHANGED <<botVars, current, open, rx, starts, listeners, threadVars, history>>
    BY <1>15 DEF StartSession
  <2>2. Serial'
    BY <1>o, <1>t, <2>1 DEF Serial, Alone, Fresh
  <2>3. ~refused => Attended'
    BY <1>o, <1>t, <2>1 DEF Attended, InHand, Offering, Served
  <2> QED
    BY <2>1, <2>2, <2>3
<1>16. ASSUME NEW c \in Chans, Consume(c) PROVE G
  <2>1. \A d \in Chans : rx'[d] > 0 => rx[d] > 0
    BY <1>16, <1>t DEF Consume
  <2>2. UNCHANGED <<botVars, current, open, starts, session, listeners, threadVars, history>>
    BY <1>16 DEF Consume
  <2> QED
    BY <1>o, <2>1, <2>2 DEF Serial, Alone, Fresh, Attended, InHand, Offering, Served
<1>17. ASSUME NEW c \in Chans, EndSession(c) PROVE G
  BY <1>17, <1>o, SerialClose DEF EndSession
<1>18. ASSUME NEW c \in Chans, EndCallSession(c) PROVE G
  <2>1. CASE Close(c)
    BY <1>18, <1>o, <2>1, SerialClose DEF EndCallSession
  <2>2. CASE UNCHANGED <<current, open, rx, session>>
    BY <1>18, <1>o, <2>2 DEF EndCallSession, Serial, Alone, Fresh, Attended, InHand,
       Offering, Served
  <2> QED
    BY <1>18, <2>1, <2>2 DEF EndCallSession
<1> QED
  BY <1>1, <1>2, <1>3, <1>4, <1>5, <1>6, <1>7, <1>8, <1>9, <1>10, <1>11, <1>12, <1>13,
     <1>14, <1>15, <1>16, <1>17, <1>18
     DEF Next, ProcessMessage, InitUserChannels, StartRealtime, Core

-----------------------------------------------------------------------------
LEMMA HInvariant == Spec => []HInv
  BY HInvInit, HInvStep, PTL DEF Spec

LEMMA SInvariant == Spec => []SInv
  BY HInvariant, SInvInit, SInvStep, PTL DEF Spec

\* Types, for any number of messages, calls and channels: no more messages wait in
\* RxCh than it holds, and nobody sends to channels or starts a session with channels
\* that there are not (bot_channels.go, bot_message.go, calls.go).
THEOREM TypeCorrect == Spec => []TypeOK
<1>1. HInv => TypeOK
  BY DEF HInv
<1> QED
  BY <1>1, HInvariant, PTL

\* Channels that the core has been given through StartCh have a listener, as long as
\* they are open, the bot is not stopped and the contact has an address, for any
\* overlapping of messages and calls (bot_channels.go, initUserChannels).
THEOREM ListenedTo == Spec => []HeardFromTheStart
<1>1. HInv => HeardFromTheStart
  BY DEF HInv
<1> QED
  BY <1>1, HInvariant, PTL

\* Unless two threads have been in initUserChannels at the same time, channels have at
\* most one listener and are offered through StartCh at most once, for any number of
\* messages, calls and channels; the sessions that calls start are counted apart, as
\* realtime (bot_channels.go, initUserChannels; calls.go, startRealtime).
THEOREM OnceServed == Spec => []ServedOnce
<1>1. SInv => ServedOnce
  BY DEF SInv, Serial, ServedOnce
<1> QED
  BY <1>1, SInvariant, PTL

\* A message that waits in channels made by this bot has a session for messages, or an
\* offer that leads to one, unless StartCh was full, two threads have been in
\* initUserChannels at the same time, or a call had the channels made
\* (bot_channels.go:224, bot_message.go:287).
THEOREM WaitsForServer == Spec => []SentHasServer
<1>1. SInv => SentHasServer
  BY DEF SInv, Attended, SentHasServer
<1> QED
  BY <1>1, SInvariant, PTL
=============================================================================
