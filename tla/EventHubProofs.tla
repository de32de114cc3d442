--------------------------- MODULE EventHubProofs ---------------------------
(***************************************************************************)
(* Proofs about EventHub for any set of subscriptions, any replay limit    *)
(* and any number of events: type correctness, the safety invariants and   *)
(* the implementation of EventFeed.                                        *)
(*                                                                         *)
(* The safety properties are not inductive one by one.  Whether publish    *)
(* can hit a closed channel depends on what every other method leaves in   *)
(* subscribers; whether a stream is complete depends on the replay loop    *)
(* having copied exactly the window, which depends on the shape of the     *)
(* window.  IInv states these facts together.                              *)
(***************************************************************************)
EXTENDS EventHub, TLAPS, SequenceTheorems

Early == {"new", "replaying", "refused"}

\* The number of the event that the replay loop of c looks at next.
NextReplayed(c) == sequence - Len(replay) + pos[c]

\* The stream of c reaches up to the latest event.
UpToDate(c) == first[c] + Len(sent[c]) = sequence + 1

\* The stream of c owes its client every event published so far.
Entitled(c) ==
    \/ c \in subscribers
    \/ phase[c] = "completed"
    \/ phase[c] = "serving" /\ ~ctxDone[c]

\* At most one subscription holds the mutex, and only of an open hub.
MutexInv ==
    /\ \A c, d \in Channels :
          phase[c] = "replaying" /\ phase[d] = "replaying" => c = d
    /\ \A c \in Channels : phase[c] = "replaying" => ~closed

\* A channel is registered from subscribe until exactly one of unsubscribe and
\* close removes and closes it.
RegistrationInv ==
    \A c \in Channels :
        /\ c \in subscribers => ~shut[c] /\ phase[c] \in {"serving", "aborted"}
        /\ phase[c] \in Early => ~shut[c] /\ taken[c] = 0 /\ ~lagged[c]
        /\ phase[c] \in {"new", "refused"} => sent[c] = <<>> /\ pos[c] = 1
        /\ phase[c] = "serving" /\ ~ctxDone[c] => c \in subscribers \/ closed
        /\ closed => c \notin subscribers
        /\ phase[c] = "completed" => closed /\ taken[c] = Len(sent[c])

\* n is the number of events from lo up to, and without, next.
Copied(n, lo, next) ==
    /\ next > lo => n = next - lo
    /\ next <= lo => n = 0

\* The replay loop has copied the events from first up to the one before the
\* next, and no other.
ReplayInv ==
    \A c \in Channels :
        phase[c] = "replaying" =>
            /\ first[c] = FirstAfter(from[c])
            /\ pos[c] <= Len(replay) + 1
            /\ Copied(Len(sent[c]), first[c], NextReplayed(c))

\* The elements of s lie between lo and hi and increase strictly.
Increasing(s, lo, hi) ==
    /\ \A i \in 1..Len(s) : lo <= s[i] /\ s[i] <= hi
    /\ \A i, j \in 1..Len(s) : i < j => s[i] < s[j]

\* The elements of s are lo, lo + 1, lo + 2, ...
Consecutive(s, lo) == \A i \in 1..Len(s) : s[i] = lo + i - 1

\* What has been sent: increasing, from first on, consecutive without lag.
StreamInv ==
    \A c \in Channels :
        /\ taken[c] <= Len(sent[c])
        /\ first[c] <= sequence + 1
        /\ Increasing(sent[c], first[c], sequence)
        /\ ~lagged[c] =>
              /\ Consecutive(sent[c], first[c])
              /\ Entitled(c) => UpToDate(c)

IInv ==
    /\ TypeOK
    /\ NoPanic
    /\ ReplayWindow
    /\ MutexInv
    /\ RegistrationInv
    /\ ReplayInv
    /\ StreamInv

-----------------------------------------------------------------------------
(* Lemmas about the helpers.                                               *)

\* publish keeps the window a window: trimming the extended replay sequence
\* yields the newest events, at most Limit of them.
LEMMA TrimAppend ==
    ASSUME NEW s \in Seq(Nat), NEW n \in Nat,
           IsWindow(s, n),
           NEW t, t = Trim(Append(s, n + 1))
    PROVE  t \in Seq(Nat) /\ IsWindow(t, n + 1)
<1> DEFINE a == Append(s, n + 1)
<1>1. /\ a \in Seq(Nat)
      /\ Len(a) = Len(s) + 1
      /\ \A i \in 1..Len(s) : a[i] = s[i]
      /\ a[Len(s) + 1] = n + 1
      /\ Len(s) \in Nat
  BY AppendProperties, LenProperties
<1>2. t = Trim(a)
  OBVIOUS
<1> HIDE DEF a
<1>3. ASSUME NEW i \in 1..Len(a)
      PROVE  a[i] = n + 1 - Len(a) + i
  <2>1. CASE i = Len(s) + 1
    BY <1>1, <2>1
  <2>2. CASE i \in 1..Len(s)
    <3>1. a[i] = s[i] /\ s[i] = n - Len(s) + i
      BY <1>1, <2>2 DEF IsWindow
    <3> QED
      BY <1>1, <2>2, <3>1
  <2> QED
    BY <1>1, <2>1, <2>2
<1>4. CASE Len(a) > Limit
  <2>1. Len(a) = Limit + 1 /\ Len(a) - Limit + 1 = 2 /\ n + 1 > Limit
    BY <1>1, <1>4, LimitAssumption DEF IsWindow
  <2>2. t = SubSeq(a, 2, Len(a))
    BY <1>2, <1>4, <2>1 DEF Trim
  <2>3. \A i \in 2..Len(a) : a[i] \in Nat
    BY <1>1
  <2>4. /\ SubSeq(a, 2, Len(a)) \in Seq(Nat)
        /\ Len(SubSeq(a, 2, Len(a))) = IF 2 <= Len(a) THEN Len(a) - 2 + 1 ELSE 0
        /\ \A i \in 1..(Len(a) - 2 + 1) : SubSeq(a, 2, Len(a))[i] = a[2 + i - 1]
    <3>1. 2 \in Int /\ Len(a) \in Int
      BY <1>1
    <3> QED
      BY <2>3, <3>1, SubSeqProperties
  <2>5. t \in Seq(Nat) /\ Len(t) = Limit
    <3>1. t \in Seq(Nat)
      BY <2>2, <2>4, Zenon
    <3>2. Len(t) = IF 2 <= Len(a) THEN Len(a) - 2 + 1 ELSE 0
      BY <2>2, <2>4, Zenon
    <3> QED
      BY <2>1, <3>1, <3>2, LimitAssumption
  <2>6. ASSUME NEW i \in 1..Limit
        PROVE  t[i] = n + 1 - Limit + i
    <3>1. i + 1 \in 1..Len(a) /\ i \in 1..(Len(a) - 2 + 1) /\ 2 + i - 1 = i + 1
      BY <2>1, LimitAssumption
    <3>2. t[i] = a[i + 1]
      BY <2>2, <2>4, <3>1
    <3>3. a[i + 1] = n + 1 - Len(a) + (i + 1)
      BY <1>3, <3>1
    <3> QED
      BY <2>1, <3>2, <3>3, LimitAssumption
  <2>7. \A i \in 1..Len(t) : t[i] = n + 1 - Len(t) + i
    BY <2>5, <2>6
  <2> QED
    BY <2>1, <2>5, <2>7, LimitAssumption DEF IsWindow
<1>5. CASE ~(Len(a) > Limit)
  <2>1. t = a
    BY <1>2, <1>5 DEF Trim
  <2>2. /\ n + 1 <= Limit => Len(a) = n + 1
        /\ n + 1 > Limit => Len(a) = Limit
    BY <1>1, <1>5, LimitAssumption DEF IsWindow
  <2> QED
    <3>1. IsWindow(a, n + 1)
      BY <1>3, <2>2 DEF IsWindow
    <3> QED
      BY <1>1, <2>1, <3>1, Zenon
<1> QED
  BY <1>4, <1>5

\* A stream subscribed now starts inside the window or right after it.
LEMMA FirstAfterBounds ==
    ASSUME TypeOK, ReplayWindow, NEW n \in Nat
    PROVE  /\ FirstAfter(n) \in Nat \ {0}
           /\ FirstAfter(n) <= sequence + 1
           /\ FirstAfter(n) >= sequence - Len(replay) + 1
BY LimitAssumption, LenProperties DEF TypeOK, ReplayWindow, IsWindow, FirstAfter

\* What appending one number to a channel does.
LEMMA AppendNumber ==
    ASSUME NEW s \in Seq(Nat), NEW n \in Nat
    PROVE  /\ Append(s, n) \in Seq(Nat)
           /\ Len(s) \in Nat
           /\ Len(Append(s, n)) = Len(s) + 1
           /\ \A i \in 1..Len(s) : Append(s, n)[i] = s[i]
           /\ Append(s, n)[Len(s) + 1] = n
BY AppendProperties, LenProperties


LEMMA IncreasingAppend ==
    ASSUME NEW s \in Seq(Nat), NEW lo \in Nat, NEW hi \in Nat, NEW n \in Nat,
           Increasing(s, lo, hi), hi < n, lo <= n
    PROVE  Increasing(Append(s, n), lo, n)
<1> DEFINE a == Append(s, n)
<1>1. /\ Len(s) \in Nat /\ Len(a) = Len(s) + 1
      /\ \A i \in 1..Len(s) : a[i] = s[i] /\ s[i] \in Nat
      /\ a[Len(s) + 1] = n
  BY AppendNumber
<1> HIDE DEF a
<1>2. ASSUME NEW i \in 1..Len(a)
      PROVE  lo <= a[i] /\ a[i] <= n
  <2>1. CASE i \in 1..Len(s)
    BY <1>1, <2>1 DEF Increasing
  <2>2. CASE i = Len(s) + 1
    BY <1>1, <2>2
  <2> QED
    BY <1>1, <2>1, <2>2
<1>3. ASSUME NEW i \in 1..Len(a), NEW j \in 1..Len(a), i < j
      PROVE  a[i] < a[j]
  <2>1. i \in 1..Len(s)
    BY <1>1, <1>3
  <2>2. CASE j \in 1..Len(s)
    BY <1>1, <1>3, <2>1, <2>2 DEF Increasing
  <2>3. CASE j = Len(s) + 1
    BY <1>1, <2>1, <2>3 DEF Increasing
  <2> QED
    BY <1>1, <2>2, <2>3
<1> QED
  BY <1>2, <1>3 DEF Increasing, a

LEMMA IncreasingWiden ==
    ASSUME NEW s \in Seq(Nat), NEW lo \in Nat, NEW hi \in Nat,
           Increasing(s, lo, hi)
    PROVE  Increasing(s, lo, hi + 1)
<1>1. \A i \in 1..Len(s) : s[i] \in Nat
  OBVIOUS
<1> QED
  BY <1>1 DEF Increasing

LEMMA ConsecutiveAppend ==
    ASSUME NEW s \in Seq(Nat), NEW lo \in Nat,
           Consecutive(s, lo)
    PROVE  Consecutive(Append(s, lo + Len(s)), lo)
<1> DEFINE n == lo + Len(s)
           a == Append(s, n)
<1>1. /\ Len(s) \in Nat /\ n \in Nat /\ n = lo + Len(s)
      /\ Len(a) = Len(s) + 1
      /\ \A i \in 1..Len(s) : a[i] = s[i]
      /\ a[Len(s) + 1] = n
  <2>1. n \in Nat
    BY LenProperties
  <2> QED
    BY <2>1, AppendNumber
<1> HIDE DEF a, n
<1>2. ASSUME NEW i \in 1..Len(a)
      PROVE  a[i] = lo + i - 1
  <2>1. CASE i \in 1..Len(s)
    BY <1>1, <2>1 DEF Consecutive
  <2>2. CASE i = Len(s) + 1
    BY <1>1, <2>2
  <2> QED
    BY <1>1, <2>1, <2>2
<1> QED
  BY <1>2 DEF Consecutive, a, n

LEMMA ConsecutiveIncreases ==
    ASSUME NEW s \in Seq(Nat), NEW lo \in Nat, NEW hi \in Nat,
           Consecutive(s, lo), lo + Len(s) <= hi + 1
    PROVE  Increasing(s, lo, hi)
<1>1. Len(s) \in Nat
  BY LenProperties
<1> QED
  BY <1>1 DEF Consecutive, Increasing

LEMMA EmptyStream ==
    ASSUME NEW lo, NEW hi
    PROVE  /\ <<>> \in Seq(Nat) /\ Len(<<>>) = 0
           /\ Increasing(<<>>, lo, hi)
           /\ Consecutive(<<>>, lo)
BY DEF Increasing, Consecutive

-----------------------------------------------------------------------------
(* The initial states and the actions, one lemma each.                     *)

LEMMA InitInv == Init => IInv
<1> SUFFICES ASSUME Init PROVE IInv
  OBVIOUS
<1>1. TypeOK
  <2>1. replay \in Seq(Nat) /\ sent \in [Channels -> Seq(Nat)]
    BY EmptyStream DEF Init
  <2>2. phase \in [Channels -> Phases]
    BY DEF Init, Phases
  <2>3. /\ shut \in [Channels -> BOOLEAN] /\ ctxDone \in [Channels -> BOOLEAN]
        /\ watching \in [Channels -> BOOLEAN] /\ lagged \in [Channels -> BOOLEAN]
    BY DEF Init
  <2>4. /\ from \in [Channels -> Nat] /\ pos \in [Channels -> Nat \ {0}]
        /\ taken \in [Channels -> Nat] /\ first \in [Channels -> Nat \ {0}]
    BY DEF Init
  <2> QED
    BY <2>1, <2>2, <2>3, <2>4 DEF Init, TypeOK
<1>2. NoPanic /\ MutexInv /\ ReplayInv
  BY DEF Init, NoPanic, MutexInv, ReplayInv
<1>3. ReplayWindow
  BY LimitAssumption, EmptyStream DEF Init, ReplayWindow, IsWindow
<1>4. RegistrationInv
  BY DEF Init, RegistrationInv, Early
<1>5. StreamInv
  <2> SUFFICES ASSUME NEW c \in Channels PROVE StreamInv!(c)
    BY DEF StreamInv
  <2>1. /\ sent[c] = <<>> /\ Len(sent[c]) = 0 /\ taken[c] = 0 /\ first[c] = 1
        /\ sequence = 0
    BY EmptyStream DEF Init
  <2> QED
    BY <2>1, EmptyStream DEF UpToDate
<1> QED
  BY <1>1, <1>2, <1>3, <1>4, <1>5 DEF IInv

LEMMA PublishInv ==
    ASSUME IInv, Publish
    PROVE  IInv'
<1> USE DEF hubVars, chanVars, rpcVars, history
<1>1. /\ sequence \in Nat /\ replay \in Seq(Nat) /\ replay' \in Seq(Nat)
      /\ sequence' = sequence + 1
      /\ ReplayWindow'
  <2>1. replay' = Trim(Append(replay, sequence + 1))
    BY DEF Publish
  <2>2. sequence \in Nat /\ replay \in Seq(Nat) /\ sequence' = sequence + 1
    BY DEF IInv, TypeOK, Publish
  <2>3. replay' \in Seq(Nat) /\ IsWindow(replay', sequence + 1)
    BY <2>1, <2>2, TrimAppend DEF IInv, ReplayWindow
  <2> QED
    BY <2>2, <2>3 DEF ReplayWindow
<1>2. ASSUME NEW c \in Channels
      PROVE  /\ sent[c] \in Seq(Nat)
             /\ sent'[c] = IF c \in subscribers /\ ~Full(c)
                           THEN Append(sent[c], sequence + 1) ELSE sent[c]
             /\ lagged'[c] <=> lagged[c] \/ (c \in subscribers /\ Full(c))
  BY <1>1 DEF IInv, TypeOK, Publish
<1>3. TypeOK'
  <2>1. sent' \in [Channels -> Seq(Nat)]
    BY <1>1, <1>2, AppendNumber DEF Publish
  <2>2. lagged' \in [Channels -> BOOLEAN]
    BY Zenon DEF Publish
  <2>3. panicked' \in BOOLEAN
    BY DEF Publish
  <2> QED
    BY <1>1, <2>1, <2>2, <2>3 DEF IInv, TypeOK, Publish
<1>4. NoPanic'
  BY DEF IInv, TypeOK, NoPanic, RegistrationInv, Publish
<1>5. MutexInv'
  BY DEF IInv, MutexInv, Publish
<1>6. RegistrationInv'
  <2> SUFFICES ASSUME NEW c \in Channels PROVE RegistrationInv!(c)'
    BY DEF RegistrationInv
  <2> QED
    BY <1>2 DEF IInv, RegistrationInv, Publish, Early
<1>7. ReplayInv'
  BY DEF ReplayInv, Publish, Locked
<1>8. StreamInv'
  <2> SUFFICES ASSUME NEW c \in Channels PROVE StreamInv!(c)'
    BY DEF StreamInv
  <2>1. /\ StreamInv!(c) /\ taken[c] \in Nat /\ first[c] \in Nat
        /\ taken'[c] = taken[c] /\ first'[c] = first[c]
        /\ subscribers' = subscribers /\ phase' = phase /\ ctxDone' = ctxDone
        /\ Len(sent[c]) \in Nat /\ sent[c] \in Seq(Nat)
    BY <1>2, LenProperties DEF IInv, StreamInv, TypeOK, Publish
  <2>2. CASE c \in subscribers /\ ~Full(c)
    <3>1. sent'[c] = Append(sent[c], sequence + 1) /\ (lagged'[c] <=> lagged[c])
      BY <1>2, <2>2
    <3>2. Len(sent'[c]) = Len(sent[c]) + 1
      BY <1>1, <2>1, <3>1, AppendNumber
    <3>3. Increasing(sent'[c], first[c], sequence + 1)
      BY <1>1, <2>1, <3>1, IncreasingAppend
    <3>4. ~lagged[c] => Consecutive(sent'[c], first[c]) /\ UpToDate(c)'
      <4>1. ~lagged[c] => first[c] + Len(sent[c]) = sequence + 1
        BY <2>1, <2>2 DEF UpToDate, Entitled
      <4>2. ~lagged[c] => Consecutive(sent'[c], first[c])
        BY <2>1, <3>1, <4>1, ConsecutiveAppend
      <4> QED
        BY <1>1, <2>1, <3>2, <4>1, <4>2 DEF UpToDate
    <3> QED
      BY <1>1, <2>1, <3>1, <3>2, <3>3, <3>4
  <2>3. CASE c \in subscribers /\ Full(c)
    <3>1. sent'[c] = sent[c] /\ lagged'[c]
      BY <1>2, <2>3
    <3> QED
      BY <1>1, <2>1, <3>1, IncreasingWiden
  <2>4. CASE c \notin subscribers
    <3>1. ~Entitled(c)'
      BY <2>1, <2>4 DEF IInv, RegistrationInv, Publish, Entitled
    <3>2. sent'[c] = sent[c] /\ (lagged'[c] <=> lagged[c])
      BY <1>2, <2>4
    <3> QED
      BY <1>1, <2>1, <2>4, <3>1, <3>2, IncreasingWiden
  <2> QED
    BY <2>2, <2>3, <2>4
<1> QED
  BY <1>1, <1>3, <1>4, <1>5, <1>6, <1>7, <1>8 DEF IInv

\* The actions that leave the numbering, the window and what has been sent
\* alone only have to account for the registrations and the phases.
LEMMA FrameInv ==
    ASSUME IInv, UNCHANGED <<sequence, replay, sent, history>>
    PROVE  /\ ReplayWindow'
           /\ \A c \in Channels :
                 /\ sent[c] \in Seq(Nat) /\ Len(sent[c]) \in Nat
                 /\ taken[c] \in Nat
                 /\ /\ taken'[c] \in Nat
                    /\ taken'[c] <= Len(sent[c])
                    /\ Entitled(c)' /\ ~lagged[c] => UpToDate(c)
                   => StreamInv!(c)'
<1>1. ReplayWindow'
  BY DEF IInv, ReplayWindow, history
<1>2. ASSUME NEW c \in Channels
      PROVE  sent[c] \in Seq(Nat) /\ Len(sent[c]) \in Nat /\ taken[c] \in Nat
  BY LenProperties DEF IInv, TypeOK
<1>3. ASSUME NEW c \in Channels,
             taken'[c] \in Nat,
             taken'[c] <= Len(sent[c]),
             Entitled(c)' /\ ~lagged[c] => UpToDate(c)
      PROVE  StreamInv!(c)'
  <2>1. UpToDate(c)' <=> UpToDate(c)
    BY DEF UpToDate, history
  <2>2. StreamInv!(c)
    BY DEF IInv, StreamInv
  <2> QED
    BY <1>3, <2>1, <2>2 DEF history
<1> QED
  BY <1>1, <1>2, <1>3

LEMMA CloseInv ==
    ASSUME IInv, Close
    PROVE  IInv'
<1> USE DEF hubVars, chanVars, rpcVars, history
<1>1. TypeOK'
  <2>1. shut' \in [Channels -> BOOLEAN]
    BY Zenon DEF Close
  <2>2. panicked' \in BOOLEAN /\ closed' \in BOOLEAN /\ subscribers' \subseteq Channels
    BY DEF Close
  <2> QED
    BY <2>1, <2>2 DEF IInv, TypeOK, Close
<1>2. NoPanic'
  BY DEF IInv, TypeOK, NoPanic, RegistrationInv, Close
<1>3. MutexInv' /\ ReplayInv'
  BY DEF MutexInv, ReplayInv, Close, Locked
<1>4. RegistrationInv'
  <2> SUFFICES ASSUME NEW c \in Channels PROVE RegistrationInv!(c)'
    BY DEF RegistrationInv
  <2>1. shut'[c] <=> shut[c] \/ c \in subscribers
    BY DEF Close
  <2> QED
    BY <2>1 DEF IInv, RegistrationInv, Close, Early
<1>5. ReplayWindow' /\ StreamInv'
  <2>1. ASSUME NEW c \in Channels
        PROVE  /\ taken'[c] = taken[c] /\ taken[c] <= Len(sent[c])
               /\ Entitled(c)' /\ ~lagged[c] => UpToDate(c)
    BY <2>1 DEF IInv, StreamInv, Close, Entitled
  <2> QED
    BY <2>1, FrameInv DEF StreamInv, Close
<1> QED
  BY <1>1, <1>2, <1>3, <1>4, <1>5 DEF IInv

LEMMA SubscribeBeginInv ==
    ASSUME IInv, NEW d \in Channels, SubscribeBegin(d)
    PROVE  IInv'
<1> USE DEF hubVars, chanVars, rpcVars, history
<1>1. CASE closed
  <2>1. /\ phase' = [phase EXCEPT ![d] = "refused"] /\ phase[d] = "new"
        /\ UNCHANGED <<sequence, replay, sent, history>>
    BY <1>1 DEF SubscribeBegin
  <2>2. TypeOK'
    BY <1>1 DEF IInv, TypeOK, SubscribeBegin, Phases
  <2>3. NoPanic' /\ MutexInv' /\ RegistrationInv' /\ ReplayInv'
    BY <1>1, <2>1 DEF IInv, TypeOK, NoPanic, MutexInv, RegistrationInv, ReplayInv,
       SubscribeBegin, Early, Locked
  <2>4. ASSUME NEW c \in Channels
        PROVE  /\ taken'[c] = taken[c] /\ taken[c] <= Len(sent[c])
               /\ Entitled(c)' /\ ~lagged[c] => UpToDate(c)
    BY <2>1, <2>4 DEF IInv, TypeOK, StreamInv, SubscribeBegin, Entitled
  <2> QED
    BY <2>1, <2>2, <2>3, <2>4, FrameInv DEF IInv, StreamInv
<1>2. CASE ~closed
  <2>1. PICK n \in 0..MaxEvents :
            /\ phase' = [phase EXCEPT ![d] = "replaying"]
            /\ from' = [from EXCEPT ![d] = n]
            /\ first' = [first EXCEPT ![d] = FirstAfter(n)]
    BY <1>2 DEF SubscribeBegin
  <2>2. /\ phase[d] = "new" /\ ~Locked
        /\ UNCHANGED <<hubVars, chanVars, pos, ctxDone, watching, lagged>>
    BY DEF SubscribeBegin
  <2>3. /\ n \in Nat /\ FirstAfter(n) \in Nat \ {0}
        /\ FirstAfter(n) <= sequence + 1
        /\ FirstAfter(n) >= sequence - Len(replay) + 1
    BY FirstAfterBounds, MaxEventsAssumption DEF IInv
  <2>4. TypeOK'
    BY <2>1, <2>2, <2>3 DEF IInv, TypeOK, Phases
  <2>5. NoPanic' /\ ReplayWindow'
    BY <2>2 DEF IInv, NoPanic, ReplayWindow
  <2>6. MutexInv'
    BY <1>2, <2>1, <2>2 DEF IInv, TypeOK, MutexInv, Locked
  <2>7. RegistrationInv'
    BY <2>1, <2>2 DEF IInv, TypeOK, RegistrationInv, Early
  <2>8. sent[d] = <<>> /\ Len(sent[d]) = 0 /\ pos[d] = 1 /\ d \notin subscribers
        /\ taken[d] = 0 /\ ~lagged[d]
    BY <2>2, EmptyStream DEF IInv, RegistrationInv, Early
  <2>9. FirstAfter(n)' = FirstAfter(n)
    BY <2>2 DEF FirstAfter
  <2>10. ReplayInv'
    <3> SUFFICES ASSUME NEW c \in Channels, phase'[c] = "replaying"
                 PROVE  ReplayInv!(c)!2'
      BY DEF ReplayInv
    <3>1. c = d
      BY <2>1, <2>2 DEF IInv, TypeOK, Locked
    <3>2. first'[d] = FirstAfter(from[d])'
      BY <2>1, <2>2, <2>9 DEF IInv, TypeOK, FirstAfter
    <3>3. Len(replay) \in Nat /\ sequence \in Nat
      BY LenProperties DEF IInv, TypeOK
    <3>4. NextReplayed(d)' = sequence - Len(replay) + 1
      BY <2>2, <2>8 DEF NextReplayed
    <3>5. first'[d] = FirstAfter(n)
      BY <2>1 DEF IInv, TypeOK
    <3> QED
      BY <2>2, <2>3, <2>8, <3>1, <3>2, <3>3, <3>4, <3>5 DEF Copied
  <2>11. StreamInv'
    <3> SUFFICES ASSUME NEW c \in Channels PROVE StreamInv!(c)'
      BY DEF StreamInv
    <3>1. CASE c = d
      <4>1. first'[d] = FirstAfter(n) /\ phase'[d] = "replaying"
        BY <2>1 DEF IInv, TypeOK
      <4> QED
        BY <2>2, <2>3, <2>8, <3>1, <4>1, EmptyStream DEF Entitled
    <3>2. CASE c # d
      <4>1. first'[c] = first[c] /\ phase'[c] = phase[c]
        BY <2>1, <3>2 DEF IInv, TypeOK
      <4> QED
        BY <2>2, <4>1 DEF IInv, StreamInv, UpToDate, Entitled
    <3> QED
      BY <3>1, <3>2
  <2> QED
    BY <2>4, <2>5, <2>6, <2>7, <2>10, <2>11 DEF IInv
<1> QED
  BY <1>1, <1>2

LEMMA SubscribeEndInv ==
    ASSUME IInv, NEW d \in Channels, SubscribeEnd(d)
    PROVE  IInv'
<1> USE DEF hubVars, chanVars, rpcVars, history
<1>1. /\ phase[d] = "replaying" /\ phase' = [phase EXCEPT ![d] = "serving"]
      /\ pos[d] > Len(replay) /\ subscribers' = subscribers \cup {d}
      /\ UNCHANGED <<sequence, replay, sent, history>>
  BY DEF SubscribeEnd
<1>2. TypeOK'
  BY DEF IInv, TypeOK, SubscribeEnd, Phases
<1>3. NoPanic' /\ MutexInv' /\ RegistrationInv'
  BY <1>1 DEF IInv, TypeOK, NoPanic, MutexInv, RegistrationInv, SubscribeEnd, Early
<1>4. ReplayInv'
  BY <1>1 DEF IInv, TypeOK, ReplayInv, MutexInv, SubscribeEnd
<1>5. UpToDate(d)
  <2>1. /\ Len(replay) \in Nat /\ sequence \in Nat /\ pos[d] \in Nat
        /\ first[d] \in Nat /\ first[d] <= sequence + 1
    BY LenProperties DEF IInv, TypeOK, StreamInv
  <2>2. pos[d] = Len(replay) + 1
    BY <1>1, <2>1 DEF IInv, ReplayInv
  <2>3. Copied(Len(sent[d]), first[d], sequence + 1)
    BY <1>1, <2>1, <2>2 DEF IInv, ReplayInv, NextReplayed
  <2> QED
    BY <2>1, <2>3 DEF UpToDate, Copied
<1>6. ASSUME NEW c \in Channels
      PROVE  /\ taken'[c] = taken[c] /\ taken[c] <= Len(sent[c])
             /\ Entitled(c)' /\ ~lagged[c] => UpToDate(c)
  <2>1. CASE c = d
    BY <1>5, <2>1 DEF IInv, StreamInv, SubscribeEnd
  <2>2. CASE c # d
    BY <1>1, <2>2 DEF IInv, TypeOK, StreamInv, SubscribeEnd, Entitled
  <2> QED
    BY <2>1, <2>2
<1> QED
  BY <1>1, <1>2, <1>3, <1>4, <1>6, FrameInv DEF IInv, StreamInv

LEMMA SubscribeReplayInv ==
    ASSUME IInv, NEW d \in Channels, SubscribeReplay(d)
    PROVE  IInv'
<1> USE DEF hubVars, chanVars, rpcVars, history
<1> DEFINE n == NextReplayed(d)
<1>1. /\ phase[d] = "replaying" /\ d \notin subscribers /\ ~lagged[d]
      /\ taken[d] = 0 /\ phase' = phase
      /\ UNCHANGED <<hubVars, taken, shut, from, ctxDone, watching, history>>
  BY DEF IInv, RegistrationInv, SubscribeReplay, Early
<1>2. /\ Len(replay) \in Nat /\ sequence \in Nat /\ pos[d] \in Nat \ {0}
      /\ first[d] \in Nat /\ from[d] \in Nat /\ sent[d] \in Seq(Nat)
      /\ Len(sent[d]) \in Nat /\ pos[d] <= Len(replay)
      /\ Len(replay) <= sequence
  BY LenProperties, LimitAssumption DEF IInv, TypeOK, SubscribeReplay, ReplayWindow, IsWindow
<1>3. n \in Nat /\ n <= sequence /\ replay[pos[d]] = n
  <2>1. pos[d] \in 1..Len(replay)
    BY <1>2
  <2>2. replay[pos[d]] = sequence - Len(replay) + pos[d]
    BY <2>1 DEF IInv, ReplayWindow, IsWindow
  <2> QED
    BY <1>2, <2>2 DEF NextReplayed
<1>4. /\ first[d] = FirstAfter(from[d])
      /\ Copied(Len(sent[d]), first[d], n)
      /\ Consecutive(sent[d], first[d])
  BY <1>1 DEF IInv, ReplayInv, StreamInv
<1>5. n > from[d] <=> n >= first[d]
  BY <1>2, <1>3, <1>4 DEF FirstAfter, NextReplayed
<1>6. /\ pos' = [pos EXCEPT ![d] = pos[d] + 1]
      /\ pos'[d] = pos[d] + 1
      /\ \A c \in Channels \ {d} : pos'[c] = pos[c]
  BY DEF IInv, TypeOK, SubscribeReplay
<1>7. ASSUME NEW c \in Channels, c # d
      PROVE  sent'[c] = sent[c]
  <2>1. \/ sent' = [sent EXCEPT ![d] = Append(sent[d], replay[pos[d]])]
        \/ sent' = sent
    BY DEF SubscribeReplay
  <2> QED
    BY <1>7, <2>1 DEF IInv, TypeOK
<1>8. /\ sent'[d] \in Seq(Nat) /\ sent' \in [Channels -> Seq(Nat)]
      /\ Copied(Len(sent'[d]), first[d], n + 1)
      /\ Consecutive(sent'[d], first[d])
      /\ Increasing(sent'[d], first[d], sequence)
  <2>1. CASE n > from[d]
    <3>1. n = first[d] + Len(sent[d])
      BY <1>2, <1>3, <1>4, <1>5, <2>1 DEF Copied
    <3>2. sent' = [sent EXCEPT ![d] = Append(sent[d], n)]
      BY <1>3, <2>1 DEF SubscribeReplay
    <3>3. sent'[d] = Append(sent[d], n)
      BY <3>2 DEF IInv, TypeOK
    <3>4. Append(sent[d], n) \in Seq(Nat)
          /\ Len(Append(sent[d], n)) = Len(sent[d]) + 1
      BY <1>2, <1>3, AppendNumber
    <3>5. sent' \in [Channels -> Seq(Nat)]
      BY <3>2, <3>4 DEF IInv, TypeOK
    <3>6. Copied(Len(sent'[d]), first[d], n + 1)
      BY <1>2, <1>3, <3>1, <3>3, <3>4 DEF Copied
    <3>7. Consecutive(sent'[d], first[d])
      BY <1>2, <1>4, <3>1, <3>3, ConsecutiveAppend
    <3>8. first[d] + Len(sent'[d]) <= sequence + 1
      BY <1>2, <1>3, <3>1, <3>3, <3>4
    <3>9. Increasing(sent'[d], first[d], sequence)
      BY <1>2, <3>3, <3>4, <3>7, <3>8, ConsecutiveIncreases
    <3> QED
      BY <3>3, <3>4, <3>5, <3>6, <3>7, <3>9
  <2>2. CASE ~(n > from[d])
    <3>1. sent' = sent
      BY <1>3, <2>2 DEF SubscribeReplay
    <3>2. Increasing(sent[d], first[d], sequence) /\ sent \in [Channels -> Seq(Nat)]
      BY DEF IInv, StreamInv, TypeOK
    <3> QED
      BY <1>2, <1>3, <1>4, <1>5, <2>2, <3>1, <3>2 DEF Copied
  <2> QED
    BY <2>1, <2>2
<1> HIDE DEF n
<1>9. TypeOK'
  <2>1. pos' \in [Channels -> Nat \ {0}]
    BY <1>2, <1>6 DEF IInv, TypeOK
  <2> QED
    BY <1>1, <1>8, <2>1 DEF IInv, TypeOK
<1>10. NoPanic' /\ ReplayWindow' /\ MutexInv'
  BY <1>1 DEF IInv, NoPanic, ReplayWindow, MutexInv
<1>11. RegistrationInv'
  <2> SUFFICES ASSUME NEW c \in Channels PROVE RegistrationInv!(c)'
    BY DEF RegistrationInv
  <2> QED
    BY <1>1, <1>6, <1>7 DEF IInv, RegistrationInv, Early
<1>12. ReplayInv'
  <2> SUFFICES ASSUME NEW c \in Channels, phase'[c] = "replaying"
               PROVE  ReplayInv!(c)!2'
    BY DEF ReplayInv
  <2>1. c = d
    BY <1>1 DEF IInv, MutexInv
  <2>2. NextReplayed(d)' = n + 1
    BY <1>1, <1>2, <1>6 DEF NextReplayed, n
  <2>3. FirstAfter(from[d])' = FirstAfter(from[d])
    BY <1>1 DEF FirstAfter
  <2>4. first'[d] = FirstAfter(from[d])'
    BY <1>1, <1>4, <2>3
  <2>5. pos'[d] <= Len(replay') + 1
    BY <1>1, <1>2, <1>6
  <2>6. Copied(Len(sent[d]), first[d], NextReplayed(d))'
    <3>1. first'[d] = first[d]
      BY <1>1
    <3> QED
      BY <1>8, <2>2, <3>1
  <2> QED
    BY <2>1, <2>4, <2>5, <2>6
<1>13. StreamInv'
  <2> SUFFICES ASSUME NEW c \in Channels PROVE StreamInv!(c)'
    BY DEF StreamInv
  <2>1. CASE c = d
    <3>1. ~Entitled(d)' /\ first[d] <= sequence + 1
      BY <1>1 DEF Entitled, IInv, StreamInv
    <3>2. 0 <= Len(sent'[d])
      BY <1>8, LenProperties
    <3> QED
      BY <1>1, <1>8, <2>1, <3>1, <3>2
  <2>2. CASE c # d
    BY <1>1, <1>7, <2>2 DEF IInv, StreamInv, Entitled, UpToDate
  <2> QED
    BY <2>1, <2>2
<1> QED
  BY <1>9, <1>10, <1>11, <1>12, <1>13 DEF IInv

LEMMA UnsubscribeInv ==
    ASSUME IInv, NEW d \in Channels, Unsubscribe(d)
    PROVE  IInv'
<1> USE DEF hubVars, chanVars, rpcVars, history
<1>1. /\ ~Locked /\ ctxDone[d] /\ phase' = phase /\ taken' = taken
      /\ ctxDone' = ctxDone
      /\ watching' = [watching EXCEPT ![d] = FALSE]
      /\ UNCHANGED <<sequence, replay, sent, history, closed, from, pos>>
  BY DEF Unsubscribe
<1>2. \/ /\ d \in subscribers /\ subscribers' = subscribers \ {d}
         /\ shut' = [shut EXCEPT ![d] = TRUE] /\ panicked' = shut[d]
      \/ UNCHANGED <<subscribers, shut, panicked>>
  BY DEF Unsubscribe
<1>3. TypeOK'
  <2>1. shut' \in [Channels -> BOOLEAN] /\ panicked' \in BOOLEAN
        /\ watching' \in [Channels -> BOOLEAN] /\ subscribers' \subseteq Channels
    BY <1>1, <1>2 DEF IInv, TypeOK
  <2> QED
    BY <1>1, <2>1 DEF IInv, TypeOK
<1>4. NoPanic'
  BY <1>2 DEF IInv, NoPanic, RegistrationInv
<1>5. MutexInv' /\ ReplayInv'
  BY <1>1 DEF MutexInv, ReplayInv, Locked
<1>6. RegistrationInv'
  <2> SUFFICES ASSUME NEW c \in Channels PROVE RegistrationInv!(c)'
    BY DEF RegistrationInv
  <2>1. CASE c = d
    BY <1>1, <1>2, <2>1 DEF IInv, TypeOK, RegistrationInv, Early
  <2>2. CASE c # d
    BY <1>1, <1>2, <2>2 DEF IInv, TypeOK, RegistrationInv, Early
  <2> QED
    BY <2>1, <2>2
<1>7. ASSUME NEW c \in Channels
      PROVE  /\ taken'[c] = taken[c] /\ taken[c] <= Len(sent[c])
             /\ Entitled(c)' /\ ~lagged[c] => UpToDate(c)
  BY <1>1, <1>2 DEF IInv, StreamInv, Entitled
<1> QED
  BY <1>1, <1>3, <1>4, <1>5, <1>6, <1>7, FrameInv DEF IInv, StreamInv

LEMMA ContextDoneInv ==
    ASSUME IInv, NEW d \in Channels, ContextDone(d)
    PROVE  IInv'
<1> USE DEF hubVars, chanVars, rpcVars, history
<1>1. /\ ctxDone' = [ctxDone EXCEPT ![d] = TRUE]
      /\ phase[d] \in {"replaying", "serving"}
      /\ UNCHANGED <<hubVars, chanVars, phase, from, pos, watching, history>>
  BY DEF ContextDone
<1>2. TypeOK' /\ NoPanic' /\ MutexInv'
  BY <1>1 DEF IInv, TypeOK, NoPanic, MutexInv
<1>3. RegistrationInv'
  BY <1>1 DEF IInv, TypeOK, RegistrationInv, Early
<1>4. ReplayInv'
  BY <1>1 DEF IInv, ReplayInv, FirstAfter, NextReplayed, Copied
<1>5. ASSUME NEW c \in Channels
      PROVE  /\ taken'[c] = taken[c] /\ taken[c] <= Len(sent[c])
             /\ Entitled(c)' /\ ~lagged[c] => UpToDate(c)
  <2>1. ctxDone[c] => ctxDone'[c]
    BY <1>1 DEF IInv, TypeOK
  <2> QED
    BY <1>1, <2>1 DEF IInv, StreamInv, Entitled
<1> QED
  BY <1>1, <1>2, <1>3, <1>4, <1>5, FrameInv DEF IInv, StreamInv

LEMMA ReceiveInv ==
    ASSUME IInv, NEW d \in Channels, Receive(d)
    PROVE  IInv'
<1> USE DEF hubVars, chanVars, rpcVars, history
<1>1. /\ phase[d] = "serving" /\ Buffered(d) > 0
      /\ taken' = [taken EXCEPT ![d] = @ + 1]
      /\ UNCHANGED <<hubVars, sent, shut, from, pos, watching, history>>
  BY DEF Receive
<1>2. \/ UNCHANGED <<phase, ctxDone>>
      \/ /\ phase' = [phase EXCEPT ![d] = "aborted"]
         /\ ctxDone' = [ctxDone EXCEPT ![d] = TRUE]
  BY DEF Receive
<1>3. TypeOK' /\ NoPanic'
  <2>1. taken' \in [Channels -> Nat]
    BY <1>1 DEF IInv, TypeOK
  <2>2. phase' \in [Channels -> Phases] /\ ctxDone' \in [Channels -> BOOLEAN]
    BY <1>2 DEF IInv, TypeOK, Phases
  <2> QED
    BY <1>1, <2>1, <2>2 DEF IInv, TypeOK, NoPanic
<1>4. ASSUME NEW c \in Channels, c # d
      PROVE  phase'[c] = phase[c] /\ ctxDone'[c] = ctxDone[c] /\ taken'[c] = taken[c]
  BY <1>1, <1>2, <1>4 DEF IInv, TypeOK
<1>5. /\ phase'[d] \in {"serving", "aborted"} /\ taken'[d] = taken[d] + 1
      /\ phase'[d] = "serving" => ctxDone'[d] = ctxDone[d]
  BY <1>1, <1>2 DEF IInv, TypeOK
<1>6. MutexInv'
  BY <1>1, <1>4, <1>5 DEF IInv, MutexInv
<1>7. RegistrationInv'
  <2> SUFFICES ASSUME NEW c \in Channels PROVE RegistrationInv!(c)'
    BY DEF RegistrationInv
  <2>1. CASE c = d
    BY <1>1, <1>5, <2>1 DEF IInv, RegistrationInv, Early
  <2>2. CASE c # d
    BY <1>1, <1>4, <2>2 DEF IInv, RegistrationInv, Early
  <2> QED
    BY <2>1, <2>2
<1>8. ReplayInv'
  BY <1>1, <1>4, <1>5 DEF IInv, ReplayInv, FirstAfter, NextReplayed, Copied
<1>9. ASSUME NEW c \in Channels
      PROVE  /\ taken'[c] \in Nat /\ taken'[c] <= Len(sent[c])
             /\ Entitled(c)' /\ ~lagged[c] => UpToDate(c)
  <2>1. taken[c] \in Nat /\ Len(sent[c]) \in Nat /\ taken[c] <= Len(sent[c])
    BY LenProperties DEF IInv, TypeOK, StreamInv
  <2>2. CASE c = d
    BY <1>1, <1>5, <2>1, <2>2 DEF IInv, StreamInv, Entitled, Buffered
  <2>3. CASE c # d
    BY <1>1, <1>4, <2>1, <2>3 DEF IInv, StreamInv, Entitled
  <2> QED
    BY <2>2, <2>3
<1> QED
  BY <1>1, <1>3, <1>6, <1>7, <1>8, <1>9, FrameInv DEF IInv, StreamInv

\* The two ways in which a handler returns without an event.
LEMMA StreamEndInv ==
    ASSUME IInv, NEW d \in Channels, StreamEnd(d) \/ StreamAbort(d)
    PROVE  IInv'
<1> USE DEF hubVars, chanVars, rpcVars, history
<1>1. /\ phase[d] = "serving" /\ phase' = [phase EXCEPT ![d] = phase'[d]]
      /\ phase'[d] \in {"completed", "aborted"}
      /\ UNCHANGED <<hubVars, chanVars, from, pos, watching, history>>
      /\ ctxDone' = [ctxDone EXCEPT ![d] = TRUE]
  BY DEF StreamEnd, StreamAbort, IInv, TypeOK
<1>2. phase'[d] = "completed" =>
         ~ctxDone[d] /\ shut[d] /\ Buffered(d) = 0
  BY DEF StreamEnd, StreamAbort, IInv, TypeOK
<1>3. TypeOK' /\ NoPanic'
  BY <1>1 DEF IInv, TypeOK, NoPanic, Phases
<1>4. ASSUME NEW c \in Channels, c # d
      PROVE  phase'[c] = phase[c] /\ ctxDone'[c] = ctxDone[c]
  BY <1>1, <1>4 DEF IInv, TypeOK
<1>5. MutexInv'
  BY <1>1, <1>4 DEF IInv, MutexInv
<1>6. phase'[d] = "completed" => closed /\ taken[d] = Len(sent[d])
  <2>1. taken[d] \in Nat /\ Len(sent[d]) \in Nat
    BY LenProperties DEF IInv, TypeOK
  <2> QED
    BY <1>1, <1>2, <2>1 DEF IInv, RegistrationInv, Buffered
<1>7. RegistrationInv'
  <2> SUFFICES ASSUME NEW c \in Channels PROVE RegistrationInv!(c)'
    BY DEF RegistrationInv
  <2>1. CASE c = d
    BY <1>1, <1>2, <1>6, <2>1 DEF IInv, RegistrationInv, Early
  <2>2. CASE c # d
    BY <1>1, <1>4, <2>2 DEF IInv, RegistrationInv, Early
  <2> QED
    BY <2>1, <2>2
<1>8. ReplayInv'
  BY <1>1, <1>4 DEF IInv, ReplayInv, FirstAfter, NextReplayed, Copied
<1>9. ASSUME NEW c \in Channels
      PROVE  /\ taken'[c] = taken[c] /\ taken[c] <= Len(sent[c])
             /\ Entitled(c)' /\ ~lagged[c] => UpToDate(c)
  <2>1. CASE c = d
    BY <1>1, <1>2, <2>1 DEF IInv, StreamInv, Entitled
  <2>2. CASE c # d
    BY <1>1, <1>4, <2>2 DEF IInv, StreamInv, Entitled
  <2> QED
    BY <2>1, <2>2
<1> QED
  BY <1>1, <1>3, <1>5, <1>7, <1>8, <1>9, FrameInv DEF IInv, StreamInv

-----------------------------------------------------------------------------
(* The invariant and the safety properties.                                *)

LEMMA NextInv == IInv /\ [Next]_vars => IInv'
<1> SUFFICES ASSUME IInv, [Next]_vars PROVE IInv'
  OBVIOUS
<1>1. CASE UNCHANGED vars
  <2>1. TypeOK' /\ NoPanic' /\ ReplayWindow' /\ MutexInv'
    BY <1>1 DEF vars, hubVars, chanVars, rpcVars, history, IInv, TypeOK, NoPanic,
       ReplayWindow, MutexInv
  <2>2. RegistrationInv' /\ ReplayInv' /\ StreamInv'
    BY <1>1 DEF vars, hubVars, chanVars, rpcVars, history, IInv, RegistrationInv,
       ReplayInv, FirstAfter, NextReplayed, StreamInv, Entitled, UpToDate
  <2> QED
    BY <2>1, <2>2 DEF IInv
<1>2. CASE Publish
  BY <1>2, PublishInv
<1>3. CASE Close
  BY <1>3, CloseInv
<1>4. ASSUME NEW c \in Channels,
             Subscribe(c) \/ ContextDone(c) \/ Unsubscribe(c) \/ Handle(c)
      PROVE  IInv'
  BY <1>4, SubscribeBeginInv, SubscribeReplayInv, SubscribeEndInv, ContextDoneInv,
     UnsubscribeInv, ReceiveInv, StreamEndInv DEF Subscribe, Handle
<1> QED
  BY <1>1, <1>2, <1>3, <1>4 DEF Next

\* The hub never loses its types: in particular the window stays a finite
\* sequence of event numbers and every channel a finite sequence of them.
THEOREM TypeCorrect == Spec => []TypeOK
<1>1. Spec => []IInv
  BY InitInv, NextInv, PTL DEF Spec
<1>2. IInv => TypeOK
  BY DEF IInv
<1> QED
  BY <1>1, <1>2, PTL

\* No interleaving of publish, unsubscribe and close sends on or closes a
\* channel that is already closed.
THEOREM NeverPanics == Spec => []NoPanic
<1>1. Spec => []IInv
  BY InitInv, NextInv, PTL DEF Spec
<1>2. IInv => NoPanic
  BY DEF IInv
<1> QED
  BY <1>1, <1>2, PTL

\* The replay window is always the newest events, at most Limit of them.
THEOREM WindowCorrect == Spec => []ReplayWindow
<1>1. Spec => []IInv
  BY InitInv, NextInv, PTL DEF Spec
<1>2. IInv => ReplayWindow
  BY DEF IInv
<1> QED
  BY <1>1, <1>2, PTL

\* The replay loop of subscribe never waits for room while it holds the mutex:
\* the window is never longer than the capacity of the channel.
THEOREM ReplayNonBlocking == Spec => []ReplayNeverBlocks
<1>1. Spec => []IInv
  BY InitInv, NextInv, PTL DEF Spec
<1>2. IInv => ReplayNeverBlocks
  <2> SUFFICES ASSUME IInv, NEW c \in Channels,
                      phase[c] = "replaying", pos[c] <= Len(replay)
               PROVE  ~Full(c)
    BY DEF ReplayNeverBlocks
  <2>1. /\ Len(replay) \in Nat /\ sequence \in Nat /\ pos[c] \in Nat \ {0}
        /\ first[c] \in Nat /\ Len(sent[c]) \in Nat /\ taken[c] = 0
    BY LenProperties DEF IInv, TypeOK, RegistrationInv, Early
  <2>2. Len(replay) <= Limit
    BY <2>1, LimitAssumption DEF IInv, ReplayWindow, IsWindow
  <2>3. first[c] >= sequence - Len(replay) + 1
    <3>1. from[c] \in Nat /\ first[c] = FirstAfter(from[c])
      BY DEF IInv, TypeOK, ReplayInv
    <3> QED
      BY <3>1, FirstAfterBounds DEF IInv
  <2>4. Copied(Len(sent[c]), first[c], NextReplayed(c))
    BY DEF IInv, ReplayInv
  <2>5. Len(sent[c]) < Limit
    BY <2>1, <2>2, <2>3, <2>4, LimitAssumption DEF Copied, NextReplayed
  <2> QED
    BY <2>1, <2>5, LimitAssumption DEF Full, Buffered
<1> QED
  BY <1>1, <1>2, PTL

\* Streams are strictly increasing: no event is repeated or reordered between
\* the replayed and the live part.
THEOREM StreamsOrdered == Spec => []StreamOrdered
<1>1. Spec => []IInv
  BY InitInv, NextInv, PTL DEF Spec
<1>2. IInv => StreamOrdered
  BY DEF IInv, StreamInv, StreamOrdered, Increasing
<1> QED
  BY <1>1, <1>2, PTL

\* A stream that never lagged has no hole, keeps up with the call, and does not
\* complete before everything has been handed over.
THEOREM StreamsComplete == Spec => []StreamComplete
<1>1. Spec => []IInv
  BY InitInv, NextInv, PTL DEF Spec
<1>2. IInv => StreamComplete
  <2> SUFFICES ASSUME IInv, NEW c \in Channels, ~lagged[c]
               PROVE  StreamComplete!(c)!2
    BY DEF StreamComplete
  <2>1. /\ Consecutive(sent[c], first[c])
        /\ Entitled(c) => UpToDate(c)
        /\ phase[c] = "completed" => closed /\ taken[c] = Len(sent[c])
    BY DEF IInv, StreamInv, RegistrationInv
  <2>2. phase[c] = "completed" => closed /\ first[c] + taken[c] = sequence + 1
    BY <2>1 DEF Entitled, UpToDate
  <2> QED
    BY <2>1, <2>2 DEF Entitled, UpToDate, Consecutive
<1> QED
  BY <1>1, <1>2, PTL

-----------------------------------------------------------------------------
(* Nothing is stranded.                                                    *)

\* A stream that is being served is registered, or its channel is closed, or its
\* client has left; the goroutine of subscribe is there as long as it is registered,
\* and what comes before it has none.
Attended(c) ==
    /\ phase[c] = "serving" /\ ~ctxDone[c] => c \in subscribers \/ shut[c]
    /\ c \in subscribers => watching[c]
    /\ phase[c] \in {"completed", "aborted"} => ctxDone[c]
    /\ phase[c] \in Early => ~watching[c]

AInv == \A c \in Channels : Attended(c)

LEMMA AInvInit == Init => AInv
BY DEF Init, AInv, Attended

\* What a step does to the subscriptions it is not about.
LEMMA OthersAttended ==
    ASSUME NEW c \in Channels, Attended(c),
           phase'[c] = phase[c], ctxDone'[c] = ctxDone[c], shut'[c] = shut[c],
           watching'[c] = watching[c], c \in subscribers' <=> c \in subscribers
    PROVE  Attended(c)'
BY DEF Attended

LEMMA AInvStep == IInv /\ AInv /\ [Next]_vars => AInv'
<1> SUFFICES ASSUME IInv, AInv, [Next]_vars, NEW c \in Channels PROVE Attended(c)'
  BY DEF AInv
<1> USE DEF hubVars, chanVars, rpcVars, history
<1>t. /\ phase \in [Channels -> Phases] /\ ctxDone \in [Channels -> BOOLEAN]
      /\ shut \in [Channels -> BOOLEAN] /\ watching \in [Channels -> BOOLEAN]
  BY DEF IInv, TypeOK
<1>a. Attended(c) /\ (c \in subscribers => phase[c] \in {"serving", "aborted"})
  BY DEF AInv, IInv, RegistrationInv
<1>1. CASE UNCHANGED vars \/ Publish
  BY <1>1, <1>a, OthersAttended DEF vars, Publish
<1>2. CASE Close
  <2>1. /\ shut'[c] = (shut[c] \/ c \in subscribers) /\ subscribers' = {}
        /\ UNCHANGED rpcVars
    BY <1>2 DEF Close
  <2> QED
    BY <1>a, <2>1 DEF Attended
<1>3. ASSUME NEW d \in Channels, d # c,
             Subscribe(d) \/ ContextDone(d) \/ Unsubscribe(d) \/ Handle(d)
      PROVE  Attended(c)'
  BY <1>3, <1>t, <1>a, OthersAttended
     DEF Subscribe, SubscribeBegin, SubscribeReplay, SubscribeEnd, ContextDone,
         Unsubscribe, Handle, Receive, StreamEnd, StreamAbort
<1>4. CASE Subscribe(c)
  BY <1>4, <1>t, <1>a
     DEF Subscribe, SubscribeBegin, SubscribeReplay, SubscribeEnd, Attended, Early
<1>5. CASE ContextDone(c)
  BY <1>5, <1>t, <1>a DEF ContextDone, Attended
<1>6. CASE Unsubscribe(c)
  BY <1>6, <1>t, <1>a DEF Unsubscribe, Attended
<1>7. CASE Handle(c)
  BY <1>7, <1>t, <1>a DEF Handle, Receive, StreamEnd, StreamAbort, Attended, Early
<1> QED
  BY <1>1, <1>2, <1>3, <1>4, <1>5, <1>6, <1>7 DEF Next

\* The end of the call and the end of a client reach every subscription: none is
\* left registered without the goroutine that removes it, and none is left reading a
\* channel that stays empty and open (events.go; server.go, SubscribeCallEvents).
THEOREM NoneStranded == Spec => []NothingStranded
<1>1. Spec => [](IInv /\ AInv)
  BY InitInv, NextInv, AInvInit, AInvStep, PTL DEF Spec
<1>2. IInv /\ AInv => NothingStranded
  BY DEF IInv, RegistrationInv, AInv, Attended, NothingStranded, TypeOK, Phases, Early
<1> QED
  BY <1>1, <1>2, PTL

-----------------------------------------------------------------------------
(* The hub implements the abstract feed.                                   *)

\* What the refinement mapping says of one subscription.
LEMMA MappedState ==
    ASSUME NEW p \in Phases, NEW n, NEW s, NEW lo
    PROVE  /\ FeedStateOf(p) = "out" <=> p \in Early
           /\ FeedStateOf(p) = "in" <=> p = "serving"
           /\ p = "completed" => FeedStateOf(p) = "done"
           /\ p = "aborted" => FeedStateOf(p) = "gone"
           /\ p \in Early => FeedLastOf(p, n, s, lo) = 0
           /\ p \notin Early /\ n = 0 => FeedLastOf(p, n, s, lo) = lo - 1
           /\ p \notin Early /\ n # 0 => FeedLastOf(p, n, s, lo) = s[n]
BY DEF FeedStateOf, FeedLastOf, Phases, Early

\* The mapped functions of two states agree where their subscriptions do.
LEMMA MappedExcept ==
    ASSUME NEW d \in Channels, NEW st, NEW la,
           \A c \in Channels \ {d} :
               /\ FeedStateOf(phase'[c]) = FeedStateOf(phase[c])
               /\ FeedLastOf(phase'[c], taken'[c], sent'[c], first'[c])
                    = FeedLastOf(phase[c], taken[c], sent[c], first[c]),
           FeedStateOf(phase'[d]) = st,
           FeedLastOf(phase'[d], taken'[d], sent'[d], first'[d]) = la
    PROVE  /\ FeedState' = [FeedState EXCEPT ![d] = st]
           /\ FeedLast' = [FeedLast EXCEPT ![d] = la]
BY DEF FeedState, FeedLast

LEMMA MappedSame ==
    ASSUME \A c \in Channels :
               /\ FeedStateOf(phase'[c]) = FeedStateOf(phase[c])
               /\ FeedLastOf(phase'[c], taken'[c], sent'[c], first'[c])
                    = FeedLastOf(phase[c], taken[c], sent[c], first[c])
    PROVE  FeedState' = FeedState /\ FeedLast' = FeedLast
BY DEF FeedState, FeedLast

LEMMA FeedPublish ==
    ASSUME IInv, IInv', Publish
    PROVE  Feed!Publish
<1>1. /\ ~closed /\ sequence' = sequence + 1 /\ closed' = closed
      /\ phase' = phase /\ taken' = taken /\ first' = first
  BY DEF Publish, rpcVars
<1>2. lagged' \in [Channels -> BOOLEAN]
  BY DEF IInv, TypeOK
<1>3. \A c \in Channels : lagged[c] => lagged'[c]
  BY DEF Publish
<1>4. ASSUME NEW c \in Channels, taken[c] # 0
      PROVE  sent'[c][taken[c]] = sent[c][taken[c]]
  <2>1. /\ sent[c] \in Seq(Nat) /\ Len(sent[c]) \in Nat /\ sequence' \in Nat
        /\ taken[c] \in 1..Len(sent[c])
    <3>1. sent[c] \in Seq(Nat) /\ sequence' \in Nat
      BY DEF IInv, TypeOK
    <3>2. Len(sent[c]) \in Nat
      BY <3>1, LenProperties
    <3>3. taken[c] \in Nat /\ taken[c] <= Len(sent[c])
      BY DEF IInv, TypeOK, StreamInv
    <3> QED
      BY <1>4, <3>1, <3>2, <3>3
  <2>2. sent'[c] = Append(sent[c], sequence') \/ sent'[c] = sent[c]
    BY DEF Publish
  <2> QED
    BY <2>1, <2>2, AppendNumber
<1>5. ASSUME NEW c \in Channels
      PROVE  FeedLastOf(phase'[c], taken'[c], sent'[c], first'[c])
                = FeedLastOf(phase[c], taken[c], sent[c], first[c])
  BY <1>1, <1>4 DEF FeedLastOf
<1>6. FeedState' = FeedState /\ FeedLast' = FeedLast
  BY <1>1, <1>5, MappedSame
<1> QED
  BY <1>1, <1>2, <1>3, <1>6 DEF Feed!Publish

LEMMA FeedJoin ==
    ASSUME IInv, IInv', NEW d \in Channels, SubscribeEnd(d)
    PROVE  Feed!Join(d)
<1>1. /\ phase[d] = "replaying" /\ phase' = [phase EXCEPT ![d] = "serving"]
      /\ ~closed /\ taken[d] = 0
      /\ UNCHANGED <<sequence, closed, lagged, taken, sent, first>>
  BY DEF SubscribeEnd, IInv, MutexInv, RegistrationInv, Early, chanVars, history
<1>2. /\ sequence \in Nat /\ first[d] \in Nat \ {0} /\ first[d] <= sequence + 1
  BY DEF IInv, TypeOK, StreamInv
<1>3. first[d] - 1 \in 0..sequence
  BY <1>2
<1>4. phase'[d] = "serving" /\ \A c \in Channels \ {d} : phase'[c] = phase[c]
  BY <1>1 DEF IInv, TypeOK
<1>5. FeedState[d] = "out"
  <2>1. FeedState[d] = FeedStateOf(phase[d])
    BY DEF FeedState
  <2>2. QED  BY <1>1, <2>1 DEF FeedStateOf
<1>6. /\ FeedStateOf(phase'[d]) = "in"
      /\ FeedLastOf(phase'[d], taken'[d], sent'[d], first'[d]) = first[d] - 1
  <2>1. /\ phase'[d] = "serving" /\ taken'[d] = 0 /\ first'[d] = first[d]
    BY <1>1, <1>4
  <2>2. QED  BY <2>1 DEF FeedStateOf, FeedLastOf
<1>7. /\ FeedState' = [FeedState EXCEPT ![d] = "in"]
      /\ FeedLast' = [FeedLast EXCEPT ![d] = first[d] - 1]
  BY <1>1, <1>4, <1>6, MappedExcept
<1> QED
  BY <1>1, <1>3, <1>5, <1>7 DEF Feed!Join

LEMMA FeedDeliver ==
    ASSUME IInv, IInv', NEW d \in Channels, Receive(d)
    PROVE  Feed!Deliver(d)
<1>1. /\ phase[d] = "serving" /\ Buffered(d) > 0
      /\ taken' = [taken EXCEPT ![d] = taken[d] + 1]
      /\ UNCHANGED <<sequence, closed, lagged, sent, first>>
  BY DEF Receive, hubVars, history
<1>2. \/ phase' = phase
      \/ phase' = [phase EXCEPT ![d] = "aborted"]
  BY DEF Receive
<1> DEFINE k == taken[d] + 1
<1>3. /\ sequence \in Nat /\ first[d] \in Nat \ {0} /\ sent[d] \in Seq(Nat)
      /\ Len(sent[d]) \in Nat /\ taken[d] \in Nat /\ k \in 1..Len(sent[d])
  BY <1>1, LenProperties DEF IInv, TypeOK, Buffered
<1>4. /\ sent[d][k] \in Nat /\ first[d] <= sent[d][k] /\ sent[d][k] <= sequence
      /\ ~lagged[d] => sent[d][k] = first[d] + k - 1
  BY <1>3 DEF IInv, StreamInv, Increasing, Consecutive
<1>5. /\ taken[d] = 0 => FeedLast[d] = first[d] - 1
      /\ taken[d] # 0 => FeedLast[d] = sent[d][taken[d]]
  BY <1>1 DEF FeedLast, FeedLastOf, FeedStateOf
<1>6. /\ FeedLast[d] \in Nat /\ FeedLast[d] < sent[d][k]
      /\ ~lagged[d] => sent[d][k] = FeedLast[d] + 1
  <2>1. CASE taken[d] = 0
    BY <1>3, <1>4, <1>5, <2>1
  <2>2. CASE taken[d] # 0
    <3>1. taken[d] \in 1..Len(sent[d]) /\ taken[d] < k
      BY <1>3, <2>2
    <3>2. Increasing(sent[d], first[d], sequence)
          /\ (~lagged[d] => Consecutive(sent[d], first[d]))
      BY DEF IInv, StreamInv
    <3>3. sent[d][taken[d]] \in Nat /\ sent[d][taken[d]] < sent[d][k]
      BY <1>3, <3>1, <3>2 DEF Increasing
    <3>4. ~lagged[d] => sent[d][taken[d]] = first[d] + taken[d] - 1
      BY <3>1, <3>2 DEF Consecutive
    <3>5. FeedLast[d] \in Nat /\ FeedLast[d] < sent[d][k]
      BY <1>5, <2>2, <3>3
    <3>6. ASSUME ~lagged[d] PROVE sent[d][k] = FeedLast[d] + 1
      <4>1. FeedLast[d] = first[d] + taken[d] - 1
        BY <1>5, <2>2, <3>4, <3>6
      <4>2. sent[d][k] = first[d] + k - 1
        BY <1>4, <3>6
      <4> QED
        BY <1>3, <4>1, <4>2
    <3> QED
      BY <3>5, <3>6
  <2> QED
    BY <2>1, <2>2
<1>7. sent[d][k] \in (FeedLast[d] + 1)..sequence
  BY <1>3, <1>4, <1>6
<1>8. /\ taken'[d] = k /\ k # 0
      /\ phase'[d] \in {"serving", "aborted"}
      /\ \A c \in Channels \ {d} : taken'[c] = taken[c] /\ phase'[c] = phase[c]
  BY <1>1, <1>2, <1>3 DEF IInv, TypeOK
<1> HIDE DEF k
<1>9. FeedLastOf(phase'[d], taken'[d], sent'[d], first'[d]) = sent[d][k]
  BY <1>1, <1>8 DEF FeedLastOf, FeedStateOf
<1>10. FeedStateOf(phase'[d]) = "in" \/ FeedStateOf(phase'[d]) = "gone"
  BY <1>8 DEF FeedStateOf
<1>11. FeedState[d] = "in" /\ FeedState = [FeedState EXCEPT ![d] = "in"]
  BY <1>1 DEF FeedState, FeedStateOf
<1>12. /\ FeedLast' = [FeedLast EXCEPT ![d] = sent[d][k]]
       /\ FeedState' = [FeedState EXCEPT ![d] = FeedStateOf(phase'[d])]
  BY <1>1, <1>8, <1>9, MappedExcept
<1>13. FeedState' = FeedState \/ FeedState' = [FeedState EXCEPT ![d] = "gone"]
  BY <1>10, <1>11, <1>12
<1> QED
  BY <1>1, <1>6, <1>7, <1>11, <1>12, <1>13 DEF Feed!Deliver

LEMMA FeedFinish ==
    ASSUME IInv, IInv', NEW d \in Channels, StreamEnd(d) \/ StreamAbort(d)
    PROVE  Feed!Complete(d) \/ Feed!Leave(d)
<1>1. /\ phase[d] = "serving"
      /\ UNCHANGED <<sequence, closed, lagged, sent, taken, first>>
  BY DEF StreamEnd, StreamAbort, hubVars, chanVars, history
<1>2. \/ phase' = [phase EXCEPT ![d] = "aborted"]
      \/ /\ phase' = [phase EXCEPT ![d] = "completed"]
         /\ ~ctxDone[d] /\ shut[d] /\ Buffered(d) = 0
  BY DEF StreamEnd, StreamAbort
<1>3. FeedState[d] = "in"
  BY <1>1 DEF FeedState, FeedStateOf
<1>4. /\ phase'[d] \in {"completed", "aborted"}
      /\ \A c \in Channels \ {d} : phase'[c] = phase[c]
  BY <1>2 DEF IInv, TypeOK
<1>5. /\ FeedState' = [FeedState EXCEPT ![d] = FeedStateOf(phase'[d])]
      /\ FeedLast' = FeedLast
  <2>1. FeedLastOf(phase'[d], taken'[d], sent'[d], first'[d]) = FeedLast[d]
    BY <1>1, <1>4 DEF FeedLast, FeedLastOf, FeedStateOf
  <2>2. FeedLast = [FeedLast EXCEPT ![d] = FeedLast[d]]
    BY DEF FeedLast
  <2> QED
    BY <1>1, <1>4, <2>1, <2>2, MappedExcept
<1>6. CASE phase' = [phase EXCEPT ![d] = "aborted"]
  <2>1. FeedStateOf(phase'[d]) = "gone"
    BY <1>6 DEF IInv, TypeOK, FeedStateOf
  <2> QED
    BY <1>1, <1>3, <1>5, <2>1 DEF Feed!Leave
<1>7. CASE /\ phase' = [phase EXCEPT ![d] = "completed"]
           /\ ~ctxDone[d] /\ shut[d] /\ Buffered(d) = 0
  <2>1. FeedStateOf(phase'[d]) = "done"
    BY <1>7 DEF IInv, TypeOK, FeedStateOf
  <2>2. closed
    BY <1>1, <1>7 DEF IInv, RegistrationInv
  <2>3. /\ sequence \in Nat /\ first[d] \in Nat /\ Len(sent[d]) \in Nat
        /\ taken[d] \in Nat /\ taken[d] = Len(sent[d])
    BY <1>7, LenProperties DEF IInv, TypeOK, Buffered
  <2>4. ASSUME ~lagged[d] PROVE FeedLast[d] = sequence
    <3>1. /\ first[d] + taken[d] = sequence + 1
          /\ \A i \in 1..taken[d] : sent[d][i] = first[d] + i - 1
      BY <1>1, <1>7, <2>3, <2>4 DEF IInv, StreamInv, Entitled, UpToDate, Consecutive
    <3>2. /\ taken[d] = 0 => FeedLast[d] = first[d] - 1
          /\ taken[d] # 0 => FeedLast[d] = sent[d][taken[d]]
      BY <1>1 DEF FeedLast, FeedLastOf, FeedStateOf
    <3>3. CASE taken[d] = 0
      BY <2>3, <3>1, <3>2, <3>3
    <3>4. CASE taken[d] # 0
      <4>1. taken[d] \in 1..taken[d]
        BY <2>3, <3>4
      <4>2. FeedLast[d] = first[d] + taken[d] - 1
        BY <3>1, <3>2, <3>4, <4>1
      <4> QED
        BY <2>3, <3>1, <4>2
    <3> QED
      BY <3>3, <3>4
  <2> QED
    BY <1>1, <1>3, <1>5, <2>1, <2>2, <2>4 DEF Feed!Complete
<1> QED
  BY <1>2, <1>6, <1>7

\* Steps that the feed does not see.
LEMMA FeedStutter ==
    ASSUME IInv, IInv', NEW d \in Channels,
           \/ SubscribeBegin(d) \/ SubscribeReplay(d)
           \/ ContextDone(d) \/ Unsubscribe(d)
    PROVE  UNCHANGED Feed!vars
<1>1. UNCHANGED <<sequence, closed, lagged, taken>>
  BY DEF SubscribeBegin, SubscribeReplay, ContextDone, Unsubscribe, hubVars,
     chanVars, history
<1>2. ASSUME NEW c \in Channels
      PROVE  \/ phase'[c] = phase[c] /\ first'[c] = first[c] /\ sent'[c] = sent[c]
             \/ phase[c] \in Early /\ phase'[c] \in Early
  <2>1. CASE SubscribeBegin(d)
    BY <2>1 DEF SubscribeBegin, IInv, TypeOK, Early, chanVars
  <2>2. CASE SubscribeReplay(d)
    BY <2>2 DEF SubscribeReplay, IInv, TypeOK, Early, history
  <2>3. CASE ContextDone(d) \/ Unsubscribe(d)
    BY <2>3 DEF ContextDone, Unsubscribe, chanVars, history
  <2> QED
    BY <2>1, <2>2, <2>3
<1>3. ASSUME NEW c \in Channels
      PROVE  /\ FeedStateOf(phase'[c]) = FeedStateOf(phase[c])
             /\ FeedLastOf(phase'[c], taken'[c], sent'[c], first'[c])
                  = FeedLastOf(phase[c], taken[c], sent[c], first[c])
  <2>1. CASE phase'[c] = phase[c] /\ first'[c] = first[c] /\ sent'[c] = sent[c]
    BY <1>1, <2>1
  <2>2. CASE phase[c] \in Early /\ phase'[c] \in Early
    BY <2>2 DEF FeedStateOf, FeedLastOf, Early
  <2> QED
    BY <1>2, <2>1, <2>2
<1>4. FeedState' = FeedState /\ FeedLast' = FeedLast
  BY <1>3, MappedSame
<1> QED
  BY <1>1, <1>4 DEF Feed!vars

\* Every behaviour of the hub and its gRPC handlers is a behaviour of the feed:
\* events in order, at most once, and none missing and no early completion for
\* a client that never lets its buffer fill up.
THEOREM ImplementsFeed == Spec => FeedSpec
<1>1. Init => Feed!Init
  <2> SUFFICES ASSUME Init PROVE Feed!Init
    OBVIOUS
  <2>1. \A c \in Channels : phase[c] = "new"
    BY DEF Init
  <2>2. FeedState = [c \in Channels |-> "out"]
    BY <2>1 DEF FeedState, FeedStateOf
  <2>3. FeedLast = [c \in Channels |-> 0]
    BY <2>1 DEF FeedLast, FeedLastOf, FeedStateOf
  <2> QED
    BY <2>2, <2>3 DEF Init, Feed!Init
<1>2. IInv /\ IInv' /\ [Next]_vars => [Feed!Next]_Feed!vars
  <2> SUFFICES ASSUME IInv, IInv', [Next]_vars PROVE [Feed!Next]_Feed!vars
    OBVIOUS
  <2>1. CASE UNCHANGED vars
    BY <2>1 DEF vars, hubVars, chanVars, rpcVars, history, Feed!vars, FeedState, FeedLast
  <2>2. CASE Publish
    BY <2>2, FeedPublish DEF Feed!Next
  <2>3. CASE Close
    BY <2>3 DEF Close, rpcVars, history, Feed!Next, Feed!End, FeedState, FeedLast
  <2>4. ASSUME NEW c \in Channels,
               Subscribe(c) \/ ContextDone(c) \/ Unsubscribe(c) \/ Handle(c)
        PROVE  [Feed!Next]_Feed!vars
    BY <2>4, FeedJoin, FeedDeliver, FeedFinish, FeedStutter
       DEF Feed!Next, Subscribe, Handle
  <2> QED
    BY <2>1, <2>2, <2>3, <2>4 DEF Next
<1>3. Spec => []IInv
  BY InitInv, NextInv, PTL DEF Spec
<1> QED
  BY <1>1, <1>2, <1>3, PTL DEF Spec, FeedSpec, Feed!Spec
=============================================================================
