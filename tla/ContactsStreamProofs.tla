------------------------ MODULE ContactsStreamProofs ------------------------
(* Proofs about ContactsStream.                                            *)
EXTENDS ContactsStream, SequenceTheorems, TLAPS

\* The goroutines of Stream run while it waits for them, and what they count is
\* zero until they begin to count.
Phases ==
    /\ stream \in {"off", "check", "announce"} => contacts = "off" /\ groups = "off"
    /\ stream # "wait" => contacts \in {"off", "done"} /\ groups \in {"off", "done"}
    /\ contacts \in {"off", "fetch", "total"} => humans = 0
    /\ groups \in {"off", "announce", "fetch", "total"} => titles = 0
    /\ handler = "new" => stream = "off"
    /\ closed => stream = "over"

TInv == TypeOK /\ Phases

LEMMA TInvInit == Init => TInv
<1> SUFFICES ASSUME Init PROVE TInv
  OBVIOUS
<1>1. /\ found \in [Sources -> Nat] /\ err \in [Sources -> Errors]
      /\ found["contacts"] = 0 /\ found["groups"] = 0
  BY DEF Init, Errors, Sources
<1>2. channel \in Seq(Kinds) /\ Len(channel) = 0 /\ written \in Seq(Outcomes)
  BY DEF Init
<1>3. Phases
  BY DEF Init, Phases
<1>4. humans \in 0..found["contacts"] /\ titles \in 0..found["groups"]
  BY <1>1 DEF Init
<1>5. /\ found["contacts"] <= MaxContacts /\ found["groups"] <= MaxGroups
      /\ Len(channel) <= Capacity
  BY <1>1, <1>2, BoundsAssumption
<1>6. /\ handler = "new" /\ stream = "off" /\ contacts = "off" /\ groups = "off"
      /\ closed = FALSE
  BY DEF Init
<1> QED
  BY <1>1, <1>2, <1>3, <1>4, <1>5, <1>6 DEF TInv, TypeOK

\* What a send does to the type of the channel.
LEMMA PutType ==
  ASSUME channel \in Seq(Kinds), NEW kind \in Kinds, Put(kind)
  PROVE  /\ channel' \in Seq(Kinds) /\ Len(channel') = Len(channel) + 1
         /\ Len(channel') <= Capacity /\ closed' = closed
<1>1. /\ Append(channel, kind) \in Seq(Kinds)
      /\ Len(Append(channel, kind)) = Len(channel) + 1
  OBVIOUS
<1>2. Len(channel) < Capacity /\ Len(channel) \in Nat /\ Capacity \in Nat
  BY BoundsAssumption DEF Put
<1> QED
  BY <1>1, <1>2 DEF Put

LEMMA TInvStep == TInv /\ [Next]_vars => TInv'
<1> SUFFICES ASSUME TInv, [Next]_vars PROVE TInv'
  OBVIOUS
<1> USE BoundsAssumption DEF TInv, TypeOK, Phases, Sources, producerVars, channelVars
<1>k. /\ "status" \in Kinds /\ "progress" \in Kinds /\ "error" \in Kinds
      /\ "result" \in Kinds /\ "completed" \in Kinds
  BY DEF Kinds, Outcomes
<1>1. CASE UNCHANGED vars
  BY <1>1 DEF vars
<1>2. CASE Connect
  <2>1. <<"error">> \in Seq(Outcomes)
    BY DEF Outcomes
  <2>2. written' \in Seq(Outcomes)
    BY <1>2, <2>1 DEF Connect
  <2> QED
    BY <1>2, <2>2 DEF Connect
<1>3. CASE Write
  <2>1. /\ Tail(channel) \in Seq(Kinds) /\ Len(Tail(channel)) <= Capacity
        /\ Head(channel) \in Outcomes => Append(written, Head(channel)) \in Seq(Outcomes)
    BY <1>3 DEF Write
  <2> QED
    BY <1>3, <2>1 DEF Write
<1>4. CASE Finish
  BY <1>4 DEF Finish
<1>5. CASE Check
  BY <1>5 DEF Check
<1>6. CASE Announce
  BY <1>6, <1>k, PutType DEF Announce
<1>7. CASE Judge
  BY <1>7 DEF Judge, Verdict
<1>8. CASE Conclude
  BY <1>8, <1>k, PutType DEF Conclude
<1>9. CASE ReportError
  BY <1>9, <1>k, PutType DEF ReportError
<1>10. CASE CloseChannel
  BY <1>10 DEF CloseChannel
<1>11. CASE FetchContacts
  BY <1>11 DEF FetchContacts, Errors
<1>12. CASE NextContact
  BY <1>12, <1>k, PutType DEF NextContact
<1>13. CASE ContactsEnd
  BY <1>13 DEF ContactsEnd
<1>14. CASE FetchGroups
  BY <1>14, <1>k, PutType DEF FetchGroups, Errors
<1>15. CASE NextGroup
  <2>1. CASE groups = "total"
    BY <1>15, <2>1, <1>k, PutType DEF NextGroup
  <2>2. CASE groups = "process" /\ Put("progress")
    BY <1>15, <2>2, <1>k, PutType DEF NextGroup
  <2>3. CASE groups = "process" /\ UNCHANGED channelVars
    BY <1>15, <2>3 DEF NextGroup
  <2> QED
    BY <1>15, <2>1, <2>2, <2>3 DEF NextGroup
<1>16. CASE GroupsEnd
  BY <1>16 DEF GroupsEnd, Errors
<1> QED
  BY <1>1, <1>2, <1>3, <1>4, <1>5, <1>6, <1>7, <1>8, <1>9, <1>10, <1>11, <1>12,
     <1>13, <1>14, <1>15, <1>16 DEF Next, Handler, Stream, ReadContacts, ReadGroups

LEMMA TInvariant == Spec => []TInv
  BY TInvInit, TInvStep, PTL DEF Spec

\* Types, for any number of contacts and groups (contacts.go, Stream).
THEOREM TypeCorrect == Spec => []TypeOK
<1>1. TInv => TypeOK
  BY DEF TInv
<1> QED
  BY <1>1, TInvariant, PTL

-----------------------------------------------------------------------------
(* The result.                                                             *)

LEMMA VerdictOnEmpty ==
  ASSUME TypeOK, Verdict = "result", humans = 0, titles = 0
  PROVE  err["contacts"] = "none" /\ err["groups"] = "none"
<1>1. err["contacts"] \in Errors /\ err["groups"] \in Errors
  BY DEF TypeOK, Sources
<1>2. err["contacts"] # "plain" /\ err["contacts"] # "critical"
  BY DEF Verdict
<1>3. err["groups"] # "critical" /\ err["groups"] # "plain"
  BY <1>1, <1>2 DEF Verdict, Errors
<1> QED
  BY <1>1, <1>2, <1>3 DEF Errors

\* An empty result stands for two sources that were read and had nothing
\* (contacts.go, the decision after wg.Wait).
THEOREM EmptyIsTrue == Spec => []EmptyResultIsTrue
<1>1. Init => EmptyResultIsTrue
  BY DEF Init, EmptyResultIsTrue
<1>2. TInv /\ EmptyResultIsTrue /\ [Next]_vars => EmptyResultIsTrue'
  <2> SUFFICES ASSUME TInv, EmptyResultIsTrue, [Next]_vars,
                      stream' \in {"result", "completed"}, humans' = 0, titles' = 0
               PROVE  err'["contacts"] = "none" /\ err'["groups"] = "none"
    BY DEF EmptyResultIsTrue
  <2> USE DEF TInv, Phases, EmptyResultIsTrue, producerVars
  <2>1. CASE Judge
    <3>1. Verdict \in {"result", "completed"} /\ humans = 0 /\ titles = 0 /\ err' = err
      BY <2>1 DEF Judge
    <3>2. Verdict # "completed"
      BY DEF Verdict
    <3> QED
      BY <3>1, <3>2, VerdictOnEmpty
  <2>2. CASE Conclude
    BY <2>2 DEF Conclude
  <2>3. CASE Connect \/ Write \/ Finish \/ Check \/ Announce \/ ReportError
             \/ CloseChannel \/ UNCHANGED vars
    BY <2>3 DEF Connect, Write, Finish, Check, Announce, ReportError, CloseChannel,
                vars
  <2>4. CASE ReadContacts
    BY <2>4 DEF ReadContacts, FetchContacts, NextContact, ContactsEnd
  <2>5. CASE ReadGroups
    BY <2>5 DEF ReadGroups, FetchGroups, NextGroup, GroupsEnd
  <2> QED
    BY <2>1, <2>2, <2>3, <2>4, <2>5 DEF Next, Handler, Stream
<1> QED
  BY <1>1, <1>2, TInvariant, PTL DEF Spec

-----------------------------------------------------------------------------
(* The end of the stream.                                                  *)

\* The outcomes that have been sent, by the step that Stream has come to.
Sent ==
    IF stream = "completed" THEN {<<"result">>}
    ELSE IF stream = "report" THEN {<<>>, <<"error">>}
    ELSE IF stream \in {"close", "over"}
         THEN {<<"result", "completed">>, <<"error">>, <<"error", "error">>}
    ELSE {<<>>}

\* For a browser that reads, they are what it has read of them and the end of the
\* channel; what is before is status and progress.
Split(out) ==
    LET n == Len(channel) + Len(written) - Len(out)
    IN  /\ n >= 0 /\ Len(written) <= Len(out)
        /\ \A j \in 1..Len(written) : written[j] = out[j]
        /\ \A i \in 1..Len(channel) :
              IF i <= n THEN channel[i] \notin Outcomes
              ELSE channel[i] = out[i - n + Len(written)]

OutcomesInv == handler \in {"new", "serve"} => \E out \in Sent : Split(out)

LEMMA SentType == Sent \subseteq Seq(Outcomes)
<1>1. /\ <<>> \in Seq(Outcomes) /\ <<"result">> \in Seq(Outcomes)
      /\ <<"error">> \in Seq(Outcomes) /\ <<"error", "error">> \in Seq(Outcomes)
      /\ <<"result", "completed">> \in Seq(Outcomes)
  BY DEF Outcomes
<1> QED
  BY <1>1 DEF Sent

LEMMA ReadSplit ==
  ASSUME TypeOK, Write, handler' = "serve", NEW out \in Seq(Outcomes), Split(out)
  PROVE  Split(out)'
<1> DEFINE n == Len(channel) + Len(written) - Len(out)
<1>1. /\ channel \in Seq(Kinds) /\ channel # <<>> /\ channel' = Tail(channel)
      /\ written \in Seq(Outcomes)
  BY DEF TypeOK, Write
<1>2. /\ Len(channel) \in Nat /\ Len(channel) > 0 /\ Len(channel') = Len(channel) - 1
      /\ \A i \in 1..Len(channel') : channel'[i] = channel[i + 1]
      /\ Head(channel) = channel[1]
      /\ Len(written) \in Nat /\ Len(out) \in Nat
  BY <1>1, HeadTailProperties, LenProperties
<1>l. /\ Len(channel) \in Nat /\ Len(channel) > 0 /\ Len(channel') = Len(channel) - 1
      /\ Len(written) \in Nat /\ Len(out) \in Nat
  BY <1>2
<1>3. CASE Head(channel) \in Outcomes
  <2>1. written' = Append(written, Head(channel))
    BY <1>3 DEF Write
  <2>2. /\ written' \in Seq(Outcomes) /\ Len(written') = Len(written) + 1
        /\ \A j \in 1..Len(written) : written'[j] = written[j]
        /\ written'[Len(written) + 1] = channel[1]
    BY <2>1, <1>1, <1>2, <1>3, AppendProperties
  <2>l. Len(written') = Len(written) + 1
    BY <2>2
  <2>3. n = 0
    BY <1>2, <1>3 DEF Split
  <2>4. ASSUME NEW i \in 1..Len(channel)
        PROVE  channel[i] = out[i + Len(written)]
    <3>1. ~(i <= n) /\ i - n + Len(written) = i + Len(written)
      BY <1>l, <2>3
    <3>2. channel[i] = out[i - n + Len(written)]
      BY <3>1 DEF Split
    <3> QED
      BY <3>1, <3>2
  <2>5. \A j \in 1..Len(written) : written[j] = out[j]
    BY DEF Split
  <2>6. ASSUME NEW j \in 1..Len(written')
        PROVE  written'[j] = out[j]
    <3>1. CASE j \in 1..Len(written)
      BY <2>2, <2>5, <3>1
    <3>2. CASE j = Len(written) + 1
      <4>1. channel[1] = out[1 + Len(written)]
        BY <1>l, <2>4
      <4> QED
        BY <1>l, <2>2, <3>2, <4>1
    <3> QED
      BY <1>l, <2>l, <3>1, <3>2
  <2>7. Len(channel') + Len(written') - Len(out) = 0 /\ Len(written') <= Len(out)
    BY <1>l, <2>3, <2>l
  <2> DEFINE m == Len(channel') + Len(written') - Len(out)
  <2>8. ASSUME NEW i \in 1..Len(channel')
        PROVE  ~(i <= m) /\ channel'[i] = out[i - m + Len(written')]
    <3>1. i + 1 \in 1..Len(channel) /\ channel'[i] = channel[i + 1]
      BY <1>2
    <3>2. channel[i + 1] = out[i + 1 + Len(written)]
      BY <2>4, <3>1
    <3>3. ~(i <= m) /\ i - m + Len(written') = i + 1 + Len(written)
      BY <1>l, <2>l, <2>7
    <3> QED
      BY <3>1, <3>2, <3>3
  <2>9. m >= 0
    BY <2>7
  <2> QED
    BY <2>6, <2>7, <2>8, <2>9 DEF Split
<1>4. CASE Head(channel) \notin Outcomes
  <2>1. written' = written
    BY <1>4 DEF Write
  <2>2. n > 0
    <3>1. SUFFICES ASSUME n = 0 PROVE FALSE
      BY <1>2 DEF Split
    <3>2. channel[1] = out[1 + Len(written)] /\ 1 + Len(written) \in 1..Len(out)
      BY <1>2, <3>1 DEF Split
    <3> QED
      BY <1>2, <1>4, <3>2, ElementOfSeq
  <2> QED
    BY <2>1, <2>2, <1>2 DEF Split
<1> QED
  BY <1>3, <1>4

LEMMA PutSplit ==
  ASSUME TypeOK, NEW kind \in Kinds, Put(kind), written' = written,
         NEW out \in Seq(Outcomes), Split(out)
  PROVE  /\ kind \in Outcomes => Split(Append(out, kind))'
         /\ kind \notin Outcomes /\ out = <<>> => Split(out)'
<1>1. /\ channel \in Seq(Kinds) /\ channel' = Append(channel, kind)
      /\ written \in Seq(Outcomes)
  BY DEF TypeOK, Put
<1>2. /\ Len(channel) \in Nat /\ Len(channel') = Len(channel) + 1
      /\ \A i \in 1..Len(channel) : channel'[i] = channel[i]
      /\ channel'[Len(channel) + 1] = kind
      /\ Len(written) \in Nat /\ Len(out) \in Nat
  BY <1>1, AppendProperties, LenProperties
<1>3. ASSUME kind \in Outcomes PROVE Split(Append(out, kind))'
  <2>1. /\ Len(Append(out, kind)) = Len(out) + 1
        /\ \A i \in 1..Len(out) : Append(out, kind)[i] = out[i]
        /\ Append(out, kind)[Len(out) + 1] = kind
    BY <1>3, AppendProperties
  <2> DEFINE n == Len(channel) + Len(written) - Len(out)
             late == Append(out, kind)
  <2>2. n \in Nat /\ Len(channel') + Len(written') - Len(late) = n
    BY <2>1, <1>2 DEF Split
  <2>3. /\ Len(written') <= Len(late)
        /\ \A j \in 1..Len(written') : written'[j] = late[j]
    BY <2>1, <1>2 DEF Split
  <2>4. ASSUME NEW i \in 1..Len(channel')
        PROVE  IF i <= n THEN channel'[i] \notin Outcomes
               ELSE channel'[i] = late[i - n + Len(written')]
    <3>1. CASE i \in 1..Len(channel)
      <4>1. channel'[i] = channel[i]
        BY <3>1, <1>2
      <4>2. CASE i <= n
        BY <3>1, <4>1, <4>2 DEF Split
      <4>3. CASE ~(i <= n)
        <5>1. channel[i] = out[i - n + Len(written)]
          BY <3>1, <4>3 DEF Split
        <5>2. i - n + Len(written) \in 1..Len(out)
          BY <3>1, <4>3, <1>2, <2>2
        <5> QED
          BY <4>1, <4>3, <5>1, <5>2, <2>1
      <4> QED
        BY <4>2, <4>3
    <3>2. CASE i = Len(channel) + 1
      <4>1. n <= Len(channel) /\ i - n + Len(written) = Len(out) + 1
        BY <3>2, <1>2, <2>2 DEF Split
      <4>2. ~(i <= n)
        BY <3>2, <4>1, <1>2, <2>2
      <4> QED
        BY <3>2, <4>1, <4>2, <1>2, <2>1
    <3> QED
      BY <3>1, <3>2, <1>2
  <2> QED
    BY <2>2, <2>3, <2>4 DEF Split
<1>4. ASSUME kind \notin Outcomes, out = <<>> PROVE Split(out)'
  <2>1. Len(out) = 0 /\ Len(written) = 0
    BY <1>2, <1>4 DEF Split
  <2>2. \A i \in 1..Len(channel) : channel[i] \notin Outcomes
    BY <2>1, <1>2 DEF Split
  <2>3. \A i \in 1..Len(channel') : channel'[i] \notin Outcomes /\ i <= Len(channel')
    BY <2>2, <1>2, <1>4
  <2>4. /\ Len(channel') + Len(written') - Len(out) = Len(channel')
        /\ Len(written') = 0 /\ Len(channel') >= 0
    BY <2>1, <1>2
  <2>5. 1..Len(written') = {}
    BY <2>4
  <2> QED
    BY <2>1, <2>3, <2>4, <2>5 DEF Split
<1> QED
  BY <1>3, <1>4

\* What leaves channel and browser alone keeps what has been sent.
LEMMA KeepSplit ==
  ASSUME OutcomesInv, UNCHANGED <<channel, written>>, handler' = handler,
         Sent \subseteq Sent'
  PROVE  OutcomesInv'
BY DEF OutcomesInv, Split

\* The goroutines of Stream send before there is an outcome, and none themselves.
LEMMA ProgressSplit ==
  ASSUME TypeOK, OutcomesInv, Put("status") \/ Put("progress"), written' = written,
         handler' = handler, Sent = {<<>>}, Sent' = {<<>>}
  PROVE  OutcomesInv'
<1>1. "status" \in Kinds \ Outcomes /\ "progress" \in Kinds \ Outcomes
  BY DEF Kinds, Outcomes
<1>2. <<>> \in Seq(Outcomes)
  OBVIOUS
<1>3. ASSUME Split(<<>>) PROVE Split(<<>>)'
  BY <1>1, <1>2, <1>3, PutSplit
<1> QED
  BY <1>3 DEF OutcomesInv

\* Stream sends an outcome.
LEMMA OutcomeSplit ==
  ASSUME TypeOK, OutcomesInv, NEW kind \in Outcomes, Put(kind), written' = written,
         handler' = handler, \A out \in Sent : Append(out, kind) \in Sent'
  PROVE  OutcomesInv'
<1> SUFFICES ASSUME handler \in {"new", "serve"}
             PROVE  \E out \in Sent' : Split(out)'
  BY DEF OutcomesInv
<1>1. PICK out \in Sent : Split(out)
  BY DEF OutcomesInv
<1>2. out \in Seq(Outcomes) /\ kind \in Kinds
  BY SentType DEF Kinds
<1>3. Split(Append(out, kind))'
  BY <1>1, <1>2, PutSplit
<1> QED
  BY <1>3

\* What the browser has read when it has read everything.
LEMMA ReadToTheEnd ==
  ASSUME TypeOK, channel = <<>>, NEW out \in Seq(Outcomes), Split(out)
  PROVE  written = out
<1>1. written \in Seq(Outcomes)
  BY DEF TypeOK
<1>2. Len(written) \in Nat /\ Len(out) \in Nat /\ Len(channel) = 0
  BY <1>1, LenProperties
<1>3. Len(written) = Len(out)
  BY <1>2 DEF Split
<1>4. \A j \in 1..Len(written) : written[j] = out[j]
  BY DEF Split
<1> QED
  BY <1>1, <1>3, <1>4, SeqEqual

EInv == OutcomesInv /\ OutcomeEndsStream

LEMMA EInvInit == Init => EInv
<1> SUFFICES ASSUME Init PROVE EInv
  OBVIOUS
<1>1. Split(<<>>)
  BY DEF Init, Split
<1>2. <<>> \in Sent
  BY DEF Init, Sent
<1>3. OutcomesInv
  BY <1>1, <1>2 DEF OutcomesInv
<1> QED
  BY <1>3 DEF Init, EInv, OutcomeEndsStream

LEMMA AppendSecond ==
  ASSUME NEW first \in Outcomes, NEW second \in Outcomes
  PROVE  Append(<<first>>, second) = <<first, second>>
<1> DEFINE longer == Append(<<first>>, second)
           pair == <<first, second>>
<1>1. <<first>> \in Seq(Outcomes) /\ pair \in Seq(Outcomes)
  OBVIOUS
<1>2. Len(<<first>>) = 1 /\ Len(pair) = 2 /\ pair[1] = first /\ pair[2] = second
  OBVIOUS
<1>3. /\ longer \in Seq(Outcomes) /\ Len(longer) = 2
      /\ longer[1] = first /\ longer[2] = second
  BY <1>1, <1>2, AppendProperties
<1>4. \A i \in 1..Len(longer) : longer[i] = pair[i]
  BY <1>2, <1>3
<1> HIDE DEF longer, pair
<1>5. longer = pair
  BY <1>1, <1>2, <1>3, <1>4, SeqEqual
<1> QED
  BY <1>5 DEF longer, pair

LEMMA OutcomesStep ==
  ASSUME TInv, OutcomesInv, [Next]_vars
  PROVE  OutcomesInv'
<1> USE DEF TInv, Phases, producerVars, channelVars
<1>1. CASE UNCHANGED vars
  BY <1>1, KeepSplit DEF vars, Sent
<1>2. CASE Connect
  <2>1. Sent' = Sent /\ UNCHANGED channel
    BY <1>2 DEF Connect, Sent
  <2>2. CASE handler' = "serve"
    BY <1>2, <2>1, <2>2 DEF Connect, OutcomesInv, Split
  <2> QED
    BY <1>2, <2>2 DEF Connect, OutcomesInv
<1>3. CASE Write
  <2>1. CASE handler' = "serve"
    <3>1. PICK out \in Sent : Split(out)
      BY <1>3 DEF Write, OutcomesInv
    <3>2. Split(out)' /\ Sent' = Sent
      BY <1>3, <2>1, <3>1, SentType, ReadSplit DEF Write, Sent
    <3> QED
      BY <3>2 DEF OutcomesInv
  <2> QED
    BY <1>3, <2>1 DEF Write, OutcomesInv
<1>4. CASE Finish
  BY <1>4 DEF Finish, OutcomesInv
<1>5. CASE Check \/ Judge \/ CloseChannel
  BY <1>5, KeepSplit DEF Check, Judge, Verdict, CloseChannel, Sent
<1>6. CASE Announce
  BY <1>6, ProgressSplit DEF Announce, Sent
<1>7. CASE Conclude
  <2> USE DEF Conclude, Sent, Outcomes
  <2>1. CASE stream = "critical"
    <3>1. \A out \in Sent : Append(out, "error") \in Sent'
      BY <1>7, <2>1
    <3> QED
      BY <1>7, <2>1, <3>1, OutcomeSplit
  <2>2. CASE stream = "result"
    <3>1. \A out \in Sent : Append(out, "result") \in Sent'
      BY <1>7, <2>2
    <3> QED
      BY <1>7, <2>2, <3>1, OutcomeSplit
  <2>3. CASE stream = "completed"
    <3>1. \A out \in Sent : Append(out, "completed") \in Sent'
      BY <1>7, <2>3, AppendSecond
    <3> QED
      BY <1>7, <2>3, <3>1, OutcomeSplit
  <2> QED
    BY <1>7, <2>1, <2>2, <2>3
<1>8. CASE ReportError
  <2>1. Append(<<>>, "error") = <<"error">>
    OBVIOUS
  <2>2. Append(<<"error">>, "error") = <<"error", "error">>
    BY AppendSecond DEF Outcomes
  <2>3. \A out \in Sent : Append(out, "error") \in Sent'
    BY <1>8, <2>1, <2>2 DEF ReportError, Sent
  <2> QED
    BY <1>8, <2>3, OutcomeSplit DEF ReportError, Outcomes
<1>9. CASE ReadContacts
  <2>1. handler' = handler /\ written' = written /\ stream' = stream
    BY <1>9 DEF ReadContacts, FetchContacts, NextContact, ContactsEnd
  <2>2. CASE UNCHANGED channel
    BY <2>1, <2>2, KeepSplit DEF Sent
  <2>3. CASE NextContact
    <3>1. stream = "wait" /\ (Put("status") \/ Put("progress"))
      BY <2>3 DEF NextContact
    <3> QED
      BY <2>1, <3>1, ProgressSplit DEF Sent
  <2> QED
    BY <1>9, <2>2, <2>3 DEF ReadContacts, FetchContacts, ContactsEnd
<1>10. CASE ReadGroups
  <2>1. handler' = handler /\ written' = written /\ stream' = stream
    BY <1>10 DEF ReadGroups, FetchGroups, NextGroup, GroupsEnd
  <2>2. CASE UNCHANGED channel
    BY <2>1, <2>2, KeepSplit DEF Sent
  <2>3. CASE Put("status") \/ Put("progress")
    <3>1. stream = "wait"
      BY <1>10 DEF ReadGroups, FetchGroups, NextGroup, GroupsEnd, TypeOK
    <3> QED
      BY <2>1, <2>3, <3>1, ProgressSplit DEF Sent
  <2> QED
    BY <1>10, <2>2, <2>3 DEF ReadGroups, FetchGroups, NextGroup, GroupsEnd
<1> QED
  BY <1>1, <1>2, <1>3, <1>4, <1>5, <1>6, <1>7, <1>8, <1>9, <1>10 DEF Next, Handler,
     Stream

LEMMA EndsStep ==
  ASSUME TInv, TInv', EInv, [Next]_vars
  PROVE  OutcomeEndsStream'
<1> DEFINE Ends == {<<"result", "completed">>, <<"error">>, <<"error", "error">>}
<1>1. closed' => contacts' \in {"off", "done"} /\ groups' \in {"off", "done"}
  BY DEF TInv, Phases
<1>2. ASSUME handler' = "done" PROVE written' \in Ends
  <2>1. CASE handler = "done"
    <3>1. written' = written
      BY <2>1 DEF Next, Connect, Handler, Write, Finish, Stream, Check, Announce,
           Judge, Conclude, ReportError, CloseChannel, ReadContacts, FetchContacts,
           NextContact, ContactsEnd, ReadGroups, FetchGroups, NextGroup, GroupsEnd,
           vars
    <3> QED
      BY <2>1, <3>1 DEF EInv, OutcomeEndsStream
  <2>2. CASE handler # "done"
    <3>1. Finish
      BY <1>2, <2>2 DEF Next, Connect, Handler, Write, Stream, Check, Announce,
           Judge, Conclude, ReportError, CloseChannel, ReadContacts, FetchContacts,
           NextContact, ContactsEnd, ReadGroups, FetchGroups, NextGroup, GroupsEnd,
           vars
    <3>2. Sent = Ends /\ channel = <<>> /\ handler = "serve" /\ written' = written
      BY <3>1 DEF Finish, TInv, Phases, Sent
    <3>3. PICK out \in Sent : Split(out)
      BY <3>2 DEF EInv, OutcomesInv
    <3>4. written = out
      BY <3>2, <3>3, SentType, ReadToTheEnd DEF TInv
    <3> QED
      BY <3>2, <3>3, <3>4
  <2> QED
    BY <2>1, <2>2
<1> QED
  BY <1>1, <1>2 DEF OutcomeEndsStream

\* A browser that reads its stream to the end has read a result, or errors, and the
\* channel is closed behind the last sender, for any capacity of the channel and any
\* number of contacts and groups (contacts.go, Stream; handler.go).
THEOREM OutcomeEnds == Spec => []OutcomeEndsStream
<1>1. TInv /\ TInv' /\ EInv /\ [Next]_vars => EInv'
  BY OutcomesStep, EndsStep DEF EInv
<1>2. EInv => OutcomeEndsStream
  BY DEF EInv
<1> QED
  BY <1>1, <1>2, EInvInit, TInvariant, PTL DEF Spec
=============================================================================
