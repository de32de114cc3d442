--------------------------- MODULE AuthFlowProofs ---------------------------
(* Proofs about AuthFlow.                                                  *)
EXTENDS AuthFlow, SequenceTheorems, TLAPS

\* A connection that is not served yet has neither states nor a session.
Fresh(s) ==
    socket[s] \in {"new", "cancel", "add"} =>
       /\ s \notin registry /\ queue[s] = <<>>
       /\ flow[s] = "off" /\ check[s] = "off"

\* The scan is reported where the codes end.
ScanEndsCodes(s) == flow[s] \in {"off", "ensure", "codes"} => check[s] = "off"

\* At most one session is registered, and it is served; who is served and not
\* registered has been told or refused.
Registered ==
    /\ registry = {} \/ \E s \in Sessions : registry = {s}
    /\ \A s \in registry : socket[s] \in {"serve", "close"}
    /\ \A s \in Sessions : socket[s] = "serve" => s \in registry \cup told \cup refused

TInv == TypeOK /\ (\A s \in Sessions : Fresh(s) /\ ScanEndsCodes(s)) /\ Registered

LEMMA TInvInit == Init => TInv
<1> SUFFICES ASSUME Init PROVE TInv
  OBVIOUS
<1>1. /\ \A s \in Sessions : queue[s] \in Seq(States) /\ Len(queue[s]) = 0
      /\ queue \in [Sessions -> Seq(States)]
  BY DEF Init
<1>2. /\ socket \in [Sessions -> SocketPcs] /\ flow \in [Sessions -> FlowPcs]
      /\ check \in [Sessions -> CheckPcs] /\ codes \in [Sessions -> 0..MaxCodes]
  BY MaxCodesAssumption DEF Init, SocketPcs, FlowPcs, CheckPcs
<1>3. \A s \in Sessions : Len(queue[s]) <= Capacity
  BY <1>1, CapacityAssumption, MaxCodesAssumption
<1>4. TypeOK
  BY <1>1, <1>2, <1>3 DEF Init, TypeOK
<1> QED
  BY <1>4 DEF Init, TInv, Fresh, ScanEndsCodes, Registered

\* A state that is sent is appended to its queue, or lost.
LEMMA SendType ==
  ASSUME TypeOK, NEW s \in Sessions, NEW state \in States, Send(s, state)
  PROVE  /\ queue' \in [Sessions -> Seq(States)]
         /\ \A t \in Sessions : Len(queue'[t]) <= Capacity
         /\ lost' \in [Sessions -> BOOLEAN]
         /\ \A t \in Sessions \ {s} : queue'[t] = queue[t] /\ lost'[t] = lost[t]
<1>1. CASE Room(s)
  <2>1. queue' = [queue EXCEPT ![s] = Append(queue[s], state)] /\ lost' = lost
    BY <1>1 DEF Send
  <2>2. queue[s] \in Seq(States) /\ Len(queue[s]) < Capacity /\ Len(queue[s]) \in Nat
    BY <1>1 DEF TypeOK, Room
  <2>3. /\ Append(queue[s], state) \in Seq(States)
        /\ Len(Append(queue[s], state)) = Len(queue[s]) + 1
    BY <2>2, AppendProperties
  <2>4. Len(Append(queue[s], state)) <= Capacity
    BY <2>2, <2>3, CapacityAssumption
  <2> QED
    BY <2>1, <2>3, <2>4 DEF TypeOK
<1>2. CASE ~Room(s)
  BY <1>2 DEF Send, TypeOK
<1> QED
  BY <1>1, <1>2

\* What a flow does leaves the registry alone, and the queues of the others.
LEMMA FlowStep ==
  ASSUME TInv, NEW s \in Sessions, UNCHANGED socketVars,
         UNCHANGED <<queue, lost>> \/ (\E state \in States : Send(s, state)),
         flow[s] # "off",
         \/ UNCHANGED flow
         \/ \E where \in FlowPcs \ {"off", "ensure"} :
               /\ flow' = [flow EXCEPT ![s] = where]
               /\ where = "codes" => flow[s] = "ensure",
         \/ UNCHANGED check
         \/ \E where \in CheckPcs : check' = [check EXCEPT ![s] = where],
         flow'[s] \in {"ensure", "codes"} => check' = check,
         codes' \in [Sessions -> 0..MaxCodes]
  PROVE  TInv'
<1>1. /\ queue' \in [Sessions -> Seq(States)] /\ lost' \in [Sessions -> BOOLEAN]
      /\ \A t \in Sessions : Len(queue'[t]) <= Capacity
      /\ \A t \in Sessions \ {s} : queue'[t] = queue[t] /\ lost'[t] = lost[t]
  BY SendType DEF TInv, TypeOK
<1>2. flow' \in [Sessions -> FlowPcs] /\ check' \in [Sessions -> CheckPcs]
  BY DEF TInv, TypeOK
<1>3. TypeOK'
  BY <1>1, <1>2 DEF TInv, TypeOK, socketVars
<1>4. ASSUME NEW t \in Sessions PROVE Fresh(t)' /\ ScanEndsCodes(t)'
  <2>1. CASE t = s
    BY <1>2, <2>1 DEF TInv, TypeOK, Fresh, ScanEndsCodes, socketVars
  <2>2. CASE t # s
    BY <1>1, <1>2, <2>2 DEF TInv, TypeOK, Fresh, ScanEndsCodes, socketVars
  <2> QED
    BY <2>1, <2>2
<1> QED
  BY <1>3, <1>4 DEF TInv, Registered, socketVars

LEMMA TInvStep == TInv /\ [Next]_vars => TInv'
<1> SUFFICES ASSUME TInv, [Next]_vars PROVE TInv'
  OBVIOUS
<1>s. /\ "qr_code" \in States /\ "qr-success" \in States /\ "success" \in States
      /\ "error" \in States /\ "cancelled" \in States
  BY DEF States
<1>f. /\ "codes" \in FlowPcs /\ "wait" \in FlowPcs /\ "save" \in FlowPcs
      /\ "report" \in FlowPcs /\ "over" \in FlowPcs
      /\ "sleep" \in CheckPcs /\ "in" \in CheckPcs /\ "out" \in CheckPcs
  BY DEF FlowPcs, CheckPcs
<1>t. /\ codes \in [Sessions -> 0..MaxCodes]
      /\ \A s \in Sessions :
            check[s] = "sleep" => flow[s] \notin {"off", "ensure", "codes"}
  BY DEF TInv, TypeOK, ScanEndsCodes
<1>1. CASE UNCHANGED vars
  BY <1>1 DEF vars, TInv, TypeOK, Fresh, ScanEndsCodes, Registered, socketVars, flowVars
<1>2. ASSUME NEW s \in Sessions, Connect(s) PROVE TInv'
  BY <1>2 DEF Connect, TInv, TypeOK, Fresh, ScanEndsCodes, Registered, SocketPcs,
              flowVars
<1>3. ASSUME NEW s \in Sessions, CancelUser(s) PROVE TInv'
  <2> DEFINE hears(t) == t \in registry /\ Room(t)
  <2>1. ASSUME NEW t \in Sessions
        PROVE  /\ queue'[t] = IF hears(t) THEN Append(queue[t], "cancelled") ELSE queue[t]
               /\ queue'[t] \in Seq(States) /\ Len(queue'[t]) <= Capacity
    <3>1. queue'[t] = IF hears(t) THEN Append(queue[t], "cancelled") ELSE queue[t]
      BY <1>3 DEF CancelUser
    <3>2. queue[t] \in Seq(States) /\ Len(queue[t]) <= Capacity /\ Len(queue[t]) \in Nat
      BY DEF TInv, TypeOK
    <3>3. /\ Append(queue[t], "cancelled") \in Seq(States)
          /\ Len(Append(queue[t], "cancelled")) = Len(queue[t]) + 1
      BY <1>s, <3>2, AppendProperties
    <3>4. hears(t) => Len(queue[t]) < Capacity
      BY DEF Room
    <3> QED
      BY <3>1, <3>2, <3>3, <3>4, CapacityAssumption
  <2>2. queue' \in [Sessions -> Seq(States)] /\ lost' \in [Sessions -> BOOLEAN]
    BY <1>3, <2>1 DEF CancelUser, TInv, TypeOK
  <2>3. TypeOK'
    BY <1>3, <2>1, <2>2 DEF CancelUser, TInv, TypeOK, SocketPcs, flowVars
  <2> HIDE DEF hears
  <2>4. ASSUME NEW t \in Sessions PROVE Fresh(t)' /\ ScanEndsCodes(t)'
    <3>1. socket'[t] \in {"new", "cancel", "add"} => queue'[t] = <<>>
      BY <1>3, <2>1 DEF CancelUser, TInv, Fresh, hears, TypeOK
    <3> QED
      BY <1>3, <3>1 DEF CancelUser, TInv, TypeOK, Fresh, ScanEndsCodes, flowVars
  <2> QED
    BY <1>3, <2>3, <2>4 DEF CancelUser, TInv, Registered
<1>4. ASSUME NEW s \in Sessions, Add(s) PROVE TInv'
  BY <1>4 DEF Add, TInv, TypeOK, Fresh, ScanEndsCodes, Registered, SocketPcs, FlowPcs
<1>5. ASSUME NEW s \in Sessions, Deliver(s) PROVE TInv'
  <2>1. queue[s] \in Seq(States) /\ queue[s] # <<>> /\ Len(queue[s]) <= Capacity
    BY <1>5 DEF Deliver, TInv, TypeOK
  <2>2. Tail(queue[s]) \in Seq(States) /\ Len(Tail(queue[s])) = Len(queue[s]) - 1
    BY <2>1, HeadTailProperties
  <2>3. Len(Tail(queue[s])) <= Capacity
    BY <2>1, <2>2, CapacityAssumption, LenProperties
  <2>4. TypeOK'
    BY <1>5, <2>2, <2>3 DEF Deliver, TInv, TypeOK, SocketPcs, flowVars
  <2>5. ASSUME NEW t \in Sessions PROVE Fresh(t)' /\ ScanEndsCodes(t)'
    BY <1>5 DEF Deliver, TInv, TypeOK, Fresh, ScanEndsCodes, flowVars
  <2>6. Registered'
    BY <1>5 DEF Deliver, TInv, TypeOK, Registered
  <2> QED
    BY <2>4, <2>5, <2>6 DEF TInv
<1>6. ASSUME NEW s \in Sessions, Close(s) PROVE TInv'
  BY <1>6 DEF Close, TInv, TypeOK, Fresh, ScanEndsCodes, Registered, SocketPcs, flowVars
<1>7. ASSUME NEW s \in Sessions, Authenticate(s) PROVE TInv'
  <2> USE DEF Fail, Flow
  <2>1. CASE Ensure(s)
    BY <2>1, <1>s, <1>f, <1>t, FlowStep DEF Ensure
  <2>2. CASE Scan(s)
    BY <2>2, <1>s, <1>f, <1>t, FlowStep DEF Scan, TInv, TypeOK
  <2>3. CASE CodesEnd(s)
    BY <2>3, <1>s, <1>f, <1>t, FlowStep DEF CodesEnd, TInv, TypeOK
  <2>4. CASE Wait(s)
    BY <2>4, <1>s, <1>f, <1>t, FlowStep DEF Wait, TInv, TypeOK
  <2>5. CASE Save(s)
    BY <2>5, <1>s, <1>f, <1>t, FlowStep DEF Save, TInv, TypeOK
  <2>6. CASE Report(s)
    <3>1. /\ flow[s] # "off" /\ UNCHANGED <<socketVars, check, codes>>
          /\ flow' = [flow EXCEPT ![s] = "over"] /\ flow'[s] = "over"
      BY <2>6 DEF Report, TInv, TypeOK
    <3>2. UNCHANGED <<queue, lost>> \/ Send(s, "error")
      BY <2>6 DEF Report
    <3> QED
      BY <3>1, <3>2, <1>s, <1>f, <1>t, FlowStep
  <2> QED
    BY <1>7, <2>1, <2>2, <2>3, <2>4, <2>5, <2>6 DEF Authenticate
<1>8. ASSUME NEW s \in Sessions, Code(s) PROVE TInv'
  <2>1. codes' \in [Sessions -> 0..MaxCodes]
    BY <1>8, <1>t, MaxCodesAssumption DEF Code
  <2> QED
    BY <1>8, <2>1, <1>s, FlowStep DEF Code
<1>9. ASSUME NEW s \in Sessions, CheckLogin(s) PROVE TInv'
  BY <1>9, <1>s, <1>f, <1>t, FlowStep DEF CheckLogin
<1> QED
  BY <1>1, <1>2, <1>3, <1>4, <1>5, <1>6, <1>7, <1>8, <1>9 DEF Next, Socket

LEMMA TInvariant == Spec => []TInv
  BY TInvInit, TInvStep, PTL DEF Spec

\* Types, among them that no more states wait in a channel than it holds, for any
\* number of connections (handler.go, flow.go).
THEOREM TypeCorrect == Spec => []TypeOK
<1>1. TInv => TypeOK
  BY DEF TInv
<1> QED
  BY <1>1, TInvariant, PTL

\* A new connection replaces the one before it, for any number of connections: of two
\* that are served one has been told, and one that has not been told is where the next
\* will find it, unless Add has refused it (registry.go, CancelUser, Add and Remove).
THEOREM OneIsReplaced == Spec => []ReplacedIsTold
<1>1. TInv => ReplacedIsTold
  <2> SUFFICES ASSUME TInv PROVE ReplacedIsTold
    OBVIOUS
  <2>1. \A s \in Sessions : socket[s] = "serve" => s \in registry \cup told \cup refused
    BY DEF TInv, Registered
  <2>2. \A s, t \in registry : s = t
    BY DEF TInv, Registered
  <2>3. ASSUME NEW s \in Sessions, NEW t \in Sessions, s # t,
               socket[s] = "serve", socket[t] = "serve"
        PROVE  {s, t} \cap (told \cup refused) # {}
    <3>1. s \in told \cup refused \/ t \in told \cup refused
      BY <2>1, <2>2, <2>3
    <3> QED
      BY <3>1
  <2> QED
    BY <2>1, <2>3 DEF ReplacedIsTold
<1> QED
  BY <1>1, TInvariant, PTL

-----------------------------------------------------------------------------
(* The outcome.                                                            *)

HasOutcome(s) == \E i \in 1..Len(queue[s]) : queue[s][i] \in Terminal

Over(s) == HasOutcome(s) \/ socket[s] \in {"close", "gone"}

\* What may have been sent beside an outcome: the codes, the report of the scan and,
\* to a session that is registered no more, that it is cancelled.
Sent(s) == codes[s] + (IF check[s] = "off" THEN 0 ELSE 1)
                    + (IF s \in registry THEN 0 ELSE 1)

\* Before the outcome nothing is lost, for the channel holds all the rest.
Accounted(s) == Over(s) \/ (~lost[s] /\ Len(queue[s]) <= Sent(s))

QInv == \A s \in Sessions : Accounted(s)

LEMMA SentBounded ==
  ASSUME TypeOK, NEW s \in Sessions
  PROVE  Sent(s) \in Nat /\ Sent(s) < Capacity
<1>1. codes[s] \in 0..MaxCodes
  BY DEF TypeOK
<1>2. codes[s] \in Nat /\ codes[s] <= MaxCodes
  BY <1>1, MaxCodesAssumption
<1> QED
  BY <1>2, CapacityAssumption, MaxCodesAssumption DEF Sent

\* A state comes to the queue of s, and is lost if there is no room.
Arrives(s, state) ==
    IF Room(s) THEN queue'[s] = Append(queue[s], state) /\ lost'[s] = lost[s]
    ELSE queue'[s] = queue[s]

LEMMA SendArrives ==
  ASSUME TypeOK, NEW s \in Sessions, NEW state, Send(s, state)
  PROVE  Arrives(s, state)
BY DEF Send, Arrives, TypeOK

\* There is room as long as there is no outcome.
LEMMA RoomBefore ==
  ASSUME TypeOK, NEW s \in Sessions, Accounted(s), ~Over(s)
  PROVE  Room(s)
<1>1. Len(queue[s]) <= Sent(s) /\ Len(queue[s]) \in Nat
  BY DEF Accounted, TypeOK
<1> QED
  BY <1>1, SentBounded, CapacityAssumption DEF Room

LEMMA ArrivalKeepsOutcome ==
  ASSUME TypeOK, NEW s \in Sessions, NEW state \in States, Arrives(s, state),
         Over(s), socket'[s] = socket[s]
  PROVE  Over(s)'
<1>1. CASE Room(s)
  <2>1. queue[s] \in Seq(States) /\ queue'[s] = Append(queue[s], state)
    BY <1>1 DEF TypeOK, Arrives
  <2>2. /\ \A i \in 1..Len(queue[s]) : i \in 1..Len(queue'[s])
        /\ \A i \in 1..Len(queue[s]) : queue'[s][i] = queue[s][i]
    BY <2>1, AppendProperties
  <2> QED
    BY <2>2 DEF Over, HasOutcome
<1>2. CASE ~Room(s)
  BY <1>2 DEF Over, HasOutcome, Arrives
<1> QED
  BY <1>1, <1>2

\* There is always room for an outcome, or there is one already.
LEMMA OutcomeStays ==
  ASSUME TypeOK, NEW s \in Sessions, NEW state \in Terminal, Arrives(s, state),
         Accounted(s), socket'[s] = socket[s]
  PROVE  Over(s)'
<1>1. state \in States
  BY DEF Terminal, States
<1>2. CASE Over(s)
  BY <1>1, <1>2, ArrivalKeepsOutcome
<1>3. CASE ~Over(s)
  <2>1. queue[s] \in Seq(States) /\ queue'[s] = Append(queue[s], state)
    BY <1>3, RoomBefore DEF TypeOK, Arrives
  <2>2. Len(queue[s]) + 1 \in 1..Len(queue'[s]) /\ queue'[s][Len(queue[s]) + 1] = state
    BY <1>1, <2>1, AppendProperties
  <2> QED
    BY <2>2 DEF Over, HasOutcome
<1> QED
  BY <1>2, <1>3

LEMMA OutcomeArrives ==
  ASSUME TypeOK, NEW s \in Sessions, NEW state \in Terminal, Arrives(s, state),
         Accounted(s), socket'[s] = socket[s]
  PROVE  Accounted(s)'
BY OutcomeStays DEF Accounted

LEMMA OtherArrives ==
  ASSUME TypeOK, NEW s \in Sessions, NEW state \in States, Arrives(s, state),
         Accounted(s), socket'[s] = socket[s], Sent(s)' = Sent(s) + 1
  PROVE  Accounted(s)'
<1>1. CASE Over(s)
  BY <1>1, ArrivalKeepsOutcome DEF Accounted
<1>2. CASE ~Over(s)
  <2>1. /\ queue[s] \in Seq(States) /\ queue'[s] = Append(queue[s], state)
        /\ lost'[s] = lost[s]
    BY <1>2, RoomBefore DEF TypeOK, Arrives
  <2>2. Len(queue'[s]) = Len(queue[s]) + 1 /\ Len(queue[s]) \in Nat
    BY <2>1, AppendProperties
  <2>3. Len(queue[s]) <= Sent(s) /\ ~lost[s] /\ Sent(s) \in Nat
    BY <1>2, SentBounded DEF Accounted
  <2> QED
    BY <2>1, <2>2, <2>3 DEF Accounted
<1> QED
  BY <1>1, <1>2

LEMMA NothingArrives ==
  ASSUME NEW s \in Sessions, Accounted(s), queue'[s] = queue[s], lost'[s] = lost[s],
         socket'[s] = socket[s] \/ socket'[s] \notin {"new", "cancel", "add", "serve"},
         socket'[s] \in SocketPcs, Sent(s)' = Sent(s)
  PROVE  Accounted(s)'
BY DEF Accounted, Over, HasOutcome, SocketPcs

\* What a flow sends is accounted for.
LEMMA FlowAccounts ==
  ASSUME TInv, QInv, NEW s \in Sessions, UNCHANGED socketVars,
         \A t \in Sessions \ {s} : codes'[t] = codes[t] /\ check'[t] = check[t],
         \/ UNCHANGED <<queue, lost>> /\ Sent(s)' = Sent(s)
         \/ \E state \in Terminal : Send(s, state)
         \/ \E state \in States : Send(s, state) /\ Sent(s)' = Sent(s) + 1
  PROVE  QInv'
<1> SUFFICES ASSUME NEW t \in Sessions PROVE Accounted(t)'
  BY DEF QInv
<1>1. Accounted(t) /\ socket'[t] = socket[t] /\ socket'[t] \in SocketPcs
  BY DEF QInv, TInv, TypeOK, socketVars
<1>2. CASE t = s /\ UNCHANGED <<queue, lost>> /\ Sent(s)' = Sent(s)
  BY <1>1, <1>2, NothingArrives
<1>3. CASE t = s /\ \E state \in Terminal : Send(s, state)
  <2>1. PICK state \in Terminal : Arrives(s, state)
    BY <1>3, SendArrives DEF TInv
  <2> QED
    BY <1>1, <1>3, <2>1, OutcomeArrives DEF TInv
<1>4. CASE t = s /\ \E state \in States : Send(s, state) /\ Sent(s)' = Sent(s) + 1
  <2>1. PICK state \in States : Arrives(s, state)
    BY <1>4, SendArrives DEF TInv
  <2> QED
    BY <1>1, <1>4, <2>1, OtherArrives DEF TInv
<1>5. CASE t # s
  <2>1. queue'[t] = queue[t] /\ lost'[t] = lost[t]
    <3>1. \A state \in Terminal : state \in States
      BY DEF Terminal, States
    <3> QED
      BY <1>5, <3>1, SendType DEF TInv
  <2>2. Sent(t)' = Sent(t)
    BY <1>5 DEF Sent, socketVars
  <2> QED
    BY <1>1, <2>1, <2>2, NothingArrives
<1> QED
  BY <1>2, <1>3, <1>4, <1>5

LEMMA QInvInit == Init => QInv
<1> SUFFICES ASSUME Init, NEW s \in Sessions PROVE Accounted(s)
  BY DEF QInv
<1>1. Len(queue[s]) = 0 /\ ~lost[s]
  BY DEF Init
<1>2. Sent(s) \in Nat
  BY TInvInit, SentBounded DEF TInv
<1> QED
  BY <1>1, <1>2 DEF Accounted

LEMMA QInvStep == TInv /\ TInv' /\ QInv /\ [Next]_vars => QInv'
<1> SUFFICES ASSUME TInv, TInv', QInv, [Next]_vars PROVE QInv'
  OBVIOUS
<1>q. ASSUME NEW t \in Sessions
      PROVE  /\ Accounted(t) /\ socket'[t] \in SocketPcs /\ queue[t] \in Seq(States)
             /\ Len(queue[t]) \in Nat /\ codes[t] \in Nat
  BY MaxCodesAssumption DEF QInv, TInv, TypeOK
<1>t. "error" \in Terminal /\ "success" \in Terminal
  BY DEF Terminal
<1>1. CASE UNCHANGED vars
  BY <1>1 DEF vars, QInv, Accounted, Over, HasOutcome, Sent, socketVars, flowVars
<1>2. ASSUME NEW s \in Sessions, Connect(s) PROVE QInv'
  <2> SUFFICES ASSUME NEW t \in Sessions PROVE Accounted(t)'
    BY DEF QInv
  <2>1. Sent(t)' = Sent(t) /\ queue'[t] = queue[t] /\ lost'[t] = lost[t]
    BY <1>2 DEF Connect, Sent, flowVars
  <2>2. socket[t] \in {"close", "gone"} => socket'[t] = socket[t]
    BY <1>2 DEF Connect, TInv, TypeOK
  <2> QED
    BY <1>q, <2>1, <2>2 DEF Accounted, Over, HasOutcome
<1>3. ASSUME NEW s \in Sessions, CancelUser(s) PROVE QInv'
  <2> SUFFICES ASSUME NEW t \in Sessions PROVE Accounted(t)'
    BY DEF QInv
  <2>1. CASE t \in registry
    <3>1. socket'[t] = socket[t]
      BY <1>3, <2>1 DEF CancelUser, TInv, TypeOK, Registered
    <3>2. Arrives(t, "cancelled")
      <4>1. lost'[t] = (lost[t] \/ (t \in registry /\ ~Room(t)))
        BY <1>3 DEF CancelUser
      <4>2. lost[t] \in BOOLEAN
        BY DEF TInv, TypeOK
      <4>3. Room(t) => lost'[t] = lost[t]
        BY <4>1, <4>2, Zenon
      <4>4. queue'[t] = IF Room(t) THEN Append(queue[t], "cancelled") ELSE queue[t]
        BY <1>3, <2>1 DEF CancelUser
      <4> QED
        BY <4>3, <4>4 DEF Arrives
    <3>3. Sent(t)' = Sent(t) + 1
      BY <1>3, <1>q, <2>1 DEF CancelUser, Sent, flowVars
    <3> QED
      BY <1>q, <3>1, <3>2, <3>3, OtherArrives DEF TInv, States
  <2>2. CASE t \notin registry
    <3>1. queue'[t] = queue[t] /\ lost'[t] = lost[t]
      BY <1>3, <2>2 DEF CancelUser, TInv, TypeOK
    <3>2. Sent(t)' = Sent(t)
      BY <1>3, <2>2 DEF CancelUser, Sent, flowVars
    <3>3. socket[t] \in {"close", "gone"} => socket'[t] = socket[t]
      BY <1>3 DEF CancelUser, TInv, TypeOK
    <3> QED
      BY <1>q, <3>1, <3>2, <3>3 DEF Accounted, Over, HasOutcome
  <2> QED
    BY <2>1, <2>2
<1>4. ASSUME NEW s \in Sessions, Add(s) PROVE QInv'
  <2> SUFFICES ASSUME NEW t \in Sessions PROVE Accounted(t)'
    BY DEF QInv
  <2>1. CASE t = s
    <3>1. Len(queue'[t]) = 0 /\ lost'[t] = lost[t] /\ socket[t] = "add"
      BY <1>4, <2>1 DEF Add, TInv, Fresh
    <3>2. ~lost[t]
      BY <1>q, <3>1 DEF Accounted, Over, HasOutcome, TInv, Fresh
    <3>3. Sent(t)' \in Nat
      BY SentBounded, <1>4 DEF TInv, Sent, TypeOK
    <3> QED
      BY <3>1, <3>2, <3>3 DEF Accounted
  <2>2. CASE t # s
    <3>1. /\ queue'[t] = queue[t] /\ lost'[t] = lost[t] /\ socket'[t] = socket[t]
          /\ Sent(t)' = Sent(t)
      BY <1>4, <2>2 DEF Add, Sent, TInv, TypeOK
    <3> QED
      BY <1>q, <3>1, NothingArrives
  <2> QED
    BY <2>1, <2>2
<1>5. ASSUME NEW s \in Sessions, Deliver(s) PROVE QInv'
  <2> SUFFICES ASSUME NEW t \in Sessions PROVE Accounted(t)'
    BY DEF QInv
  <2>1. Sent(t)' = Sent(t) /\ lost'[t] = lost[t]
    BY <1>5 DEF Deliver, Sent, flowVars
  <2>2. CASE t = s /\ socket'[s] = "close"
    BY <2>2 DEF Accounted, Over
  <2>3. CASE t = s /\ Head(queue[s]) \notin Terminal /\ socket' = socket
    <3>1. queue[s] \in Seq(States) /\ queue[s] # <<>> /\ queue'[s] = Tail(queue[s])
      BY <1>5, <1>q DEF Deliver, TInv, TypeOK
    <3>2. /\ Len(queue'[s]) = Len(queue[s]) - 1 /\ Head(queue[s]) = queue[s][1]
          /\ \A i \in 1..Len(queue'[s]) : queue'[s][i] = queue[s][i + 1]
      BY <3>1, HeadTailProperties
    <3>3. ASSUME HasOutcome(s) PROVE HasOutcome(s)'
      <4>1. PICK i \in 1..Len(queue[s]) : queue[s][i] \in Terminal
        BY <3>3 DEF HasOutcome
      <4>2. i - 1 \in 1..Len(queue'[s]) /\ (i - 1) + 1 = i
        BY <1>q, <2>3, <3>2, <4>1
      <4> QED
        BY <3>2, <4>1, <4>2 DEF HasOutcome
    <3>4. Len(queue[s]) <= Sent(s) => Len(queue'[s]) <= Sent(s)
      BY <1>q, <3>2, SentBounded DEF TInv
    <3> QED
      BY <1>q, <2>1, <2>3, <3>3, <3>4 DEF Accounted, Over
  <2>4. CASE t # s
    <3>1. queue'[t] = queue[t] /\ socket'[t] = socket[t]
      BY <1>5, <2>4 DEF Deliver, TInv, TypeOK
    <3> QED
      BY <1>q, <2>1, <3>1, NothingArrives
  <2> QED
    BY <1>5, <2>2, <2>3, <2>4 DEF Deliver, TInv, TypeOK
<1>6. ASSUME NEW s \in Sessions, Close(s) PROVE QInv'
  <2> SUFFICES ASSUME NEW t \in Sessions PROVE Accounted(t)'
    BY DEF QInv
  <2>1. CASE t = s
    BY <1>6, <2>1 DEF Close, Accounted, Over, TInv, TypeOK
  <2>2. CASE t # s
    <3>1. /\ queue'[t] = queue[t] /\ lost'[t] = lost[t] /\ socket'[t] = socket[t]
          /\ Sent(t)' = Sent(t)
      BY <1>6, <2>2 DEF Close, Sent, TInv, TypeOK, flowVars
    <3> QED
      BY <1>q, <3>1, NothingArrives
  <2> QED
    BY <2>1, <2>2
<1>7. ASSUME NEW s \in Sessions,
             Ensure(s) \/ CodesEnd(s) \/ Wait(s) \/ Save(s) \/ Report(s)
      PROVE  QInv'
  <2>1. /\ UNCHANGED <<socketVars, codes, check>>
        /\ UNCHANGED <<queue, lost>> \/ Send(s, "error")
    BY <1>7 DEF Ensure, CodesEnd, Wait, Save, Report, Fail
  <2>2. Sent(s)' = Sent(s)
    BY <2>1 DEF Sent, socketVars
  <2> QED
    BY <1>t, <2>1, <2>2, FlowAccounts
<1>8. ASSUME NEW s \in Sessions, Code(s) PROVE QInv'
  <2>1. Sent(s)' = Sent(s) + 1
    BY <1>8, <1>q DEF Code, Sent, socketVars, TInv, TypeOK
  <2> QED
    BY <1>8, <2>1, FlowAccounts DEF Code, TInv, TypeOK, States
<1>9. ASSUME NEW s \in Sessions, Scan(s) PROVE QInv'
  <2>1. check[s] = "off" /\ check'[s] = "sleep" /\ UNCHANGED <<socketVars, codes>>
    BY <1>9 DEF Scan, TInv, TypeOK, ScanEndsCodes
  <2>2. Sent(s)' = Sent(s) + 1
    BY <1>q, <2>1 DEF Sent, socketVars
  <2> QED
    BY <1>9, <2>1, <2>2, FlowAccounts DEF Scan, TInv, TypeOK, States
<1>10. ASSUME NEW s \in Sessions, CheckLogin(s) PROVE QInv'
  <2>1. /\ check[s] # "off" /\ check'[s] # "off" /\ UNCHANGED <<socketVars, codes>>
        /\ \A t \in Sessions \ {s} : check'[t] = check[t]
        /\ UNCHANGED <<queue, lost>> \/ Send(s, "success")
    BY <1>10 DEF CheckLogin, TInv, TypeOK
  <2>2. Sent(s)' = Sent(s)
    BY <2>1 DEF Sent, socketVars
  <2> QED
    BY <1>t, <2>1, <2>2, FlowAccounts
<1> QED
  BY <1>1, <1>2, <1>3, <1>4, <1>5, <1>6, <1>7, <1>8, <1>9, <1>10
     DEF Next, Socket, Authenticate

\* The outcome of an authorization never finds the channel full, for any number of
\* codes that the channel is made for (flow.go, safeStateSend).
THEOREM OutcomeKept == Spec => []OutcomeNotLost
<1>1. QInv => OutcomeNotLost
  BY DEF QInv, Accounted, Over, HasOutcome, OutcomeNotLost
<1> QED
  BY <1>1, QInvInit, QInvStep, TInvariant, PTL DEF Spec
-----------------------------------------------------------------------------
(* The outcome when the authorization is over.                             *)

\* A login that was seen has been reported, and so has the end; only a login that
\* was seen is saved.
Ended(s) ==
    /\ flow[s] = "save" => check[s] = "in"
    /\ check[s] = "in" \/ flow[s] = "over" => Over(s)

OInv == \A s \in Sessions : Ended(s)

LEMMA OInvInit == Init => OInv
BY DEF Init, OInv, Ended

\* Nothing comes, and the authorization stays where it is.
LEMMA NothingEnds ==
  ASSUME NEW s \in Sessions, Ended(s), queue'[s] = queue[s],
         socket'[s] = socket[s] \/ socket[s] \notin {"close", "gone"},
         flow'[s] = flow[s], check'[s] = check[s]
  PROVE  Ended(s)'
BY DEF Ended, Over, HasOutcome

\* A state that is no outcome leaves the outcome where it was; an outcome that comes
\* is there.
LEMMA FlowEnds ==
  ASSUME TInv, QInv, OInv, NEW s \in Sessions, UNCHANGED socketVars,
         \A t \in Sessions \ {s} : flow'[t] = flow[t] /\ check'[t] = check[t],
         flow'[s] = "save" => check'[s] = "in",
         \/ /\ UNCHANGED <<queue, lost>> \/ \E state \in States : Send(s, state)
            /\ check'[s] = "in" \/ flow'[s] = "over" => Over(s)
         \/ \E state \in Terminal : Send(s, state)
  PROVE  OInv'
<1> SUFFICES ASSUME NEW t \in Sessions PROVE Ended(t)'
  BY DEF OInv
<1>1. Ended(t) /\ Accounted(t) /\ socket'[t] = socket[t] /\ TypeOK
  BY DEF OInv, QInv, TInv, socketVars
<1>2. CASE t = s /\ UNCHANGED <<queue, lost>>
                 /\ (check'[s] = "in" \/ flow'[s] = "over" => Over(s))
  BY <1>1, <1>2 DEF Ended, Over, HasOutcome
<1>3. CASE t = s /\ (\E state \in States : Send(s, state))
                 /\ (check'[s] = "in" \/ flow'[s] = "over" => Over(s))
  <2>1. PICK state \in States : Arrives(s, state)
    BY <1>1, <1>3, SendArrives
  <2>2. Over(s) => Over(s)'
    BY <1>1, <1>3, <2>1, ArrivalKeepsOutcome
  <2> QED
    BY <1>3, <2>2 DEF Ended
<1>4. CASE t = s /\ \E state \in Terminal : Send(s, state)
  <2>1. PICK state \in Terminal : Arrives(s, state)
    BY <1>1, <1>4, SendArrives
  <2>2. Over(s)'
    BY <1>1, <1>4, <2>1, OutcomeStays
  <2> QED
    BY <1>4, <2>2 DEF Ended
<1>5. CASE t # s
  <2>1. \A state \in Terminal : state \in States
    BY DEF Terminal, States
  <2>2. queue'[t] = queue[t]
    BY <1>5, <2>1, SendType DEF TInv
  <2> QED
    BY <1>1, <1>5, <2>2, NothingEnds
<1> QED
  BY <1>2, <1>3, <1>4, <1>5

LEMMA OInvStep == TInv /\ QInv /\ OInv /\ [Next]_vars => OInv'
<1> SUFFICES ASSUME TInv, QInv, OInv, [Next]_vars PROVE OInv'
  OBVIOUS
<1>q. ASSUME NEW t \in Sessions
      PROVE  Ended(t) /\ Accounted(t) /\ Fresh(t) /\ ScanEndsCodes(t)
  BY DEF TInv, QInv, OInv
<1>t. "error" \in Terminal /\ "success" \in Terminal
      /\ "qr_code" \in States /\ "qr-success" \in States /\ "cancelled" \in States
  BY DEF Terminal, States
<1>y. /\ flow \in [Sessions -> FlowPcs] /\ check \in [Sessions -> CheckPcs]
      /\ socket \in [Sessions -> SocketPcs] /\ queue \in [Sessions -> Seq(States)]
  BY DEF TInv, TypeOK
<1>1. CASE UNCHANGED vars
  BY <1>1 DEF vars, OInv, Ended, Over, HasOutcome, socketVars, flowVars
<1>2. ASSUME NEW s \in Sessions, Connect(s) PROVE OInv'
  BY <1>2, <1>y, <1>q, NothingEnds DEF Connect, OInv, flowVars
<1>3. ASSUME NEW s \in Sessions, CancelUser(s) PROVE OInv'
  <2> SUFFICES ASSUME NEW t \in Sessions PROVE Ended(t)'
    BY DEF OInv
  <2>1. CASE t \in registry
    <3>1. socket'[t] = socket[t]
      BY <1>3, <1>y, <2>1 DEF CancelUser, TInv, Registered
    <3>2. /\ Room(t) => queue'[t] = Append(queue[t], "cancelled")
          /\ ~Room(t) => queue'[t] = queue[t]
      BY <1>3, <2>1 DEF CancelUser
    <3>3. Over(t) => Over(t)'
      <4>1. CASE Room(t)
        <5>1. queue[t] \in Seq(States) /\ queue'[t] = Append(queue[t], "cancelled")
          BY <1>y, <3>2, <4>1
        <5>2. /\ \A i \in 1..Len(queue[t]) : i \in 1..Len(queue'[t])
              /\ \A i \in 1..Len(queue[t]) : queue'[t][i] = queue[t][i]
          BY <1>t, <5>1, AppendProperties
        <5> QED
          BY <3>1, <5>2 DEF Over, HasOutcome
      <4>2. CASE ~Room(t)
        BY <3>1, <3>2, <4>2 DEF Over, HasOutcome
      <4> QED
        BY <4>1, <4>2
    <3> QED
      BY <1>3, <1>q, <3>3 DEF CancelUser, Ended, flowVars
  <2>2. CASE t \notin registry
    BY <1>3, <1>y, <1>q, <2>2, NothingEnds DEF CancelUser, flowVars
  <2> QED
    BY <2>1, <2>2
<1>4. ASSUME NEW s \in Sessions, Add(s) PROVE OInv'
  <2> SUFFICES ASSUME NEW t \in Sessions PROVE Ended(t)'
    BY DEF OInv
  <2>1. CASE t = s
    BY <1>4, <1>y, <1>q, <2>1 DEF Add, Ended, Fresh
  <2>2. CASE t # s
    BY <1>4, <1>y, <1>q, <2>2, NothingEnds DEF Add
  <2> QED
    BY <2>1, <2>2
<1>5. ASSUME NEW s \in Sessions, Deliver(s) PROVE OInv'
  <2> SUFFICES ASSUME NEW t \in Sessions PROVE Ended(t)'
    BY DEF OInv
  <2>1. flow' = flow /\ check' = check
    BY <1>5 DEF Deliver, flowVars
  <2>2. CASE t = s /\ socket'[s] = "close"
    BY <1>q, <2>1, <2>2 DEF Ended, Over
  <2>3. CASE t = s /\ Head(queue[s]) \notin Terminal /\ socket' = socket
    <3>1. queue[s] \in Seq(States) /\ queue[s] # <<>> /\ queue'[s] = Tail(queue[s])
      BY <1>5, <1>y DEF Deliver
    <3>2. /\ Len(queue'[s]) = Len(queue[s]) - 1 /\ Head(queue[s]) = queue[s][1]
          /\ \A i \in 1..Len(queue'[s]) : queue'[s][i] = queue[s][i + 1]
          /\ Len(queue[s]) \in Nat
      BY <3>1, HeadTailProperties, LenProperties
    <3>3. ASSUME HasOutcome(s) PROVE HasOutcome(s)'
      <4>1. PICK i \in 1..Len(queue[s]) : queue[s][i] \in Terminal
        BY <3>3 DEF HasOutcome
      <4>2. i - 1 \in 1..Len(queue'[s]) /\ (i - 1) + 1 = i
        BY <2>3, <3>2, <4>1
      <4> QED
        BY <3>2, <4>1, <4>2 DEF HasOutcome
    <3> QED
      BY <1>q, <2>1, <2>3, <3>3 DEF Ended, Over
  <2>4. CASE t # s
    BY <1>5, <1>y, <1>q, <2>1, <2>4, NothingEnds DEF Deliver
  <2> QED
    BY <1>5, <1>y, <2>2, <2>3, <2>4 DEF Deliver
<1>6. ASSUME NEW s \in Sessions, Close(s) PROVE OInv'
  <2> SUFFICES ASSUME NEW t \in Sessions PROVE Ended(t)'
    BY DEF OInv
  <2>1. flow' = flow /\ check' = check /\ queue' = queue
    BY <1>6 DEF Close, flowVars
  <2>2. CASE t = s
    BY <1>6, <1>y, <1>q, <2>1, <2>2 DEF Close, Ended, Over
  <2>3. CASE t # s
    BY <1>6, <1>y, <1>q, <2>1, <2>3, NothingEnds DEF Close
  <2> QED
    BY <2>2, <2>3
<1>7. ASSUME NEW s \in Sessions, Authenticate(s) PROVE OInv'
  <2> USE DEF Fail, Flow
  <2>o. ASSUME NEW where, flow' = [flow EXCEPT ![s] = where]
        PROVE  flow'[s] = where /\ \A t \in Sessions \ {s} : flow'[t] = flow[t]
    BY <1>y, <2>o
  <2>1. CASE Ensure(s)
    BY <2>1, <2>o, <1>q, <1>t, FlowEnds DEF Ensure, Ended
  <2>2. CASE Scan(s)
    BY <2>2, <2>o, <1>q, <1>t, <1>y, FlowEnds DEF Scan, Ended
  <2>3. CASE CodesEnd(s)
    BY <2>3, <2>o, <1>q, <1>t, FlowEnds DEF CodesEnd, Ended
  <2>4. CASE Wait(s)
    BY <2>4, <2>o, <1>q, <1>t, FlowEnds DEF Wait, Ended
  <2>5. CASE Save(s)
    BY <2>5, <2>o, <1>q, <1>t, FlowEnds DEF Save, Ended
  <2>6. CASE Report(s)
    <3>1. /\ UNCHANGED <<socketVars, check>> /\ flow'[s] = "over"
          /\ \A t \in Sessions \ {s} : flow'[t] = flow[t]
      BY <2>6, <2>o DEF Report
    <3>2. Send(s, "error") \/ (Over(s) /\ UNCHANGED <<queue, lost>>)
      BY <2>6 DEF Report, Over
    <3> QED
      BY <3>1, <3>2, <1>t, FlowEnds
  <2> QED
    BY <1>7, <2>1, <2>2, <2>3, <2>4, <2>5, <2>6 DEF Authenticate
<1>8. ASSUME NEW s \in Sessions, Code(s) PROVE OInv'
  BY <1>8, <1>q, <1>t, FlowEnds DEF Code, Ended
<1>9. ASSUME NEW s \in Sessions, CheckLogin(s) PROVE OInv'
  <2>1. /\ UNCHANGED <<socketVars, flow>> /\ check[s] = "sleep"
        /\ \A t \in Sessions \ {s} : check'[t] = check[t]
        /\ \/ check'[s] = "in" /\ Send(s, "success")
           \/ check'[s] = "out" /\ UNCHANGED <<queue, lost>>
    BY <1>9, <1>y DEF CheckLogin
  <2>2. flow'[s] # "save" /\ (flow'[s] = "over" => Over(s))
    BY <1>q, <2>1 DEF Ended
  <2> QED
    BY <1>t, <2>1, <2>2, FlowEnds
<1> QED
  BY <1>1, <1>2, <1>3, <1>4, <1>5, <1>6, <1>7, <1>8, <1>9 DEF Next, Socket

\* Whichever way an authorization ends, the handler that still reads finds the outcome
\* in the channel (flow.go; handler.go, the loop of AuthWebSocketHandler).
THEOREM OutcomeIsThere == Spec => []OutcomeAwaits
<1>1. TInv /\ OInv => OutcomeAwaits
  <2> SUFFICES ASSUME TInv, OInv, NEW s \in Sessions, socket[s] = "serve",
                      flow[s] = "over"
               PROVE  HasOutcome(s)
    BY DEF OutcomeAwaits, HasOutcome
  <2> QED
    BY DEF OInv, Ended, Over
<1> QED
  BY <1>1, QInvInit, QInvStep, OInvInit, OInvStep, TInvariant, PTL DEF Spec
=============================================================================
