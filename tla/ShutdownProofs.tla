--------------------------- MODULE ShutdownProofs ---------------------------
(* Proofs about Shutdown.                                                  *)
EXTENDS Shutdown, TLAPS

\* Types, and that DoneCh is closed once (db.go, CloseDoneCh).
THEOREM TypeCorrect == Spec => []TypeOK
<1>1. Init => TypeOK
  BY DEF Init, TypeOK, Producers
<1>2. TypeOK /\ [Next]_vars => TypeOK'
  <2> SUFFICES ASSUME TypeOK, [Next]_vars PROVE TypeOK'
    OBVIOUS
  <2> USE DEF TypeOK
  <2>1. CASE UNCHANGED vars
    BY <2>1 DEF vars, botVars, appVars, endVars
  <2>2. CASE Signal
    BY <2>2 DEF Signal, botVars, appVars, endVars
  <2>3. CASE App
    <3> USE DEF botVars, appVars, endVars, Producers
    <3>1. CASE Begin
      BY <3>1 DEF Begin
    <3>2. CASE StopBotReturns
      BY <3>2 DEF StopBotReturns
    <3>3. CASE ShutModules
      BY <3>3 DEF ShutModules
    <3>4. CASE Drain
      BY <3>4 DEF Drain
    <3>5. CASE CloseDatabase
      BY <3>5 DEF CloseDatabase, CloseDoneCh
    <3> QED
      BY <2>3, <3>1, <3>2, <3>3, <3>4, <3>5 DEF App
  <2>4. CASE Emergency
    BY <2>4 DEF Emergency, CloseDoneCh, botVars
  <2>5. CASE HandlerClose
    BY <2>5 DEF HandlerClose, botVars, appVars
  <2>6. CASE StopperStep
    BY <2>6 DEF StopperStep, appVars, endVars
  <2>7. ASSUME NEW b \in Bots,
               StartUserBot(b) \/ RequestStop(b) \/ Visit(b) \/ StopOne(b)
        PROVE TypeOK'
    <3> USE DEF appVars, endVars
    <3>1. CASE StartUserBot(b)
      BY <3>1 DEF StartUserBot
    <3>2. CASE RequestStop(b)
      BY <3>2 DEF RequestStop
    <3>3. CASE Visit(b)
      BY <3>3 DEF Visit
    <3>4. CASE StopOne(b)
      BY <3>4 DEF StopOne
    <3> QED
      BY <2>7, <3>1, <3>2, <3>3, <3>4
  <2>8. ASSUME NEW p \in Producers, ProducerEnds(p)
        PROVE TypeOK'
    BY <2>8 DEF ProducerEnds, botVars, endVars
  <2> QED
    BY <2>1, <2>2, <2>3, <2>4, <2>5, <2>6, <2>7, <2>8 DEF Next
<1> QED
  BY <1>1, <1>2, PTL DEF Spec

-----------------------------------------------------------------------------
(* What the goroutines rely on.                                            *)

\* A bot that Range has come to is taken care of, or its goroutine still runs.
BotsInv ==
    /\ \A b \in visited \ stopping : bot[b] \in {"flagged", "stopped"}
    /\ \A b \in Bots : bot[b] = "ending" => b \in stopping
    /\ \A b \in stopping : bot[b] # "off"
    /\ \A b \in table : bot[b] # "off"

\* wg.Wait has come back to a StopBot that has not given up.
StopperInv ==
    /\ stopper \in {"off", "start"} => visited = {}
    /\ stopper \in {"save", "over"} => stopping = {}
    /\ app = "wait" => stopper = "off"
    /\ app \notin {"wait", "stop"} /\ ~timedOut => stopper \in {"save", "over"}

\* DoneCh is closed by the end of the modules or by the ticker.
DatabaseInv ==
    /\ app \in {"close", "over"} => \A p \in Producers : bus[p] = "over"
    /\ doneCh => emergency = "over" \/ app = "over"
    /\ database = "closed" => doneCh
    /\ app = "wait" => emergency = "off"
    /\ app \in {"wait", "stop", "modules"} => \A p \in Modules : bus[p] = "off"

IInv == TypeOK /\ BotsInv /\ StopperInv /\ DatabaseInv

LEMMA InvInit == Init => BotsInv /\ StopperInv /\ DatabaseInv
  BY ListenerAssumption DEF Init, BotsInv, StopperInv, DatabaseInv, Producers

LEMMA BotsStep == IInv /\ [Next]_vars => BotsInv'
<1> SUFFICES ASSUME IInv, [Next]_vars PROVE BotsInv'
  OBVIOUS
<1> USE DEF IInv, TypeOK, BotsInv
<1>1. ASSUME NEW b \in Bots, StartUserBot(b) \/ RequestStop(b) PROVE BotsInv'
  BY <1>1 DEF StartUserBot, RequestStop
<1>2. ASSUME NEW b \in Bots, Visit(b) PROVE BotsInv'
  BY <1>2 DEF Visit
<1>3. ASSUME NEW b \in Bots, StopOne(b) PROVE BotsInv'
  BY <1>3 DEF StopOne
<1>4. CASE StopperStep
  BY <1>4 DEF StopperStep
<1>5. CASE Begin \/ StopBotReturns \/ ShutModules \/ Drain \/ CloseDatabase
  BY <1>5 DEF Begin, StopBotReturns, ShutModules, Drain, CloseDatabase, botVars
<1>6. CASE Signal \/ Emergency \/ HandlerClose \/ UNCHANGED vars
  BY <1>6 DEF Signal, Emergency, HandlerClose, vars, botVars
<1>7. ASSUME NEW p \in Producers, ProducerEnds(p) PROVE BotsInv'
  BY <1>7 DEF ProducerEnds, botVars
<1> QED
  BY <1>1, <1>2, <1>3, <1>4, <1>5, <1>6, <1>7 DEF Next, App

LEMMA StopperStepInv == IInv /\ [Next]_vars => StopperInv'
<1> SUFFICES ASSUME IInv, [Next]_vars PROVE StopperInv'
  OBVIOUS
<1> USE DEF IInv, TypeOK, StopperInv
<1>1. ASSUME NEW b \in Bots, StartUserBot(b) \/ RequestStop(b) PROVE StopperInv'
  BY <1>1 DEF StartUserBot, RequestStop, appVars
<1>2. ASSUME NEW b \in Bots, Visit(b) PROVE StopperInv'
  BY <1>2 DEF Visit, appVars
<1>3. ASSUME NEW b \in Bots, StopOne(b) PROVE StopperInv'
  BY <1>3 DEF StopOne, appVars
<1>4. CASE StopperStep
  BY <1>4 DEF StopperStep, appVars
<1>5. CASE Begin
  BY <1>5 DEF Begin
<1>6. CASE StopBotReturns \/ ShutModules \/ Drain \/ CloseDatabase
  BY <1>6 DEF StopBotReturns, ShutModules, Drain, CloseDatabase, botVars
<1>7. CASE Signal \/ Emergency \/ HandlerClose \/ UNCHANGED vars
  BY <1>7 DEF Signal, Emergency, HandlerClose, vars, botVars, appVars
<1>8. ASSUME NEW p \in Producers, ProducerEnds(p) PROVE StopperInv'
  BY <1>8 DEF ProducerEnds, botVars
<1> QED
  BY <1>1, <1>2, <1>3, <1>4, <1>5, <1>6, <1>7, <1>8 DEF Next, App

LEMMA DatabaseStep == IInv /\ [Next]_vars => DatabaseInv'
<1> SUFFICES ASSUME IInv, [Next]_vars PROVE DatabaseInv'
  OBVIOUS
<1> USE ListenerAssumption DEF IInv, TypeOK, DatabaseInv, Producers
<1>1. ASSUME NEW b \in Bots,
             StartUserBot(b) \/ RequestStop(b) \/ Visit(b) \/ StopOne(b)
      PROVE DatabaseInv'
  BY <1>1 DEF StartUserBot, RequestStop, Visit, StopOne, appVars, endVars
<1>2. CASE StopperStep \/ Signal \/ UNCHANGED vars
  BY <1>2 DEF StopperStep, Signal, vars, appVars, endVars
<1>3. CASE Begin \/ StopBotReturns
  BY <1>3 DEF Begin, StopBotReturns, endVars
<1>4. CASE ShutModules
  BY <1>4 DEF ShutModules, endVars
<1>5. CASE Drain
  BY <1>5 DEF Drain, endVars
<1>6. CASE CloseDatabase
  BY <1>6 DEF CloseDatabase, CloseDoneCh
<1>7. CASE Emergency
  BY <1>7 DEF Emergency, CloseDoneCh
<1>8. CASE HandlerClose
  BY <1>8 DEF HandlerClose, appVars
<1>9. ASSUME NEW p \in Producers, ProducerEnds(p) PROVE DatabaseInv'
  BY <1>9 DEF ProducerEnds, endVars
<1> QED
  BY <1>1, <1>2, <1>3, <1>4, <1>5, <1>6, <1>7, <1>8, <1>9 DEF Next, App

LEMMA InvImplies == IInv => ShutdownOrder
<1> SUFFICES ASSUME IInv PROVE ShutdownOrder
  OBVIOUS
<1>1. app \notin {"wait", "stop"} /\ ~timedOut =>
         \A b \in visited : bot[b] \in {"flagged", "stopped"}
  BY DEF IInv, StopperInv, BotsInv
<1>2. database = "closed" /\ emergency # "over" =>
         \A p \in Producers : bus[p] = "over"
  BY DEF IInv, DatabaseInv
<1> QED
  BY <1>1, <1>2 DEF ShutdownOrder

\* For any number of bots and modules the shutdown keeps its order (app.go, Run;
\* whatsapp.go, StopBot; db.go, HandlerClose).
THEOREM ShutsInOrder == Spec => []ShutdownOrder
<1>1. Spec => [](BotsInv /\ StopperInv /\ DatabaseInv)
  <2>1. Init => BotsInv /\ StopperInv /\ DatabaseInv
    BY InvInit
  <2>2. /\ TypeOK /\ BotsInv /\ StopperInv /\ DatabaseInv
        /\ [Next]_vars
        => (BotsInv /\ StopperInv /\ DatabaseInv)'
    BY BotsStep, StopperStepInv, DatabaseStep DEF IInv
  <2> QED
    BY <2>1, <2>2, TypeCorrect, PTL DEF Spec
<1>2. TypeOK /\ BotsInv /\ StopperInv /\ DatabaseInv => ShutdownOrder
  BY InvImplies DEF IInv
<1> QED
  BY <1>1, <1>2, TypeCorrect, PTL
=============================================================================
