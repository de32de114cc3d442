------------------------- MODULE FirstContactProofs -------------------------
(* Proofs about FirstContact.                                              *)
EXTENDS FirstContact, TLAPS

\* A handler that has looked up the record of its contact.
Past(m) == pc[m] \in {"decide", "channels", "know", "process"}

\* The goroutine that announces a contact is started where the handler decides.
Started(m) == pc[m] \in {"new", "sync", "lookup", "decide"} => greeter[m] = "off"

TInv == TypeOK /\ \A m \in Msgs : Started(m) /\ (Past(m) => entry # NoInfo)

\* After a preload in time, the records that are looked up are complete.
Complete ==
    faults \cap {"preload", "call"} = {} =>
       /\ "number" \notin answerTo
       /\ met => preload = "over" /\ entry # NoInfo /\ hasJid[entry]
       /\ \A m \in Msgs :
             Past(m) => /\ preload = "over" /\ info[m] # NoInfo /\ hasJid[info[m]]
                        /\ entry # NoInfo /\ hasJid[entry]

OneHandler == \A m, n \in Msgs : Running(m) /\ Running(n) => m = n

\* One announcement is under way at most: who comes after it finds a contact that
\* is known; and once it has been made it is marked.
Announced ==
    /\ OneHandler
    /\ \A m \in Msgs : Greeting(m) => pc[m] \in {"channels", "know"} \/ known[entry]
    /\ \A m, n \in Msgs : m # n /\ Greeting(m) /\ pc[n] = "decide" => known[info[n]]
    /\ \A m, n \in Msgs : Greeting(m) /\ Greeting(n) => m = n
    /\ \A m \in Msgs : pc[m] \in {"channels", "know"} => greeter[m] # "off"
    /\ \A m \in Msgs : greeter[m] \in {"mark", "know", "over"} => greetings >= 1 \/ skipped
    /\ mark => greetings >= 1 \/ skipped
    /\ dialogs >= 1 => greetings >= 1 \/ skipped \/ \E m \in Msgs : Greeting(m)
    /\ greetings <= 1
    /\ greetings = 1 /\ ~mark => \E m \in Msgs : greeter[m] = "mark"

GInv == faults \cap {"overlap", "init", "redis", "crash"} = {} => Announced

\* Once a dialog has been opened the contact is known, or, before the preload of a
\* new process, marked.
Opened ==
    /\ OneHandler
    /\ \A m \in Msgs : Past(m) => preload = "over" /\ info[m] = entry
    /\ \A m \in Msgs : Greeting(m) => preload = "over"
    /\ \A m \in Msgs : greeter[m] \in {"know", "over"} => mark
    /\ \A m \in Msgs : pc[m] \in {"channels", "know"} => greeter[m] # "off" /\ dialogs = 0
    /\ dialogs <= 1
    /\ dialogs = 1 => mark \/ \E m \in Msgs : Greeting(m)
    /\ dialogs = 1 /\ preload = "over" => entry # NoInfo /\ known[entry]

DInv == faults \cap {"overlap", "preload", "redis", "crash"} = {} => Opened

-----------------------------------------------------------------------------
(* Types.                                                                  *)

LEMMA TInvInit == Init => TInv
<1> SUFFICES ASSUME Init PROVE TInv
  OBVIOUS
<1>1. greetings \in Nat /\ dialogs \in Nat /\ restarts \in 0..MaxRestarts
  BY BoundsAssumption DEF Init
<1> QED
  BY <1>1 DEF Init, TInv, TypeOK, Infos, Started, Greeting, Past

LEMMA FaultType ==
  ASSUME TypeOK, NEW condition, NEW name \in Faults,
         Fault(condition, name)
  PROVE  /\ faults' \subseteq Faults
         /\ faults \subseteq faults' /\ (condition => name \in faults')
BY DEF Fault, TypeOK

LEMMA TInvStep == TInv /\ [Next]_vars => TInv'
<1> SUFFICES ASSUME TInv, [Next]_vars PROVE TInv'
  OBVIOUS
<1> USE RecordsAssumption, BoundsAssumption, FaultType
        DEF TInv, TypeOK, Faults, Started, Past, Greeting, botVars, threadVars, history, Goto
<1>i. /\ Msgs \subseteq Infos /\ Preloaded \in Infos /\ NoInfo \notin Infos
  BY DEF Infos
<1>1. CASE UNCHANGED vars
  BY <1>1 DEF vars
<1>2. ASSUME NEW m \in Msgs, Receive(m) PROVE TInv'
  BY <1>2 DEF Receive
<1>3. ASSUME NEW m \in Msgs, Filter(m) PROVE TInv'
  BY <1>3 DEF Filter
<1>4. ASSUME NEW m \in Msgs, Lookup(m) PROVE TInv'
  <2>1. entry' \in Infos
    BY <1>4, <1>i DEF Lookup
  <2> QED
    BY <1>4, <1>i, <2>1 DEF Lookup
<1>5. ASSUME NEW m \in Msgs, Decide(m) PROVE TInv'
  <2>1. CASE known[info[m]]
    BY <1>5, <2>1 DEF Decide
  <2>2. CASE ~known[info[m]]
    BY <1>5, <2>2 DEF Decide
  <2> QED
    BY <2>1, <2>2
<1>6. ASSUME NEW m \in Msgs, Channels(m) PROVE TInv'
  <2>1. answerTo' \subseteq {"sender", "number"}
    BY <1>6 DEF Channels, InitChannels, Address
  <2> QED
    BY <1>6, <2>1 DEF Channels, InitChannels
<1>7. ASSUME NEW m \in Msgs, Know(m) PROVE TInv'
  BY <1>7 DEF Know
<1>8. ASSUME NEW m \in Msgs, Process(m) PROVE TInv'
  <2>1. answerTo' \subseteq {"sender", "number"}
    BY <1>8 DEF Process, InitChannels, Address
  <2> QED
    BY <1>8, <2>1 DEF Process, InitChannels
<1>9. ASSUME NEW m \in Msgs, GreetCheck(m) PROVE TInv'
  BY <1>9 DEF GreetCheck, SetKnown
<1>10. ASSUME NEW m \in Msgs, Greet(m) PROVE TInv'
  <2>1. greetings' \in Nat
    <3>1. greetings' \in {greetings, greetings + 1} /\ greetings \in Nat
      BY <1>10 DEF Greet
    <3> QED
      BY <3>1
  <2>2. faults' \subseteq Faults
    BY <1>10 DEF Greet
  <2> QED
    BY <1>10, <2>1, <2>2 DEF Greet
<1>11. ASSUME NEW m \in Msgs, GreetMark(m) PROVE TInv'
  BY <1>11 DEF GreetMark, SetKnown
<1>12. ASSUME NEW m \in Msgs, GreetKnow(m) PROVE TInv'
  BY <1>12 DEF GreetKnow
<1>13. CASE Preload
  <2>1. /\ entry' \in {entry, Preloaded} /\ known' \in [Infos -> BOOLEAN]
        /\ hasJid' \in [Infos -> BOOLEAN]
    BY <1>13, <1>i DEF Preload
  <2>2. faults' \subseteq Faults
    BY <1>13 DEF Preload
  <2> QED
    BY <1>13, <1>i, <2>1, <2>2 DEF Preload
<1>14. CASE Synced
  BY <1>14 DEF Synced
<1>16. CASE EnsureUserChannels
  <2>1. faults' \subseteq Faults
    BY <1>16 DEF EnsureUserChannels, Faults
  <2>2. answerTo' \subseteq {"sender", "number"}
    BY <1>16 DEF EnsureUserChannels, Address
  <2> QED
    BY <1>16, <2>1, <2>2 DEF EnsureUserChannels
<1>15. CASE Restart
  <2>1. faults' \subseteq Faults
    BY <1>15 DEF Restart
  <2>2. \A m \in Msgs : /\ pc'[m] \in {"new", "done"} /\ (pc'[m] = "new" => pc[m] = "new")
                        /\ greeter'[m] \in {"off", "over"}
                        /\ (greeter[m] = "off" => greeter'[m] = "off")
    BY <1>15 DEF Restart, Running
  <2>3. /\ pc' \in [Msgs -> {"new", "sync", "lookup", "decide", "channels", "know",
                             "process", "done"}]
        /\ greeter' \in [Msgs -> {"off", "check", "ask", "mark", "know", "over"}]
    BY <1>15 DEF Restart, Running
  <2>4. restarts' \in 0..MaxRestarts
    BY <1>15 DEF Restart
  <2>5. /\ entry' = NoInfo /\ answerTo' = {} /\ preload' = "run" /\ synced' = FALSE
        /\ known' = [i \in Infos |-> FALSE] /\ hasJid' = [i \in Infos |-> FALSE]
        /\ met' = FALSE /\ UNCHANGED <<mark, info, greetings, dialogs, skipped>>
    BY <1>15 DEF Restart
  <2> QED
    BY <2>1, <2>2, <2>3, <2>4, <2>5
<1> QED
  BY <1>1, <1>2, <1>3, <1>4, <1>5, <1>6, <1>7, <1>8, <1>9, <1>10, <1>11, <1>12, <1>13,
     <1>14, <1>15, <1>16 DEF Next, HandleMessage, SendFirstContactMessage

LEMMA TInvariant == Spec => []TInv
  BY TInvInit, TInvStep, PTL DEF Spec

\* Types, among them that no step follows a record that is not there, for any number
\* of messages and restarts (bot_message.go, handleMessage).
THEOREM TypeCorrect == Spec => []TypeOK
<1>1. TInv => TypeOK
  BY DEF TInv
<1> QED
  BY <1>1, TInvariant, PTL

\* What has failed stays on record.
LEMMA FaultsStay == TInv /\ [Next]_vars => faults \subseteq faults'
<1> SUFFICES ASSUME TInv, [Next]_vars PROVE faults \subseteq faults'
  OBVIOUS
<1>1. CASE UNCHANGED faults
  BY <1>1
<1>2. ASSUME NEW condition, NEW name, Fault(condition, name) PROVE faults \subseteq faults'
  BY <1>2 DEF Fault
<1> QED
  BY <1>1, <1>2 DEF Next, HandleMessage, SendFirstContactMessage, Receive, Filter,
     Lookup, Decide, Channels, InitChannels, Know, Process, GreetCheck, SetKnown, Greet,
     GreetMark, GreetKnow, EnsureUserChannels, Preload, Synced, Restart, vars, botVars,
     threadVars, history

-----------------------------------------------------------------------------
(* Addresses.                                                              *)

LEMMA CompleteStep == TInv /\ Complete /\ [Next]_vars => Complete'
<1> SUFFICES ASSUME TInv, Complete, [Next]_vars, faults' \cap {"preload", "call"} = {}
             PROVE  Complete'
  BY DEF Complete
<1> USE RecordsAssumption
        DEF TInv, TypeOK, Faults, Complete, Past, botVars, threadVars, history, Goto
<1>0. faults \cap {"preload", "call"} = {}
  BY FaultsStay
<1>i. /\ Msgs \subseteq Infos /\ Preloaded \in Infos /\ NoInfo \notin Infos
  BY DEF Infos
<1>1. CASE UNCHANGED vars
  BY <1>0, <1>1 DEF vars
<1>2. ASSUME NEW m \in Msgs, Receive(m) PROVE Complete'
  BY <1>0, <1>2 DEF Receive
<1>3. ASSUME NEW m \in Msgs, Filter(m) PROVE Complete'
  BY <1>0, <1>3 DEF Filter
<1>4. ASSUME NEW m \in Msgs, Lookup(m) PROVE Complete'
  <2>1. entry' \in Infos /\ hasJid'[entry'] /\ info'[m] = entry'
    BY <1>i, <1>4 DEF Lookup
  <2>3. preload = "over"
    BY <1>4 DEF Lookup, Fault
  <2>2. \A i \in Infos : hasJid[i] => hasJid'[i]
    BY <1>4 DEF Lookup
  <2> QED
    BY <1>0, <1>i, <1>4, <2>1, <2>2, <2>3 DEF Lookup
<1>5. ASSUME NEW m \in Msgs, Decide(m) PROVE Complete'
  BY <1>0, <1>5 DEF Decide
<1>6. ASSUME NEW m \in Msgs, Channels(m) \/ Process(m) PROVE Complete'
  <2>1. Address = "sender"
    BY <1>0, <1>6 DEF Channels, Process, Address
  <2>2. "number" \notin answerTo'
    <3>1. answerTo' \in {answerTo, answerTo \cup {"sender"}}
      BY <1>6, <2>1 DEF Channels, Process, InitChannels
    <3> QED
      BY <1>0, <3>1
  <2>3. /\ UNCHANGED <<entry, hasJid, preload, info>>
        /\ \A n \in Msgs : pc'[n] = pc[n] \/ n = m
        /\ Past(m)
    BY <1>6 DEF Channels, Process, InitChannels
  <2> QED
    BY <1>0, <2>2, <2>3
<1>7. ASSUME NEW m \in Msgs, Know(m) PROVE Complete'
  BY <1>0, <1>7 DEF Know
<1>9. ASSUME NEW m \in Msgs, SendFirstContactMessage(m) PROVE Complete'
  <2>1. UNCHANGED <<entry, hasJid, preload, answerTo, pc, info, met>>
    <3>1. CASE GreetCheck(m) \/ Greet(m)
      BY <3>1 DEF GreetCheck, Greet
    <3>2. CASE GreetMark(m) \/ GreetKnow(m)
      BY <3>2 DEF GreetMark, GreetKnow
    <3> QED
      BY <1>9, <3>1, <3>2 DEF SendFirstContactMessage
  <2> QED
    BY <1>0, <2>1
<1>12. CASE EnsureUserChannels
  <2>1. met
    BY <1>12, FaultType DEF EnsureUserChannels, Faults
  <2>2. Address = "sender"
    BY <1>0, <2>1 DEF Address
  <2> QED
    BY <1>0, <1>12, <2>2 DEF EnsureUserChannels
<1>13. CASE Preload
  BY <1>0, <1>13 DEF Preload
<1>14. CASE Synced
  BY <1>0, <1>14 DEF Synced
<1>15. CASE Restart
  BY <1>0, <1>15 DEF Restart, Running
<1> QED
  BY <1>1, <1>2, <1>3, <1>4, <1>5, <1>6, <1>7, <1>9, <1>12, <1>13, <1>14,
     <1>15 DEF Next, HandleMessage

\* No listener, whether a message or a call has the channels made, is given an address
\* made up from a record that says nothing or is missing, if the preload is over and no
\* call has come when the first message is looked up, for any number of messages and
\* restarts (bot_message.go, restoreResponderFields; bot_calls.go, EnsureUserChannels).
THEOREM Addressed == Spec => []AnswersAddressed
<1>1. Init => Complete
  BY DEF Init, Complete, Past
<1>2. Complete => AnswersAddressed
  BY DEF Complete, AnswersAddressed
<1> QED
  BY <1>1, <1>2, CompleteStep, TInvariant, PTL DEF Spec

-----------------------------------------------------------------------------
(* Announcements and dialogs.                                              *)

LEMMA OneHandlerStep ==
  ASSUME TInv, OneHandler, [Next]_vars, "overlap" \notin faults'
  PROVE  OneHandler'
<1> USE DEF TInv, TypeOK, Faults, OneHandler, Running, Goto
<1>1. ASSUME NEW m \in Msgs, Receive(m) PROVE OneHandler'
  <2>1. ~ \E n \in Msgs : pc[n] \notin {"new", "done"}
    BY <1>1, FaultType DEF Receive
  <2> QED
    BY <1>1, <2>1 DEF Receive
<1>2. ASSUME NEW m \in Msgs, Running(m), NEW where \in STRING,
             pc' = [pc EXCEPT ![m] = where]
      PROVE  OneHandler'
  BY <1>2
<1>3. CASE UNCHANGED pc
  BY <1>3
<1>4. CASE Restart
  BY <1>4 DEF Restart
<1>5. ASSUME NEW m \in Msgs, HandleMessage(m) PROVE OneHandler'
  <2>1. CASE Filter(m) \/ Lookup(m) \/ Decide(m)
    BY <1>2, <2>1 DEF Filter, Lookup, Decide
  <2>2. CASE Channels(m) \/ Know(m) \/ Process(m)
    BY <1>2, <2>2 DEF Channels, InitChannels, Know, Process
  <2> QED
    BY <1>1, <1>5, <2>1, <2>2 DEF HandleMessage
<1> QED
  BY <1>3, <1>4, <1>5 DEF Next, SendFirstContactMessage, GreetCheck, Greet, GreetMark,
     GreetKnow, EnsureUserChannels, Preload, Synced, vars, threadVars

LEMMA GInvStep == TInv /\ TInv' /\ GInv /\ [Next]_vars => GInv'
<1> SUFFICES ASSUME TInv, TInv', GInv, [Next]_vars,
                    faults' \cap {"overlap", "init", "redis", "crash"} = {}
             PROVE  Announced'
  BY DEF GInv
<1>0. /\ "overlap" \notin faults' /\ "init" \notin faults' /\ "redis" \notin faults'
      /\ "crash" \notin faults' /\ Announced
  BY FaultsStay DEF GInv
<1>a. OneHandler'
  BY <1>0, OneHandlerStep DEF Announced
<1>i. /\ Msgs \subseteq Infos /\ Preloaded \in Infos /\ NoInfo \notin Infos
  BY RecordsAssumption DEF Infos
<1> USE DEF TInv, TypeOK, Faults, Started, Past, Announced, Greeting, botVars, threadVars,
        history, Goto
<1>1. CASE UNCHANGED vars
  BY <1>0, <1>1 DEF vars, OneHandler, Running
<1>2. ASSUME NEW m \in Msgs, Receive(m) \/ Filter(m) PROVE Announced'
  <2>1. /\ UNCHANGED <<entry, known, preload, mark, info, greeter, greetings, dialogs,
                       skipped>>
        /\ pc'[m] \in {"sync", "lookup", "done"}
        /\ \A n \in Msgs \ {m} : pc'[n] = pc[n]
    <3>1. CASE Receive(m)
      BY <3>1 DEF Receive
    <3>2. CASE Filter(m)
      BY <3>2 DEF Filter
    <3> QED
      BY <1>2, <3>1, <3>2
  <2>2. pc[m] \in {"new", "sync"}
    BY <1>2 DEF Receive, Filter
  <2> QED
    BY <1>0, <1>a, <2>1, <2>2
<1>4. ASSUME NEW m \in Msgs, Lookup(m) PROVE Announced'
  <2>1. /\ info'[m] = entry' /\ (entry # NoInfo => entry' = entry)
        /\ pc'[m] = "decide"
        /\ \A n \in Msgs \ {m} : pc'[n] = pc[n] /\ info'[n] = info[n]
        /\ UNCHANGED <<known, mark, greeter, greetings, dialogs, skipped>>
    BY <1>4 DEF Lookup
  <2>2. \A n \in Msgs : Greeting(n) => pc[n] \notin {"channels", "know"}
    BY <1>0, <1>4 DEF Lookup, OneHandler, Running
  <2> QED
    BY <1>0, <1>a, <1>i, <1>4, <2>1, <2>2
<1>5. ASSUME NEW m \in Msgs, Decide(m) PROVE Announced'
  <2>1. CASE known[info[m]]
    BY <1>0, <1>a, <1>5, <2>1 DEF Decide
  <2>2. CASE ~known[info[m]]
    <3>1. /\ pc' = [pc EXCEPT ![m] = "channels"]
          /\ greeter' = [greeter EXCEPT ![m] = "check"]
          /\ UNCHANGED <<entry, known, info, mark, greetings, dialogs, skipped>>
      BY <1>5, <2>2 DEF Decide
    <3>2. \A n \in Msgs \ {m} : ~Greeting(n) /\ pc[n] # "decide"
      BY <1>0, <1>5, <2>2 DEF Decide, OneHandler, Running
    <3> QED
      BY <1>0, <1>a, <1>5, <3>1, <3>2 DEF Decide
  <2> QED
    BY <2>1, <2>2
<1>6. ASSUME NEW m \in Msgs, Channels(m) \/ Process(m) PROVE Announced'
  <2>1. pc[m] = "process" \/ pc'[m] = "know"
    BY <1>0, <1>6 DEF Channels, Process, InitChannels, Fault
  <2>2. /\ UNCHANGED <<entry, known, info, mark, greeter, greetings, dialogs, skipped>>
        /\ pc'[m] \in {"know", "done"} /\ (pc'[m] = "know" => pc[m] = "channels")
        /\ \A n \in Msgs \ {m} : pc'[n] = pc[n]
    BY <1>6 DEF Channels, Process, InitChannels
  <2> QED
    BY <1>0, <1>a, <2>1, <2>2
<1>7. ASSUME NEW m \in Msgs, Know(m) PROVE Announced'
  <2>1. known'[entry'] /\ \A i \in Infos : known[i] => known'[i]
    BY <1>i, <1>7 DEF Know
  <2> QED
    BY <1>0, <1>a, <1>i, <1>7, <2>1 DEF Know
<1>8. ASSUME NEW m \in Msgs, GreetCheck(m) PROVE Announced'
  <2>1. greeter'[m] \in {"over", "ask"} /\ greeter[m] = "check"
        /\ \A n \in Msgs \ {m} : greeter'[n] = greeter[n]
    BY <1>8 DEF GreetCheck
  <2>2. /\ (mark => mark') /\ (skipped => skipped')
        /\ greeter'[m] = "over" => skipped'
        /\ mark' = mark \/ skipped'
        /\ UNCHANGED <<entry, known, pc, info, greetings, dialogs>>
    BY <1>8 DEF GreetCheck, SetKnown
  <2> QED
    BY <1>0, <1>a, <1>8, <2>1, <2>2
<1>9. ASSUME NEW m \in Msgs, Greet(m) PROVE Announced'
  <2>1. greetings' = (IF mark THEN greetings ELSE greetings + 1)
    BY <1>0, <1>9, FaultType DEF Greet
  <2>2. ~mark => greetings = 0
    BY <1>0, <1>9 DEF Greet
  <2>3. /\ greeter[m] = "ask" /\ greeter' = [greeter EXCEPT ![m] = "mark"]
        /\ UNCHANGED <<entry, known, mark, pc, info, dialogs, skipped>>
    BY <1>9 DEF Greet
  <2> QED
    BY <1>0, <1>a, <1>9, <2>1, <2>2, <2>3
<1>10. ASSUME NEW m \in Msgs, GreetMark(m) PROVE Announced'
  <2>1. mark' /\ UNCHANGED <<entry, known, pc, info, greetings, dialogs, skipped>>
    BY <1>0, <1>10, FaultType DEF GreetMark, SetKnown
  <2> QED
    BY <1>0, <1>a, <1>10, <2>1 DEF GreetMark
<1>11. ASSUME NEW m \in Msgs, GreetKnow(m) PROVE Announced'
  <2>1. \A i \in Infos : known[i] => known'[i]
    BY <1>11 DEF GreetKnow
  <2> QED
    BY <1>0, <1>a, <1>i, <1>11, <2>1 DEF GreetKnow
<1>12. CASE Preload
  <2>1. /\ \A i \in Infos : known[i] => known'[i]
        /\ entry' = entry \/ known'[entry']
        /\ UNCHANGED <<mark, pc, info, greeter, greetings, dialogs, skipped>>
    <3>1. CASE known' = [known EXCEPT ![Preloaded] = TRUE] /\ entry' = Preloaded
      BY <1>i, <1>12, <3>1 DEF Preload
    <3>2. CASE UNCHANGED <<entry, known>>
      BY <1>12, <3>2 DEF Preload
    <3> QED
      BY <1>12, <3>1, <3>2 DEF Preload
  <2> QED
    BY <1>0, <1>a, <1>i, <2>1
<1>13. CASE Synced \/ EnsureUserChannels
  BY <1>0, <1>a, <1>13 DEF Synced, EnsureUserChannels
<1>14. CASE Restart
  <2>1. \A n \in Msgs : ~Running(n) /\ ~Greeting(n)
    BY <1>0, <1>14, FaultType DEF Restart
  <2>2. /\ \A n \in Msgs : pc'[n] = pc[n] /\ greeter'[n] = greeter[n]
        /\ UNCHANGED <<mark, greetings, dialogs, skipped>>
    BY <1>14, <2>1 DEF Restart
  <2> QED
    BY <1>0, <1>a, <2>1, <2>2 DEF Running
<1> QED
  BY <1>1, <1>2, <1>4, <1>5, <1>6, <1>7, <1>8, <1>9, <1>10, <1>11, <1>12, <1>13, <1>14
     DEF Next, HandleMessage, SendFirstContactMessage

LEMMA DInvStep == TInv /\ TInv' /\ DInv /\ [Next]_vars => DInv'
<1> SUFFICES ASSUME TInv, TInv', DInv, [Next]_vars,
                    faults' \cap {"overlap", "preload", "redis", "crash"} = {}
             PROVE  Opened'
  BY DEF DInv
<1>0. /\ "overlap" \notin faults' /\ "preload" \notin faults' /\ "redis" \notin faults'
      /\ "crash" \notin faults' /\ Opened
  BY FaultsStay DEF DInv
<1>a. OneHandler'
  BY <1>0, OneHandlerStep DEF Opened
<1>i. /\ Msgs \subseteq Infos /\ Preloaded \in Infos /\ NoInfo \notin Infos
  BY RecordsAssumption DEF Infos
<1> USE DEF TInv, TypeOK, Faults, Started, Past, Opened, Greeting, botVars, threadVars,
        history, Goto
<1>1. CASE UNCHANGED vars
  BY <1>0, <1>1 DEF vars, OneHandler, Running
<1>2. ASSUME NEW m \in Msgs, Receive(m) \/ Filter(m) PROVE Opened'
  <2>1. /\ UNCHANGED <<entry, known, preload, mark, info, greeter, greetings, dialogs>>
        /\ pc'[m] \in {"sync", "lookup", "done"}
        /\ \A n \in Msgs \ {m} : pc'[n] = pc[n]
    <3>1. CASE Receive(m)
      BY <3>1 DEF Receive
    <3>2. CASE Filter(m)
      BY <3>2 DEF Filter
    <3> QED
      BY <1>2, <3>1, <3>2
  <2>2. pc[m] \in {"new", "sync"}
    BY <1>2 DEF Receive, Filter
  <2> QED
    BY <1>0, <1>a, <2>1, <2>2
<1>4. ASSUME NEW m \in Msgs, Lookup(m) PROVE Opened'
  <2>1. /\ info'[m] = entry' /\ (entry # NoInfo => entry' = entry) /\ preload = "over"
        /\ pc'[m] = "decide"
        /\ \A n \in Msgs \ {m} : pc'[n] = pc[n] /\ info'[n] = info[n]
        /\ UNCHANGED <<known, mark, greeter, preload, dialogs>>
    <3>1. preload # "run"
      BY <1>0, <1>4 DEF Lookup, Fault
    <3> QED
      BY <1>4, <3>1 DEF Lookup
  <2>2. \A n \in Msgs \ {m} : pc[n] \in {"new", "done"}
    BY <1>0, <1>4 DEF Lookup, OneHandler, Running
  <2> QED
    BY <1>0, <1>a, <1>i, <1>4, <2>1, <2>2
<1>5. ASSUME NEW m \in Msgs, Decide(m) PROVE Opened'
  <2>1. CASE known[info[m]]
    BY <1>0, <1>a, <1>5, <2>1 DEF Decide
  <2>2. CASE ~known[info[m]]
    <3>1. /\ pc' = [pc EXCEPT ![m] = "channels"]
          /\ greeter' = [greeter EXCEPT ![m] = "check"]
          /\ UNCHANGED <<entry, known, info, mark, preload, dialogs>>
      BY <1>5, <2>2 DEF Decide
    <3>2. dialogs = 0 /\ preload = "over"
      BY <1>0, <1>5, <2>2 DEF Decide
    <3> QED
      BY <1>0, <1>a, <1>5, <3>1, <3>2 DEF Decide
  <2> QED
    BY <2>1, <2>2
<1>6. ASSUME NEW m \in Msgs, Channels(m) \/ Process(m) PROVE Opened'
  <2>1. /\ UNCHANGED <<entry, known, info, mark, preload, dialogs, greeter>>
        /\ \A n \in Msgs : /\ pc'[n] \in {pc[n], "done", "know"}
                           /\ pc'[n] = "know" => pc[n] \in {"channels", "know"}
    BY <1>6 DEF Channels, Process, InitChannels
  <2> QED
    BY <1>0, <1>a, <2>1
<1>7. ASSUME NEW m \in Msgs, Know(m) PROVE Opened'
  <2>1. known'[entry'] /\ entry' = entry /\ dialogs = 0 /\ dialogs' = 1
    BY <1>0, <1>i, <1>7 DEF Know
  <2>2. \A n \in Msgs \ {m} : pc'[n] \in {"new", "done"}
    BY <1>0, <1>7 DEF Know, OneHandler, Running
  <2>3. mark \/ Greeting(m)
    BY <1>0, <1>7 DEF Know
  <2> QED
    BY <1>0, <1>a, <1>i, <1>7, <2>1, <2>2, <2>3 DEF Know
<1>8. ASSUME NEW m \in Msgs, GreetCheck(m) PROVE Opened'
  <2>1. greeter'[m] \in {"over", "ask"} /\ greeter[m] = "check"
        /\ \A n \in Msgs \ {m} : greeter'[n] = greeter[n]
    BY <1>8 DEF GreetCheck
  <2>2. /\ (mark => mark') /\ (greeter'[m] = "over" => mark')
        /\ UNCHANGED <<entry, known, preload, pc, info, dialogs>>
    BY <1>0, <1>8 DEF GreetCheck, SetKnown, Fault
  <2> QED
    BY <1>0, <1>a, <1>8, <2>1, <2>2
<1>9. ASSUME NEW m \in Msgs, Greet(m) PROVE Opened'
  <2>1. /\ greeter[m] = "ask" /\ greeter' = [greeter EXCEPT ![m] = "mark"]
        /\ UNCHANGED <<entry, known, mark, preload, pc, info, dialogs>>
    BY <1>9 DEF Greet
  <2> QED
    BY <1>0, <1>a, <1>9, <2>1
<1>10. ASSUME NEW m \in Msgs, GreetMark(m) PROVE Opened'
  <2>1. mark' /\ UNCHANGED <<entry, known, preload, pc, info, dialogs>>
    BY <1>0, <1>10, FaultType DEF GreetMark, SetKnown
  <2> QED
    BY <1>0, <1>a, <1>10, <2>1 DEF GreetMark
<1>11. ASSUME NEW m \in Msgs, GreetKnow(m) PROVE Opened'
  <2>1. \A i \in Infos : known[i] => known'[i]
    BY <1>11 DEF GreetKnow
  <2> QED
    BY <1>0, <1>a, <1>i, <1>11, <2>1 DEF GreetKnow
<1>12. CASE Preload
  <2>1. \A n \in Msgs : ~Past(n) /\ ~Greeting(n)
    BY <1>0, <1>12 DEF Preload
  <2>2. mark => entry' = Preloaded /\ known'[entry']
    <3>1. ASSUME mark PROVE entry' = Preloaded /\ known' = [known EXCEPT ![Preloaded] = TRUE]
      BY <1>0, <1>12, <3>1 DEF Preload, Fault
    <3> QED
      BY <1>i, <3>1
  <2>3. preload' = "over" /\ UNCHANGED <<mark, pc, info, greeter, dialogs>>
    BY <1>12 DEF Preload
  <2> QED
    BY <1>0, <1>a, <1>i, <2>1, <2>2, <2>3
<1>13. CASE Synced \/ EnsureUserChannels
  BY <1>0, <1>a, <1>13 DEF Synced, EnsureUserChannels
<1>14. CASE Restart
  <2>1. \A n \in Msgs : ~Running(n) /\ ~Greeting(n)
    BY <1>0, <1>14, FaultType DEF Restart
  <2>2. /\ \A n \in Msgs : pc'[n] = pc[n] /\ greeter'[n] = greeter[n]
        /\ preload' = "run" /\ UNCHANGED <<mark, dialogs>>
    BY <1>14, <2>1 DEF Restart
  <2> QED
    BY <1>0, <1>a, <2>1, <2>2 DEF Running
<1> QED
  BY <1>1, <1>2, <1>4, <1>5, <1>6, <1>7, <1>8, <1>9, <1>10, <1>11, <1>12, <1>13, <1>14
     DEF Next, HandleMessage, SendFirstContactMessage

\* A contact is announced at most once, restarts included, if messages do not overlap
\* and nothing fails; and at least once by the time that its first message has been
\* handled and no announcement is under way, unless a handler was faster than the
\* goroutine that announces (bot_message.go:125, bot_responder.go:35).
THEOREM AnnouncedOnce == Spec => []GreetedOnce
<1>1. Init => GInv
  BY DEF Init, GInv, Announced, OneHandler, Running, Greeting
<1>2. TInv /\ GInv => GreetedOnce
  BY DEF TInv, TypeOK, GInv, Announced, GreetedOnce
<1> QED
  BY <1>1, <1>2, GInvStep, TInvariant, PTL DEF Spec

\* One message of a contact at most is taken for the one that opens its dialog, restarts
\* included, if messages do not overlap, the preload is in time and Redis keeps the mark
\* (bot_message.go, handleMessage).
THEOREM DialogOnce == Spec => []OneNewDialog
<1>1. Init => DInv
  BY DEF Init, DInv, Opened, OneHandler, Running, Greeting, Past
<1>2. DInv => OneNewDialog
  BY DEF DInv, Opened, OneNewDialog
<1> QED
  BY <1>1, <1>2, DInvStep, TInvariant, PTL DEF Spec
=============================================================================
