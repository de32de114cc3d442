--------------------------- MODULE ContactsStream ---------------------------
(***************************************************************************)
(* The stream of a user's contacts and groups to a browser                 *)
(* (internal/whatsapp/contacts/contacts.go, handlers/handler.go).  The     *)
(* handler reads a bounded channel and writes to the WebSocket; a          *)
(* goroutine runs Stream, reports its error and closes the channel; two    *)
(* goroutines of Stream read contacts and groups and send their progress   *)
(* on the same channel.  Every send blocks while the channel is full.      *)
(*                                                                         *)
(* A definition marked "slip" is no part of the specification: it is what  *)
(* the definition after it would be with a plausible mistake in the code,  *)
(* kept to see that the properties would notice.                           *)
(***************************************************************************)
EXTENDS Naturals, Sequences

CONSTANTS
    MaxContacts,  \* the most contacts a user has
    MaxGroups,    \* ... and the most groups
    Capacity,     \* capacity of contactsChan
    GroupStep     \* how many groups one message about their progress stands for

ASSUME BoundsAssumption ==
    /\ MaxContacts \in Nat /\ MaxGroups \in Nat
    /\ Capacity \in Nat \ {0} /\ GroupStep \in Nat \ {0}

VARIABLES
    handler,      \* HandlerGetContactsWS
    stream,       \* the goroutine that runs Stream
    contacts,     \* the goroutine that reads the contacts
    groups,       \* the goroutine that reads the groups
    found,        \* how many contacts and groups there are to process
    humans,       \* len(humans)
    titles,       \* len(whatsappGroups)
    err,          \* contactsErr and groupsErr
    channel,      \* contactsChan
    closed,       \* ... which is closed
    written       \* the outcomes written to the browser

producerVars == <<contacts, groups, found, humans, titles, err>>
channelVars == <<channel, closed>>
vars == <<handler, stream, producerVars, channelVars, written>>

Sources == {"contacts", "groups"}

\* Errors that contain one of three texts count as critical.
Errors == {"none", "plain", "critical"}
Outcomes == {"result", "completed", "error"}
Kinds == Outcomes \cup {"status", "progress"}

-----------------------------------------------------------------------------
Init ==
    /\ handler = "new" /\ stream = "off"
    /\ contacts = "off" /\ groups = "off"
    /\ found = [s \in Sources |-> 0]
    /\ humans = 0 /\ titles = 0
    /\ err = [s \in Sources |-> "none"]
    /\ channel = <<>> /\ closed = FALSE
    /\ written = <<>>

\* A send on the channel, which waits for room.
Put(kind) ==
    /\ Len(channel) < Capacity
    /\ channel' = Append(channel, kind)
    /\ UNCHANGED closed

-----------------------------------------------------------------------------
(* HandlerGetContactsWS.                                                   *)

\* Without a bot in service the browser is told so and nothing is started.
Connect ==
    /\ handler = "new"
    /\ \/ handler' = "serve" /\ stream' = "check" /\ UNCHANGED written
       \/ handler' = "gone" /\ UNCHANGED <<stream, written>>
       \/ handler' = "gone" /\ written' = <<"error">> /\ UNCHANGED stream
    /\ UNCHANGED <<producerVars, channelVars>>

\* The handler returns as soon as a write fails, and the channel has no reader.
Write ==
    /\ handler = "serve" /\ channel # <<>>
    /\ channel' = Tail(channel)
    /\ \/ /\ written' = IF Head(channel) \in Outcomes
                        THEN Append(written, Head(channel)) ELSE written
          /\ UNCHANGED handler
       \/ handler' = "gone" /\ UNCHANGED written
    /\ UNCHANGED <<stream, producerVars, closed>>

Finish ==
    /\ handler = "serve" /\ channel = <<>> /\ closed
    /\ handler' = "done"
    /\ UNCHANGED <<stream, producerVars, channelVars, written>>

-----------------------------------------------------------------------------
(* The goroutine that runs Stream.                                         *)

\* No bot by now, no client, or a client that is not logged in.
Check ==
    /\ stream = "check"
    /\ stream' \in {"announce", "report"}
    /\ UNCHANGED <<handler, producerVars, channelVars, written>>

Announce ==
    /\ stream = "announce"
    /\ Put("status")
    /\ stream' = "wait" /\ contacts' = "fetch" /\ groups' = "announce"
    /\ UNCHANGED <<handler, found, humans, titles, err, written>>

\* Without contacts and without groups an error of either is an error of the
\* stream; a critical one is, in addition, sent by Stream itself.
Verdict ==
    IF titles > 0 THEN "result"
    ELSE IF err["contacts"] = "plain" THEN "report"
    ELSE IF "critical" \in {err["contacts"], err["groups"]} THEN "critical"
    ELSE IF err["groups"] = "plain" /\ humans = 0 THEN "report"
    ELSE "result"

\* Slip: the result does not wait for the groups.
JudgeHastily ==
    /\ stream = "wait"
    /\ contacts = "done"
    /\ stream' = Verdict
    /\ UNCHANGED <<handler, producerVars, channelVars, written>>

\* Slip: groups that cannot be read are taken for no groups.
JudgeLeniently ==
    /\ stream = "wait"
    /\ contacts = "done" /\ groups = "done"
    /\ stream' = IF err["contacts"] = "none" THEN "result" ELSE Verdict
    /\ UNCHANGED <<handler, producerVars, channelVars, written>>

\* wg.Wait and the decision after it.
Judge ==
    /\ stream = "wait"
    /\ contacts = "done" /\ groups = "done"
    /\ stream' = Verdict
    /\ UNCHANGED <<handler, producerVars, channelVars, written>>

Conclude ==
    /\ \/ stream = "critical" /\ Put("error") /\ stream' = "report"
       \/ stream = "result" /\ Put("result") /\ stream' = "completed"
       \/ stream = "completed" /\ Put("completed") /\ stream' = "close"
    /\ UNCHANGED <<handler, producerVars, written>>

\* The goroutine of the handler sends the error that Stream has returned.
ReportError ==
    /\ stream = "report"
    /\ Put("error") /\ stream' = "close"
    /\ UNCHANGED <<handler, producerVars, written>>

CloseChannel ==
    /\ stream = "close"
    /\ closed' = TRUE /\ stream' = "over"
    /\ UNCHANGED <<handler, producerVars, channel, written>>

-----------------------------------------------------------------------------
(* The goroutines of Stream.                                               *)

\* Slip: the goroutine that fails does not count itself out.
FetchContactsUncounted ==
    /\ contacts = "fetch"
    /\ \/ /\ contacts' = "total"
          /\ \E n \in 0..MaxContacts : found' = [found EXCEPT !["contacts"] = n]
          /\ UNCHANGED err
       \/ /\ contacts' = "failed"
          /\ err' = [err EXCEPT !["contacts"] = "plain"]
          /\ UNCHANGED found
    /\ UNCHANGED <<handler, stream, groups, humans, titles, channelVars,
                   written>>

\* GetAllContacts; a missing store is an error as well.
FetchContacts ==
    /\ contacts = "fetch"
    /\ \/ /\ contacts' = "total"
          /\ \E n \in 0..MaxContacts : found' = [found EXCEPT !["contacts"] = n]
          /\ UNCHANGED err
       \/ /\ contacts' = "done"
          /\ \E e \in {"plain", "critical"} : err' = [err EXCEPT !["contacts"] = e]
          /\ UNCHANGED found
    /\ UNCHANGED <<handler, stream, groups, humans, titles, channelVars,
                   written>>

\* The processed and the valid contacts are counted together, so that every
\* contact is the last one so far, and is reported.
NextContact ==
    /\ \/ /\ contacts = "total" /\ Put("status")
          /\ contacts' = "process" /\ UNCHANGED humans
       \/ /\ contacts = "process" /\ humans < found["contacts"]
          /\ Put("progress") /\ humans' = humans + 1 /\ UNCHANGED contacts
    /\ UNCHANGED <<handler, stream, groups, found, titles, err, written>>

ContactsEnd ==
    /\ contacts = "process" /\ humans = found["contacts"]
    /\ contacts' = "done"
    /\ UNCHANGED <<handler, stream, groups, found, humans, titles, err,
                   channelVars, written>>

\* GetJoinedGroups; if it fails, the groups among the contacts have to do.
FetchGroups ==
    /\ \/ /\ groups = "announce" /\ Put("status")
          /\ groups' = "fetch" /\ UNCHANGED <<found, err>>
       \/ /\ groups = "fetch" /\ UNCHANGED channelVars
          /\ groups' = "total"
          /\ \E e \in Errors, n \in 0..MaxGroups :
                 /\ err' = [err EXCEPT !["groups"] = e]
                 /\ found' = [found EXCEPT !["groups"] = n]
       \/ /\ groups = "fetch" /\ UNCHANGED <<channelVars, found>>
          /\ groups' = "done"
          /\ \E e \in {"plain", "critical"} : err' = [err EXCEPT !["groups"] = e]
    /\ UNCHANGED <<handler, stream, contacts, humans, titles, written>>

\* A message about the progress with every GroupStep-th group and with the last.
NextGroup ==
    /\ \/ /\ groups = "total" /\ Put("status")
          /\ groups' = "process" /\ UNCHANGED titles
       \/ /\ groups = "process" /\ titles < found["groups"]
          /\ titles' = titles + 1
          /\ IF titles' % GroupStep = 0 \/ titles' = found["groups"]
             THEN Put("progress") ELSE UNCHANGED channelVars
          /\ UNCHANGED groups
    /\ UNCHANGED <<handler, stream, contacts, found, humans, err, written>>

\* Groups found in the second way make up for the error.
GroupsEnd ==
    /\ groups = "process" /\ titles = found["groups"]
    /\ groups' = "done"
    /\ err' = IF titles > 0 THEN [err EXCEPT !["groups"] = "none"] ELSE err
    /\ UNCHANGED <<handler, stream, contacts, found, humans, titles, channelVars,
                   written>>

-----------------------------------------------------------------------------
Handler == Write \/ Finish
Stream == Check \/ Announce \/ Judge \/ Conclude \/ ReportError \/ CloseChannel
ReadContacts == FetchContacts \/ NextContact \/ ContactsEnd
ReadGroups == FetchGroups \/ NextGroup \/ GroupsEnd

Next == Connect \/ Handler \/ Stream \/ ReadContacts \/ ReadGroups

Spec == Init /\ [][Next]_vars

\* Goroutines that can run do run, database and WhatsApp answer within the five
\* minutes of the context, and every write to the browser ends.
FairSpec ==
    /\ Spec
    /\ WF_vars(Handler) /\ WF_vars(Stream)
    /\ WF_vars(ReadContacts) /\ WF_vars(ReadGroups)

-----------------------------------------------------------------------------
TypeOK ==
    /\ handler \in {"new", "serve", "gone", "done"}
    /\ stream \in {"off", "check", "announce", "wait", "critical", "result",
                   "completed", "report", "close", "over"}
    /\ contacts \in {"off", "fetch", "total", "process", "done"}
    /\ groups \in {"off", "announce", "fetch", "total", "process", "done"}
    /\ found \in [Sources -> Nat]
    /\ found["contacts"] <= MaxContacts /\ found["groups"] <= MaxGroups
    /\ humans \in 0..found["contacts"] /\ titles \in 0..found["groups"]
    /\ err \in [Sources -> Errors]
    /\ channel \in Seq(Kinds) /\ Len(channel) <= Capacity
    /\ closed \in BOOLEAN
    /\ written \in Seq(Outcomes)

\* The channel is closed behind the last goroutine that sends on it, and what ends
\* a stream that the browser has read to its end is a result with its "completed",
\* or nothing but errors.
OutcomeEndsStream ==
    /\ closed => contacts \in {"off", "done"} /\ groups \in {"off", "done"}
    /\ handler = "done" =>
          written \in {<<"result", "completed">>, <<"error">>, <<"error", "error">>}

\* An empty result is shown only if both sources were read and had nothing: a
\* source that has failed while the other one is empty makes the stream fail.
EmptyResultIsTrue ==
    stream \in {"result", "completed"} /\ humans = 0 /\ titles = 0
    => err["contacts"] = "none" /\ err["groups"] = "none"

\* Unless the browser leaves, its stream comes to an end; the channel is small, and
\* three goroutines wait for room in it and for each other.
StreamEnds == (handler = "serve") ~> (handler \in {"gone", "done"})
=============================================================================
