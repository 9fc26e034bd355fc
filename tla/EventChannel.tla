---------------------------- MODULE EventChannel ----------------------------
(***************************************************************************)
(* The registration of a client for events, and the events' way to it:     *)
(* Observer and Socket on one side, the connection's ServerWorker and the  *)
(* application of the server on the other.                                 *)
(*                                                                         *)
(* A message is a header and, for most types, a body, which TCP may deliver*)
(* apart.  Both sides give up waiting after a while, with no trace of what *)
(* they have read so far: the client also when the answer to its           *)
(* registration is late, which then comes before what it reads next.  After*)
(* a body that was given up, headers are read from the middle of messages. *)
(***************************************************************************)
EXTENDS Naturals, Sequences, SequencesExt

CONSTANTS MaxCalls,  \* bound: registrations and other messages of the client
          MaxEvents  \* bound: events the application sends

ASSUME EventAssumption == MaxCalls \in Nat /\ MaxEvents \in Nat

VARIABLES
  call,       \* what the client's thread is doing
  bind,       \* is a bind message in the queue of the send thread?
  registered, \* StreamPrivate::registeredForEvents
  header,     \* type of the header receive() has read, or "none"
  inStep,     \* does the client read at the start of a message?
  linked,     \* Observer::isConnected
  got,        \* the events getEvent has returned
  calls,      \* how many registrations and other messages the client made
  up,         \* what the client has sent: in flight, and arrived
  down,       \* what the worker has sent: in flight, and arrived
  stage,      \* the worker: starting, loop, body, blocked or off
  accepted,   \* ServerWorker::_registeredToEvents
  pending,    \* ServerWorker::_events
  slots,      \* the event queue of the worker's thread
  closing,    \* was connectionClosed emitted?
  error,      \* the first error the worker has reported
  promise,    \* the answer of the application: none, asked, yes, no
  posted      \* how many events the application has sent

client == <<call, bind, registered, header, inStep, linked, got, calls>>
worker == <<stage, accepted, pending, slots, closing, error>>
application == <<promise, posted>>
vars == <<client, up, down, worker, application>>

(* Messages are split into their header and their body.                    *)
Header(type) == [part |-> "header", type |-> type]
Body(type, value) == [part |-> "body", type |-> type, value |-> value]

HasBody(type) == type \in {"reply", "event", "data"}

CloseEvent == 0

(* Bytes: MessageHeader::serializedSize, Event::serializedSize, a bool.    *)
HeaderSize == 72
EventSize == 51
Size(unit) == IF unit.part = "header" THEN HeaderSize
              ELSE IF unit.type = "event" THEN EventSize ELSE 1

Available(channel) ==
    FoldLeft(LAMBDA n, unit : n + Size(unit), 0, channel.arrived)

Write(channel, units) == [channel EXCEPT !.flight = @ \o units]
Read(channel) == [channel EXCEPT !.arrived = Tail(@)]
Skip(channel, n) == [channel EXCEPT !.arrived = SubSeq(@, n + 1, Len(@))]

(* Socket::_write and QTcpSocket::flush: what TCP takes over.               *)
SendToServer(units) == up' = Write(up, units)
SendToClient(units) == down' = Write(down, units)

Init ==
    /\ call = "connecting" /\ bind = FALSE /\ registered = FALSE
    /\ header = "none" /\ inStep = TRUE /\ linked = TRUE
    /\ got = <<>> /\ calls = 0
    /\ up = [flight |-> <<>>, arrived |-> <<>>]
    /\ down = [flight |-> <<>>, arrived |-> <<>>]
    /\ stage = "starting" /\ accepted = FALSE /\ pending = <<>>
    /\ slots = <<>> /\ closing = FALSE /\ error = "none"
    /\ promise = "none" /\ posted = 0

-----------------------------------------------------------------------------
(* The network                                                             *)

ArriveUp ==
    /\ up.flight # <<>>
    /\ up' = [flight |-> Tail(up.flight),
              arrived |-> Append(up.arrived, Head(up.flight))]
    /\ UNCHANGED <<client, down, worker, application>>

ArriveDown ==
    /\ down.flight # <<>>
    /\ down' = [flight |-> Tail(down.flight),
                arrived |-> Append(down.arrived, Head(down.flight))]
    /\ UNCHANGED <<client, up, worker, application>>

(* The end of the connection comes after everything else.                  *)
Disconnect ==
    /\ linked /\ stage = "off" /\ down.flight = <<>>
    /\ linked' = FALSE
    /\ UNCHANGED <<call, bind, registered, header, inStep, got, calls, up,
                   down, worker, application>>

-----------------------------------------------------------------------------
(* The client's threads                                                    *)

Connected ==
    /\ call = "connecting"
    /\ down.arrived # <<>>
    /\ down' = Read(down)
    /\ call' = "idle"
    /\ UNCHANGED <<bind, registered, header, inStep, linked, got, calls, up,
                   worker, application>>

(* The server's version did not come in time: the constructor throws.      *)
ConnectTimeout ==
    /\ call = "connecting"
    /\ down.arrived = <<>>
    /\ call' = "failed" /\ linked' = FALSE
    /\ UNCHANGED <<bind, registered, header, inStep, got, calls, up, down,
                   worker, application>>

RegisterForEvents ==
    /\ call = "idle" /\ linked /\ ~registered
    /\ calls < MaxCalls
    /\ calls' = calls + 1
    /\ bind' = TRUE
    /\ call' = "binding"
    /\ UNCHANGED <<registered, header, inStep, linked, got, up, down, worker,
                   application>>

(* The send thread sends the bind message, or cannot.                      *)
SendBind ==
    /\ bind
    /\ bind' = FALSE
    /\ IF linked THEN SendToServer(<<Header("bind")>>) /\ call' = "register"
                 ELSE call' = "idle" /\ UNCHANGED up
    /\ UNCHANGED <<registered, header, inStep, linked, got, calls, down,
                   worker, application>>

(* A tile, a data message: what has a body.                                *)
SendData ==
    /\ linked /\ call # "connecting"
    /\ calls < MaxCalls
    /\ calls' = calls + 1
    /\ SendToServer(<<Header("data"), Body("data", 0)>>)
    /\ UNCHANGED <<call, bind, registered, header, inStep, linked, got, down,
                   worker, application>>

(* hasEvent(): are there enough bytes for an event?  The application calls *)
(* getEvent() only then, as its documentation asks for.                    *)
HasEvent == Available(down) >= HeaderSize + EventSize

Poll ==
    /\ call = "idle" /\ HasEvent
    /\ call' = "getEvent"
    /\ UNCHANGED <<bind, registered, header, inStep, linked, got, calls, up,
                   down, worker, application>>

Receiving == call \in {"register", "getEvent"}

(* What the callers of receive() do with a message.                        *)
Deliver(type, value) ==
    /\ call' = "idle" /\ header' = "none"
    /\ registered' = IF call = "register" /\ type = "reply" THEN value
                                                            ELSE registered
    /\ got' = IF call = "getEvent" /\ type = "event" THEN Append(got, value)
                                                     ELSE got

GiveUp == call' = "idle" /\ header' = "none" /\ UNCHANGED <<registered, got>>

ReceiveHeader ==
    /\ Receiving /\ inStep /\ header = "none"
    /\ down.arrived # <<>>
    /\ down' = Read(down)
    /\ IF HasBody(Head(down.arrived).type)
       THEN header' = Head(down.arrived).type
            /\ UNCHANGED <<call, registered, got, linked>>
       ELSE GiveUp /\ linked' = FALSE \* QUIT
    /\ UNCHANGED <<bind, inStep, calls, up, worker, application>>

ReceiveBody ==
    /\ Receiving /\ header # "none"
    /\ down.arrived # <<>>
    /\ down' = Read(down)
    /\ Deliver(header, Head(down.arrived).value)
    /\ UNCHANGED <<bind, inStep, linked, calls, up, worker, application>>

(* waitForReadyRead() runs into its timeout, or the connection is closed.  *)
(* Mutant: only the end of the connection ends the wait.                   *)
HeaderTimeout_Never ==
    /\ Receiving /\ header = "none"
    /\ down.arrived = <<>> /\ ~linked
    /\ GiveUp
    /\ UNCHANGED <<bind, inStep, linked, calls, up, down, worker, application>>

HeaderTimeout ==
    /\ Receiving /\ header = "none"
    /\ down.arrived = <<>>
    /\ GiveUp
    /\ UNCHANGED <<bind, inStep, linked, calls, up, down, worker, application>>

BodyTimeout ==
    /\ Receiving /\ header # "none"
    /\ down.arrived = <<>>
    /\ GiveUp
    /\ inStep' = FALSE
    /\ UNCHANGED <<bind, linked, calls, up, down, worker, application>>

(* The bytes of a header that is none ask for a body of any length.        *)
ReceiveGarbage ==
    /\ Receiving /\ ~inStep
    /\ \E n \in 0 .. Len(down.arrived) : down' = Skip(down, n)
    /\ GiveUp
    /\ UNCHANGED <<bind, inStep, linked, calls, up, worker, application>>

-----------------------------------------------------------------------------
(* The application of the server, in the main thread                       *)

(* The slot of registerToEvents: the application accepts or not.           *)
AnswerRegistration ==
    /\ promise = "asked"
    /\ promise' \in {"yes", "no"}
    /\ UNCHANGED <<client, up, down, worker, posted>>

(* Its signal is connected to processEvent() of the worker, which runs in  *)
(* the worker's thread.                                                    *)
PostEvent ==
    /\ promise = "yes" /\ posted < MaxEvents /\ stage # "off"
    /\ posted' = posted + 1
    /\ slots' = Append(slots, [slot |-> "processEvent", event |-> posted + 1])
    /\ UNCHANGED <<client, up, down, stage, accepted, pending, closing, error,
                   promise>>

(* closePixelStream(), once.                                               *)
CloseStream ==
    /\ stage \notin {"starting", "off"} /\ ~closing
    /\ \A i \in DOMAIN slots : slots[i].slot # "close"
    /\ slots' = Append(slots, [slot |-> "close"])
    /\ UNCHANGED <<client, up, down, stage, accepted, pending, closing, error,
                   application>>
-----------------------------------------------------------------------------
(* The worker's thread                                                     *)

SendProtocolVersion == SendToClient(<<Header("version")>>)

InitConnection ==
    /\ stage = "starting"
    /\ stage' = "loop"
    /\ SendProtocolVersion
    /\ UNCHANGED <<client, up, accepted, pending, slots, closing, error,
                   application>>

Events(events) ==
    [n \in 1 .. 2 * Len(events) |->
        IF n % 2 = 1 THEN Header("event") ELSE Body("event", events[n \div 2])]

(* _terminateConnection: a registered client is told.                      *)
Farewell == IF accepted THEN Events(<<CloseEvent>>) ELSE <<>>

(* _processMessages sends the pending events after the message.            *)
(* Mutant: they are kept.                                                  *)
AndThenEvents_Kept(units) ==
    /\ SendToClient(units \o Events(pending))
    /\ UNCHANGED pending

AndThenEvents(units) ==
    /\ SendToClient(units \o Events(pending))
    /\ pending' = <<>>

Fail(what) ==
    /\ error' = IF error = "none" THEN what ELSE error
    /\ closing' = TRUE
    /\ AndThenEvents(Farewell)

(* Are there enough bytes for a header?                                    *)
SocketHasMessage == up.arrived # <<>>

(* Registering twice is an error.  Otherwise the thread waits for the      *)
(* answer of the application.                                              *)
TryRegistering ==
    IF accepted THEN Fail("protocol") /\ UNCHANGED <<stage, promise>>
    ELSE /\ stage' = "blocked" /\ promise' = "asked"
         /\ UNCHANGED <<down, pending, closing, error>>

HandleBind ==
    /\ stage = "loop" /\ error # "timeout"
    /\ SocketHasMessage /\ Head(up.arrived).type = "bind"
    /\ up' = Read(up)
    /\ TryRegistering
    /\ UNCHANGED <<client, accepted, slots, posted>>

(* Mutant: the worker does not remember the answer.                        *)
SendBindReply_Forgotten ==
    /\ stage = "blocked" /\ promise \in {"yes", "no"}
    /\ stage' = "loop"
    /\ AndThenEvents(<<Header("reply"), Body("reply", promise = "yes")>>)
    /\ UNCHANGED <<client, up, accepted, slots, closing, error, application>>

SendBindReply ==
    /\ stage = "blocked" /\ promise \in {"yes", "no"}
    /\ stage' = "loop"
    /\ accepted' = (promise = "yes")
    /\ AndThenEvents(<<Header("reply"), Body("reply", promise = "yes")>>)
    /\ UNCHANGED <<client, up, slots, closing, error, application>>

ReadDataHeader ==
    /\ stage = "loop" /\ error # "timeout"
    /\ SocketHasMessage /\ Head(up.arrived).type = "data"
    /\ up' = Read(up)
    /\ stage' = "body"
    /\ UNCHANGED <<client, down, accepted, pending, slots, closing, error,
                   application>>

ReadDataBody ==
    /\ stage = "body" /\ up.arrived # <<>>
    /\ up' = Read(up)
    /\ stage' = "loop"
    /\ AndThenEvents(<<>>)
    /\ UNCHANGED <<client, accepted, slots, closing, error, application>>

DataTimeout ==
    /\ stage = "body" /\ up.arrived = <<>>
    /\ stage' = "loop"
    /\ Fail("timeout")
    /\ UNCHANGED <<client, up, accepted, slots, application>>

(* From the middle of a message: a header of an unknown type, which is     *)
(* ignored, or of a known one by chance, with a body of any length, or with*)
(* one that does not come.                                                 *)
ReadGarbage ==
    /\ stage = "loop" /\ error = "timeout" /\ SocketHasMessage
    /\ \E n \in 1 .. Len(up.arrived) : up' = Skip(up, n)
    /\ \/ AndThenEvents(<<>>) /\ UNCHANGED <<stage, closing, error, promise>>
       \/ Fail("timeout") /\ UNCHANGED <<stage, promise>>
       \/ TryRegistering
    /\ UNCHANGED <<client, accepted, slots, posted>>

SendPendingEvents ==
    /\ stage = "loop" /\ pending # <<>>
    /\ AndThenEvents(<<>>)
    /\ UNCHANGED <<client, up, stage, accepted, slots, closing, error,
                   application>>

(* Mutant: one event is pending at a time.                                 *)
ProcessEvent_Replaces ==
    /\ stage = "loop" /\ slots # <<>> /\ Head(slots).slot = "processEvent"
    /\ pending' = <<Head(slots).event>>
    /\ slots' = Tail(slots)
    /\ UNCHANGED <<client, up, down, stage, accepted, closing, error,
                   application>>

ProcessEvent ==
    /\ stage = "loop" /\ slots # <<>> /\ Head(slots).slot = "processEvent"
    /\ pending' = Append(pending, Head(slots).event)
    /\ slots' = Tail(slots)
    /\ UNCHANGED <<client, up, down, stage, accepted, closing, error,
                   application>>

CloseConnections ==
    /\ stage = "loop" /\ slots # <<>> /\ Head(slots).slot = "close"
    /\ slots' = Tail(slots)
    /\ SendToClient(Farewell)
    /\ closing' = TRUE
    /\ UNCHANGED <<client, up, stage, accepted, pending, error, application>>

NoticeDisconnection ==
    /\ stage = "loop" /\ ~linked /\ ~closing
    /\ closing' = TRUE
    /\ UNCHANGED <<client, up, down, stage, accepted, pending, slots, error,
                   application>>

SendQuit == SendToClient(<<Header("quit")>>)

(* The main thread gets connectionClosed and tells the thread to quit; the *)
(* worker's destructor says QUIT.                                          *)
EndThread ==
    /\ stage = "loop" /\ closing
    /\ stage' = "off"
    /\ SendQuit
    /\ UNCHANGED <<client, up, accepted, pending, slots, closing, error,
                   application>>

-----------------------------------------------------------------------------
Network == ArriveUp \/ ArriveDown \/ Disconnect

Receive ==
    \/ Connected \/ ConnectTimeout
    \/ ReceiveHeader \/ ReceiveBody \/ HeaderTimeout \/ BodyTimeout
    \/ ReceiveGarbage

Client == RegisterForEvents \/ SendData \/ Poll \/ SendBind \/ Receive

ProcessMessages ==
    \/ HandleBind \/ SendBindReply \/ ReadDataHeader \/ ReadDataBody
    \/ DataTimeout \/ ReadGarbage \/ SendPendingEvents

Slots == ProcessEvent \/ CloseConnections

Worker ==
    InitConnection \/ ProcessMessages \/ Slots \/ NoticeDisconnection

Application == AnswerRegistration \/ PostEvent \/ CloseStream

Next == Network \/ Client \/ Worker \/ EndThread \/ Application

(* Each thread runs: the client's send thread, the worker's, the main      *)
(* thread, which delivers the end of the worker's.  TCP delivers what was  *)
(* sent.  A call of the client comes to its end, if only by a timeout.  The*)
(* application of the client polls.  Nobody has to register, to answer a   *)
(* registration, to send, or to close.                                     *)
Spec ==
    /\ Init /\ [][Next]_vars
    /\ WF_vars(ArriveUp) /\ WF_vars(ArriveDown) /\ WF_vars(Disconnect)
    /\ WF_vars(SendBind) /\ WF_vars(Receive) /\ WF_vars(Poll)
    /\ WF_vars(InitConnection) /\ WF_vars(ProcessMessages) /\ WF_vars(Slots)
    /\ WF_vars(NoticeDisconnection) /\ WF_vars(EndThread)

-----------------------------------------------------------------------------
(* Every variable has its type.                                            *)
TypeOK ==
    /\ call \in {"connecting", "failed", "idle", "binding", "register",
                 "getEvent"}
    /\ bind = (call = "binding")
    /\ header \in {"none", "reply", "event"}
    /\ header # "none" => Receiving
    /\ registered \in BOOLEAN /\ inStep \in BOOLEAN /\ linked \in BOOLEAN
    /\ calls \in 0 .. MaxCalls
    /\ \A i \in DOMAIN got : got[i] \in 0 .. MaxEvents
    /\ \A i \in DOMAIN pending : pending[i] \in 1 .. MaxEvents
    /\ stage \in {"starting", "loop", "body", "blocked", "off"}
    /\ stage = "blocked" => promise # "none"
    /\ error \in {"none", "protocol", "timeout"}
    /\ promise \in {"none", "asked", "yes", "no"} /\ posted \in 0 .. MaxEvents

(* The events arrive in the order in which the application sent them, and  *)
(* none twice, whatever is late, given up or registered again.             *)
EventsInOrder ==
    \A i, j \in DOMAIN got :
      i < j /\ CloseEvent \notin {got[i], got[j]} => got[i] < got[j]

(* A client that takes itself for registered is registered: a late or old  *)
(* reply it reads for a newer one never says more than the worker.         *)
RegistrationAgrees == registered => accepted

(* Each call of the client returns, though the server may be slow, silent  *)
(* or gone.  A worker does not wait for ever for a client whose message    *)
(* stopped in the middle, and after an error it comes to its end, unless   *)
(* the application does not answer a registration.                         *)
NobodyWaitsForEver ==
    /\ (call \notin {"idle", "failed"}) ~> (call \in {"idle", "failed"})
    /\ (stage = "body") ~> (stage # "body")
    /\ (error # "none") ~> (stage \in {"off", "blocked"})

(* The client gets each event, unless the connection ends or one of its    *)
(* timeouts has put it out of step.                                        *)
EventsArrive ==
    \A e \in 1 .. MaxEvents :
      (posted >= e) ~> (e \in ToSet(got) \/ closing \/ ~inStep)
=============================================================================
