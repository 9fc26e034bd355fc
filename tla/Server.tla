--------------------------------- MODULE Server ---------------------------------
(***************************************************************************)
(* The server: its main thread, with the dispatcher of frames, and one     *)
(* thread per connection, whose worker reads the messages of the client    *)
(* and posts signals to the main thread (deflect/server/Server.cpp and     *)
(* ServerWorker.cpp).                                                      *)
(*                                                                         *)
(* Threads talk through Qt's queued connections.  What the workers emit is *)
(* posted to the one event queue of the main thread, which delivers it in  *)
(* order; a QThread is an object of the main thread, so that even the end  *)
(* of a worker's thread is first a post to the main thread.  What the main *)
(* thread emits is delivered by the event loop of each worker, in between  *)
(* the messages of its client.                                             *)
(*                                                                         *)
(* What the main thread's slots do to the streams are the actions of       *)
(* StreamRegistry, which FrameDispatcher implements: Server says when and  *)
(* in which order they are called.                                         *)
(***************************************************************************)
EXTENDS StreamRegistry, Naturals, Sequences, FiniteSets

CONSTANTS
    Descriptor,    \* per connection, the socket descriptor that the system gives it
    MaxAccepts,    \* bound: connections that the server accepts
    MaxSends,      \* bound: messages that a source sends between OPEN and QUIT
    MaxBinds,      \* bound: those that an observer sends
    MaxUnread,     \* bound: those among them that arrive when it has left
    Binders,       \* the connections whose clients register for events
    MayShutdown    \* does the application destroy the server?

ASSUME ServerAssumption == /\ MaxAccepts \in Nat
                           /\ MaxSends \in Nat
                           /\ MaxBinds \in Nat
                           /\ MaxUnread \in Nat
                           /\ Binders \subseteq Connections
                           /\ DOMAIN Descriptor = Connections
                           /\ MayShutdown \in BOOLEAN
                           /\ NoUri \notin Uris

VARIABLES
    accepted,   \* how many connections the server has accepted
    client,     \* per connection, its client
    worker,     \* per connection, its ServerWorker and thread
    posts,      \* the event queue of the main thread
    main        \* "running", then "stopping" in ~Server

serverVars == << accepted, client, worker, posts, main >>
vars == << registryVars, serverVars >>

\* link: is the connection up?  "none" before it is made.  sends: how much the client
\* has sent, while it is up.  inbox: what the client has sent before it left and the
\* worker has not handled.  shared (history): was another worker there with the
\* descriptor of the connection, when either was accepted?
NoClient == [link |-> "none", inbox |-> << >>, sends |-> 0, uri |-> NoUri,
             shared |-> FALSE]

\* thread: "off", "idle" in its event loop, "draining" the messages of a closed
\* socket, or "blocked" until the application answers.  connected: the state of the
\* socket as the worker knows it.  exit: was the thread told to quit?  closes: the
\* streams whose close signal waits in its event queue.  The rest are members.
NoWorker == [thread |-> "off", connected |-> FALSE, exit |-> FALSE, closes |-> {},
             streamId |-> NoUri, protocolEnded |-> FALSE, registered |-> FALSE]

NewWorker == [NoWorker EXCEPT !.thread = "idle", !.connected = TRUE]

ServerInit ==
    /\ RegistryInit
    /\ accepted = 0
    /\ client = [c \in Connections |-> NoClient]
    /\ worker = [c \in Connections |-> NoWorker]
    /\ posts = << >>
    /\ main = "running"

-----------------------------------------------------------------------------
(* Clients, and the network.  A message has no effect before the worker    *)
(* gets to it: so it is in the model, as long as the connection is up, when*)
(* the worker handles it, and in the inbox when the client left before.    *)

Post(slot, c, u) == [slot |-> slot, c |-> c, uri |-> u]

Started(c) == worker[c].streamId # NoUri

\* The other connections with the descriptor of c, and those whose workers are there.
Twins(c) == {d \in Connections \ {c} : Descriptor[d] = Descriptor[c]}

Holders(c) == {d \in Twins(c) : worker[d].thread # "off"}

\* Impl::incomingConnection: a slot of the main thread.  The system gives out a
\* descriptor again when its socket is closed.  QTcpSocket closes it when it sees the
\* end of the connection, before it says so: the worker is still there.
Accept(c, u) ==
    /\ main = "running"
    /\ accepted < MaxAccepts
    /\ accepted' = accepted + 1
    /\ client[c].link = "none"
    /\ \A d \in Twins(c) : ~ worker[d].connected
    /\ client' = [d \in Connections |->
                     IF d = c THEN [NoClient EXCEPT !.link = "up", !.uri = u,
                                                    !.shared = Holders(c) # {}]
                     ELSE [client[d] EXCEPT !.shared = @ \/ d \in Holders(c)]]
    /\ worker' = [worker EXCEPT ![c] = NewWorker]
    /\ UNCHANGED << registryVars, posts, main >>

\* What a client may send in a stream.  "data" stands for a tile and for the end of a
\* frame alike, "bind" for a registration for events.
Types(c) == {type \in {"data", "bind"} : /\ type = "data" => c \in Sources
                                         /\ type = "bind" => c \in Binders}

Bound(c) == IF c \in Sources THEN MaxSends ELSE MaxBinds

\* The library opens the stream first, and once.
MaySend(c, type) ==
    IF Started(c) THEN type \in Types(c) /\ client[c].sends < Bound(c)
    ELSE type = "open"

AfterSending(cl, type) == IF type = "open" THEN cl ELSE [cl EXCEPT !.sends = @ + 1]

\* What a client may have sent between OPEN and QUIT that is not handled yet.
Unread(c) == UNION {[1 .. n -> Types(c)] :
                      n \in {k \in 0 .. MaxUnread : client[c].sends + k <= Bound(c)}}

\* ~Stream, a crash, or a loss of the network that TCP reports: the server asks for no
\* keepalive.  QUIT and any of the last messages may be missing.
Depart(c) ==
    /\ client[c].link = "up"
    /\ \E first \in {<< >>, << "open" >>}, t \in Unread(c), quit \in {<< >>, << "quit" >>} :
          /\ IF Started(c) THEN first = << >> ELSE first = << >> => t = << >> /\ quit = << >>
          /\ client' = [client EXCEPT ![c].link = "down", ![c].sends = 0,
                                      ![c].inbox = first \o t \o quit]
    /\ UNCHANGED << accepted, registryVars, worker, posts, main >>

-----------------------------------------------------------------------------
(* The worker's thread.                                                    *)

\* _validate: any message but the first is an error before it, and after the last.
Valid(c, type) == Started(c) \/ type = "open"

InEventLoop(c) == worker[c].thread = "idle"

\* What follows a message: the next one at once when the socket is closed.
AfterMessage(w) == IF w.connected THEN "idle" ELSE "draining"

\* The worker handles a message of this type, and posts these signals.
Handle(c, type, w, signals) ==
    /\ worker[c].thread \in {"idle", "draining"}
    /\ \/ /\ client[c].link = "up"
          /\ MaySend(c, type)
          /\ client' = [client EXCEPT ![c] = AfterSending(@, type)]
       \/ /\ client[c].inbox # << >>
          /\ Head(client[c].inbox) = type
          /\ client' = [client EXCEPT ![c].inbox = Tail(@)]
    /\ worker' = [worker EXCEPT ![c] = w]
    /\ posts' = posts \o signals
    /\ UNCHANGED << accepted, registryVars, main >>

HandleOpen_NotStarted(c) ==
    /\ ~ Started(c)
    /\ ~ worker[c].protocolEnded
    /\ Handle(c, "open", [worker[c] EXCEPT !.thread = AfterMessage(worker[c])],
              << Post(IF c \in Sources THEN "addSource" ELSE "addObserver",
                      c, client[c].uri) >>)

HandleOpen(c) ==
    LET u == client[c].uri
    IN  /\ ~ Started(c)
        /\ ~ worker[c].protocolEnded
        /\ Handle(c, "open",
                  [worker[c] EXCEPT !.streamId = u, !.thread = AfterMessage(worker[c])],
                  << Post(IF c \in Sources THEN "addSource" ELSE "addObserver", c, u) >>)

HandleData(c) ==
    /\ Valid(c, "data")
    /\ Handle(c, "data", [worker[c] EXCEPT !.thread = AfterMessage(worker[c])],
              << Post("data", c, worker[c].streamId) >>)

HandleQuit_StillStarted(c) ==
    /\ Started(c)
    /\ Handle(c, "quit",
              [worker[c] EXCEPT !.protocolEnded = TRUE, !.thread = AfterMessage(worker[c])],
              << Post("remove", c, worker[c].streamId) >>)

\* _stopProtocol
HandleQuit(c) ==
    /\ Valid(c, "quit")
    /\ Handle(c, "quit",
              [worker[c] EXCEPT !.streamId = NoUri, !.protocolEnded = TRUE,
                                !.thread = AfterMessage(worker[c])],
              << Post("remove", c, worker[c].streamId) >>)

\* _tryRegisteringForEvents: the thread waits for the application's answer.
HandleBind(c) ==
    /\ Valid(c, "bind")
    /\ ~ worker[c].registered
    /\ Handle(c, "bind", [worker[c] EXCEPT !.thread = "blocked"],
              << Post("register", c, worker[c].streamId) >>)

\* "The stream has already registered for events": _terminateConnection.
HandleSecondBind(c) ==
    /\ Valid(c, "bind")
    /\ worker[c].registered
    /\ Handle(c, "bind", [worker[c] EXCEPT !.thread = AfterMessage(worker[c])],
              << Post("quit", c, NoUri) >>)

NoticeDisconnection_NotConnected(c) ==
    /\ InEventLoop(c)
    /\ worker[c].connected
    /\ client[c].link = "down"
    /\ worker' = [worker EXCEPT ![c].connected = FALSE]
    /\ UNCHANGED << accepted, registryVars, client, posts, main >>

\* The socket sees the end of the connection and emits disconnected.
NoticeDisconnection(c) ==
    /\ InEventLoop(c)
    /\ worker[c].connected
    /\ client[c].link = "down"
    /\ worker' = [worker EXCEPT ![c].connected = FALSE]
    /\ posts' = Append(posts, Post("quit", c, NoUri))
    /\ UNCHANGED << accepted, registryVars, client, main >>

\* _processMessages: the socket is closed and has no more messages.
EndOfDrain(c) ==
    /\ worker[c].thread = "draining"
    /\ client[c].inbox = << >>
    /\ worker' = [worker EXCEPT ![c].thread = "idle"]
    /\ posts' = Append(posts, Post("quit", c, NoUri))
    /\ UNCHANGED << accepted, registryVars, client, main >>

CloseConnections_Missed(c, u) ==
    /\ InEventLoop(c)
    /\ u \in worker[c].closes
    /\ worker' = [worker EXCEPT ![c].closes = @ \ {u}]
    /\ UNCHANGED << accepted, registryVars, client, posts, main >>

\* closeConnections and closeConnection.
CloseConnections(c, u) ==
    /\ InEventLoop(c)
    /\ u \in worker[c].closes
    /\ worker' = [worker EXCEPT ![c].closes = @ \ {u}]
    /\ posts' = IF worker[c].streamId = u THEN Append(posts, Post("quit", c, NoUri)) ELSE posts
    /\ UNCHANGED << accepted, registryVars, client, main >>

\* The socket is closed with its worker.
Left(cl) == [NoClient EXCEPT !.link = "down", !.shared = cl.shared]

EndThread_Silent(c) ==
    /\ InEventLoop(c)
    /\ worker[c].exit
    /\ worker' = [worker EXCEPT ![c] = NoWorker]
    /\ client' = [client EXCEPT ![c] = Left(@)]
    /\ UNCHANGED << accepted, registryVars, posts, main >>

\* The posts that the thread has made to itself, as a QThread, lose their effect.
WithoutQuit(c) == [n \in 1 .. Len(posts) |-> IF posts[n].c = c /\ posts[n].slot = "quit"
                                             THEN Post("none", c, NoUri) ELSE posts[n]]

\* The event loop ends, whatever it has left to do, and ~ServerWorker runs in its
\* thread.  The QThread goes with it.
EndThread(c) ==
    /\ InEventLoop(c)
    /\ worker[c].exit
    /\ worker' = [worker EXCEPT ![c] = NoWorker]
    /\ client' = [client EXCEPT ![c] = Left(@)]
    /\ posts' = IF Started(c)
                THEN Append(WithoutQuit(c), Post("remove", c, worker[c].streamId))
                ELSE WithoutQuit(c)
    /\ UNCHANGED << accepted, registryVars, main >>

-----------------------------------------------------------------------------
(* The main thread delivers the next post.                                 *)

Deliver(slot, c) ==
    /\ main = "running"
    /\ posts # << >>
    /\ Head(posts).slot = slot
    /\ Head(posts).c = c
    /\ posts' = Tail(posts)

\* _closePixelStream, emitted to all the workers there are.
EmitClose(u) ==
    worker' = [c \in Connections |-> IF worker[c].thread = "off" THEN worker[c]
                                     ELSE [worker[c] EXCEPT !.closes = @ \cup {u}]]

\* sourceRejected, emitted to all the workers: for those with this descriptor.
EmitRejected(c, u) ==
    worker' = [d \in Connections |->
                  IF worker[d].thread # "off" /\ Descriptor[d] = Descriptor[c]
                  THEN [worker[d] EXCEPT !.closes = @ \cup {u}]
                  ELSE worker[d]]

DeliverAddSource(c) ==
    /\ Deliver("addSource", c)
    /\ LET u == Head(posts).uri
       IN  \/ Join(c, u) /\ UNCHANGED worker
           \/ Reject(c, u) /\ EmitRejected(c, u)
    /\ UNCHANGED << accepted, client, main >>

DeliverAddObserver(c) ==
    /\ Deliver("addObserver", c)
    /\ Join(c, Head(posts).uri)
    /\ UNCHANGED << accepted, client, worker, main >>

\* A stream that has an error is closed: by pixelStreamError, closePixelStream.
DeliverData(c) ==
    /\ Deliver("data", c)
    /\ Send(c)
    /\ IF open' # open THEN EmitClose(Head(posts).uri) ELSE UNCHANGED worker
    /\ UNCHANGED << accepted, client, main >>

\* The dispatcher knows a source by its descriptor, and observers not at all.
DeliverRemove(c) ==
    /\ Deliver("remove", c)
    /\ Forget(c, IF c \in Sources THEN Twins(c) \cap Sources ELSE {})
    /\ UNCHANGED << accepted, client, worker, main >>

\* QThread::quit
DeliverQuit(c) ==
    /\ Deliver("quit", c)
    /\ worker' = [worker EXCEPT ![c].exit = TRUE]
    /\ UNCHANGED << accepted, registryVars, client, main >>

\* A post to a QThread that is gone.
DeliverNothing(c) ==
    /\ Deliver("none", c)
    /\ UNCHANGED << accepted, registryVars, client, worker, main >>

\* registerToEvents: the application answers, and the worker goes on.
DeliverRegister(c) ==
    /\ Deliver("register", c)
    /\ \E success \in BOOLEAN :
          worker' = [worker EXCEPT ![c].registered = success,
                                   ![c].thread = AfterMessage(worker[c])]
    /\ UNCHANGED << accepted, registryVars, client, main >>

\* closePixelStream, or requestFrame of a frame that is in error.
AppCloseStream(u) ==
    /\ main = "running"
    /\ AppClose(u)
    /\ EmitClose(u)
    /\ UNCHANGED << accepted, client, posts, main >>

-----------------------------------------------------------------------------
(* ~Server: the main thread delivers nothing more.  It tells one thread to *)
(* quit and waits for it, then the next.                                   *)

Threads == {c \in Connections : worker[c].thread # "off"}

Shutdown ==
    /\ MayShutdown
    /\ main = "running"
    /\ main' = "stopping"
    /\ UNCHANGED << accepted, registryVars, client, worker, posts >>

QuitNextThread(c) ==
    /\ main = "stopping"
    /\ c \in Threads
    /\ \A d \in Threads : ~ worker[d].exit
    /\ worker' = [worker EXCEPT ![c].exit = TRUE]
    /\ UNCHANGED << accepted, registryVars, client, posts, main >>

ShutdownDone ==
    /\ main = "stopping"
    /\ Threads = {}
    /\ main' = "stopped"
    /\ UNCHANGED << accepted, registryVars, client, worker, posts >>

\* The main thread is in ~Server and waits for a thread that waits for its answer to a
\* registration, which is among the posts that it does not deliver any more.
Deadlocked == main = "stopping" /\ \E c \in Connections : worker[c].thread = "blocked"

\* Nothing is left to do: the server is gone, cannot go, or (MaxAccepts) nobody comes.
Rest ==
    /\ \/ main = "stopped" \/ Deadlocked
       \/ accepted = MaxAccepts /\ Threads = {} /\ posts = << >>
    /\ UNCHANGED vars

-----------------------------------------------------------------------------
WorkerStep(c) ==
    \/ HandleOpen(c) \/ HandleData(c) \/ HandleQuit(c)
    \/ HandleBind(c) \/ HandleSecondBind(c)
    \/ NoticeDisconnection(c) \/ EndOfDrain(c) \/ EndThread(c)
    \/ \E u \in Uris : CloseConnections(c, u)

DeliverStep ==
    \/ \E c \in Sources : DeliverAddSource(c) \/ DeliverData(c)
    \/ \E c \in Observers : DeliverAddObserver(c)
    \/ \E c \in Connections : \/ DeliverRemove(c) \/ DeliverQuit(c)
                             \/ DeliverNothing(c) \/ DeliverRegister(c)

ShutdownStep == ShutdownDone \/ \E c \in Connections : QuitNextThread(c)

ServerNext ==
    \/ \E c \in Connections, u \in Uris : Accept(c, u)
    \/ \E c \in Connections : Depart(c) \/ WorkerStep(c)
    \/ DeliverStep
    \/ \E u \in Uris : AppCloseStream(u)
    \/ Shutdown \/ ShutdownStep \/ Rest

ServerSpec == ServerInit /\ [][ServerNext]_vars

\* What the threads do of themselves.  It comes to an end if the clients do nothing
\* more: each step takes a message, a post or a thread further.
ThreadStep == (\E c \in Connections : WorkerStep(c)) \/ DeliverStep \/ ShutdownStep

-----------------------------------------------------------------------------
(* Properties                                                              *)

Posts == [slot : {"addSource", "addObserver", "data", "remove", "register"},
          c : Connections, uri : Uris]
         \cup [slot : {"quit", "none"}, c : Connections, uri : {NoUri}]

MemberStates == [phase : {"joined", "stray"}, uri : Uris] \cup {Closed}

ClientStates == [link : {"none", "up", "down"}, shared : BOOLEAN, sends : 0 .. MaxSends + MaxBinds,
                 uri : Uris \cup {NoUri}, inbox : Seq({"open", "data", "bind", "quit"})]

WorkerStates == [thread : {"off", "idle", "draining", "blocked"}, connected : BOOLEAN,
                 exit : BOOLEAN, closes : SUBSET Uris, streamId : Uris \cup {NoUri},
                 protocolEnded : BOOLEAN, registered : BOOLEAN]

\* The type invariant.
TypeOK ==
    /\ open \subseteq Uris
    /\ member \in [Connections -> MemberStates]
    /\ accepted \in 0 .. MaxAccepts
    /\ client \in [Connections -> ClientStates]
    /\ worker \in [Connections -> WorkerStates]
    /\ posts \in Seq(Posts)
    /\ main \in {"running", "stopping", "stopped"}

\* The other sources of u that the dispatcher cannot tell from c.
Doubles(c, u) == {d \in Twins(c) \cap Sources : Joined(d, u)}

\* What the dispatcher takes for granted of its callers is so.  When the post of a
\* worker reaches the main thread, its connection is as the dispatcher expects it.
\* And what is posted of a source is not taken for another's, though the system gives
\* its descriptor to the next: that joins when it is gone, or else it was accepted when
\* the worker before it had not ended (ServerWorker::_startProtocol, _stopProtocol,
\* ~ServerWorker).
PostsFit ==
    posts # << >> =>
        LET p == Head(posts)
        IN  /\ CASE p.slot \in {"addSource", "addObserver"} -> member[p.c] = Closed
                 [] p.slot \in {"data", "remove"} -> Connected(p.c, p.uri)
                 [] p.slot \in {"quit", "register"} -> worker[p.c].thread # "off"
                 [] OTHER -> TRUE
            /\ p.slot \in {"addSource", "data", "remove"} /\ Doubles(p.c, p.uri) # {} =>
                  client[p.c].shared

\* The worker of c was told to end, or will be.
Told(c) ==
    \/ worker[c].exit
    \/ worker[c].streamId \in worker[c].closes
    \/ \E n \in 1 .. Len(posts) : posts[n].slot = "quit" /\ posts[n].c = c

\* Workers and dispatcher have the same picture of who is connected to what, but for
\* what is on its way from the ones to the other: no crash, QUIT or end of a thread
\* leaves a member of a stream behind whose worker is gone, and a source whose worker
\* goes on is in its stream.  A worker that began when another had its descriptor may
\* lose its place there to the removal of the other.
SamePicture ==
    \A c \in Connections :
        (\A n \in 1 .. Len(posts) :
            posts[n].c = c => posts[n].slot \notin {"addSource", "addObserver", "remove"})
        => IF Started(c)
           THEN /\ Connected(c, worker[c].streamId)
                /\ c \in Sources =>
                      Joined(c, worker[c].streamId) \/ Told(c) \/ client[c].shared
           ELSE member[c] = Closed

\* Is there a message that the worker of c reads next, from the client or its inbox?
CanRead(c) ==
    /\ worker[c].thread \in {"idle", "draining"}
    /\ \E type \in {"open", "data", "bind", "quit"} :
          /\ IF type = "open" THEN ~ Started(c) /\ ~ worker[c].protocolEnded ELSE Started(c)
          /\ \/ client[c].link = "up" /\ MaySend(c, type)
             \/ client[c].inbox # << >> /\ Head(client[c].inbox) = type

\* The thread of c has nothing left to do, or waits for the application.
AtRest(c) ==
    /\ ~ CanRead(c)
    /\ worker[c].thread = "draining" => client[c].inbox # << >>
    /\ worker[c].thread = "idle" => ~ worker[c].exit /\ worker[c].closes = {}
    /\ worker[c].thread = "idle" /\ worker[c].connected => client[c].link = "up"

\* No thread has anything left to do, or all wait for each other: the main thread has
\* delivered what was posted or, in ~Server, waits for a thread that it told to quit.
\* These are the guards of ThreadStep: it can take no step.
Quiet ==
    /\ main = "running" => posts = << >>
    /\ main = "stopping" => \E c \in Threads : worker[c].exit
    /\ \A c \in Connections : AtRest(c)

\* A client that is gone, by QUIT, crash or a loss of the network that TCP reports, has
\* left its stream when the threads have come to rest: it does not keep the frames of
\* others waiting.
GoneClientsLeave ==
    main = "running" /\ Quiet =>
        \A c \in Connections : client[c].link = "down" => member[c] = Closed

\* So has a source that was rejected, or whose stream was closed: it is disconnected,
\* unless another with its descriptor was removed in its place.
StraysLeave ==
    main = "running" /\ Quiet =>
        \A s \in Sources : member[s].phase = "stray" => client[s].shared

\* ~Server comes to its end, whatever the clients and their threads are about, if none
\* of these waits for the answer to a registration.
ShutdownReturns == main = "stopping" /\ Quiet => Deadlocked

-----------------------------------------------------------------------------
(* What the documentation says, and the code does not do.                  *)

\* Server.h: "Stop the server and close all open pixel stream connections."
ServerStops == main = "stopping" => ~ Quiet
=============================================================================
