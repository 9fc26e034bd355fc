---------------------------- MODULE FrameDispatcher ----------------------------
(***************************************************************************)
(* The server's main thread: the streams, their sources and observers, and *)
(* the frames that go to the application (deflect/server/                  *)
(* FrameDispatcher.cpp and the slots of Server.cpp that call it).          *)
(*                                                                         *)
(* All these slots run in the main thread, one at a time: each is one      *)
(* action.  Their callers are                                              *)
(*   - the connections.  Whatever its client and its network do, a worker  *)
(*     (ServerWorker.cpp) posts for one connection: one addSource or       *)
(*     addObserver, then any number of tiles and of finished frames, then  *)
(*     one removal, which a crash of the client only brings forward.  The  *)
(*     posts of one connection stay in order, those of several interleave. *)
(*     A source is known by its socket descriptor, which serves another    *)
(*     connection later.  That one joins when the removal has come is taken*)
(*     for granted here (ReceiveBuffer.h: "Unique source identifier");     *)
(*     Server is about when it is so, and when it is not;                  *)
(*   - the application, which requests frames and closes streams, of the   *)
(*     streams it has been told are open.                                  *)
(*                                                                         *)
(* A worker that was told to close (late join, stream closed) goes on      *)
(* posting what it has received until its thread ends: it is "stray".      *)
(***************************************************************************)
EXTENDS ReceiveBuffer, FiniteSets, Integers

CONSTANTS
    Uris,          \* the names of streams
    Sources,       \* identifiers of connections that send tiles
    Observers,     \* connections that only observe
    RowOrders,     \* values of RowOrder
    MaxFrames      \* bound: frames that one connection finishes

ASSUME DispatcherAssumption ==
    /\ MaxFrames \in Nat
    /\ MaxFrames < FrameIndexSpan      \* FrameIndex does not wrap around
    /\ IsFiniteSet(Observers)
    /\ Sources \cap Observers = {}

VARIABLES
    streams,     \* Impl::streams: partial function from uris to streams
    conn,        \* the connections, as the dispatcher's slots saw them
    opened,      \* per uri: pixelStreamOpened minus pixelStreamClosed signals
    requested,   \* uris whose application waits for the frame it requested
    received,    \* the frame the last step passed to receivedFrame, if any
    sent         \* per source of a stream, all the tiles it has sent (history)

vars == << streams, conn, opened, requested, received, sent >>

Connections == Sources \cup Observers

\* frame: the ordinal of the frame the client is sending, from 1.
NoUri == "no uri"
ConnectionStates == [phase : {"closed", "joined", "stray"},
                     uri : Uris \cup {NoUri}, frame : 1 .. MaxFrames + 1]

Closed == [phase |-> "closed", uri |-> NoUri, frame |-> 1]

NoFrame == [uri |-> NoUri, index |-> 0, tiles |-> {}]

NewStream == [buffer |-> NewReceiveBuffer, observers |-> 0]

Tiles == [source : Sources, frame : 1 .. MaxFrames, order : RowOrders]

Init ==
    /\ streams = << >>
    /\ conn = [c \in Connections |-> Closed]
    /\ opened = [u \in Uris |-> 0]
    /\ requested = {}
    /\ received = NoFrame
    /\ sent = [c \in Sources |-> {}]

-----------------------------------------------------------------------------
Exists(u) == u \in DOMAIN streams

StreamAt(u) == IF Exists(u) THEN streams[u] ELSE NewStream

SetStream(u, stream) ==
    streams' = [v \in DOMAIN streams \cup {u} |-> IF v = u THEN stream ELSE streams[v]]

AllConnectionsClosed_EitherKind(stream) == \/ SourcesOf(stream.buffer) = {}
                                           \/ stream.observers = 0

\* Impl::allConnectionsClosed
AllConnectionsClosed(stream) == /\ SourcesOf(stream.buffer) = {}
                                /\ stream.observers = 0

EmitOpened(u) == opened' = [opened EXCEPT ![u] = @ + 1]

\* deleteStream: the stream goes, and the application is told so.  Whoever is
\* still connected to it becomes a stray.
DeleteStream(u, others) ==
    /\ streams' = [v \in DOMAIN streams \ {u} |-> streams[v]]
    /\ opened' = [opened EXCEPT ![u] = @ - 1]
    /\ requested' = requested \ {u}
    /\ received' = NoFrame
    /\ conn' = [c \in Connections |-> IF others[c].uri = u /\ others[c].phase = "joined"
                                      THEN [others[c] EXCEPT !.phase = "stray"]
                                      ELSE others[c]]
    /\ sent' = [c \in Sources |-> IF others[c].phase = "joined" /\ others[c].uri # u
                                  THEN sent[c] ELSE {}]

Connect(c, u, phase) ==
    conn' = [conn EXCEPT ![c] = [phase |-> phase, uri |-> u, frame |-> 1]]

-----------------------------------------------------------------------------
(* Connections come and go.                                                *)

AddSourceToStream(c, u) ==
    /\ conn[c].phase = "closed"
    /\ LET stream == StreamAt(u)
           buffer == AddSource(stream.buffer, c)
       IN  /\ ~ RejectsSources(stream.buffer)
           /\ SetStream(u, [stream EXCEPT !.buffer = buffer])
           /\ IF stream.observers = 0 /\ SourcesOf(buffer) = {c}
              THEN EmitOpened(u)
              ELSE UNCHANGED opened
    /\ Connect(c, u, "joined")
    /\ received' = NoFrame
    /\ UNCHANGED << requested, sent >>

\* sourceRejected: the worker is told to close its connection.
RejectLateSource(c, u) ==
    /\ conn[c].phase = "closed"
    /\ RejectsSources(StreamAt(u).buffer)
    /\ Connect(c, u, "stray")
    /\ received' = NoFrame
    /\ UNCHANGED << streams, opened, requested, sent >>

FirstObserver_SourcesIgnored(stream) == stream.observers = 0

\* addObserver announces the stream.
FirstObserver(stream) == /\ stream.observers = 0
                         /\ SourcesOf(stream.buffer) = {}

AddObserver(c, u) ==
    /\ conn[c].phase = "closed"
    /\ LET stream == StreamAt(u)
       IN  /\ SetStream(u, [stream EXCEPT !.observers = @ + 1])
           /\ IF FirstObserver(stream)
              THEN EmitOpened(u)
              ELSE UNCHANGED opened
    /\ Connect(c, u, "joined")
    /\ received' = NoFrame
    /\ UNCHANGED << requested, sent >>

\* What removeSource and removeObserver do with the stream they have updated.
KeepOrDelete(c, u, stream) ==
    LET others == [conn EXCEPT ![c] = Closed]
    IN  \/ /\ AllConnectionsClosed(stream)
           /\ DeleteStream(u, others)
        \/ /\ ~ AllConnectionsClosed(stream)
           /\ SetStream(u, stream)
           /\ conn' = others
           /\ received' = NoFrame
           /\ UNCHANGED << opened, requested >>
           /\ sent' = [d \in Sources |-> IF d = c THEN {} ELSE sent[d]]

\* The stream of this connection was closed before: the slot returns at once.
RemoveFromNoStream(c) ==
    /\ conn[c].phase # "closed"
    /\ ~ Exists(conn[c].uri)
    /\ conn' = [conn EXCEPT ![c] = Closed]
    /\ received' = NoFrame
    /\ UNCHANGED << streams, opened, requested, sent >>

RemoveSourceFromStream(c) ==
    LET u == conn[c].uri
    IN  /\ conn[c].phase # "closed"
        /\ Exists(u)
        /\ KeepOrDelete(c, u, [streams[u] EXCEPT !.buffer = RemoveSource(@, c)])

WithoutObserver_BelowZero(stream) == [stream EXCEPT !.observers = @ - 1]

WithoutObserver_Forgotten(stream) == stream

\* The code cannot tell an observer from the one that replaced it: it counts.
WithoutObserver(stream) == [stream EXCEPT !.observers = IF @ > 0 THEN @ - 1 ELSE 0]

RemoveObserver(c) ==
    LET u == conn[c].uri
    IN  /\ conn[c].phase # "closed"
        /\ Exists(u)
        /\ KeepOrDelete(c, u, WithoutObserver(streams[u]))

-----------------------------------------------------------------------------
(* Tiles and frames                                                        *)

ProcessTile(c, order) ==
    LET u == conn[c].uri
        tile == [source |-> c, frame |-> conn[c].frame, order |-> order]
    IN  /\ conn[c].phase # "closed"
        /\ conn[c].frame <= MaxFrames
        /\ received' = NoFrame
        /\ IF Exists(u)
           THEN SetStream(u, [streams[u] EXCEPT !.buffer = Insert(@, c, tile)])
           ELSE UNCHANGED streams
        /\ sent' = [sent EXCEPT ![c] = IF conn[c].phase = "joined" THEN @ \cup {tile} ELSE @]
        /\ UNCHANGED << conn, opened, requested >>

\* Frame::determineRowOrder does not throw: neither "frame has no tiles" nor
\* "frame has incoherent row orders".
Coherent(tiles) == \E order \in RowOrders : {t.order : t \in tiles} = {order}

\* sendFrame(consumeLatestFrame(uri)) with the stream as updated by the caller.
\* The error path is Server's: pixelStreamError closes the stream.
SendFrame(u, stream, connections) ==
    \E n \in LatestFrame(stream.buffer) :
        LET tiles == TilesOfFrame(stream.buffer, n)
        IN  \/ /\ Coherent(tiles)
               /\ SetStream(u, [stream EXCEPT !.buffer = Drained(@, n)])
               /\ received' = [uri |-> u, index |-> n, tiles |-> tiles]
               /\ requested' = requested \ {u}
               /\ conn' = connections
               /\ UNCHANGED << opened, sent >>
            \/ /\ ~ Coherent(tiles)
               /\ DeleteStream(u, connections)

NextFrame(c) == [conn EXCEPT ![c].frame = @ + 1]

FinishInNoStream(c) ==
    /\ conn[c].phase # "closed"
    /\ conn[c].frame <= MaxFrames
    /\ ~ Exists(conn[c].uri)
    /\ conn' = NextFrame(c)
    /\ received' = NoFrame
    /\ UNCHANGED << streams, opened, requested, sent >>

ProcessFrameFinished(c) ==
    LET u == conn[c].uri
        stream == [streams[u] EXCEPT !.buffer = FinishFrame(@, c)]
        ready == stream.buffer.allowed /\ HasCompleteFrame(stream.buffer)
    IN  /\ conn[c].phase # "closed"
        /\ conn[c].frame <= MaxFrames
        /\ Exists(u)
        /\ \/ /\ QueueExceeded(streams[u].buffer, c)
              /\ DeleteStream(u, NextFrame(c))
           \/ /\ ~ QueueExceeded(streams[u].buffer, c)
              /\ ready
              /\ SendFrame(u, stream, NextFrame(c))
           \/ /\ ~ QueueExceeded(streams[u].buffer, c)
              /\ ~ ready
              /\ SetStream(u, stream)
              /\ conn' = NextFrame(c)
              /\ received' = NoFrame
              /\ UNCHANGED << opened, requested, sent >>

-----------------------------------------------------------------------------
(* The application.  It knows of a stream by pixelStreamOpened; what the   *)
(* code does with a request for an unknown stream is to return at once.    *)

RequestFrame_NothingSent(u) ==
    /\ Exists(u)
    /\ SetStream(u, [streams[u] EXCEPT !.buffer = AllowToSend(@)])
    /\ requested' = requested \cup {u}
    /\ received' = NoFrame
    /\ UNCHANGED << conn, opened, sent >>

RequestFrame(u) ==
    /\ Exists(u)
    /\ LET stream == [streams[u] EXCEPT !.buffer = AllowToSend(@)]
       IN  \/ /\ HasCompleteFrame(stream.buffer)
              /\ SendFrame(u, stream, conn)
           \/ /\ ~ HasCompleteFrame(stream.buffer)
              /\ SetStream(u, stream)
              /\ requested' = requested \cup {u}
              /\ received' = NoFrame
              /\ UNCHANGED << conn, opened, sent >>

\* Server::closePixelStream: the workers are told first, then the stream goes.
ClosePixelStream(u) ==
    /\ opened[u] > 0
    /\ DeleteStream(u, conn)

-----------------------------------------------------------------------------
Next ==
    \/ \E c \in Sources, u \in Uris : AddSourceToStream(c, u) \/ RejectLateSource(c, u)
    \/ \E c \in Observers, u \in Uris : AddObserver(c, u)
    \/ \E c \in Sources : RemoveSourceFromStream(c)
    \/ \E c \in Observers : RemoveObserver(c)
    \/ \E c \in Connections : RemoveFromNoStream(c)
    \/ \E c \in Sources, order \in RowOrders : ProcessTile(c, order)
    \/ \E c \in Sources : ProcessFrameFinished(c) \/ FinishInNoStream(c)
    \/ \E u \in Uris : RequestFrame(u) \/ ClosePixelStream(u)

Spec == Init /\ [][Next]_vars

-----------------------------------------------------------------------------
(* Properties                                                              *)

IsPartialFunction(f, S, T) == /\ DOMAIN f \subseteq S
                              /\ f \in [DOMAIN f -> T]

SourceBuffers == [queue : Seq(SUBSET Tiles), back : Nat]

BufferTypeOK(b) ==
    /\ b \in [sources : {b.sources}, last : Nat, allowed : BOOLEAN]
    /\ IsPartialFunction(b.sources, Sources, SourceBuffers)

StreamTypeOK(stream) ==
    /\ stream \in [buffer : {stream.buffer}, observers : Nat]
    /\ BufferTypeOK(stream.buffer)

\* The type invariant.
TypeOK ==
    /\ IsPartialFunction(streams, Uris, {streams[u] : u \in DOMAIN streams})
    /\ \A u \in DOMAIN streams : StreamTypeOK(streams[u])
    /\ conn \in [Connections -> ConnectionStates]
    /\ opened \in [Uris -> Int]
    /\ requested \subseteq Uris
    /\ received \in [uri : Uris \cup {NoUri}, index : Nat, tiles : SUBSET Tiles]
    /\ sent \in [Sources -> SUBSET Tiles]

Joined(c, u) == conn[c].phase = "joined" /\ conn[c].uri = u
Connected(c, u) == conn[c].phase # "closed" /\ conn[c].uri = u

\* std::queue::front, back and pop are undefined on an empty queue: whatever
\* frames are popped, dropped and restarted from 0, a source buffer keeps the
\* frame under construction.  And no source fills the server's memory: it is
\* cut off one frame above MAX_QUEUE_SIZE (SourceBuffer.cpp, ReceiveBuffer.cpp).
QueuesSound ==
    \A u \in DOMAIN streams : \A s \in SourcesOf(streams[u].buffer) :
        Len(streams[u].buffer.sources[s].queue) \in 1 .. MaxQueueSize + 1

\* What makes frames of several sources match: in the buffer of a stream, the
\* n-th frame in the queue of each source that joined the stream is the frame
\* that the source sent as its (_lastFrameComplete + n)-th, whatever frames the
\* buffer has skipped and whoever joined, left or was rejected in between.
FramesAligned ==
    \A c \in Sources, u \in Uris : Joined(c, u) =>
        /\ Exists(u)
        /\ c \in SourcesOf(streams[u].buffer)
        /\ LET b == streams[u].buffer
               q == b.sources[c].queue
           IN  /\ conn[c].frame = b.last + Len(q)
               /\ \A n \in 1 .. Len(q) :
                      q[n] = {t \in sent[c] : t.frame = b.last + n}

\* A frame that the application receives holds, for every source that joined the
\* stream, all that the source sent for one and the same frame number, which it
\* has finished: no tile is lost, nor taken from the frame before or after
\* (ReceiveBuffer::popFrame, FrameDispatcher::consumeLatestFrame).
WholeFrame ==
    received # NoFrame =>
        \A c \in Sources : Joined(c, received.uri) =>
            /\ received.index < conn[c].frame
            /\ {t \in received.tiles : t.source = c}
                 = {t \in sent[c] : t.frame = received.index}

\* The loop of consumeLatestFrame on the buffer b, after so many turns.
LoopTurns(b) ==
    LET turn[n \in 0 .. MaxFrames] == IF n = 0 THEN [buffer |-> b, tiles |-> {}]
                                      ELSE LET before == turn[n - 1] IN PopTurn(before)
    IN  turn

\* The closed form in which SendFrame consumes frames is the loop of
\* consumeLatestFrame: it ends, with the same tiles and the same buffer, and has
\* a frame exactly when it runs at all.
DrainIsTheLoop ==
    \A u \in DOMAIN streams :
        LET b    == streams[u].buffer
            loop == LoopTurns(b)[MaxFrames]
        IN  /\ Cardinality(LatestFrame(b)) = IF HasCompleteFrame(b) THEN 1 ELSE 0
            /\ ~ HasCompleteFrame(loop.buffer)
            /\ \A n \in LatestFrame(b) :
                  /\ loop.tiles = TilesOfFrame(b, n)
                  /\ [loop.buffer EXCEPT !.allowed = FALSE] = Drained(b, n)

\* The application's picture of the streams, from pixelStreamOpened and
\* pixelStreamClosed, is right: each stream was announced once more than it was
\* closed, whichever of sources and observers came and went first.
AppViewAccurate == \A u \in Uris : opened[u] = IF Exists(u) THEN 1 ELSE 0

\* No stream outlives its connections, and none waits for the frames of a source
\* that is gone: each source in a buffer still has its connection, and observers
\* are never counted that are not there (removeSource, removeObserver).
NoLeakedStream ==
    \A u \in DOMAIN streams :
        /\ ~ AllConnectionsClosed(streams[u])
        /\ \A s \in SourcesOf(streams[u].buffer) : Connected(s, u)
        /\ streams[u].observers <= Cardinality({o \in Observers : Connected(o, u)})

\* Server.h, receivedFrame: only after the application signalled, by
\* requestFrame, that it is ready; one request is worth one frame.
FrameOnlyOnRequest ==
    [][received' # NoFrame =>
         \/ received'.uri \in requested
         \/ RequestFrame(received'.uri)]_vars

\* A complete frame the application has asked for.
FrameWaits(u) == /\ Exists(u)
                 /\ streams[u].buffer.allowed
                 /\ HasCompleteFrame(streams[u].buffer)

\* No request, finished frame, late joiner or rejected source leaves behind a
\* complete frame that the application waits for; the departure of a source may,
\* though requestFrame's documentation in Server.h promises a receivedFrame signal
\* when a frame "is or becomes available".
OnlyRemovalStrands ==
    [][\A u \in Uris : FrameWaits(u)' /\ ~ FrameWaits(u) =>
         \E c \in Sources : Connected(c, u) /\ RemoveSourceFromStream(c)]_vars

-----------------------------------------------------------------------------
(* What Server relies on: the dispatcher without its frames.               *)

Registry == INSTANCE StreamRegistry WITH
                open <- DOMAIN streams,
                member <- [c \in Connections |-> [phase |-> conn[c].phase, uri |-> conn[c].uri]]

\* Whatever frames do, streams open and close as StreamRegistry promises: for a
\* member that leaves as the last, by a bad frame or by the application, and not
\* otherwise (addSource to deleteStream).
ImplementsRegistry == Registry!RegistrySpec

=============================================================================
