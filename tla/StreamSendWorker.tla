---------------------------- MODULE StreamSendWorker ----------------------------
(***************************************************************************)
(* A client stream: the threads of the application that send images and    *)
(* finish frames, the lock-free queue of requests, and the worker thread   *)
(* that sends them through the socket (deflect/StreamPrivate.cpp,          *)
(* StreamSendWorker.cpp, TaskBuilder.cpp, Socket.cpp).                     *)
(*                                                                         *)
(* The queue is moodycamel::BlockingConcurrentQueue, external code: a FIFO *)
(* per producing thread and one semaphore for all of them.  To enqueue is  *)
(* to append to the thread's FIFO, then to signal the semaphore; to dequeue*)
(* is to take tokens from the semaphore, then as many requests, from any   *)
(* of the FIFOs.                                                           *)
(*                                                                         *)
(* The application uses the stream as the documentation of Stream.h and    *)
(* the tests do: threads may send images in parallel; the one that owns    *)
(* the stream joins them before it finishes the frame, which it does once  *)
(* per frame with images, and before it destroys the stream.               *)
(***************************************************************************)
EXTENDS Integers, Sequences, FiniteSets, SequencesExt

CONSTANTS
    Producers,     \* the threads that call the stream
    Owner,         \* the one that finishes frames and destroys the stream
    Calls,         \* the calls that they make, among the kinds below
    BatchSize,     \* _dequeuedRequests.size(), hardware_concurrency() / 2
    MaxCalls,      \* bound: calls that the owner makes
    MaxOtherCalls  \* bound: calls that another thread makes

\* The requests: a small image (one segment, compressed by the caller), a large
\* one (compressed by the worker), a large one with the end of the frame, the end
\* of the frame, any other message; then those of constructor and destructor.
Kinds == {"small", "large", "largeAndFinish", "finish", "data"}
AllKinds == Kinds \cup {"open", "close", "stop"}

ASSUME WorkerAssumption == /\ Owner \in Producers
                           /\ Calls \subseteq Kinds
                           /\ BatchSize \in Nat
                           /\ MaxCalls \in Nat
                           /\ MaxOtherCalls \in Nat

VARIABLES
    pc,              \* per thread: "idle", or what it has appended and not signalled
    calls,           \* per thread, the requests it has submitted
    frame,           \* ordinal of the frame the application is sending, from 1
    drawn,           \* has it sent an image for that frame?
    finishPending,   \* StreamPrivate::_pendingFinish
    queue, tokens,   \* the queue: FIFOs and semaphore
    worker,          \* the worker thread: where it is in run()
    need,            \* requests it has taken tokens for, and not yet dequeued
    batch,           \* _dequeuedRequests, those not yet handled
    postponed,       \* _finishRequest while _pendingFinish is set
    running,         \* _running
    owner,           \* where the owner is in the life of the stream
    connected,       \* Socket::isConnected
    wire,            \* the messages sent (history)
    answer           \* per request with a future, its result

vars == << pc, calls, frame, drawn, finishPending, queue, tokens, worker, need,
           batch, postponed, running, owner, connected, wire, answer >>

appVars == << pc, calls, frame, drawn, owner >>
workerVars == << worker, need, batch, postponed >>

None == [id |-> << >>, kind |-> "none", frame |-> 0]

Init ==
    /\ pc = [p \in Producers |-> "idle"]
    /\ calls = [p \in Producers |-> 0]
    /\ frame = 1
    /\ drawn = FALSE
    /\ finishPending = FALSE
    /\ queue = [p \in Producers |-> << >>]
    /\ tokens = 0
    /\ worker = "new"
    /\ need = 0
    /\ batch = << >>
    /\ postponed = None
    /\ running = FALSE
    /\ owner = "new"
    /\ connected = TRUE
    /\ wire = << >>
    /\ answer = << >>

-----------------------------------------------------------------------------
(* The application's threads                                               *)

EndsFrame(kind) == kind \in {"finish", "largeAndFinish"}
HasImage(kind) == kind \in {"small", "large", "largeAndFinish"}

\* enqueueFastRequest has no promise: the caller gets a future that is ready, and
\* true.  Nobody keeps the future of the last request.
HasFuture(kind) == kind \notin {"small", "stop"}

Enqueue(p, kind) ==
    LET request == [id |-> << p, calls[p] + 1 >>, kind |-> kind, frame |-> frame]
    IN  /\ pc[p] = "idle"
        /\ queue' = [queue EXCEPT ![p] = Append(@, request)]
        /\ calls' = [calls EXCEPT ![p] = @ + 1]
        /\ pc' = [pc EXCEPT ![p] = kind]
        /\ answer' = IF HasFuture(kind)
                     THEN [r \in DOMAIN answer \cup {request} |->
                              IF r = request THEN "none" ELSE answer[r]]
                     ELSE answer

\* The constructor of StreamPrivate has started the worker's thread; it
\* waits for the answer to the open request, whatever that is.
Open ==
    /\ owner = "new"
    /\ Enqueue(Owner, "open")
    /\ owner' = "opening"
    /\ UNCHANGED << frame, drawn, finishPending, tokens, workerVars, running, connected,
                    wire >>

Answered(kind) == \E r \in DOMAIN answer : r.kind = kind /\ answer[r] # "none"

Opened_AtOnce ==
    /\ owner = "opening"
    /\ pc[Owner] = "idle"
    /\ owner' = "alive"
    /\ UNCHANGED << pc, calls, frame, drawn, finishPending, queue, tokens, workerVars,
                    running, connected, wire, answer >>

Opened ==
    /\ owner = "opening"
    /\ pc[Owner] = "idle"
    /\ Answered("open")
    /\ owner' = "alive"
    /\ UNCHANGED << pc, calls, frame, drawn, finishPending, queue, tokens, workerVars,
                    running, connected, wire, answer >>

AllIdle == \A p \in Producers : pc[p] = "idle"

Accepts_FinishIgnored(kind) == TRUE

\* An image is refused, with an exception and no effect, while a finish is pending.
Accepts(kind) == HasImage(kind) => ~ finishPending

MayCall(p) == IF p = Owner THEN MaxCalls + 1 ELSE MaxOtherCalls   \* +1: to open

\* Stream::send, sendAndFinish, finishFrame and the messages of Observer.  (To
\* sendAndFinish a small image is to send it, then to finishFrame.)
Call(p, kind) ==
    /\ owner = "alive"
    /\ calls[p] < MayCall(p)
    /\ Accepts(kind)
    /\ IF p = Owner THEN EndsFrame(kind) => AllIdle ELSE ~ EndsFrame(kind) /\ ~ EndsFrame(pc[Owner])
    /\ kind = "finish" => drawn
    /\ Enqueue(p, kind)
    /\ finishPending' = (finishPending \/ kind = "finish")
    /\ frame' = IF EndsFrame(kind) THEN frame + 1 ELSE frame
    /\ drawn' = (~ EndsFrame(kind) /\ (drawn \/ HasImage(kind)))
    /\ UNCHANGED << tokens, workerVars, running, owner, connected, wire >>

Signal(p) ==
    /\ pc[p] # "idle"
    /\ pc' = [pc EXCEPT ![p] = "idle"]
    /\ tokens' = tokens + 1
    /\ UNCHANGED << calls, frame, drawn, finishPending, queue, workerVars, running,
                    owner, connected, wire, answer >>

-----------------------------------------------------------------------------
(* The worker thread: run()                                                *)

\* The thread begins, be it asked to stop already.
BeginRun ==
    /\ worker = "new"
    /\ running' = TRUE
    /\ worker' = "top"
    /\ UNCHANGED << appVars, finishPending, queue, tokens, need, batch, postponed,
                    connected, wire, answer >>

\* _running is read here, and not again before the worker waits for requests.
CheckRunning ==
    /\ worker = "top"
    /\ worker' = IF running THEN "dequeue" ELSE "exited"
    /\ UNCHANGED << appVars, finishPending, queue, tokens, need, batch, postponed,
                    running, connected, wire, answer >>

\* How many of n requests are dequeued at once.
Batch(n) == IF n < BatchSize THEN n ELSE BatchSize

\* The first half of wait_dequeue_bulk, and of try_dequeue_bulk when it finds
\* requests.  Of no requests at a time neither finds any: the loop spins.
TakeTokens ==
    /\ worker = "dequeue"
    /\ Batch(tokens) > 0
    /\ tokens' = tokens - Batch(tokens)
    /\ need' = Batch(tokens)
    /\ worker' = "collect"
    /\ UNCHANGED << appVars, finishPending, queue, batch, postponed, running,
                    connected, wire, answer >>

\* The second half: the tokens do not say from which thread.
Collect(p) ==
    /\ worker = "collect"
    /\ queue[p] # << >>
    /\ queue' = [queue EXCEPT ![p] = Tail(@)]
    /\ batch' = Append(batch, Head(queue[p]))
    /\ need' = need - 1
    /\ worker' = IF need = 1 THEN "handle" ELSE "collect"
    /\ UNCHANGED << appVars, finishPending, tokens, postponed, running, connected, wire,
                    answer >>

Message(type, r) == << [type |-> type, of |-> r] >>

\* _sendOpenStream, _sendOpenObserver and _sendClose
Ends(r) == Message(IF r.kind = "open" THEN "open" ELSE "quit", r)

\* _sendFinish
FrameEnd(r) == IF EndsFrame(r.kind) THEN Message("finish", r) ELSE << >>

\* _sendSegment: all segments of an image are one message here.
Tile(r) == IF HasImage(r.kind) THEN Message("tile", r) ELSE << >>

\* _sendData, _sendSizeHints and _sendBindEvents
Data(r) == Message("data", r)

Messages(r) ==
    CASE HasImage(r.kind) \/ EndsFrame(r.kind) -> Tile(r) \o FrameEnd(r)
      [] r.kind = "data"                       -> Data(r)
      [] r.kind \in {"open", "close"}          -> Ends(r)
      [] r.kind = "stop"                       -> << >>

\* The promise of the request, if it has one, gets its value.
Settle(r, result) ==
    answer' = [q \in DOMAIN answer |-> IF q = r THEN result ELSE answer[q]]

FinishFrameDone(r) == finishPending' = (finishPending /\ ~ EndsFrame(r.kind))

Succeed(r) ==
    /\ connected \/ Messages(r) = << >>
    /\ wire' = wire \o Messages(r)
    /\ FinishFrameDone(r)
    /\ Settle(r, "true")
    /\ UNCHANGED connected

\* The socket is, or gets, disconnected: the remaining tasks are not run.
Fail(r) ==
    /\ \E n \in 0 .. Len(Messages(r)) - 1 :
          /\ n > 0 => connected
          /\ wire' = wire \o SubSeq(Messages(r), 1, n)
    /\ connected' = FALSE
    /\ Settle(r, "false")
    /\ UNCHANGED finishPending

\* The compression of an image fails, before or after some of it was sent.
Throw(r) ==
    /\ r.kind \in {"large", "largeAndFinish"}
    /\ \E n \in 0 .. 1 : /\ n > 0 => connected
                         /\ wire' = wire \o SubSeq(Messages(r), 1, n)
    /\ Settle(r, "error")
    /\ UNCHANGED << finishPending, connected >>

RunTasks(r) == Succeed(r) \/ Fail(r) \/ Throw(r)

NextInBatch ==
    /\ batch' = Tail(batch)
    /\ worker' = IF Len(batch) = 1 THEN "top" ELSE "handle"
    /\ UNCHANGED << appVars, queue, tokens, need, running >>

HandleRequest ==
    /\ worker = "handle"
    /\ Head(batch).kind # "finish"
    /\ RunTasks(Head(batch))
    /\ NextInBatch
    /\ UNCHANGED postponed

PostponeFinish_Overwrites ==
    /\ worker = "handle"
    /\ Head(batch).kind = "finish"
    /\ postponed' = Head(batch)
    /\ NextInBatch
    /\ UNCHANGED << finishPending, connected, wire, answer >>

\* A finish is postponed until the queue has nothing more.
PostponeFinish ==
    /\ worker = "handle"
    /\ Head(batch).kind = "finish"
    /\ postponed = None
    /\ postponed' = Head(batch)
    /\ NextInBatch
    /\ UNCHANGED << finishPending, connected, wire, answer >>

\* "Already have pending finish"
RefuseFinish ==
    /\ worker = "handle"
    /\ Head(batch).kind = "finish"
    /\ postponed # None
    /\ Settle(Head(batch), "error")
    /\ NextInBatch
    /\ UNCHANGED << postponed, finishPending, connected, wire >>

FinishNow_Kept ==
    /\ worker = "dequeue"
    /\ postponed # None
    /\ tokens = 0
    /\ RunTasks(postponed)
    /\ worker' = "top"
    /\ UNCHANGED << appVars, queue, tokens, need, batch, postponed, running >>

\* try_dequeue_bulk finds nothing: the finish is what the worker handles next.
FinishNow ==
    /\ worker = "dequeue"
    /\ postponed # None
    /\ tokens = 0
    /\ RunTasks(postponed)
    /\ postponed' = None
    /\ worker' = "top"
    /\ UNCHANGED << appVars, queue, tokens, need, batch, running >>

-----------------------------------------------------------------------------
(* The end of the stream, and of the connection                            *)

\* ~StreamPrivate: the close request is waited for, then ~StreamSendWorker stops.
Destroy ==
    /\ owner = "alive"
    /\ AllIdle
    /\ \/ /\ connected
          /\ Enqueue(Owner, "close")
          /\ owner' = "closing"
       \/ /\ ~ connected
          /\ owner' = "stop"
          /\ UNCHANGED << pc, calls, queue, answer >>
    /\ UNCHANGED << frame, drawn, finishPending, tokens, workerVars, running, connected,
                    wire >>

CloseAnswered ==
    /\ owner = "closing"
    /\ pc[Owner] = "idle"
    /\ Answered("close")
    /\ owner' = "stop"
    /\ UNCHANGED << pc, calls, frame, drawn, finishPending, queue, tokens, workerVars,
                    running, connected, wire, answer >>

\* StreamSendWorker::stop, up to the wait for the thread: the request wakes it up.
Stop ==
    /\ owner = "stop"
    /\ running' = FALSE
    /\ Enqueue(Owner, "stop")
    /\ owner' = "stopping"
    /\ UNCHANGED << frame, drawn, finishPending, tokens, workerVars, connected, wire >>

\* The rest of stop, and of the destructors: the promise of a postponed finish is
\* broken when the worker's members are destroyed.
Drain ==
    LET left == UNION {ToSet(queue[p]) : p \in Producers}
    IN  /\ owner = "stopping"
        /\ AllIdle
        /\ worker = "exited"
        /\ owner' = "gone"
        /\ answer' = [r \in DOMAIN answer |-> CASE r \in left     -> "false"
                                                 [] r = postponed  -> "broken"
                                                 [] OTHER          -> answer[r]]
        /\ queue' = [p \in Producers |-> << >>]
        /\ tokens' = 0
        /\ postponed' = None
        /\ UNCHANGED << pc, calls, frame, drawn, finishPending, worker, need, batch,
                        running, connected, wire >>

\* The server closes the connection, or the network fails.
Disconnect ==
    /\ connected
    /\ owner # "gone"
    /\ connected' = FALSE
    /\ UNCHANGED << appVars, finishPending, queue, tokens, workerVars, running, wire,
                    answer >>

Gone == owner = "gone" /\ UNCHANGED vars

-----------------------------------------------------------------------------
WorkerStep ==
    \/ BeginRun \/ CheckRunning \/ TakeTokens \/ HandleRequest \/ PostponeFinish \/ RefuseFinish
    \/ FinishNow
    \/ \E p \in Producers : Collect(p)

ConstructorStep == Open \/ Opened

DestructorStep == CloseAnswered \/ Stop \/ Drain

\* What the threads do once the application has made its calls.  There is no end to
\* it only if somebody calls again: each step takes a request, or a thread, further.
ThreadStep ==
    \/ \E p \in Producers : Signal(p)
    \/ WorkerStep
    \/ ConstructorStep \/ DestructorStep

Next ==
    \/ \E p \in Producers, kind \in Calls : Call(p, kind)
    \/ ThreadStep
    \/ Destroy
    \/ Disconnect
    \/ Gone

Spec == Init /\ [][Next]_vars

-----------------------------------------------------------------------------
(* Properties                                                              *)

Ids == {id \in Producers \X (1 .. MaxCalls + MaxOtherCalls + 3) :
            id[2] <= MayCall(id[1]) + 2}
Frames == 1 .. MaxCalls + 1
Requests == [id : Ids, kind : AllKinds, frame : Frames]
Results == {"none", "true", "false", "error", "broken"}

\* The type invariant.
TypeOK ==
    /\ pc \in [Producers -> AllKinds \cup {"idle"}]
    /\ calls \in [Producers -> Nat]
    /\ \A p \in Producers : calls[p] <= MayCall(p) + 2
    /\ frame \in Frames
    /\ drawn \in BOOLEAN
    /\ finishPending \in BOOLEAN
    /\ queue \in [Producers -> Seq(Requests)]
    /\ tokens \in Nat
    /\ worker \in {"new", "top", "dequeue", "collect", "handle", "exited"}
    /\ need \in 0 .. BatchSize
    /\ batch \in Seq(Requests) /\ Len(batch) <= BatchSize
    /\ postponed \in Requests \cup {None}
    /\ running \in BOOLEAN
    /\ owner \in {"new", "opening", "alive", "closing", "stop", "stopping", "gone"}
    /\ connected \in BOOLEAN
    /\ wire \in Seq([type : {"open", "tile", "finish", "data", "quit"}, of : Requests])
    /\ DOMAIN answer \subseteq Requests /\ answer \in [DOMAIN answer -> Results]

FinishesBefore(n) == Cardinality({m \in 1 .. n - 1 : wire[m].type = "finish"})

\* The server counts frames by the finish messages of a source: no image arrives
\* before the end of the frame before its own, none of the owner's after the end of
\* its own, and the end of a frame is that of the next frame.  sendAndFinish of a large
\* image is excepted: its end is not postponed, and is lost with the image.
TilesInTheirFrame ==
    (\A r \in DOMAIN answer : r.kind # "largeAndFinish") =>
        \A n \in 1 .. Len(wire) : wire[n].type \in {"tile", "finish"} =>
            LET r == wire[n].of
                current == FinishesBefore(n) + 1
            IN  /\ r.frame <= current
                /\ r.id[1] = Owner => r.frame = current

\* std::promise: a second value would throw, in a thread where nobody catches.
AnsweredOnce ==
    [][\A r \in DOMAIN answer : answer[r] # "none" => answer'[r] = answer[r]]_vars

\* No thread has anything left to do, or all wait for each other.  These are the guards
\* of ThreadStep: it can take no step.  A thread in a call goes on, and so does the worker
\* but in the waits for a token and for an element; the owner waits for an answer, or for
\* the worker's end.
Quiet ==
    /\ AllIdle
    /\ worker \in {"dequeue", "collect", "exited"}
    /\ worker = "dequeue" => Batch(tokens) = 0 /\ (postponed = None \/ tokens > 0)
    /\ worker = "collect" => \A p \in Producers : queue[p] = << >>
    /\ owner \notin {"new", "stop"}
    /\ owner = "opening" => ~ Answered("open")
    /\ owner = "closing" => ~ Answered("close")
    /\ owner = "stopping" => worker # "exited"

\* Whatever was postponed, refused or cut off, and whether the stream is destroyed or
\* not: when the threads have come to rest every future has its answer, and the only
\* promise ever broken is that of a finish that the destructor caught postponed.
AllAnswered ==
    /\ Quiet => \A r \in DOMAIN answer : answer[r] # "none"
    /\ \A r \in DOMAIN answer :
          answer[r] = "broken" => r.kind = "finish" /\ owner = "gone"

\* ~StreamPrivate and stop(): the wait for the answer to the close request, and the one
\* for the worker, come to an end, though the worker may be asleep in the queue, or not
\* running yet.  The same of the constructor's wait.
DestructorReturns == Quiet => owner \in {"alive", "gone"}
=============================================================================
