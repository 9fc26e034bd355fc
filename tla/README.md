# Deflect in TLA+

Deflect streams images from client applications to a server, a display wall for
example, and events back.  This directory holds TLA+ modules that model it, TLC
configurations that check them on small instances, and proofs that hold for all
instances.  `PROJECT.json` maps each definition to the source lines it models, and
lists runs, mutants, findings, hazards and theorems.

    tlc -config MCFrames.cfg MCFrameDispatcher      # check a run
    tlapm FrameDispatcherProofs.tla                 # check the proofs

## 1. Inventory of the system

| component | state | operations | talks to |
|---|---|---|---|
| `server/ReceiveBuffer`, `SourceBuffer` | per stream: a queue of frames per source with its back index, `_lastFrameComplete`, `_allowedToSend` | add and remove a source, insert a tile, finish a frame, pop a complete frame | called by the dispatcher |
| `server/FrameDispatcher` | map of streams: buffer and count of observers | slots `addSource`, `removeSource`, `addObserver`, `removeObserver`, `processTile`, `processFrameFinished`, `requestFrame`, `deleteStream` | posts of the workers; calls of, and signals to, the application |
| `server/Server` | listening socket, threads of the workers | accept, request a frame, close a stream, shut down | all server parts |
| `server/ServerWorker` | per connection: socket, stream id, protocol ended, registered, view / row order / channel, events to send | handle a message, close, register for events, end | client by TCP, main thread by queued signals |
| `StreamPrivate`, `StreamSendWorker`, `TaskBuilder` | lock-free queue of requests, postponed finish, `_pendingFinish`, `_running`, futures | send, send and finish, finish, close, stop | threads of the application, socket |
| `moodycamel` (vendored) | a FIFO per producer in blocks, block index, free list, hash table of threads, semaphore | enqueue, bulk dequeue with and without waiting, destroy | the threads of the stream |
| `Socket`, `MessageHeader` | TCP socket, mutex | connect, send, receive with timeouts | client threads |
| `Observer` | registered for events, header that was read | register with reply, receive events | socket, send worker |
| `ImageSegmenter`, `MTQueue`, `ImageJpegCompressor` | queue of compressed segments | partition, compress in parallel, send as they come | send worker |
| `server/Frame`, `Tile`, `TileDecoder` | tiles of a frame; future of a decoding | dimensions, mirroring, row order; decode | application of the server |
| `qt/` (QML streamer) | render thread and its mutex, timers, image, touch points | render handshake, send a frame per rendering, inject events | stream, Qt |
| `apps/` | streams, buttons, options | update loop; draw, send, wait | the library |

**What is hard.**  The server has a thread per connection and a main thread, which
talk in posted signals: a signal may arrive when what it is about is gone.  Clients
crash without QUIT, join late, share a stream, and reuse its name.  The frames of
several sources are matched by counting alone.  On the client any number of threads
append to a queue without a global order, to be sent by one thread in batches, with
ends of frames postponed; every request has a future to be answered, also when the
connection breaks, a compression throws or the stream is destroyed.  The queue is
lock-free, recycles its blocks and lets its positions wrap around.  Receptions give up
after a timeout, and what was late comes before what is read next.  Attributes of an
image travel in other messages than its pixels.  A QML streamer's main thread waits for
its render thread and its send thread, and its image is not copied.

**What makes each component correct.**

- *Buffer and dispatcher*: frames received by the application are whole, of one
  frame number, requested, in a stream the application knows of; streams live as
  long as their connections.
- *Server*: whoever is gone leaves its stream, once; whoever is rejected or closed
  is disconnected; the destructor returns.
- *Client stream*: every image is sent in its frame; futures tell the truth, once,
  and all of them; constructor and destructor return.
- *Queue*: each producer's requests come out once and in order; no block is lost or in
  two places; the semaphore never promises more than there is; a thread finds its own
  producer.
- *Segmentation*: every pixel is shown once, in its place, to the eye it is for, with
  the attributes of its image; nothing is left over for the next image.
- *Events*: a client that takes itself for registered is; events come in order; every
  call returns.
- *Tile decoder*: who waits for a decoding learns what came of it.
- *QML streamer*: the scene is not touched while it is copied, nor the image while it
  is sent; the window sees one kind of input; the main thread comes back from its waits,
  those of the destructor too.
- *Applications*: a frame shows one turn of all its sources; who is to stop stops.

## 2. Modules

| module | models | builds on |
|---|---|---|
| `ReceiveBuffer` | the buffer of one stream, as operators on values | |
| `FrameDispatcher` | the main thread: streams, connections as its slots see them, the application | `ReceiveBuffer` |
| `StreamRegistry` | abstract specification of the dispatcher: who is in which stream, without frames | |
| `Server` | the workers' threads and the main thread's event queue | composes `StreamRegistry` |
| `StreamSendWorker` | the client: application threads, queue, send thread, constructor and destructor, network failure | the queue as `ProducerFifo` promises it |
| `ProducerFifo` | abstract specification of the queue of requests | |
| `LockFreeQueue` | the queue, at the grain of single memory accesses | composes `FreeList` and `LightweightSemaphore`, implements `ProducerFifo` |
| `ProducerTable` | how a thread finds its producer | |
| `ImageSegmenter` | how an image is cut, as operators | |
| `SegmentPipeline` | an image's way from `Stream::send` to the tiles of a frame | `ImageSegmenter` |
| `EventChannel` | `Observer`, `Socket` and the server's side of registration and events | |
| `TileDecoder` | `TileDecoder` and `ImageJpegDecompressor` in two threads | |
| `QuickRenderer` | main and render thread of an offscreen QML view | |
| `QmlStreamer` | the streamer of such a view, its events and touch points | extends `QuickRenderer` |
| `DesktopStreamer` | the application that shares windows | |
| `SimpleStreamer` | the example application, several of them on one stream | `ReceiveBuffer` |
| `FrameDispatcherProofs`, `ServerProofs`, `StreamSendWorkerProofs`, `LockFreeQueueProofs`, `ProducerTableProofs`, `SegmentPipelineProofs` | theorems about the module of that name | extend it |
| `FifoProofs` | more theorems about `LockFreeQueue` | extends `LockFreeQueueProofs` |
| `EventProofs` | theorems about `EventChannel` and `QmlStreamer` | extends both |
| `ServerProofs`, besides | theorems about `TileDecoder` and `SimpleStreamer` | extends them too |
| `MC...` | instances for TLC | |

An operator named `X_Y` is the operator `X` with a plausible defect `Y`.  No
specification uses it: it shows, when it takes the place of `X`, that a property
notices the defect.  Every module has a `TypeOK`, which documents the types of its
variables.  (Where one module of proofs
extends several modules, the names of a specification tell them apart: `QmlSpec`,
`DecoderSpec`, `StreamerSpec`.)

### ReceiveBuffer and FrameDispatcher

The dispatcher's slots run one at a time in the main thread: each is one action.
`streams` is `Impl::streams`; `conn` is, per identifier of a source, and per observer, what
the posts of its connection have told so far (closed; joined a stream; or *stray*: its stream was
closed, or it was rejected, and its removal has not come yet), with the number of
the frame it is sending.  Identifiers are socket descriptors, and serve further connections
when the one before was removed: the dispatcher takes for granted that they are unique
(`ReceiveBuffer.h:64`), and `Server` is about when they are not.  `opened` counts the signals to the application, `requested` the requests it
has not got a frame for, `received` is the frame of the last step and `sent`, a
history variable, what each source of a stream has sent.

- A tile is a record of its source, its frame and its row order: pixels, position,
  view and channel do not tell anything apart here.  A frame is a set of tiles.
- `consumeLatestFrame` pops frames in a loop.  The model has the closed form
  (`LatestFrame`, `TilesOfFrame`, `Drained`); that it agrees with the turns of the loop
  (`LoopTurns`, of `PopFrame`) is the invariant `DrainIsTheLoop`, checked and proved.
- Assertions are compiled out, as in a release build.  A debug build stops at two of
  them: at a frame that its sources finish without a tile (`consumeLatestFrame`), and
  at a tile for a stream that was closed and opened again (`ReceiveBuffer::insert`).
- A failing frame closes its stream in the same step: `pixelStreamError` is
  connected to `closePixelStream` directly.
- Clients keep to the protocol, as the library does: one OPEN, images and ends of
  frames, one end.  A crash only brings the end forward.

### StreamRegistry and Server

`StreamRegistry` keeps of the dispatcher which streams there are and who is joined,
stray or closed.  A stream closes with its last connection, by a bad frame, or by the
application; a source that is joined keeps it open.  `FrameDispatcher` implements it
under the mapping `open <- DOMAIN streams`, `member <- conn` without frame numbers
(`ImplementsRegistry`; checked, and proved), where sources have identifiers of their own:
`Leave(c)` is `Forget(c, {})`.  `Forget(c, same)` is what the removal of `c` does to other
sources `same` under its identifier: the buffer has one entry for all, so they lose
their place in the stream with it.

`Server` runs the registry's actions from the main thread's event queue `posts`, in
the order the workers have posted.  Per connection there is its `client` (is the link
up; what did it send before it left that is unread) and its `worker` (idle in the
event loop, draining a closed socket, blocked until a registration is answered, or
ended; told to quit; close signals it has not received).  An action of a worker is the
handling of one message, or one slot; `~ServerWorker` is `EndThread`.  `Descriptor` gives
each connection the descriptor by which the dispatcher knows it; the connections that
have one in common are accepted one after the other.

- The system gives a descriptor out again when the socket is closed.  That is when
  `QTcpSocket` sees the end of the connection, before it says so; the worker goes on
  with what it has to read, waits for the quit to come back from the main thread, and only
  `~ServerWorker` posts the removal.  So `Accept` asks that no worker with the descriptor
  is `connected`, and not that it has ended.  `shared` remembers the connections that this
  happened to.

- A message is in the model when the worker handles it, if its client is still
  connected, since it has no effect before; when a client leaves, by QUIT, crash or
  a loss of the network that TCP reports, any prefix of what it might have sent remains to
  be read.  The server sets no keepalive: a silent loss is not noticed, and the client stays.
- "data" stands for a tile, or the end of a frame: for the worker both are a signal
  to pass on, and for the registry both are `Send`.
- `connectionClosed` reaches the worker's thread object through the main thread,
  where thread objects live: `quit` is a post like the others (`DeliverQuit`).  Once that
  thread is gone the post has no effect (`WithoutQuit`, `DeliverNothing`): it does not
  reach the next connection under the same descriptor.
- `~Server` runs in the main thread, which delivers nothing meanwhile.

### StreamSendWorker

`queue` and `tokens` are the vendored queue by its contract: to enqueue is to append
to the thread's FIFO (`Call`) and then to signal the semaphore (`Signal`); to dequeue is
to take tokens (`TakeTokens`) and then as many requests, from whichever FIFO
(`Collect`).  That the queue keeps this contract is what `LockFreeQueue` is about.  The
worker's loop is `BeginRun`, `CheckRunning`, the dequeuing, and one action per request;
what the request's tasks send is `Message`, and `FinishNow`, `PostponeFinish` and
`RefuseFinish` are the ways of an end of a frame.  `wire` and `answer` are what was sent
and what each future holds.  `owner` walks through constructor and destructors.

- The application is the one of the documentation and the tests: threads send in
  parallel, the owner joins them before it finishes a frame or destroys the stream,
  and a frame it finishes by itself has an image.  `sendAndFinish` of a small image is,
  in the code too, a send and then `finishFrame`.
- Small images are compressed by the caller and have no future; large ones are
  compressed by the worker, which may throw.

### LockFreeQueue, FreeList, LightweightSemaphore, ProducerTable, ProducerFifo

One action is one access to memory that threads share, with what its thread computes
from it.  `FreeList` and `LightweightSemaphore` are modules of their own, whose actions
`LockFreeQueue` takes as the steps of its threads: a producer that needs a block is in
`TryGet`, the consumer that has emptied one is in `Add`.  `put` and `get` are the local
variables of producers and consumer; the other variables have the names of the
source's members.  `elements` are numbered per producer, which is the mapping to
`ProducerFifo` (`FifoSpec`): `enqueued <- Sent(p)`, with the same `received`.

- Sequential consistency is assumed: an access takes effect at once for all threads.
  The acquire and release fences of the code are not told apart.
- A `compare_exchange` with the load before it is one step that may fail when
  another thread was faster; a weak one that fails for no reason repeats the step.
- A position is a number modulo `IndexRange`, which stands for 2^64; comparisons of
  positions are the code's circular ones.
- `ProducerTable` has the look up that comes before: hash tables linked to their
  predecessors, resized by one thread at a time, the allocation of which may fail.  The
  size of a new table is the first doubling of the old one's that the threads counted fill
  less than half of.

### ImageSegmenter and SegmentPipeline

`ImageSegmenter` are operators from an image to its segments: rectangles, the eye each
is for, the index of its first pixel in the image's buffer, and what the bytes of a
pixel are taken for.  `SegmentPipeline`
carries them: the request waits for the send thread; the pool compresses `waiting`
segments in any order into `sendQueue`; the send thread takes as many as there are, and
sends each, after a message for each attribute that is not `current` any more; the
server's worker stamps the `active` attributes on each tile.  A compression may fail, and
the connection may break, at any point.

### EventChannel

Messages are headers and bodies, which arrive apart (`up` and `down`: in flight, and
arrived).  Timeouts may strike whenever what is awaited has not arrived.  A client that
has given up a body is not `inStep` any more: what it takes for a header is the rest of
a message.  The worker is `starting` (the version is exchanged), in its `loop`, in a
`body`, `blocked` until the application answers, or `off`; `slots` are the signals its
event loop has not delivered.

### TileDecoder

Two threads may be in `_decodeTile`: the application's, and one of the pool's.  A call
walks through the header, the check of the dimensions, the decoding into a new buffer,
the assignment to the tile.  Contents are JPEG data of known and unknown samplings,
broken in the header or after it, of other dimensions than the tile, or raw.

### QuickRenderer and QmlStreamer

`main` is where the main thread is: in its event loop, or in a call that blocks; `tasks`
is the event queue of the render thread, and `images` that of the main thread.  The
handshake is the one of the condition variable: the main thread holds the mutex, posts
the event, waits (which lets go of the mutex); the render thread takes the mutex, copies
the scene, wakes the main thread, renders.  `QmlStreamer` adds the slots of the main
thread: a rendered image opens the stream, waits for the one before it, is sent; the
stream ends when the server closes it, or with the streamer; the window's events go to
the touch injector, which turns a touch that is held for a while into a mouse.

### DesktopStreamer and SimpleStreamer

`DesktopStreamer` has the update loop of the main window: streams are opened and closed
as windows are selected, events are read, an image of each is sent when the last one
was, and it must not change while the send thread reads it.  `SimpleStreamer` has the
loop of the example: several processes share a stream, each sends its views and
channels, waits for the results, finishes the frame; the server is a `ReceiveBuffer`.

## 3. Runs

| run | instance | question |
|---|---|---|
| `frames` | 1 stream, 2 sources, 1 observer, 3 frames, 2 row orders, queue limit 2 | are frames whole, aligned, on request; is the queue sound; do streams live as they should; is the registry implemented? |
| `server` | 2 sources with one descriptor, 1 observer that registers, 2 connections, registrations, closes, shutdown | do workers and dispatcher agree; does whoever is gone leave; does the destructor return? |
| `send` | 2 threads, batches of 2, 3 calls of the owner and 2 of the other | is each image in its frame; is everybody answered, once; do constructor and destructor return? |
| `segments` | segments of 2 x 2, 2 of 8 images | is every pixel where it belongs, with its attributes; is the queue empty between images? |
| `events` | 2 calls of the client, 2 events | registration and events, with timeouts everywhere |
| `qml` | 3 frames, 2 touch points, 3 sizes | scene, image, input, and the handshake of the threads |
| `queue` | 5 and 2 requests of 2 producers, bulks of 3, blocks of 2 | does the queue implement a FIFO per producer; where are its blocks? |
| `producer_table` | 3 threads, tables of 1 and more, 1 failed allocation | does a thread find its own producer, always? |
| `desktop` | 2 windows and the desktop, 2 images | do streams end once they are to? |
| `simple` | 2 processes, 3 and 2 frames | does a frame show one turn of all its sources; does anybody hang? |
| `decoder` | 2 tiles, 2 threads of the pool | does who waits learn the outcome? |

and one violation, `server_stop_bind`: a worker that waits for the answer to a
registration, and the destructor of the server, wait for each other (`ServerStops`, a
sentence of `Server.h`, see the findings of `PROJECT.json`).

Run `server` has one more disagreement, which its properties except by name (`shared`): two
sources may be in one stream under one identifier, where `ReceiveBuffer.h:64` asks for a
"Unique source identifier".  The first has lost its connection, and its worker has not
ended; the second gets its descriptor.  If the stream has not begun, the second is taken
for the first, and is taken out of the stream when the first is removed.  If nobody else
is in it the stream closes, the second is not told, and its images go nowhere; otherwise
its next image makes another buffer, which is behind the others' and keeps them waiting.
`pixelStreamOpened` is emitted once more, too, if there are no others
(`FrameDispatcher.cpp:115`).  If the stream has begun, the second is rejected like any
other.  So what the run `frames` and the theorems of `FrameDispatcherProofs` say is said
of unique identifiers only; and `PostsFit`, `SamePicture` and `StraysLeave` say that nothing
else than such an overlap confuses two sources, and what is not lost even then.  Without
the exception in `PostsFit` TLC finds it violated.

**Bounds.**

- `frames`: `MaxQueueSize` is 2 instead of 150, so that the limit is met; three frames
  let one source be two frames ahead, and frames be skipped, popped and pushed again;
  `FrameIndexSpan` (2^32 in the code) exceeds them: frame numbers do not wrap around.
  Two sources suffice for one to hold back, outrun, join after or survive the other.
  Several streams and observers are covered by the proofs.
- `server`: two accepted connections let one leave while the other stays, and a
  descriptor be used again with posts of its last user on their way, or its worker not
  yet ended; two registrations of one client let it ask again.  The messages that a
  client leaves unread are OPEN and QUIT (`MaxUnread` is 0, to keep the run short);
  tiles and registrations among them, and any other bound, are covered by the proofs.
- `send`: two producing threads, with batches of two requests, interleave append,
  signal and dequeue in all ways; three calls of the owner hold a frame, an image of the
  next, and its end, behind a finish that was postponed.
- `segments`: widths and heights that are multiples of a segment and that are not, one
  and two eyes, both row orders, three orders of the bytes of a pixel, compressed, raw,
  small and refused images.  Two of them
  show what the first leaves behind.
- `events`: two registrations are needed for a reply to be taken for another's; two
  events for an order.
- `queue`: blocks of two elements fill and empty within a few requests; an index of two
  entries is outgrown by five; a pool of two blocks makes others be allocated and
  recycled; 16 positions, of which 14 have been used, wrap around.  Memory has `MaxBlocks`
  blocks, six, more than the requests need at once.
- `producer_table`: a table of one entry is replaced by the second thread, and again by
  the third; two of the hashes collide.
- `qml`, `desktop`, `simple`, `decoder`: three frames are the shortest way to one being
  rendered, one waiting and one being sent; two windows to one being closed while
  another goes on; two processes to a frame of which one part is missing; two tiles to
  one decoded while another waits.

**What rests without fairness.**  In `Server` and `StreamSendWorker` every step of a
thread uses something up: a message, a post, a request, a stage of its life.  So threads
come to rest if nobody calls them again, and "something happens in the end" is an
invariant of the states in which no thread can go on (`Quiet`): `GoneClientsLeave`,
`StraysLeave`, `ShutdownReturns`, `AllAnswered`, `DestructorReturns`.  `Quiet` lists the
guards of `ThreadStep`, so that one can prove about it; on the instances of the runs it
is TLC's `~ ENABLED << ThreadStep >>_vars`.  No fairness is needed, but that a thread
that can go on does.  A finish may starve in the send worker
while the application goes on sending other data: `AllAnswered` is about an application
that makes finitely many calls.

**Fairness.**  The other modules state weak fairness of what runs by itself:

- `EventChannel`: TCP delivers, or breaks; threads run, and timeouts end their waits.
- `SegmentPipeline`: the send thread and the pool.
- `QuickRenderer`, `QmlStreamer`: the two threads, posted events, the send thread.  Not
  the user, not the server; a component is ready at some time, unless it is remote.
- `ProducerTable`: each thread in its look up.
- `DesktopStreamer`, `SimpleStreamer`: the main thread with its timers, the send threads.

Nothing is assumed of what applications call or clients do.  In
`EventChannel` the application may never answer a registration, and then its worker waits.

**Deadlock** is checked in `frames`, `server` and `producer_table`; `Rest` is the state of
a server that nobody uses.  The other instances stop for good when the calls that
their bounds allow are made, or the stream is destroyed; what must not stop before is
a property of theirs.

**Where the code does not what is said.**  Besides the finding, the models show, or
leave out, the following; no run is spent on them.

| place | what happens | what is said |
|---|---|---|
| `FrameDispatcher.cpp:130` | a frame that the departure of a source completes is not sent to the application that waits for it | `Server.h:88` |
| `FrameDispatcher.cpp:151` | the removal of an observer of a closed stream closes the stream of the same name under another observer | |
| `ReceiveBuffer.cpp:55` | a source that joins after all the others have finished a frame is accepted as long as none was consumed | `ReceiveBuffer.h:65` |
| `ServerWorker.cpp:145` | a thread told to quit leaves messages of its closed socket unread | |
| `ServerWorker.cpp:372` | to register again is an error, which ends the connection | `Observer.h:155` |
| `ServerWorker.cpp:71` | no keepalive: a client that is lost silently stays a member of its stream | |
| `StreamPrivate.cpp:222` | an image is accepted while the end of its frame is pending, after an earlier end was sent | `Stream.h:132` |
| `StreamSendWorker.cpp:100`, `116` | the end of a frame may be sent before an image of another thread; the request that closes the stream overtakes a postponed finish | |
| `StreamSendWorker.cpp:54` | on one core the worker dequeues nothing at a time | |
| `StreamSendWorker.cpp:167`, `173` | the result of `enqueue` is ignored: without memory a request is lost, and its future is never answered | |
| `StreamPrivate.cpp:103` | identifiers that are made up come from `rand()`, which nobody seeds | |
| `Stream.h:129` | the future of a small image is true although it was not sent | |
| `ImageSegmenter.cpp:206` | a raw image that is not at the origin is read from a place that is off by its position | `ImageSegmenter.cpp:157` |
| `ImageSegmenter.cpp:76` | an image without pixels has a segment | |
| `OffscreenQuickView.cpp:144`, `152` | a component with errors sets `_loadPromise` twice | |
| `QmlStreamerImpl.cpp:90` | the main thread waits for a remote file that only its event loop could load | |
| `QmlStreamerImpl.cpp:98` | a streamer that sends asynchronously frees its image, in its destructor, while the send thread may read it | `Stream.h:128` |
| `QmlStreamerImpl.cpp:136` | a stream may be closed with `_mouseMode` set, and without a view: an image that was posted before comes after, opens a new stream, and asks the view that is gone for the identifier (line 284), or for the place of the next touch: null pointers are dereferenced | |
| `QmlStreamerImpl.cpp:119` | nothing more is streamed after an empty image: its future was read | |
| `QmlStreamerImpl.cpp:361` | a touch where the scene has no item dereferences a null pointer | |
| `QmlStreamerImpl.cpp:296` | size hints are sent when the stream is opened only if they are not the defaults | |
| `TouchInjector.cpp:167` | the map is asked whether it is empty after the point was inserted | |
| `MainWindow.cpp:395` | other exceptions than `stream_failure` end the program | |
| `apps/SimpleStreamer/main.cpp:344` | applications of one stream go "quickly out of sync", as the comment there says: a frame has the same turn of all, by the number of frames each has finished, and not the same time | |
| `apps/SimpleStreamer/main.cpp:298` | an exception of the result of a send ends the program | |
| `TileDecoder.cpp:70` | the destructor does not wait for the decoding | `TileDecoder.h:99` leaves it to the caller |

The raw image is `RawElsewhere` of `MCSegmentPipeline`: with `Images <- AllImages` the
run `segments` finds `ImagesArrive` violated.  `MainReturns` excepts what the main thread of
a QML streamer does not come back from: the wait for a remote file, and the crashes of a
late image (`Doomed`) and of a file with errors.  Run `qml` has `Destroys = {FALSE}`: with
`TRUE` it finds `ImageKept` violated, by the destructor that frees the image.

## 4. Proofs

Each `...Proofs` module proves its theorems for every value of the constants that the
assumptions of the modules allow.  They all have the form of an inductive invariant
(`Inv`, `IInv`, `QInv`, ...): it holds initially, every step keeps it, with a lemma per action, and
it implies the property.  A bound of a run, as a number of calls, is a constant here:
the theorem holds for any.

| module | theorem | property |
|---|---|---|
| `FrameDispatcherProofs` | `TypeCorrect` | `TypeOK` |
| | `QueuesNeverEmpty` | `QueuesSound` |
| | `AlignmentKept` | `FramesAligned` |
| | `FramesWhole` | `WholeFrame` |
| | `ClosedFormIsTheLoop` | `DrainIsTheLoop` |
| | `AppViewCorrect` | `AppViewAccurate` |
| | `NoLeak` | `NoLeakedStream` |
| | `OneFramePerRequest` | `FrameOnlyOnRequest` |
| | `OnlySourcesStrand` | `OnlyRemovalStrands` |
| | `DispatcherImplementsRegistry` | `ImplementsRegistry` |
| `ServerProofs` | `PostsAlwaysFit` | `PostsFit` |
| | `SamePictureKept` | `SamePicture` |
| | `GoneClientsHaveLeft` | `GoneClientsLeave` |
| | `StraysHaveLeft` | `StraysLeave` |
| | `ShutdownHasReturned` | `ShutdownReturns` |
| | `ServerTypeCorrect` | the types |
| | `WaitTellsTheOutcome` | `WaitTellsOutcome` |
| | `FramesShowOneTurn` | `OneTurnOfAll` |
| `StreamSendWorkerProofs` | `PromisesKept` | `AnsweredOnce` |
| | `TilesKeptInTheirFrame` | `TilesInTheirFrame` |
| | `EverybodyIsAnswered` | `AllAnswered`, if `BatchSize # 0` |
| | `WaitsOfTheOwnerEnd` | `DestructorReturns`, if `BatchSize # 0` |
| | `SendTypeCorrect` | the types |
| `LockFreeQueueProofs` | `WakeUpsNotLost` | `SemaphoreAgrees` |
| `FifoProofs` | `BlocksStayInOnePlace` | `BlocksInOnePlace` |
| | `QueueIsFifo` | `FifoSpec` |
| `ProducerTableProofs` | `ProducerAlwaysOwn` | `OwnProducer` |
| | `CountIsOfThreads` | `hashCount` counts the threads with an entry, or about to have one |
| `SegmentPipelineProofs` | `NothingIsLeftBehind` | `NothingLeftBehind` |
| | `AttributesAlwaysTravel` | `AttributesTravel` |
| | `SegmentsPartitionTheImage` | the segments of an image are within it, disjoint, and cover it |
| | `AnsweredImagesAreComplete` | `Complete`, of any image |
| | `ImagesAlwaysArrive` | `ImagesArrive` |
| `EventProofs` | `EventsKeptInOrder` | `EventsInOrder` |
| | `RegistrationAlwaysAgrees` | `RegistrationAgrees` |
| | `ChannelTypeCorrect` | the types |
| | `SceneKeptAtRest` | `SceneAtRest` |
| | `ImageAlwaysKept` | `ImageKept` |
| | `OneKindOfInputKept` | `OneKindOfInput` |

**Assumptions.**  Those of the modules, which TLC evaluates in the runs, and nothing else:

- `BufferAssumption`, `DispatcherAssumption`: frame numbers do not wrap around (2^32
  frames in the code), finitely many observers, and who is a source is no observer.
- `ServerAssumption`, `WorkerAssumption`, `EventAssumption`: the bounds are naturals, the
  owner is a thread, "no uri" is no uri, and every connection has a descriptor, which it
  may have in common with any others.
- `QueueAssumption`, `FreeListAssumption`: producers are listed once, are not the
  consumer, and finitely many; the range of positions (2^64) and the first of them are
  multiples of the size of a block, as the code has it, and none enqueues as many requests
  as there are positions, in all its life.  Positions do wrap around.
- `RingAssumption`: the capacity of a block index divides the number of blocks that there
  are positions for, and so does each of its doubles up to that number: in the code these
  are powers of two (`concurrentqueue.h:1006` and `1018`).
- `TableAssumption`: finitely many threads, with a hash each.
- `DecoderAssumption`: contents have natural dimensions, and the main thread is not one of
  the pool's.
- `StreamerAssumption`: an application finishes fewer frames than there are frame numbers
  (2^32); with more of them the buffer would lose count of who is ahead of whom.
- `NominalAssumption`, `ImagesAssumption`: sizes of segments are naturals, and images have
  pixels (`createSingleSegment` of an image without any is undefined).
- `EverybodyIsAnswered` and `WaitsOfTheOwnerEnd` assume `BatchSize # 0`.  A worker on a
  single core dequeues nothing at a time (`StreamSendWorker.cpp:54`, section 3) and
  answers nobody: without the assumption both are false.
- `ImageAlwaysKept` assumes `TRUE \notin Destroys`: a streamer that sends asynchronously is
  not destroyed while it sends.  Its image is its own member, and nothing waits for the
  send thread: without the assumption the property is false.
- `ImagesAlwaysArrive` assumes that images are `Placeable`: not copied in several segments
  from a place other than the origin.  Those are read from the wrong place
  (`ImageSegmenter.cpp:206`, section 3), and the property is false of them.  The other
  theorems about segments hold of them too; the images of run `segments` are all
  placeable.

**FrameDispatcher.**  Alignment of the sources that have joined is not inductive: the
queues of *stray* sources, which a reopened stream does not know and adopts, and which
later frames wait for, must be sound too, or popping would meet an empty queue.  So
`SourceOK` says, of every source buffer, joined or not, that it belongs to a connection,
that its length is within the limit, and that its back index is behind both its
connection's frames and the buffer's (`sb.back + 1 <= last + Len`); and of the joined ones
that they hold exactly what was sent.  `StreamOK` adds that joined sources have a buffer
and that observers are not counted twice, by the cardinality of those connected; `ConnOK`
that the history has no tile of a frame not begun.  There is a lemma per operation of the
buffer (`InsertTileLemma`, `DrainOK`, ...), and one for each way an action changes a stream
(`SetStreamInv`, `DeleteStreamInv`).  `OneFramePerRequest` needs a second invariant,
`Permitted`: a buffer that may send was requested.  The refinement needs `Inv` before and
after a step: a stream that stays when a connection leaves has another one
(`StreamHasConnection`).  `ClosedFormIsTheLoop` gives the state after each turn of the loop
(`Popped`), shows that it continues the one before (`PopOnce`) up to the source that is
furthest behind, and that what is defined turn by turn is defined once (`TurnsOfTheLoop`).

**Server.**  `PostsFit` looks at the next post only.  What is inductive is about the whole
queue: of each connection, the posts continue one another as in the life of a stream
(`Follows`), from what the dispatcher knows (`FirstFits`) to what the worker has started
(`LastFits`; `NoneFits` if no post is on its way).  A post is appended by a worker at one end,
and taken, by a step of the dispatcher, at the other; the posts of other connections in
between do not matter, which is why the invariant says "the last mark before it" and
not "the post before it".

That posts of one source are not taken for another's needs a second invariant,
`TurnsInv`, about two connections with one descriptor that did not overlap: they take turns.
Of one of them it is all over (`Over`: its worker has ended, and its removal is in the queue
or was delivered) before the other began, so in the queue the posts of the one precede
those of the other (`Precedes`), and the one is still a member only when no post of the
other was delivered (`FreshFits`, `TakesTurns`).  The rest is the queue again: a post that is
appended is behind all, and one that is taken was before them.

How the threads come to rest needs a third invariant, `RestInv`, relative to these.
It has, for each wait of a thread, what will end it.  Who waits for an answer has its
question in the queue, and whose socket is closed was told to quit or will be
(`WakesUp`).  What a client has left unread can be read from where its worker is in the
stream (`InboxFits`): a drain that has messages left takes a step.  A stray source is told
to leave, or has the signal waiting that its stream is closed, unless a post about its
membership is on its way (`StrayFits`); without such a post its worker is in that very
stream, by `NoneFits`, so the signal is not for another.  At rest nothing is posted, and
a thread that is not gone is idle and has nobody to leave for.

**StreamSendWorker.**  `Pipe` are the requests in queues, in the batch and postponed.
`Ordered` has those of one thread in the order of its calls, the batch before the
queues and the postponed finish before both; `Unanswered` has no answer for what is in
the pipe, which makes `AnsweredOnce` an action property of the invariant.  `FramesFit` counts
the ends of frames that were sent: images in the pipe belong to that frame at the latest,
and the owner's exactly; there is one end of a frame at a time, pending, and behind its
owner's images.  It holds where each image of the owner has its end in a request of its
own (`EndsApart`), as `TilesInTheirFrame` says too.

What rests is `RestInv`: what has no answer is in the pipe (`Awaited`), so it is enough that
the pipe empties.  The worker sleeps by the semaphore, which counts requests and not yet
those whose thread is between `enqueue` and `signal`: `TokensFit` equates the requests that
are queued with the tokens, what the worker has claimed, and the threads that are about
to signal.  At rest nobody is about to, and no token is left: the queues are empty, and no
finish is postponed.  `LifeFits` relates the worker's life to the owner's: that the request
the owner waits for was made, and that a worker the owner waits for was told to stop.

**LockFreeQueue.**  What is in the queues is a sum over the producers, less what the
consumer is about to take: `Balanced`.  `WakesFit` says of the semaphore who is about to
signal, and of the consumer that it sleeps only with nothing promised.  `IndexesFit`,
`PutsFit`, `GetsFit` tie the positions, which wrap around, to numbers of elements, which do
not.  The sums are reached by a smallest counterexample (below).

The second invariant of the queue, `QInv`, is about its blocks and what is in them, and
relative to the first.  It says that there is a function that gives each block its place
(`QNow(place, n)`): unused, in the hand of a producer, the `num`-th block of the index of
a producer, the `num`-th of the list that has `n`, or between the two: owed to the list, or
with the thread that is about to link it.  A place is a value, so that no block can be in
two; the parts of the invariant say that everything that names a block agrees with its place,
and every step but the destructor's moves at most one block (`Moves`).  The parts are:

- *The free list* (`FreeListFits`).  The chain from its head has the blocks placed there, in the
  order of their numbers.  `refs` of a node counts the threads that look at it
  (`Lookers`, a finite set), plus one if it is in the list; the flag `SHOULD_BE_ON_FREELIST` is
  there exactly if the block is owed, or about to be linked.  A node that a thread looks at
  may be taken and given back by others, but is owed then, and not linked again: if the
  compare-and-exchange finds it at the head it has been there all the time, and the `next`
  that was read is the node's still (`CallFits`).
- *The index* (`RingFits`).  The entries from the oldest to the last one that was published have
  the keys of consecutive blocks, and the free ones have no block.  `Rem`, `Ins`, `Pub` number
  the blocks that were removed, inserted and published.  They are functions of the
  numbers of elements and of where the threads are, and not state.  An index that doubles
  keeps the numbering (`RingDoubles`), by arithmetic of `%` on powers of two.
- *The consumer's scan* (`ScanFits`).  The header it has read may be an old one, of an index that
  was replaced since: it still leads to every block up to the last that was published
  when the consumer claimed its elements (`Scans`), which is as far as it goes.
- *The elements* (`BlocksFilled`).  A block counts what has come out of it, and holds
  the elements that its number stands for from there to the end of what was put in.

`BlocksStayInOnePlace` counts the places of a block; `QueueIsFifo` is what `MoveElements` and
`TryDequeue` take out, which by `BlocksFilled` are the next numbers, and that every
other step but `Publish` leaves `enqueued` and `received` alone.  At the end nobody runs but
the destructor: `DestroyFrees` follows it over the producers, each giving its last block back.

**ProducerTable.**  A table `Says` the truth of a thread and the thread finds it: its
entry is the first on its way that is free or its own (`First`).  New tables are linked in
front of others that have the entry, so a search may add a second one: of the same
producer.  `ProducersFit` has no producer owned by two threads, counting those that are
made and not yet in the list.

**SegmentPipeline.**  `PoolFits` counts: segments compressed or not, and not yet taken, are
those left to wait for.  Attributes travel in messages before the tiles: `Hears` says which
value the server's worker has of an attribute after reading some of the messages that are
on their way, and `Sound` that each tile among them is heard with its image's, and that
the send thread's `current` values are those after the last message.  A message appended
or read then keeps it.

`ImagesArrive` needs three things more.  *What* is under way: each request, compressed
segment, message and tile is that of a segment `n` of an image `k` (`RequestsFit`,
`TilesFit`, ...), which is still part of `IInv`.  *How often*, which is a second invariant,
`JInv`, relative to the first: no segment is twice in the places where it can wait
(`WaitsOnce`); it is on the wire or among the tiles that arrived, never both, once, and only when
it is `Handled` (`ThereOnce`); and as long as the connection lasts a handled one of an image that was
answered is in one of the two (`Sent`).  Two segments have different messages because
they are of different pixels.  *Where*: geometry, which is arithmetic of `\div` and `%`
on sizes that may be multiples or not (`SegmentsWithin`, `SegmentsCover`, `TilesDiffer`),
and that mirroring the tiles of a channel puts each row where `RowShown` says
(`ShownThere`).  At rest every segment is handled and none is on the wire, so all have
arrived: `ImagesComplete`.

**EventChannel.**  Events pass through four places; `EventsRise` has watermarks between them:
the numbers in one place are below those in the place behind it.  `InFrame` has the
headers and bodies, as long as the client is in step; a client that has given up a body
takes nothing for an event again, so the order survives.  `RepliesAgree` holds because a
worker that has accepted never takes it back.

**TileDecoder.**  While the future is pending exactly one thread decodes, one of the pool,
and the tile it decodes is what it was when the decoding was started (`RunFits`); a call
that has come as far as an image has found its header good.  A decoded image has the
size that is expected just when it has the dimensions of the tile
(`SizeTellsDimensions`), so a call returns just when its tile was decodable.

**SimpleStreamer.**  The server does not know which images an application has to send, and a
frame is nothing but the tiles that came before its end.  What makes it whole is the order of
the messages, so the invariant has a *script*: the images of turn 1 in the order of
`Passes`, the end of turn 1, the images of turn 2, and so on.  A place of the script is a turn
and an image (`Places`).  Each source buffer holds the script up to some place
(`SourceFits`), the application has sent it up to another (`AppAt`, by `finished` and `plan`), and
the wire is the script between the two, with the end of the stream after it if the
application has ended (`Flow`, of `Chain`).  Who is no source has nothing on the wire, or OPEN and
then the script from its first place: a late source is rejected before its images could
count as those of turn 1.  `PlanFits` holds only while the application is connected, since a failed send
empties the plan.  All sources are popped together, up to the same number: so
the tiles at index `n - last` of every queue are of turn `n` (`SourcePops`), and whole; and
none of the sources there are then is left out.

**QmlStreamer.**  `TasksFit` and `MutexFits` have the handshake: the render thread has no task
but the one the main thread waits for, and copies only when the main thread has begun to
wait.  `SendFits` has the image: the slot of an image waits for the one before, so nothing is
under way when it is replaced, and the destructor begins in the loop.  `InputFits` has touch
points and button as long as there is a view; a stream that ends takes it along.

**What the prover does not reach**, and stays with TLC:

- fairness and liveness: `GenerateReturns`, `NobodyWaitsForEver`, `EventsArrive`,
  `MainReturns`, `LookUpEnds`, `StopsInTheEnd`, `NobodyHangs`;
- `ENABLED`: that `Quiet` is the state in which no `ThreadStep` is possible;
- the library's induction theorems, whose parameter is an operator.  Induction over
  numbers is done by a smallest counterexample instead (lemma `Smallest`, from the theorem
  that a well-founded relation has minimal elements): the turns of a loop, the sums of the
  queue, the doublings of a table.

So every safety and action property of the passing runs is proved.  `DesktopStreamer` has
only a liveness property, and no proofs.

## 5. Not modelled

- Of the queue: explicit producers, tokens, bulk enqueue, producers that are recycled
  when a thread ends, memory orders weaker than sequential consistency.  The client does
  not use the first three.
- The contents of size hints, data and events: the server passes them on.
- Keys, gestures and positions of touches, which are translated one by one.
- The synthesis of mouse events on macOS, window lists, option parsing, user interfaces.
- How host, port and identifier are found.
- JPEG, Qt, OpenGL: libraries.
- Clients that do not keep to the protocol.

## 6. What could follow

The plan is carried out: all the modules above, and proofs about ten of them.  A possible
next step is an abstract frame barrier (each source delivers frames 1, 2, ...; the
receiver gets a growing sequence of whole ones) implemented by `FrameDispatcher` for a
fixed group of sources.
