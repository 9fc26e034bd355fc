------------------------ MODULE StreamSendWorkerProofs ------------------------
(***************************************************************************)
(* Proofs about StreamSendWorker: its type invariant, that a promise gets  *)
(* one value (AnsweredOnce), and that images and ends of frames go out in  *)
(* the frame they belong to (TilesInTheirFrame), for any number of threads *)
(* and calls, and any size of a batch.  And, for batches of one request at *)
(* least, how the threads come to rest: every future has its answer        *)
(* (AllAnswered), and the owner has got through its waits, the one of the  *)
(* destructor for the worker included (DestructorReturns).                 *)
(***************************************************************************)
EXTENDS StreamSendWorker, FiniteSetTheorems, SequenceTheorems, TLAPS

-----------------------------------------------------------------------------
(* The inductive invariant                                                 *)

\* The bounds: what each thread may have called, and how far the frames are.
CallsFit ==
    /\ \A p \in Producers \ {Owner} : calls[p] <= MayCall(p)
    /\ owner \in {"new", "opening", "alive"} => calls[Owner] <= MayCall(Owner)
    /\ owner \in {"closing", "stop"} => calls[Owner] <= MayCall(Owner) + 1
    /\ IF owner = "new" THEN calls[Owner] = 0 /\ frame = 1 ELSE frame <= calls[Owner]

\* The worker has as many requests as it has made room for.
BatchFits ==
    /\ worker = "collect" => need >= 1
    /\ worker # "collect" => need = 0
    /\ worker = "handle" => batch # << >>
    /\ worker \notin {"collect", "handle"} => batch = << >>
    /\ Len(batch) + need <= BatchSize

\* The requests between the calls and their answers.
InQueue(r) == \E p \in Producers : \E n \in 1 .. Len(queue[p]) : r = queue[p][n]
InBatch(r) == \E n \in 1 .. Len(batch) : r = batch[n]

Pipe == {r \in Requests : InQueue(r) \/ InBatch(r) \/ r = postponed}

\* A thread's requests are answered in the order of its calls.
Before(q, r) == q.id[1] = r.id[1] => q.id[2] < r.id[2]

Issued(r) == r.id[2] <= calls[r.id[1]]

QueuesOrdered ==
    \A p \in Producers : \A n \in 1 .. Len(queue[p]) :
        /\ queue[p][n].id[1] = p
        /\ \A m \in 1 .. n - 1 : Before(queue[p][m], queue[p][n])

BatchOrdered ==
    \A n \in 1 .. Len(batch) :
        /\ \A m \in 1 .. n - 1 : Before(batch[m], batch[n])
        /\ \A r \in Requests : InQueue(r) => Before(batch[n], r)

PostponedFirst ==
    postponed # None =>
        /\ postponed.kind = "finish"
        /\ \A r \in Requests : InQueue(r) \/ InBatch(r) => Before(postponed, r)

Ordered == QueuesOrdered /\ BatchOrdered /\ PostponedFirst

\* Nothing in the pipe has been answered.
Unanswered ==
    /\ \A r \in Pipe : /\ Issued(r)
                       /\ HasFuture(r.kind) => r \in DOMAIN answer
                       /\ r \in DOMAIN answer => answer[r] = "none"
    /\ \A r \in DOMAIN answer : Issued(r)

\* No image whose end of frame may get lost with it.
EndsApart == \A r \in DOMAIN answer : r.kind # "largeAndFinish"

FinishesSent == FinishesBefore(Len(wire) + 1)

\* What is on its way belongs to the frame that the server is at.  There is one end of
\* a frame at a time, and it comes after the images of the thread that called for it.
FramesFit ==
    /\ frame = FinishesSent + 1 + IF finishPending THEN 1 ELSE 0
    /\ drawn => ~ finishPending
    /\ \A r \in Pipe : HasImage(r.kind) =>
          /\ r.frame <= FinishesSent + 1
          /\ r.id[1] = Owner => r.frame = FinishesSent + 1
    /\ \A f \in Pipe : f.kind = "finish" =>
          /\ finishPending
          /\ f.frame = FinishesSent + 1
          /\ f.id[1] = Owner
          /\ \A g \in Pipe : g.kind = "finish" => g = f
          /\ \A r \in Pipe : HasImage(r.kind) /\ r.id[1] = Owner => r.id[2] < f.id[2]

\* So was what it got.
TilesFit ==
    \A n \in 1 .. Len(wire) : wire[n].type \in {"tile", "finish"} =>
        LET r == wire[n].of
            current == FinishesBefore(n) + 1
        IN  /\ r.frame <= current
            /\ r.id[1] = Owner => r.frame = current

Fits == TypeOK /\ CallsFit /\ BatchFits

Submitted == Fits /\ Ordered /\ Unanswered

IInv ==
    /\ Submitted
    /\ EndsApart => FramesFit /\ TilesFit

-----------------------------------------------------------------------------
(* The types                                                               *)

Msgs == [type : {"open", "tile", "finish", "data", "quit"}, of : Requests]

\* What the worker sends for a request is at most an image and the end of a frame.
LEMMA MessagesTyped ==
    ASSUME NEW r \in Requests
    PROVE  Messages(r) \in Seq(Msgs)
<1> DEFINE tile == [type |-> "tile", of |-> r]
           finish == [type |-> "finish", of |-> r]
           data == [type |-> "data", of |-> r]
           open == [type |-> "open", of |-> r]
           quit == [type |-> "quit", of |-> r]
<1>1. /\ tile \in Msgs /\ finish \in Msgs /\ data \in Msgs
      /\ open \in Msgs /\ quit \in Msgs
  BY DEF Msgs
<1>2. r.kind \in AllKinds
  BY DEF Requests
<1>3. /\ Tile(r) = IF HasImage(r.kind) THEN << tile >> ELSE << >>
      /\ FrameEnd(r) = IF EndsFrame(r.kind) THEN << finish >> ELSE << >>
      /\ Data(r) = << data >>
      /\ Ends(r) = IF r.kind = "open" THEN << open >> ELSE << quit >>
  BY DEF Tile, FrameEnd, Data, Ends, Message
<1> HIDE DEF tile, finish, data, open, quit
<1>4. /\ Tile(r) \in Seq(Msgs) /\ FrameEnd(r) \in Seq(Msgs)
      /\ Data(r) \in Seq(Msgs) /\ Ends(r) \in Seq(Msgs)
  BY <1>1, <1>3
<1>5. Tile(r) \o FrameEnd(r) \in Seq(Msgs)
  BY <1>4
<1> QED
  BY <1>2, <1>4, <1>5 DEF Messages, HasImage, EndsFrame, AllKinds, Kinds

\* However a request ends, the messages sent stay messages and the answers answers.
LEMMA RunTasksTyped ==
    ASSUME TypeOK, NEW r \in Requests, RunTasks(r)
    PROVE  /\ wire' \in Seq(Msgs)
           /\ finishPending' \in BOOLEAN
           /\ connected' \in BOOLEAN
           /\ DOMAIN answer' = DOMAIN answer
           /\ answer' \in [DOMAIN answer' -> Results]
<1> DEFINE m == Messages(r)
<1>1. m \in Seq(Msgs)
  BY MessagesTyped
<1>2. wire \in Seq(Msgs)
  BY DEF TypeOK, Msgs
<1>3. ASSUME NEW n \in 0 .. Len(m)
      PROVE  wire \o SubSeq(m, 1, n) \in Seq(Msgs)
  <2> HIDE DEF m
  <2>1. SubSeq(m, 1, n) \in Seq(Msgs)
    BY <1>1
  <2> QED
    BY <1>2, <2>1
<1>4. ASSUME NEW result \in Results, Settle(r, result)
      PROVE  /\ DOMAIN answer' = DOMAIN answer
             /\ answer' \in [DOMAIN answer' -> Results]
  BY <1>4 DEF Settle, TypeOK
<1>5. CASE Succeed(r)
  <2>1. wire' \in Seq(Msgs)
    <3> HIDE DEF m
    <3>1. wire' = wire \o m
      BY <1>5 DEF Succeed, m
    <3> QED
      BY <1>1, <1>2, <3>1
  <2>2. finishPending' \in BOOLEAN
    BY <1>5 DEF Succeed, FinishFrameDone, TypeOK
  <2> QED
    BY <1>4, <1>5, <2>1, <2>2 DEF Succeed, Results, TypeOK
<1>6. CASE Fail(r)
  <2>1. PICK n \in 0 .. Len(m) - 1 : wire' = wire \o SubSeq(m, 1, n)
    BY <1>6 DEF Fail
  <2>2. n \in 0 .. Len(m)
    <3> HIDE DEF m
    <3> QED
      BY <1>1
  <2> QED
    BY <1>3, <1>4, <1>6, <2>1, <2>2 DEF Fail, Results, TypeOK
<1>7. CASE Throw(r)
  <2>1. PICK n \in 0 .. 1 : wire' = wire \o SubSeq(m, 1, n)
    BY <1>7 DEF Throw
  <2>2. Len(m) \in {1, 2}
    BY <1>7 DEF Throw, Messages, Tile, FrameEnd, Message, HasImage, EndsFrame
  <2>3. n \in 0 .. Len(m)
    BY <2>2
  <2> QED
    BY <1>3, <1>4, <1>7, <2>1, <2>3 DEF Throw, Results, TypeOK
<1> QED
  BY <1>5, <1>6, <1>7 DEF RunTasks

LEMMA InitFits ==
    ASSUME Init
    PROVE  Fits
<1>1. Owner \in Producers /\ MaxCalls \in Nat /\ MaxOtherCalls \in Nat /\ BatchSize \in Nat
  BY WorkerAssumption
<1>2. calls \in [Producers -> Nat] /\ \A p \in Producers : calls[p] <= MayCall(p) + 2
  BY <1>1 DEF Init, MayCall
<1>3. TypeOK
  <2>1. pc \in [Producers -> AllKinds \cup {"idle"}] /\ queue \in [Producers -> Seq(Requests)]
    BY DEF Init
  <2>2. batch \in Seq(Requests) /\ Len(batch) <= BatchSize /\ need \in 0 .. BatchSize
    BY <1>1 DEF Init
  <2>3. wire \in Seq(Msgs) /\ postponed \in Requests \cup {None}
    BY DEF Init
  <2>4. DOMAIN answer = {} /\ answer \in [DOMAIN answer -> Results]
    BY DEF Init
  <2>5. frame \in Frames
    <3>1. frame = 1
      BY DEF Init
    <3> QED
      BY <1>1, <3>1 DEF Frames
  <2>6. /\ drawn \in BOOLEAN /\ finishPending \in BOOLEAN /\ running \in BOOLEAN
        /\ connected \in BOOLEAN /\ tokens \in Nat
        /\ worker = "new" /\ owner = "new"
    BY DEF Init
  <2> QED
    BY <1>2, <2>1, <2>2, <2>3, <2>4, <2>5, <2>6 DEF TypeOK, Msgs
<1>4. CallsFit
  BY <1>1 DEF Init, CallsFit, MayCall
<1>5. BatchFits
  BY <1>1 DEF Init, BatchFits
<1> QED
  BY <1>3, <1>4, <1>5 DEF Fits

\* A request is within the bounds, and is nobody's answer yet.
LEMMA EnqueueFits ==
    ASSUME Fits, NEW p \in Producers, NEW kind \in AllKinds, Enqueue(p, kind),
           calls[p] < MayCall(p) + 2
    PROVE  /\ [id |-> << p, calls[p] + 1 >>, kind |-> kind, frame |-> frame] \in Requests
           /\ queue' \in [Producers -> Seq(Requests)]
           /\ pc' \in [Producers -> AllKinds \cup {"idle"}]
           /\ calls' \in [Producers -> Nat]
           /\ \A q \in Producers : calls'[q] = IF q = p THEN calls[q] + 1 ELSE calls[q]
           /\ \A q \in Producers : calls'[q] <= MayCall(q) + 2
           /\ DOMAIN answer' \subseteq Requests
           /\ answer' \in [DOMAIN answer' -> Results]
<1> DEFINE request == [id |-> << p, calls[p] + 1 >>, kind |-> kind, frame |-> frame]
<1>0. /\ Owner \in Producers /\ MaxCalls \in Nat /\ MaxOtherCalls \in Nat
      /\ \A q \in Producers : MayCall(q) \in Nat /\ MayCall(q) <= MaxCalls + MaxOtherCalls + 1
  BY WorkerAssumption DEF MayCall
<1>1. calls[p] + 1 \in 1 .. MaxCalls + MaxOtherCalls + 3 /\ calls[p] + 1 <= MayCall(p) + 2
  <2>1. calls[p] \in Nat
    BY DEF Fits, TypeOK
  <2>2. MayCall(p) \in Nat /\ MayCall(p) <= MaxCalls + MaxOtherCalls + 1
    BY <1>0
  <2> QED
    BY <1>0, <2>1, <2>2
<1>2. << p, calls[p] + 1 >> \in Ids
  BY <1>1 DEF Ids
<1>3. request \in Requests
  BY <1>2 DEF Requests, Fits, TypeOK
<1>4. queue' = [queue EXCEPT ![p] = Append(@, request)]
  BY DEF Enqueue
<1>5. answer' = IF HasFuture(kind)
                THEN [r \in DOMAIN answer \cup {request} |->
                         IF r = request THEN "none" ELSE answer[r]]
                ELSE answer
  BY DEF Enqueue
<1> HIDE DEF request
<1>6. queue' \in [Producers -> Seq(Requests)]
  BY <1>3, <1>4 DEF Fits, TypeOK
<1>7. DOMAIN answer' \subseteq Requests /\ answer' \in [DOMAIN answer' -> Results]
  <2>1. DOMAIN answer \subseteq Requests /\ answer \in [DOMAIN answer -> Results]
    BY DEF Fits, TypeOK
  <2>2. CASE HasFuture(kind)
    <3>1. answer' = [r \in DOMAIN answer \cup {request} |->
                         IF r = request THEN "none" ELSE answer[r]]
      BY <1>5, <2>2
    <3>2. DOMAIN answer' = DOMAIN answer \cup {request}
      BY <3>1
    <3>3. \A r \in DOMAIN answer' : answer'[r] \in Results
      BY <2>1, <3>1, <3>2 DEF Results
    <3> QED
      BY <1>3, <2>1, <3>1, <3>2, <3>3
  <2>3. CASE ~ HasFuture(kind)
    BY <1>5, <2>1, <2>3
  <2> QED
    BY <2>2, <2>3
<1>8. calls' = [calls EXCEPT ![p] = @ + 1]
  BY DEF Enqueue
<1>9. pc' = [pc EXCEPT ![p] = kind]
  BY DEF Enqueue
<1>10. pc' \in [Producers -> AllKinds \cup {"idle"}]
  BY <1>9 DEF Fits, TypeOK
<1>11. /\ calls' \in [Producers -> Nat]
       /\ \A q \in Producers : calls'[q] = IF q = p THEN calls[q] + 1 ELSE calls[q]
  BY <1>8 DEF Fits, TypeOK
<1>12. \A q \in Producers : calls'[q] <= MayCall(q) + 2
  <2>1. calls \in [Producers -> Nat] /\ \A q \in Producers : calls[q] <= MayCall(q) + 2
    BY DEF Fits, TypeOK
  <2>2. \A q \in Producers : calls[q] \in Nat /\ MayCall(q) \in Nat
    BY <1>0, <2>1
  <2> QED
    BY <1>11, <2>1, <2>2
<1> QED
  BY <1>3, <1>6, <1>7, <1>10, <1>11, <1>12 DEF request

\* A step of the application's threads that submits a request.
LEMMA CallFits ==
    ASSUME Fits, NEW p \in Producers, NEW kind \in Calls, Call(p, kind)
    PROVE  Fits'
<1>1. /\ kind \in AllKinds /\ Owner \in Producers /\ MaxCalls \in Nat /\ MaxOtherCalls \in Nat
      /\ \A q \in Producers : MayCall(q) \in Nat
  BY WorkerAssumption DEF AllKinds, MayCall
<1>2. /\ owner = "alive" /\ owner' = owner
      /\ calls[p] < MayCall(p)
      /\ p # Owner => ~ EndsFrame(kind)
      /\ Enqueue(p, kind)
      /\ frame' = IF EndsFrame(kind) THEN frame + 1 ELSE frame
      /\ finishPending' \in BOOLEAN /\ drawn' \in BOOLEAN
      /\ UNCHANGED << tokens, worker, need, batch, postponed, running, connected, wire >>
  BY DEF Call, Fits, TypeOK, workerVars
<1>3. calls \in [Producers -> Nat] /\ \A q \in Producers : calls[q] <= MayCall(q) + 2
  BY DEF Fits, TypeOK
<1>4. calls[p] \in Nat /\ calls[p] < MayCall(p) + 2
  BY <1>1, <1>2, <1>3
<1>5. /\ queue' \in [Producers -> Seq(Requests)]
      /\ pc' \in [Producers -> AllKinds \cup {"idle"}]
      /\ calls' \in [Producers -> Nat]
      /\ \A q \in Producers : calls'[q] = IF q = p THEN calls[q] + 1 ELSE calls[q]
      /\ \A q \in Producers : calls'[q] <= MayCall(q) + 2
      /\ DOMAIN answer' \subseteq Requests
      /\ answer' \in [DOMAIN answer' -> Results]
  <2>1. /\ Fits /\ p \in Producers /\ kind \in AllKinds /\ Enqueue(p, kind)
        /\ calls[p] < MayCall(p) + 2
    BY <1>1, <1>2, <1>4
  <2> QED
    BY ONLY <2>1, EnqueueFits
<1>6. frame' \in Nat \ {0} /\ frame' <= calls'[Owner] /\ calls'[Owner] <= MayCall(Owner)
  <2>1. frame \in Nat \ {0} /\ frame <= calls[Owner] /\ calls[Owner] <= MayCall(Owner)
    <3>1. frame \in Frames /\ CallsFit
      BY DEF Fits, TypeOK
    <3>2. calls[Owner] < MayCall(Owner) \/ p # Owner
      BY <1>2
    <3> QED
      BY <1>1, <1>2, <1>3, <3>1, <3>2 DEF CallsFit, Frames
  <2>2. CASE p = Owner
    BY <1>1, <1>2, <1>3, <1>5, <2>1, <2>2
  <2>3. CASE p # Owner
    BY <1>1, <1>2, <1>3, <1>5, <2>1, <2>3
  <2> QED
    BY <2>2, <2>3
<1>7. frame' \in Frames
  <2>1. MayCall(Owner) = MaxCalls + 1
    BY DEF MayCall
  <2>2. calls'[Owner] \in Nat
    BY <1>1, <1>5
  <2> QED
    BY <1>1, <1>6, <2>1, <2>2 DEF Frames
<1>8. TypeOK'
  <2>1. /\ tokens \in Nat /\ need \in 0 .. BatchSize
        /\ worker \in {"new", "top", "dequeue", "collect", "handle", "exited"}
        /\ batch \in Seq(Requests) /\ Len(batch) <= BatchSize
        /\ postponed \in Requests \cup {None} /\ running \in BOOLEAN
        /\ owner \in {"new", "opening", "alive", "closing", "stop", "stopping", "gone"}
        /\ connected \in BOOLEAN
        /\ wire \in Seq([type : {"open", "tile", "finish", "data", "quit"}, of : Requests])
    BY DEF Fits, TypeOK
  <2>2. /\ tokens' = tokens /\ need' = need /\ worker' = worker /\ batch' = batch
        /\ postponed' = postponed /\ running' = running /\ owner' = owner
        /\ connected' = connected /\ wire' = wire
        /\ finishPending' \in BOOLEAN /\ drawn' \in BOOLEAN
    BY <1>2
  <2> QED
    BY <1>5, <1>7, <2>1, <2>2 DEF TypeOK
<1>9. CallsFit'
  <2>1. \A q \in Producers \ {Owner} : calls'[q] <= MayCall(q)
    <3> SUFFICES ASSUME NEW q \in Producers \ {Owner}
                 PROVE  calls'[q] <= MayCall(q)
      OBVIOUS
    <3>1. calls[q] \in Nat /\ MayCall(q) \in Nat /\ calls[q] <= MayCall(q)
      BY <1>1, <1>3 DEF Fits, CallsFit
    <3>2. CASE q = p
      BY <1>2, <1>5, <3>1, <3>2
    <3>3. CASE q # p
      BY <1>5, <3>1, <3>3
    <3> QED
      BY <3>2, <3>3
  <2> QED
    BY <1>2, <1>6, <2>1 DEF CallsFit
<1>10. BatchFits'
  BY <1>2 DEF Fits, BatchFits
<1> QED
  BY <1>8, <1>9, <1>10 DEF Fits

\* The requests of constructor and destructor are the owner's.
LEMMA OwnerFits ==
    ASSUME Fits, NEW kind \in AllKinds, Enqueue(Owner, kind),
           \/ owner = "new" /\ owner' = "opening"
           \/ owner = "alive" /\ owner' = "closing"
           \/ owner = "stop" /\ owner' = "stopping",
           running' \in BOOLEAN,
           UNCHANGED << frame, drawn, finishPending, tokens, workerVars, connected, wire >>
    PROVE  Fits'
<1>1. /\ Owner \in Producers /\ MaxCalls \in Nat /\ MaxOtherCalls \in Nat
      /\ \A q \in Producers : MayCall(q) \in Nat
  BY WorkerAssumption DEF MayCall
<1>2. calls \in [Producers -> Nat] /\ \A q \in Producers : calls[q] <= MayCall(q) + 2
  BY DEF Fits, TypeOK
<1>3. /\ owner = "new" => calls[Owner] = 0 /\ frame = 1
      /\ owner # "new" => frame <= calls[Owner]
      /\ owner \in {"new", "alive"} => calls[Owner] <= MayCall(Owner)
      /\ owner = "stop" => calls[Owner] <= MayCall(Owner) + 1
      /\ frame \in Nat
  BY DEF Fits, CallsFit, TypeOK, Frames
<1>4. calls[Owner] \in Nat /\ calls[Owner] < MayCall(Owner) + 2
  BY <1>1, <1>2, <1>3
<1>5. /\ queue' \in [Producers -> Seq(Requests)]
      /\ pc' \in [Producers -> AllKinds \cup {"idle"}]
      /\ calls' \in [Producers -> Nat]
      /\ \A q \in Producers : calls'[q] = IF q = Owner THEN calls[q] + 1 ELSE calls[q]
      /\ \A q \in Producers : calls'[q] <= MayCall(q) + 2
      /\ DOMAIN answer' \subseteq Requests
      /\ answer' \in [DOMAIN answer' -> Results]
  BY <1>1, <1>4, EnqueueFits
<1>6. TypeOK'
  BY <1>5 DEF Fits, TypeOK, workerVars
<1>7. CallsFit'
  <2>1. calls'[Owner] = calls[Owner] + 1 /\ frame' = frame
    BY <1>1, <1>5
  <2>2. \A q \in Producers \ {Owner} : calls'[q] <= MayCall(q)
    BY <1>5 DEF Fits, CallsFit
  <2>3. frame' <= calls'[Owner]
    BY <1>3, <1>4, <2>1
  <2>4. owner' = "opening" => calls'[Owner] <= MayCall(Owner)
    <3>1. MayCall(Owner) = MaxCalls + 1
      BY DEF MayCall
    <3> QED
      BY <1>1, <1>3, <2>1, <3>1
  <2>5. owner' = "closing" => calls'[Owner] <= MayCall(Owner) + 1
    BY <1>1, <1>3, <1>4, <2>1
  <2> QED
    BY <2>2, <2>3, <2>4, <2>5 DEF CallsFit
<1>8. BatchFits'
  BY DEF Fits, BatchFits, workerVars
<1> QED
  BY <1>6, <1>7, <1>8 DEF Fits

\* The request that the worker handles is in its batch.
LEMMA HeadOfBatch ==
    ASSUME Fits, worker = "handle"
    PROVE  /\ batch \in Seq(Requests) /\ Len(batch) > 0
           /\ Head(batch) \in Requests
           /\ Head(batch) = batch[1]
           /\ need = 0
           /\ Len(batch) <= BatchSize
  BY DEF Fits, TypeOK, BatchFits

LEMMA NextInBatchFits ==
    ASSUME Fits, worker = "handle", NextInBatch
    PROVE  /\ batch' \in Seq(Requests) /\ Len(batch') <= BatchSize
           /\ CallsFit' /\ BatchFits'
<1>1. /\ batch \in Seq(Requests) /\ Len(batch) > 0 /\ need = 0 /\ Len(batch) <= BatchSize
      /\ BatchSize \in Nat
  BY HeadOfBatch, WorkerAssumption
<1>2. batch' = Tail(batch) /\ need' = need
  BY DEF NextInBatch
<1>3. worker' = IF Len(batch) = 1 THEN "top" ELSE "handle"
  BY DEF NextInBatch
<1>4. batch' \in Seq(Requests) /\ Len(batch') = Len(batch) - 1
  BY <1>1, <1>2
<1>5. BatchFits'
  <2>1. worker' = "handle" => batch' # << >>
    BY <1>1, <1>3, <1>4
  <2>2. worker' = "top" => batch' = << >>
    BY <1>1, <1>3, <1>4
  <2> QED
    BY <1>1, <1>2, <1>3, <1>4, <2>1, <2>2 DEF BatchFits
<1>6. CallsFit'
  BY DEF Fits, CallsFit, NextInBatch, appVars
<1> QED
  BY <1>1, <1>4, <1>5, <1>6

\* A step that takes a request through the socket, or not.
LEMMA TasksFit ==
    ASSUME Fits, NEW r \in Requests, RunTasks(r),
           UNCHANGED << appVars, queue, tokens, running >>,
           batch' \in Seq(Requests), Len(batch') <= BatchSize,
           need' = need, postponed' \in Requests \cup {None},
           worker' \in {"top", "handle"}
    PROVE  TypeOK'
<1>1. /\ wire' \in Seq(Msgs)
      /\ finishPending' \in BOOLEAN
      /\ connected' \in BOOLEAN
      /\ DOMAIN answer' = DOMAIN answer
      /\ answer' \in [DOMAIN answer' -> Results]
  BY RunTasksTyped DEF Fits
<1>2. DOMAIN answer' \subseteq Requests
  BY <1>1 DEF Fits, TypeOK
<1> QED
  BY <1>1, <1>2 DEF Fits, TypeOK, appVars, Msgs

LEMMA NextFits ==
    ASSUME Fits, [Next]_vars
    PROVE  Fits'
<1> USE DEF Fits
<1>0. Owner \in Producers /\ BatchSize \in Nat
  BY WorkerAssumption
<1>1. ASSUME NEW p \in Producers, NEW kind \in Calls, Call(p, kind)
      PROVE  Fits'
  BY <1>1, CallFits
<1>2. CASE Open
  BY <1>2, OwnerFits DEF Open, AllKinds, TypeOK
<1>3. CASE Opened
  BY <1>3 DEF Opened, TypeOK, CallsFit, BatchFits, workerVars
<1>4. CASE CloseAnswered
  <2>1. TypeOK' /\ BatchFits'
    BY <1>4 DEF CloseAnswered, TypeOK, BatchFits, workerVars
  <2>2. CallsFit'
    BY <1>4 DEF CloseAnswered, CallsFit
  <2> QED
    BY <2>1, <2>2
<1>5. CASE Stop
  BY <1>5, OwnerFits DEF Stop, AllKinds, TypeOK
<1>6. CASE Destroy
  <2>1. CASE connected
    BY <1>6, <2>1, OwnerFits DEF Destroy, AllKinds, TypeOK
  <2>2. CASE ~ connected
    <3>1. /\ owner = "alive" /\ owner' = "stop"
          /\ UNCHANGED << pc, calls, queue, answer, frame, drawn, finishPending, tokens,
                          worker, need, batch, postponed, running, connected, wire >>
      BY <1>6, <2>2 DEF Destroy, workerVars
    <3>2. calls[Owner] \in Nat /\ MayCall(Owner) \in Nat /\ calls[Owner] <= MayCall(Owner)
      BY <1>0, <3>1, WorkerAssumption DEF TypeOK, CallsFit, MayCall
    <3>3. TypeOK' /\ BatchFits'
      BY <3>1 DEF TypeOK, BatchFits
    <3>4. CallsFit'
      BY <3>1, <3>2 DEF CallsFit
    <3> QED
      BY <3>3, <3>4
  <2> QED
    BY <2>1, <2>2
<1>7. CASE Drain
  <2>1. /\ owner' = "gone" /\ owner = "stopping" /\ worker = "exited"
        /\ queue' = [p \in Producers |-> << >>] /\ tokens' = 0 /\ postponed' = None
        /\ UNCHANGED << pc, calls, frame, drawn, finishPending, worker, need, batch,
                        running, connected, wire >>
    BY <1>7 DEF Drain
  <2>2. DOMAIN answer' = DOMAIN answer /\ answer' \in [DOMAIN answer -> Results]
    BY <1>7 DEF Drain, TypeOK, Results
  <2>3. queue' \in [Producers -> Seq(Requests)]
    BY <2>1
  <2>4. TypeOK'
    BY <2>1, <2>2, <2>3 DEF TypeOK
  <2>5. CallsFit' /\ BatchFits'
    BY <2>1 DEF CallsFit, BatchFits
  <2> QED
    BY <2>4, <2>5
<1>8. ASSUME NEW p \in Producers, Signal(p)
      PROVE  Fits'
  <2>1. pc' \in [Producers -> AllKinds \cup {"idle"}] /\ tokens' \in Nat
    BY <1>8 DEF Signal, TypeOK
  <2> QED
    BY <1>8, <2>1 DEF Signal, TypeOK, CallsFit, BatchFits, workerVars
<1>9. CASE BeginRun \/ CheckRunning
  <2>1. /\ worker \in {"new", "top"} /\ worker' \in {"top", "dequeue", "exited"}
        /\ running' \in BOOLEAN
        /\ UNCHANGED << pc, calls, frame, drawn, owner, finishPending, queue, tokens, need,
                        batch, postponed, connected, wire, answer >>
    BY <1>9 DEF BeginRun, CheckRunning, appVars, TypeOK
  <2> QED
    BY <2>1 DEF TypeOK, CallsFit, BatchFits
<1>10. CASE TakeTokens
  <2>1. /\ worker = "dequeue" /\ worker' = "collect"
        /\ Batch(tokens) > 0 /\ tokens' = tokens - Batch(tokens) /\ need' = Batch(tokens)
        /\ UNCHANGED << pc, calls, frame, drawn, owner, finishPending, queue,
                        batch, postponed, running, connected, wire, answer >>
    BY <1>10 DEF TakeTokens, appVars
  <2>2. /\ Batch(tokens) \in 0 .. BatchSize /\ tokens - Batch(tokens) \in Nat
    BY <1>0 DEF TypeOK, Batch
  <2>3. batch = << >> /\ Len(batch) = 0
    BY <2>1 DEF BatchFits
  <2>4. TypeOK' /\ CallsFit'
    BY <2>1, <2>2 DEF TypeOK, CallsFit
  <2>5. BatchFits'
    BY <1>0, <2>1, <2>2, <2>3 DEF BatchFits
  <2> QED
    BY <2>4, <2>5
<1>11. ASSUME NEW p \in Producers, Collect(p)
       PROVE  Fits'
  <2>1. /\ worker = "collect" /\ worker' = IF need = 1 THEN "handle" ELSE "collect"
        /\ queue[p] # << >>
        /\ queue' = [queue EXCEPT ![p] = Tail(@)]
        /\ batch' = Append(batch, Head(queue[p])) /\ need' = need - 1
        /\ UNCHANGED << pc, calls, frame, drawn, owner, finishPending, tokens, postponed,
                        running, connected, wire, answer >>
    BY <1>11 DEF Collect, appVars
  <2>2. /\ need \in 1 .. BatchSize /\ Len(batch) + need <= BatchSize
        /\ batch \in Seq(Requests) /\ queue[p] \in Seq(Requests)
        /\ queue \in [Producers -> Seq(Requests)]
    BY <1>0, <2>1 DEF TypeOK, BatchFits
  <2>3. Head(queue[p]) \in Requests /\ Tail(queue[p]) \in Seq(Requests)
    BY <2>1, <2>2
  <2>4. queue' \in [Producers -> Seq(Requests)]
    BY <2>1, <2>2, <2>3
  <2>5. batch' \in Seq(Requests) /\ Len(batch') = Len(batch) + 1 /\ batch' # << >>
    BY <2>1, <2>2, <2>3
  <2>6. need' \in 0 .. BatchSize /\ Len(batch') + need' <= BatchSize /\ Len(batch') <= BatchSize
    BY <1>0, <2>1, <2>2, <2>5
  <2>7. TypeOK' /\ CallsFit'
    BY <2>1, <2>4, <2>5, <2>6 DEF TypeOK, CallsFit
  <2>8. BatchFits'
    BY <2>1, <2>2, <2>5, <2>6 DEF BatchFits
  <2> QED
    BY <2>7, <2>8
<1>12. CASE HandleRequest
  <2>1. worker = "handle" /\ RunTasks(Head(batch)) /\ NextInBatch /\ postponed' = postponed
    BY <1>12 DEF HandleRequest
  <2>2. Head(batch) \in Requests /\ postponed \in Requests \cup {None}
    BY <2>1, HeadOfBatch DEF TypeOK
  <2>3. /\ batch' \in Seq(Requests) /\ Len(batch') <= BatchSize /\ CallsFit' /\ BatchFits'
    BY <2>1, NextInBatchFits
  <2>4. TypeOK'
    BY <2>1, <2>2, <2>3, TasksFit DEF NextInBatch
  <2> QED
    BY <2>3, <2>4
<1>13. CASE PostponeFinish
  <2>1. worker = "handle" /\ NextInBatch /\ postponed' = Head(batch)
        /\ UNCHANGED << finishPending, connected, wire, answer >>
    BY <1>13 DEF PostponeFinish
  <2>2. Head(batch) \in Requests
    BY <2>1, HeadOfBatch
  <2>3. /\ batch' \in Seq(Requests) /\ Len(batch') <= BatchSize /\ CallsFit' /\ BatchFits'
    BY <2>1, NextInBatchFits
  <2>4. TypeOK'
    BY <2>1, <2>2, <2>3 DEF TypeOK, NextInBatch, appVars
  <2> QED
    BY <2>3, <2>4
<1>14. CASE RefuseFinish
  <2>1. worker = "handle" /\ NextInBatch /\ Settle(Head(batch), "error")
        /\ UNCHANGED << finishPending, connected, wire, postponed >>
    BY <1>14 DEF RefuseFinish
  <2>2. DOMAIN answer' = DOMAIN answer /\ answer' \in [DOMAIN answer -> Results]
    BY <2>1 DEF Settle, TypeOK, Results
  <2>3. /\ batch' \in Seq(Requests) /\ Len(batch') <= BatchSize /\ CallsFit' /\ BatchFits'
    BY <2>1, NextInBatchFits
  <2>4. TypeOK'
    BY <2>1, <2>2, <2>3 DEF TypeOK, NextInBatch, appVars
  <2> QED
    BY <2>3, <2>4
<1>15. CASE FinishNow
  <2>1. /\ worker = "dequeue" /\ worker' = "top" /\ postponed # None /\ postponed' = None
        /\ RunTasks(postponed)
        /\ UNCHANGED << appVars, queue, tokens, need, batch, running >>
    BY <1>15 DEF FinishNow
  <2>2. postponed \in Requests /\ batch \in Seq(Requests) /\ Len(batch) <= BatchSize
    BY <2>1 DEF TypeOK
  <2>3. TypeOK'
    BY <2>1, <2>2, TasksFit
  <2>4. CallsFit' /\ BatchFits'
    BY <2>1 DEF CallsFit, BatchFits, appVars
  <2> QED
    BY <2>3, <2>4
<1>16. CASE Disconnect \/ UNCHANGED vars
  <2>1. /\ UNCHANGED << pc, calls, frame, drawn, finishPending, queue, tokens, running >>
        /\ UNCHANGED << worker, need, batch, postponed, owner, wire, answer >>
        /\ connected' = FALSE \/ connected' = connected
    BY <1>16 DEF Disconnect, vars, appVars, workerVars
  <2>2. TypeOK'
    <3>1. /\ pc' \in [Producers -> AllKinds \cup {"idle"}] /\ calls' \in [Producers -> Nat]
          /\ \A p \in Producers : calls'[p] <= MayCall(p) + 2
          /\ frame' \in Frames /\ drawn' \in BOOLEAN /\ finishPending' \in BOOLEAN
          /\ queue' \in [Producers -> Seq(Requests)] /\ tokens' \in Nat
      BY <2>1 DEF TypeOK
    <3>2. /\ worker' \in {"new", "top", "dequeue", "collect", "handle", "exited"}
          /\ need' \in 0 .. BatchSize /\ batch' \in Seq(Requests) /\ Len(batch') <= BatchSize
          /\ postponed' \in Requests \cup {None} /\ running' \in BOOLEAN
          /\ owner' \in {"new", "opening", "alive", "closing", "stop", "stopping", "gone"}
      BY <2>1 DEF TypeOK
    <3>3. /\ wire' \in Seq([type : {"open", "tile", "finish", "data", "quit"}, of : Requests])
          /\ DOMAIN answer' \subseteq Requests /\ answer' \in [DOMAIN answer' -> Results]
          /\ connected' \in BOOLEAN
      BY <2>1 DEF TypeOK
    <3> QED
      BY <3>1, <3>2, <3>3 DEF TypeOK
  <2>3. CallsFit' /\ BatchFits'
    BY <2>1 DEF CallsFit, BatchFits
  <2> QED
    BY <2>2, <2>3
<1> QED
  BY <1>1, <1>2, <1>3, <1>4, <1>5, <1>6, <1>7, <1>8, <1>9, <1>10, <1>11, <1>12, <1>13,
     <1>14, <1>15, <1>16
     DEF Next, ThreadStep, WorkerStep, ConstructorStep, DestructorStep, Gone

-----------------------------------------------------------------------------
(* The order of the requests                                               *)

LEMMA RequestParts ==
    ASSUME NEW r \in Requests
    PROVE  /\ r.id[1] \in Producers
           /\ r.id[2] \in Nat
           /\ r.kind \in AllKinds
           /\ r.frame \in Nat
           /\ r # None
           /\ ~ Before(r, r)
<1>1. r.id \in Ids /\ r.kind \in AllKinds /\ r.frame \in Frames
  BY DEF Requests
<1>2. r.id[1] \in Producers /\ r.id[2] \in Nat
  BY <1>1, WorkerAssumption DEF Ids
<1>3. r.frame \in Nat
  BY <1>1, WorkerAssumption DEF Frames
<1>4. r # None
  BY <1>1 DEF None, AllKinds, Kinds
<1>5. ~ Before(r, r)
  BY <1>2 DEF Before
<1> QED
  BY <1>1, <1>2, <1>3, <1>4, <1>5

\* What a call does to the requests: one more, at the end of its thread's queue, with
\* a number that none had.
LEMMA EnqueueOrders ==
    ASSUME Fits, NEW p \in Producers, NEW kind \in AllKinds, Enqueue(p, kind),
           NEW request \in Requests,
           request = [id |-> << p, calls[p] + 1 >>, kind |-> kind, frame |-> frame],
           batch' = batch, postponed' = postponed,
           Ordered, Unanswered
    PROVE  /\ Pipe' = Pipe \cup {request}
           /\ \A r \in Pipe : Before(r, request)
           /\ ~ Issued(request)
           /\ Ordered'
           /\ Unanswered'
           /\ DOMAIN answer' = IF HasFuture(kind) THEN DOMAIN answer \cup {request}
                               ELSE DOMAIN answer
           /\ \A r \in DOMAIN answer : answer'[r] = answer[r]
<1>1. /\ queue \in [Producers -> Seq(Requests)] /\ calls \in [Producers -> Nat]
      /\ batch \in Seq(Requests) /\ DOMAIN answer \subseteq Requests
      /\ postponed \in Requests \cup {None}
  BY DEF Fits, TypeOK
<1>2. /\ queue' = [queue EXCEPT ![p] = Append(@, request)]
      /\ calls' = [calls EXCEPT ![p] = @ + 1]
      /\ answer' = IF HasFuture(kind)
                   THEN [r \in DOMAIN answer \cup {request} |->
                            IF r = request THEN "none" ELSE answer[r]]
                   ELSE answer
  BY DEF Enqueue
<1>3. request.id[1] = p /\ request.id[2] = calls[p] + 1 /\ request.kind = kind
  OBVIOUS
<1>4. \A r \in Requests : Issued(r) => Before(r, request)
  <2> TAKE r \in Requests
  <2>1. r.id[1] \in Producers /\ r.id[2] \in Nat /\ calls[p] \in Nat
    BY <1>1, RequestParts
  <2> QED
    BY <1>3, <2>1 DEF Issued, Before
<1>5. ~ Issued(request)
  <2>1. calls[p] \in Nat
    BY <1>1
  <2> QED
    BY <1>3, <2>1 DEF Issued
<1> HIDE DEF Enqueue
<1>6. /\ queue'[p] = Append(queue[p], request)
      /\ Len(queue'[p]) = Len(queue[p]) + 1
      /\ Len(queue[p]) \in Nat
      /\ queue'[p][Len(queue[p]) + 1] = request
      /\ \A n \in 1 .. Len(queue[p]) : queue'[p][n] = queue[p][n]
      /\ \A q \in Producers : q # p => queue'[q] = queue[q]
  BY <1>1, <1>2
<1>7. \A r \in Requests : InQueue(r)' <=> InQueue(r) \/ r = request
  <2> TAKE r \in Requests
  <2>1. ASSUME InQueue(r) PROVE InQueue(r)'
    <3>0. PICK q \in Producers : \E n \in 1 .. Len(queue[q]) : r = queue[q][n]
      BY <2>1 DEF InQueue
    <3>1. PICK n \in 1 .. Len(queue[q]) : r = queue[q][n]
      BY <3>0
    <3>2. CASE q = p
      <4>1. n \in 1 .. Len(queue'[p]) /\ r = queue'[p][n]
        BY <1>6, <3>1, <3>2
      <4> QED
        BY <4>1 DEF InQueue
    <3>3. CASE q # p
      BY <1>6, <3>1, <3>3 DEF InQueue
    <3> QED
      BY <3>2, <3>3
  <2>2. ASSUME r = request PROVE InQueue(r)'
    <3>1. Len(queue[p]) + 1 \in 1 .. Len(queue'[p]) /\ r = queue'[p][Len(queue[p]) + 1]
      BY <1>6, <2>2
    <3> QED
      BY <3>1 DEF InQueue
  <2>3. ASSUME InQueue(r)' PROVE InQueue(r) \/ r = request
    <3>0. PICK q \in Producers : \E n \in 1 .. Len(queue'[q]) : r = queue'[q][n]
      BY <2>3 DEF InQueue
    <3>1. PICK n \in 1 .. Len(queue'[q]) : r = queue'[q][n]
      BY <3>0
    <3>2. CASE q = p
      <4>1. n \in 1 .. Len(queue[p]) \/ n = Len(queue[p]) + 1
        BY <1>6, <3>1, <3>2
      <4> QED
        BY <1>6, <3>1, <3>2, <4>1 DEF InQueue
    <3>3. CASE q # p
      BY <1>6, <3>1, <3>3 DEF InQueue
    <3> QED
      BY <3>2, <3>3
  <2> QED
    BY <2>1, <2>2, <2>3
<1>8. \A r : InBatch(r)' <=> InBatch(r)
  BY DEF InBatch
<1>9. Pipe' = Pipe \cup {request}
  BY <1>7, <1>8 DEF Pipe
<1>10. \A r \in Pipe : Issued(r)
  BY DEF Unanswered
<1>11. \A r \in Pipe : Before(r, request)
  BY <1>4, <1>10 DEF Pipe
<1>12. QueuesOrdered'
  <2> SUFFICES ASSUME NEW q \in Producers, NEW n \in 1 .. Len(queue'[q])
               PROVE  /\ queue'[q][n].id[1] = q
                      /\ \A m \in 1 .. n - 1 : Before(queue'[q][m], queue'[q][n])
    BY DEF QueuesOrdered, Before
  <2>1. CASE q # p
    BY <1>6, <2>1 DEF Ordered, QueuesOrdered
  <2>2. CASE q = p /\ n \in 1 .. Len(queue[p])
    <3>1. \A m \in 1 .. n - 1 : m \in 1 .. Len(queue[p])
      BY <1>6, <2>2
    <3>2. /\ queue[p][n].id[1] = p
          /\ \A m \in 1 .. n - 1 : Before(queue[p][m], queue[p][n])
      BY <2>2 DEF Ordered, QueuesOrdered
    <3>3. queue'[p][n] = queue[p][n] /\ \A m \in 1 .. n - 1 : queue'[p][m] = queue[p][m]
      BY <1>6, <2>2, <3>1
    <3> QED
      BY <2>2, <3>2, <3>3
  <2>3. CASE q = p /\ n = Len(queue[p]) + 1
    <3>1. ASSUME NEW m \in 1 .. n - 1
          PROVE  Before(queue'[q][m], queue'[q][n])
      <4>1. m \in 1 .. Len(queue[p])
        BY <1>6, <2>3
      <4>2. queue[p][m] \in Requests
        BY <1>1, <4>1
      <4>3. queue[p][m] \in Pipe
        BY <4>1, <4>2 DEF Pipe, InQueue
      <4> QED
        BY <1>6, <1>11, <2>3, <4>1, <4>3
    <3> QED
      BY <1>3, <1>6, <2>3, <3>1
  <2> QED
    BY <1>6, <2>1, <2>2, <2>3
<1>13. BatchOrdered'
  <2> SUFFICES ASSUME NEW n \in 1 .. Len(batch)
               PROVE  /\ \A m \in 1 .. n - 1 : Before(batch[m], batch[n])
                      /\ \A r \in Requests : InQueue(r)' => Before(batch[n], r)
    BY DEF BatchOrdered, Before
  <2>1. batch[n] \in Requests
    BY <1>1
  <2>2. batch[n] \in Pipe
    BY <2>1 DEF Pipe, InBatch
  <2> QED
    BY <1>7, <1>11, <2>2 DEF Ordered, BatchOrdered
<1>14. PostponedFirst'
  <2> SUFFICES ASSUME postponed # None
               PROVE  /\ postponed.kind = "finish"
                      /\ \A r \in Requests : InQueue(r)' \/ InBatch(r)' => Before(postponed, r)
    BY DEF PostponedFirst, Before
  <2>1. postponed \in Pipe
    BY <1>1 DEF Pipe
  <2> QED
    BY <1>7, <1>8, <1>11, <2>1 DEF Ordered, PostponedFirst
<1>15. request \notin DOMAIN answer
  BY <1>5 DEF Unanswered
<1>16. /\ DOMAIN answer' = IF HasFuture(kind) THEN DOMAIN answer \cup {request}
                           ELSE DOMAIN answer
       /\ \A r \in DOMAIN answer : answer'[r] = answer[r]
  BY <1>2, <1>15
<1>17. HasFuture(kind) => answer'[request] = "none"
  BY <1>2
<1>18. \A r \in Requests : Issued(r) \/ r = request => Issued(r)'
  <2> TAKE r \in Requests
  <2>1. r.id[1] \in Producers /\ r.id[2] \in Nat
    BY RequestParts
  <2>2. \A q \in Producers : /\ calls[q] \in Nat
                             /\ calls'[q] = IF q = p THEN calls[q] + 1 ELSE calls[q]
    BY <1>1, <1>2
  <2> QED
    BY <1>3, <2>1, <2>2 DEF Issued
<1>19. Unanswered'
  <2>1. \A r \in DOMAIN answer' : Issued(r)'
    BY <1>1, <1>16, <1>18 DEF Unanswered
  <2>2. ASSUME NEW r \in Pipe'
        PROVE  /\ Issued(r)'
               /\ HasFuture(r.kind) => r \in DOMAIN answer'
               /\ r \in DOMAIN answer' => answer'[r] = "none"
    <3>1. CASE r = request
      BY <1>3, <1>15, <1>16, <1>17, <1>18, <3>1
    <3>2. CASE r # request
      <4>1. r \in Pipe /\ r \in Requests
        BY <1>9, <2>2, <3>2 DEF Pipe
      <4> QED
        BY <1>16, <1>18, <3>2, <4>1 DEF Unanswered
    <3> QED
      BY <3>1, <3>2
  <2> QED
    BY <2>1, <2>2 DEF Unanswered
<1> QED
  BY <1>5, <1>9, <1>11, <1>12, <1>13, <1>14, <1>16, <1>19 DEF Ordered

\* To take a request from a queue into the batch leaves it in the pipe, and in order:
\* what is left of that queue was called for later.
LEMMA CollectOrders ==
    ASSUME Fits, Ordered, NEW p \in Producers, Collect(p)
    PROVE  Pipe' = Pipe /\ Ordered'
<1> DEFINE h == Head(queue[p])
           l == Len(queue[p])
           b == Len(batch)
<1>1. /\ queue \in [Producers -> Seq(Requests)] /\ batch \in Seq(Requests)
      /\ postponed \in Requests \cup {None}
  BY DEF Fits, TypeOK
<1>2. /\ queue[p] # << >> /\ postponed' = postponed
      /\ queue' = [queue EXCEPT ![p] = Tail(@)]
      /\ batch' = Append(batch, h)
  BY DEF Collect
<1>3. /\ l \in Nat \ {0} /\ h = queue[p][1] /\ h \in Requests
      /\ Len(queue'[p]) = l - 1
      /\ \A n \in 1 .. l - 1 : queue'[p][n] = queue[p][n + 1]
      /\ \A q \in Producers : q # p => queue'[q] = queue[q]
  BY <1>1, <1>2
<1>4. /\ b \in Nat /\ Len(batch') = b + 1 /\ batch'[b + 1] = h
      /\ \A n \in 1 .. b : batch'[n] = batch[n]
  BY <1>1, <1>2, <1>3
<1> HIDE DEF h, l, b
<1>5. \A r : InQueue(r) <=> InQueue(r)' \/ r = h
  <2> TAKE r
  <2>1. ASSUME InQueue(r)' PROVE InQueue(r)
    <3>1. PICK q \in Producers : \E n \in 1 .. Len(queue'[q]) : r = queue'[q][n]
      BY <2>1 DEF InQueue
    <3>2. CASE q = p
      <4>1. PICK n \in 1 .. l - 1 : r = queue'[p][n]
        BY <1>3, <3>1, <3>2
      <4>2. n + 1 \in 1 .. l /\ r = queue[p][n + 1]
        BY <1>3, <4>1
      <4> QED
        BY <4>2 DEF InQueue, l
    <3>3. CASE q # p
      BY <1>3, <3>1, <3>3 DEF InQueue
    <3> QED
      BY <3>2, <3>3
  <2>2. ASSUME r = h PROVE InQueue(r)
    <3>1. 1 \in 1 .. l
      BY <1>3
    <3> QED
      BY <1>3, <2>2, <3>1 DEF InQueue, l
  <2>3. ASSUME InQueue(r) PROVE InQueue(r)' \/ r = h
    <3>1. PICK q \in Producers : \E n \in 1 .. Len(queue[q]) : r = queue[q][n]
      BY <2>3 DEF InQueue
    <3>2. CASE q = p
      <4>1. PICK n \in 1 .. l : r = queue[p][n]
        BY <3>1, <3>2 DEF l
      <4>2. CASE n = 1
        BY <1>3, <4>1, <4>2
      <4>3. CASE n # 1
        <5>1. n - 1 \in 1 .. Len(queue'[p]) /\ r = queue'[p][n - 1]
          BY <1>3, <4>1, <4>3
        <5> QED
          BY <5>1 DEF InQueue
      <4> QED
        BY <4>2, <4>3
    <3>3. CASE q # p
      BY <1>3, <3>1, <3>3 DEF InQueue
    <3> QED
      BY <3>2, <3>3
  <2> QED
    BY <2>1, <2>2, <2>3
<1>6. \A r : InBatch(r)' <=> InBatch(r) \/ r = h
  <2> TAKE r
  <2>1. ASSUME InBatch(r)' PROVE InBatch(r) \/ r = h
    <3>1. PICK n \in 1 .. b + 1 : r = batch'[n]
      BY <1>4, <2>1 DEF InBatch
    <3>2. n \in 1 .. b \/ n = b + 1
      BY <1>4
    <3> QED
      BY <1>4, <3>1, <3>2 DEF InBatch, b
  <2>2. ASSUME InBatch(r) \/ r = h PROVE InBatch(r)'
    <3>1. CASE r = h
      <4>1. b + 1 \in 1 .. Len(batch') /\ r = batch'[b + 1]
        BY <1>4, <3>1
      <4> QED
        BY <4>1 DEF InBatch
    <3>2. CASE InBatch(r)
      <4>1. PICK n \in 1 .. b : r = batch[n]
        BY <3>2 DEF InBatch, b
      <4>2. n \in 1 .. Len(batch') /\ r = batch'[n]
        BY <1>4, <4>1
      <4> QED
        BY <4>2 DEF InBatch
    <3> QED
      BY <2>2, <3>1, <3>2
  <2> QED
    BY <2>1, <2>2
<1>7. Pipe' = Pipe
  BY <1>2, <1>5, <1>6 DEF Pipe
<1>8. QueuesOrdered'
  <2> SUFFICES ASSUME NEW q \in Producers, NEW n \in 1 .. Len(queue'[q])
               PROVE  /\ queue'[q][n].id[1] = q
                      /\ \A m \in 1 .. n - 1 : Before(queue'[q][m], queue'[q][n])
    BY DEF QueuesOrdered, Before
  <2>1. CASE q # p
    BY <1>3, <2>1 DEF Ordered, QueuesOrdered
  <2>2. CASE q = p
    <3>1. n \in 1 .. l - 1 /\ n + 1 \in 1 .. l /\ queue'[q][n] = queue[p][n + 1]
      BY <1>3, <2>2
    <3>2. \A m \in 1 .. n - 1 : m + 1 \in 1 .. (n + 1) - 1 /\ queue'[q][m] = queue[p][m + 1]
      BY <1>3, <2>2, <3>1
    <3> QED
      BY <2>2, <3>1, <3>2 DEF Ordered, QueuesOrdered, l
  <2> QED
    BY <2>1, <2>2
<1>9. \A r \in Requests : InQueue(r)' => Before(h, r)
  <2> SUFFICES ASSUME NEW r \in Requests, InQueue(r)'
               PROVE  Before(h, r)
    OBVIOUS
  <2>1. PICK q \in Producers : \E n \in 1 .. Len(queue'[q]) : r = queue'[q][n]
    BY DEF InQueue
  <2>2. h.id[1] = p
    <3>1. 1 \in 1 .. l
      BY <1>3
    <3> QED
      BY <1>3, <3>1 DEF Ordered, QueuesOrdered, l
  <2>3. CASE q = p
    <3>1. PICK n \in 1 .. l - 1 : r = queue'[p][n]
      BY <1>3, <2>1, <2>3
    <3>2. n + 1 \in 1 .. l /\ 1 \in 1 .. (n + 1) - 1 /\ r = queue[p][n + 1]
      BY <1>3, <3>1
    <3> QED
      BY <1>3, <3>2 DEF Ordered, QueuesOrdered, l
  <2>4. CASE q # p
    <3>1. r.id[1] = q
      BY <1>3, <2>1, <2>4 DEF Ordered, QueuesOrdered
    <3> QED
      BY <2>2, <2>4, <3>1 DEF Before
  <2> QED
    BY <2>3, <2>4
<1>10. BatchOrdered'
  <2> SUFFICES ASSUME NEW n \in 1 .. b + 1
               PROVE  /\ \A m \in 1 .. n - 1 : Before(batch'[m], batch'[n])
                      /\ \A r \in Requests : InQueue(r)' => Before(batch'[n], r)
    BY <1>4 DEF BatchOrdered, Before
  <2>1. CASE n \in 1 .. b
    <3>1. \A m \in 1 .. n - 1 : m \in 1 .. b
      BY <1>4, <2>1
    <3> QED
      BY <1>4, <1>5, <2>1, <3>1 DEF Ordered, BatchOrdered, b
  <2>2. CASE n = b + 1
    <3>1. ASSUME NEW m \in 1 .. n - 1
          PROVE  Before(batch'[m], batch'[n])
      <4>1. m \in 1 .. b /\ batch'[m] = batch[m]
        BY <1>4, <2>2
      <4>2. Before(batch[m], h)
        BY <1>3, <1>5, <4>1 DEF Ordered, BatchOrdered, b
      <4> QED
        BY <1>4, <2>2, <4>1, <4>2
    <3> QED
      BY <1>4, <1>9, <2>2, <3>1
  <2> QED
    BY <1>4, <2>1, <2>2
<1>11. PostponedFirst'
  <2>1. \A r \in Requests : InQueue(r)' \/ InBatch(r)' => InQueue(r) \/ InBatch(r)
    BY <1>5, <1>6
  <2> QED
    BY <1>2, <2>1 DEF Ordered, PostponedFirst, Before
<1> QED
  BY <1>7, <1>8, <1>10, <1>11 DEF Ordered

\* To take the next of the batch leaves the rest of it, all called for later.
LEMMA NextInBatchOrders ==
    ASSUME Fits, Ordered, worker = "handle", NextInBatch
    PROVE  /\ InBatch(Head(batch))
           /\ \A r : InBatch(r) <=> InBatch(r)' \/ r = Head(batch)
           /\ \A r \in Requests : InQueue(r)' \/ InBatch(r)' => Before(Head(batch), r)
           /\ QueuesOrdered' /\ BatchOrdered'
           /\ \A r : InQueue(r)' <=> InQueue(r)
<1> DEFINE b == Len(batch)
<1>1. /\ batch \in Seq(Requests) /\ b \in Nat \ {0} /\ Head(batch) = batch[1]
      /\ batch' = Tail(batch) /\ queue' = queue
  BY HeadOfBatch DEF NextInBatch
<1>2. Len(batch') = b - 1 /\ \A n \in 1 .. b - 1 : batch'[n] = batch[n + 1]
  BY <1>1
<1> HIDE DEF b
<1>3. InBatch(Head(batch))
  <2>1. 1 \in 1 .. b
    BY <1>1
  <2> QED
    BY <1>1, <2>1 DEF InBatch, b
<1>4. \A r : InBatch(r) <=> InBatch(r)' \/ r = Head(batch)
  <2> TAKE r
  <2>1. ASSUME InBatch(r)' PROVE InBatch(r)
    <3>1. PICK n \in 1 .. b - 1 : r = batch'[n]
      BY <1>2, <2>1 DEF InBatch
    <3>2. n + 1 \in 1 .. b /\ r = batch[n + 1]
      BY <1>1, <1>2, <3>1
    <3> QED
      BY <3>2 DEF InBatch, b
  <2>2. ASSUME InBatch(r) PROVE InBatch(r)' \/ r = Head(batch)
    <3>1. PICK n \in 1 .. b : r = batch[n]
      BY <2>2 DEF InBatch, b
    <3>2. CASE n = 1
      BY <1>1, <3>1, <3>2
    <3>3. CASE n # 1
      <4>1. n - 1 \in 1 .. Len(batch') /\ r = batch'[n - 1]
        BY <1>1, <1>2, <3>1, <3>3
      <4> QED
        BY <4>1 DEF InBatch
    <3> QED
      BY <3>2, <3>3
  <2> QED
    BY <1>3, <2>1, <2>2
<1>5. \A r : InQueue(r)' <=> InQueue(r)
  BY <1>1 DEF InQueue
<1>6. QueuesOrdered'
  BY <1>1 DEF Ordered, QueuesOrdered, Before
<1>7. BatchOrdered'
  <2> SUFFICES ASSUME NEW n \in 1 .. b - 1
               PROVE  /\ \A m \in 1 .. n - 1 : Before(batch'[m], batch'[n])
                      /\ \A r \in Requests : InQueue(r)' => Before(batch'[n], r)
    BY <1>2 DEF BatchOrdered, Before
  <2>1. n + 1 \in 1 .. b /\ batch'[n] = batch[n + 1]
    BY <1>1, <1>2
  <2>2. \A m \in 1 .. n - 1 : m + 1 \in 1 .. (n + 1) - 1 /\ batch'[m] = batch[m + 1]
    BY <1>1, <1>2
  <2> QED
    BY <1>5, <2>1, <2>2 DEF Ordered, BatchOrdered, b
<1>8. ASSUME NEW r \in Requests, InQueue(r)' \/ InBatch(r)'
      PROVE  Before(Head(batch), r)
  <2>1. 1 \in 1 .. b
    BY <1>1
  <2>2. CASE InQueue(r)'
    BY <1>1, <1>5, <2>1, <2>2 DEF Ordered, BatchOrdered, b
  <2>3. CASE InBatch(r)'
    <3>1. PICK n \in 1 .. b - 1 : r = batch'[n]
      BY <1>2, <2>3 DEF InBatch
    <3>2. n + 1 \in 1 .. b /\ 1 \in 1 .. (n + 1) - 1 /\ r = batch[n + 1]
      BY <1>1, <1>2, <3>1
    <3> QED
      BY <1>1, <3>2 DEF Ordered, BatchOrdered, b
  <2> QED
    BY <1>8, <2>2, <2>3
<1> QED
  BY <1>3, <1>4, <1>5, <1>6, <1>7, <1>8

\* The steps in which a request gets its answer.
Answers(r) ==
    \/ HandleRequest /\ r = Head(batch)
    \/ RefuseFinish /\ r = Head(batch)
    \/ FinishNow /\ r = postponed

\* A request is answered when it leaves the pipe, and is not in it a second time.
LEMMA AnswersOrder ==
    ASSUME Fits, Ordered, Unanswered, NEW r, Answers(r)
    PROVE  /\ r \in Requests /\ r \in Pipe
           /\ Pipe' = Pipe \ {r}
           /\ DOMAIN answer' = DOMAIN answer
           /\ \A q \in DOMAIN answer : q # r => answer'[q] = answer[q]
           /\ calls' = calls
           /\ Ordered' /\ Unanswered'
<1>1. \/ HandleRequest /\ r = Head(batch)
      \/ RefuseFinish /\ r = Head(batch)
      \/ FinishNow /\ r = postponed
  BY DEF Answers
<1>2. \E result : Settle(r, result)
  BY <1>1 DEF HandleRequest, RefuseFinish, FinishNow, RunTasks, Succeed, Fail, Throw
<1>3. /\ DOMAIN answer' = DOMAIN answer
      /\ \A q \in DOMAIN answer : q # r => answer'[q] = answer[q]
  BY <1>2 DEF Settle
<1>4. calls' = calls /\ queue' = queue
  BY <1>1 DEF HandleRequest, RefuseFinish, FinishNow, NextInBatch, appVars
<1>5. postponed \in Requests \cup {None} /\ DOMAIN answer \subseteq Requests
  BY DEF Fits, TypeOK
<1>6. /\ r \in Requests /\ r \in Pipe
      /\ Pipe' = Pipe \ {r}
      /\ Ordered'
  <2>1. CASE (HandleRequest \/ RefuseFinish) /\ r = Head(batch)
    <3>1. worker = "handle" /\ NextInBatch /\ postponed' = postponed
      BY <2>1 DEF HandleRequest, RefuseFinish
    <3>2. r \in Requests
      BY <2>1, <3>1, HeadOfBatch
    <3>3. /\ InBatch(r)
          /\ \A q : InBatch(q) <=> InBatch(q)' \/ q = r
          /\ \A q \in Requests : InQueue(q)' \/ InBatch(q)' => Before(r, q)
          /\ QueuesOrdered' /\ BatchOrdered'
          /\ \A q : InQueue(q)' <=> InQueue(q)
      BY <2>1, <3>1, NextInBatchOrders
    <3>4. ~ InQueue(r)' /\ ~ InBatch(r)'
      BY <3>2, <3>3, RequestParts
    <3>5. r # postponed
      BY <3>2, <3>3, RequestParts DEF Ordered, PostponedFirst
    <3>6. Pipe' = Pipe \ {r} /\ r \in Pipe
      BY <3>1, <3>2, <3>3, <3>4, <3>5 DEF Pipe
    <3>7. PostponedFirst'
      BY <3>1, <3>3 DEF Ordered, PostponedFirst, Before
    <3> QED
      BY <3>2, <3>3, <3>6, <3>7 DEF Ordered
  <2>2. CASE FinishNow /\ r = postponed
    <3>1. r # None /\ postponed' = None /\ batch' = batch
      BY <2>2 DEF FinishNow
    <3>2. r \in Requests /\ r \in Pipe
      BY <1>5, <2>2, <3>1 DEF Pipe
    <3>3. \A q \in Requests : InQueue(q) \/ InBatch(q) => Before(r, q)
      BY <2>2, <3>1 DEF Ordered, PostponedFirst
    <3>4. ~ InQueue(r) /\ ~ InBatch(r)
      BY <3>2, <3>3, RequestParts
    <3>5. \A q : (InQueue(q)' <=> InQueue(q)) /\ (InBatch(q)' <=> InBatch(q))
      BY <1>4, <3>1 DEF InQueue, InBatch
    <3>6. \A q \in Requests : q # None
      BY RequestParts
    <3>7. Pipe' = Pipe \ {r}
      BY <2>2, <3>1, <3>4, <3>5, <3>6 DEF Pipe
    <3>8. Ordered'
      BY <1>4, <3>1, <3>5 DEF Ordered, QueuesOrdered, BatchOrdered, PostponedFirst, Before
    <3> QED
      BY <3>2, <3>7, <3>8
  <2> QED
    BY <1>1, <2>1, <2>2
<1>7. Unanswered'
  <2>1. \A q : Issued(q)' <=> Issued(q)
    BY <1>4 DEF Issued
  <2>2. \A q \in Pipe' : q \in Pipe /\ q # r
    BY <1>6
  <2>3. \A q \in Pipe' : /\ Issued(q)'
                         /\ HasFuture(q.kind) => q \in DOMAIN answer'
                         /\ q \in DOMAIN answer' => answer'[q] = "none"
    BY <1>3, <2>1, <2>2 DEF Unanswered
  <2>4. \A q \in DOMAIN answer' : Issued(q)'
    BY <1>3, <2>1 DEF Unanswered
  <2> QED
    BY <2>3, <2>4 DEF Unanswered
<1> QED
  BY <1>3, <1>4, <1>6, <1>7

\* A finish that is postponed was first in the batch, and stays before all the rest.
LEMMA PostponeOrders ==
    ASSUME Fits, Ordered, PostponeFinish
    PROVE  Pipe' = Pipe /\ Ordered'
<1>1. /\ worker = "handle" /\ NextInBatch /\ postponed = None /\ postponed' = Head(batch)
      /\ Head(batch).kind = "finish"
  BY DEF PostponeFinish
<1>2. Head(batch) \in Requests
  BY <1>1, HeadOfBatch
<1>3. /\ InBatch(Head(batch))
      /\ \A q : InBatch(q) <=> InBatch(q)' \/ q = Head(batch)
      /\ \A q \in Requests : InQueue(q)' \/ InBatch(q)' => Before(Head(batch), q)
      /\ QueuesOrdered' /\ BatchOrdered'
      /\ \A q : InQueue(q)' <=> InQueue(q)
  BY <1>1, NextInBatchOrders
<1>4. \A q \in Requests : q # None
  BY RequestParts
<1>5. Pipe' = Pipe
  BY <1>1, <1>2, <1>3, <1>4 DEF Pipe
<1>6. PostponedFirst'
  BY <1>1, <1>3 DEF PostponedFirst, Before
<1> QED
  BY <1>3, <1>5, <1>6 DEF Ordered

\* The destructor answers what is left, and leaves nothing.
LEMMA DrainOrders ==
    ASSUME Fits, Unanswered, Drain
    PROVE  /\ Pipe' = {} /\ Ordered'
           /\ DOMAIN answer' = DOMAIN answer
           /\ \A q \in DOMAIN answer : answer[q] # "none" => answer'[q] = answer[q]
           /\ calls' = calls /\ wire' = wire
<1> DEFINE left == UNION {ToSet(queue[p]) : p \in Producers}
<1>1. /\ worker = "exited" /\ batch' = batch /\ postponed' = None /\ calls' = calls
      /\ queue' = [p \in Producers |-> << >>]
      /\ answer' = [r \in DOMAIN answer |-> CASE r \in left     -> "false"
                                               [] r = postponed  -> "broken"
                                               [] OTHER          -> answer[r]]
      /\ wire' = wire
  BY DEF Drain
<1>2. batch = << >>
  BY <1>1 DEF Fits, BatchFits
<1>3. \A r : ~ InQueue(r)' /\ ~ InBatch(r)'
  BY <1>1, <1>2 DEF InQueue, InBatch
<1>4. \A q \in Requests : q # None
  BY RequestParts
<1>5. Pipe' = {}
  BY <1>1, <1>3, <1>4 DEF Pipe
<1>6. Ordered'
  BY <1>1, <1>2 DEF Ordered, QueuesOrdered, BatchOrdered, PostponedFirst
<1>7. ASSUME NEW q \in DOMAIN answer, answer[q] # "none"
      PROVE  answer'[q] = answer[q]
  <2>1. q \in Requests /\ queue \in [Producers -> Seq(Requests)]
    BY DEF Fits, TypeOK
  <2>2. q \notin Pipe
    BY <1>7 DEF Unanswered
  <2>3. q # postponed /\ ~ InQueue(q)
    BY <2>1, <2>2 DEF Pipe
  <2>4. q \notin left
    <3>1. \A p \in Producers : q \in ToSet(queue[p]) => InQueue(q)
      BY <2>1 DEF ToSet, InQueue
    <3> QED
      BY <2>3, <3>1
  <2> HIDE DEF left
  <2> QED
    BY <1>1, <1>7, <2>3, <2>4
<1> HIDE DEF left
<1>8. DOMAIN answer' = DOMAIN answer
  BY <1>1
<1> QED
  BY <1>1, <1>5, <1>6, <1>7, <1>8

\* The steps that only move, or count, what is in the pipe.
LEMMA OthersOrder ==
    ASSUME Ordered, Unanswered,
           Pipe' = Pipe, calls' = calls, answer' = answer
    PROVE  Unanswered'
<1>1. \A q : Issued(q)' <=> Issued(q)
  BY DEF Issued
<1> QED
  BY <1>1 DEF Unanswered

\* Every call submits a request as EnqueueOrders has it.
LEMMA CallEnqueues ==
    ASSUME Fits,
           \/ \E p \in Producers, kind \in Calls : Call(p, kind)
           \/ Open \/ Stop \/ (Destroy /\ connected)
    PROVE  /\ \E p \in Producers, kind \in AllKinds :
                 Enqueue(p, kind) /\ calls[p] < MayCall(p) + 2
           /\ batch' = batch /\ postponed' = postponed /\ wire' = wire
<1>1. /\ Owner \in Producers /\ Calls \subseteq AllKinds
      /\ \A q \in Producers : MayCall(q) \in Nat
  BY WorkerAssumption DEF AllKinds, MayCall
<1>2. /\ calls \in [Producers -> Nat]
      /\ owner = "new" => calls[Owner] = 0
      /\ owner = "alive" => calls[Owner] <= MayCall(Owner)
      /\ owner = "stop" => calls[Owner] <= MayCall(Owner) + 1
  BY DEF Fits, TypeOK, CallsFit
<1>3. ASSUME NEW p \in Producers, NEW kind \in Calls, Call(p, kind)
      PROVE  Enqueue(p, kind) /\ calls[p] < MayCall(p) + 2
  BY <1>1, <1>2, <1>3 DEF Call
<1>4. ASSUME Open \/ Stop \/ (Destroy /\ connected)
      PROVE  /\ \E kind \in {"open", "stop", "close"} : Enqueue(Owner, kind)
             /\ calls[Owner] < MayCall(Owner) + 2
  <2>1. CASE Open
    BY <1>1, <1>2, <2>1 DEF Open
  <2>2. CASE Stop
    BY <1>1, <1>2, <2>2 DEF Stop
  <2>3. CASE (Destroy /\ connected)
    BY <1>1, <1>2, <2>3 DEF Destroy
  <2> QED
    BY <1>4, <2>1, <2>2, <2>3
<1>5. batch' = batch /\ postponed' = postponed /\ wire' = wire
  BY DEF Call, Open, Stop, Destroy, workerVars
<1>6. {"open", "stop", "close"} \subseteq AllKinds
  BY DEF AllKinds
<1> QED
  BY <1>1, <1>3, <1>4, <1>5, <1>6

\* All the other steps but those that take a request further.
Moves ==
    \/ Opened \/ CloseAnswered \/ (Destroy /\ ~ connected)
    \/ \E p \in Producers : Signal(p)
    \/ BeginRun \/ CheckRunning \/ TakeTokens
    \/ Disconnect \/ UNCHANGED vars

LEMMA MovesKeep ==
    ASSUME Moves
    PROVE  /\ UNCHANGED << calls, frame, finishPending, queue, batch, postponed, wire,
                           answer >>
           /\ drawn' = drawn
           /\ Pipe' = Pipe
<1>1. /\ UNCHANGED << calls, frame, finishPending, queue, batch, postponed, wire, answer >>
      /\ drawn' = drawn
  BY DEF Moves, Opened, CloseAnswered, Destroy, Signal, BeginRun, CheckRunning, TakeTokens,
         Disconnect, vars, appVars, workerVars
<1>2. \A r : (InQueue(r)' <=> InQueue(r)) /\ (InBatch(r)' <=> InBatch(r))
  BY <1>1 DEF InQueue, InBatch
<1> QED
  BY <1>1, <1>2 DEF Pipe

\* The steps, sorted by what they do to the requests.
LEMMA Steps ==
    ASSUME [Next]_vars
    PROVE  \/ \E p \in Producers, kind \in Calls : Call(p, kind)
           \/ Open \/ Stop \/ (Destroy /\ connected)
           \/ \E p \in Producers : Collect(p)
           \/ PostponeFinish
           \/ \E r : Answers(r)
           \/ Drain
           \/ Moves
  BY DEF Next, ThreadStep, WorkerStep, ConstructorStep, DestructorStep, Gone, Answers, Moves

\* A promise gets one value: no answer changes.
KeepsAnswers == \A r \in DOMAIN answer : answer[r] # "none" => answer'[r] = answer[r]

LEMMA NextOrders ==
    ASSUME Fits, Ordered, Unanswered, [Next]_vars
    PROVE  /\ Ordered' /\ Unanswered'
           /\ KeepsAnswers
           /\ DOMAIN answer \subseteq DOMAIN answer'
<1>1. CASE \/ \E p \in Producers, kind \in Calls : Call(p, kind)
           \/ Open \/ Stop \/ (Destroy /\ connected)
  <2>1. PICK p \in Producers, kind \in AllKinds :
            Enqueue(p, kind) /\ calls[p] < MayCall(p) + 2
    BY <1>1, CallEnqueues
  <2>2. batch' = batch /\ postponed' = postponed
    BY <1>1, CallEnqueues
  <2> DEFINE request == [id |-> << p, calls[p] + 1 >>, kind |-> kind, frame |-> frame]
  <2>3. request \in Requests
    BY <2>1, EnqueueFits
  <2>4. /\ Ordered' /\ Unanswered'
        /\ DOMAIN answer' = IF HasFuture(kind) THEN DOMAIN answer \cup {request}
                            ELSE DOMAIN answer
        /\ \A r \in DOMAIN answer : answer'[r] = answer[r]
    BY <2>1, <2>2, <2>3, EnqueueOrders
  <2> HIDE DEF request
  <2>5. DOMAIN answer \subseteq DOMAIN answer'
    BY <2>4
  <2> QED
    BY <2>4, <2>5 DEF KeepsAnswers
<1>2. ASSUME NEW p \in Producers, Collect(p)
      PROVE  Ordered' /\ Unanswered' /\ answer' = answer
  <2>1. Pipe' = Pipe /\ Ordered'
    BY <1>2, CollectOrders
  <2>2. calls' = calls /\ answer' = answer
    BY <1>2 DEF Collect, appVars
  <2> QED
    BY <2>1, <2>2, OthersOrder
<1>3. ASSUME PostponeFinish
      PROVE  Ordered' /\ Unanswered' /\ answer' = answer
  <2>1. Pipe' = Pipe /\ Ordered'
    BY <1>3, PostponeOrders
  <2>2. calls' = calls /\ answer' = answer
    BY <1>3 DEF PostponeFinish, NextInBatch, appVars
  <2> QED
    BY <2>1, <2>2, OthersOrder
<1>4. ASSUME NEW r, Answers(r)
      PROVE  Ordered' /\ Unanswered' /\ KeepsAnswers /\ DOMAIN answer' = DOMAIN answer
  <2>1. /\ r \in Pipe /\ Ordered' /\ Unanswered' /\ DOMAIN answer' = DOMAIN answer
        /\ \A q \in DOMAIN answer : q # r => answer'[q] = answer[q]
    BY <1>4, AnswersOrder
  <2>2. r \in DOMAIN answer => answer[r] = "none"
    BY <2>1 DEF Unanswered
  <2> QED
    BY <2>1, <2>2 DEF KeepsAnswers
<1>5. ASSUME Drain
      PROVE  Ordered' /\ Unanswered' /\ KeepsAnswers /\ DOMAIN answer' = DOMAIN answer
  <2>1. /\ Pipe' = {} /\ Ordered' /\ DOMAIN answer' = DOMAIN answer /\ calls' = calls
        /\ KeepsAnswers
    BY <1>5, DrainOrders DEF KeepsAnswers
  <2>2. \A q : Issued(q)' <=> Issued(q)
    BY <2>1 DEF Issued
  <2>3. \A q \in DOMAIN answer' : Issued(q)'
    BY <2>1, <2>2 DEF Unanswered
  <2> QED
    BY <2>1, <2>3 DEF Unanswered
<1>6. ASSUME Moves
      PROVE  Ordered' /\ Unanswered' /\ answer' = answer
  <2>1. /\ UNCHANGED << calls, queue, batch, postponed, answer >> /\ Pipe' = Pipe
    BY <1>6, MovesKeep
  <2>2. \A r : (InQueue(r)' <=> InQueue(r)) /\ (InBatch(r)' <=> InBatch(r))
    BY <2>1 DEF InQueue, InBatch
  <2>3. Ordered'
    BY <2>1, <2>2 DEF Ordered, QueuesOrdered, BatchOrdered, PostponedFirst, Before
  <2> QED
    BY <2>1, <2>3, OthersOrder
<1> QED
  BY <1>1, <1>2, <1>3, <1>4, <1>5, <1>6, Steps DEF KeepsAnswers

-----------------------------------------------------------------------------
(* The theorems that need no more                                          *)

LEMMA InitSubmitted ==
    ASSUME Init
    PROVE  Submitted
<1>1. /\ queue = [p \in Producers |-> << >>] /\ batch = << >> /\ postponed = None
      /\ DOMAIN answer = {}
  BY DEF Init
<1>2. \A r : ~ InQueue(r) /\ ~ InBatch(r)
  BY <1>1 DEF InQueue, InBatch
<1>3. \A r \in Requests : r # None
  BY RequestParts
<1>4. Pipe = {}
  BY <1>1, <1>2, <1>3 DEF Pipe
<1>5. Ordered
  BY <1>1 DEF Ordered, QueuesOrdered, BatchOrdered, PostponedFirst
<1>6. Unanswered
  BY <1>1, <1>4 DEF Unanswered
<1> QED
  BY <1>5, <1>6, InitFits DEF Submitted

LEMMA SubmittedAlways == Spec => []Submitted
<1>1. Submitted /\ [Next]_vars => Submitted'
  BY NextFits, NextOrders DEF Submitted
<1> QED
  BY <1>1, InitSubmitted, PTL DEF Spec

\* The client stream keeps its types, whatever the threads call and however the tasks
\* of the worker end.
THEOREM SendTypeCorrect == Spec => []TypeOK
<1>1. Submitted => TypeOK
  BY DEF Submitted, Fits
<1> QED
  BY <1>1, SubmittedAlways, PTL

\* std::promise::set_value, of Socket and worker alike, is called once per request:
\* by the request's tasks, or by the destructor for one that was never handled.
THEOREM PromisesKept == Spec => AnsweredOnce
<1>1. Submitted /\ [Next]_vars =>
          [\A r \in DOMAIN answer : answer[r] # "none" => answer'[r] = answer[r]]_vars
  BY NextOrders DEF Submitted, KeepsAnswers
<1> QED
  BY <1>1, SubmittedAlways, PTL DEF Spec, AnsweredOnce

-----------------------------------------------------------------------------
(* The frames                                                              *)

LEMMA SentFinite ==
    ASSUME wire \in Seq(Msgs), NEW n \in 1 .. Len(wire) + 1
    PROVE  /\ IsFiniteSet({m \in 1 .. n - 1 : wire[m].type = "finish"})
           /\ FinishesBefore(n) \in Nat
<1>1. IsFiniteSet(1 .. n - 1)
  BY FS_Interval
<1>2. {m \in 1 .. n - 1 : wire[m].type = "finish"} \subseteq 1 .. n - 1
  OBVIOUS
<1>3. IsFiniteSet({m \in 1 .. n - 1 : wire[m].type = "finish"})
  BY <1>1, <1>2, FS_Subset
<1> QED
  BY <1>3, FS_CardinalityType DEF FinishesBefore

\* One more message changes the count of none before it, and the total by one if it is
\* the end of a frame.
LEMMA CountAppend ==
    ASSUME wire \in Seq(Msgs), NEW x \in Msgs, wire' = Append(wire, x)
    PROVE  /\ \A n \in 1 .. Len(wire) + 1 : FinishesBefore(n)' = FinishesBefore(n)
           /\ FinishesSent' = FinishesSent + IF x.type = "finish" THEN 1 ELSE 0
           /\ FinishesSent \in Nat
<1> DEFINE l == Len(wire)
           before == {m \in 1 .. l : wire[m].type = "finish"}
           after == {m \in 1 .. l + 1 : wire'[m].type = "finish"}
<1>1. /\ l \in Nat /\ Len(wire') = l + 1 /\ wire'[l + 1] = x
      /\ \A m \in 1 .. l : wire'[m] = wire[m]
  OBVIOUS
<1>2. ASSUME NEW n \in 1 .. l + 1
      PROVE  FinishesBefore(n)' = FinishesBefore(n)
  <2>1. \A m \in 1 .. n - 1 : m \in 1 .. l
    BY <1>1
  <2>2. {m \in 1 .. n - 1 : wire'[m].type = "finish"}
            = {m \in 1 .. n - 1 : wire[m].type = "finish"}
    BY <1>1, <2>1
  <2> QED
    BY <2>2 DEF FinishesBefore
<1>3. (l + 1) - 1 = l /\ (l + 1 + 1) - 1 = l + 1
  BY <1>1
<1>4. FinishesSent = Cardinality(before) /\ FinishesSent \in Nat /\ IsFiniteSet(before)
  <2>1. l + 1 \in 1 .. Len(wire) + 1
    BY <1>1
  <2> QED
    BY <1>3, <2>1, SentFinite DEF FinishesSent, FinishesBefore
<1>5. FinishesSent' = Cardinality(after)
  BY <1>1, <1>3 DEF FinishesSent, FinishesBefore
<1>6. l + 1 \notin before
  BY <1>1
<1>7. after = IF x.type = "finish" THEN before \cup {l + 1} ELSE before
  BY <1>1
<1> HIDE DEF before, after
<1>8. Cardinality(before \cup {l + 1}) = Cardinality(before) + 1
  BY <1>4, <1>6, FS_AddElement
<1>9. FinishesSent' = FinishesSent + IF x.type = "finish" THEN 1 ELSE 0
  BY <1>4, <1>5, <1>7, <1>8
<1> QED
  BY <1>2, <1>4, <1>9

\* What the tasks of a request send, unless it is an image with the end of its frame:
\* nothing, or one message.  A finish that is sent is no more pending.
LEMMA TasksSend ==
    ASSUME NEW r \in Requests, r.kind # "largeAndFinish", RunTasks(r),
           finishPending \in BOOLEAN, wire \in Seq(Msgs)
    PROVE  \/ wire' = wire /\ finishPending' = finishPending
           \/ \E x \in Msgs :
                 /\ wire' = Append(wire, x)
                 /\ x.of = r
                 /\ x.type = "finish" <=> r.kind = "finish"
                 /\ x.type = "tile" <=> HasImage(r.kind)
                 /\ finishPending' = (finishPending /\ r.kind # "finish")
<1> DEFINE m == Messages(r)
<1>1. r.kind \in AllKinds
  BY DEF Requests
<1>2. \/ m = << >> /\ r.kind = "stop"
      \/ \E x \in Msgs : /\ m = << x >> /\ x.of = r
                         /\ x.type = "finish" <=> r.kind = "finish"
                         /\ x.type = "tile" <=> HasImage(r.kind)
  <2>1. CASE r.kind \in {"small", "large"}
    <3> DEFINE x == [type |-> "tile", of |-> r]
    <3>1. Tile(r) = << x >> /\ FrameEnd(r) = << >> /\ m = Tile(r) \o FrameEnd(r)
      BY <2>1 DEF Messages, Tile, FrameEnd, Message, HasImage, EndsFrame
    <3>2. m = << x >>
      <4> HIDE DEF m, x
      <4> QED
        BY <3>1
    <3> QED
      BY <2>1, <3>2 DEF Msgs, HasImage
  <2>2. CASE r.kind = "finish"
    <3> DEFINE x == [type |-> "finish", of |-> r]
    <3>1. m = << x >>
      BY <2>2 DEF Messages, Tile, FrameEnd, Message, HasImage, EndsFrame
    <3> QED
      BY <2>2, <3>1 DEF Msgs, HasImage
  <2>3. CASE r.kind = "data"
    <3> DEFINE x == [type |-> "data", of |-> r]
    <3>1. m = << x >>
      BY <2>3 DEF Messages, Data, Message, HasImage, EndsFrame
    <3> QED
      BY <2>3, <3>1 DEF Msgs, HasImage
  <2>4. CASE r.kind = "open"
    <3> DEFINE x == [type |-> "open", of |-> r]
    <3>1. m = << x >>
      BY <2>4 DEF Messages, Ends, Message, HasImage, EndsFrame
    <3> QED
      BY <2>4, <3>1 DEF Msgs, HasImage
  <2>5. CASE r.kind = "close"
    <3> DEFINE x == [type |-> "quit", of |-> r]
    <3>1. m = << x >>
      BY <2>5 DEF Messages, Ends, Message, HasImage, EndsFrame
    <3> QED
      BY <2>5, <3>1 DEF Msgs, HasImage
  <2>6. CASE r.kind = "stop"
    BY <2>6 DEF Messages, HasImage, EndsFrame
  <2> QED
    BY <1>1, <2>1, <2>2, <2>3, <2>4, <2>5, <2>6 DEF AllKinds, Kinds
<1>3. wire \o << >> = wire /\ \A x \in Msgs : wire \o << x >> = Append(wire, x)
  OBVIOUS
<1>4. CASE Succeed(r)
  <2>1. wire' = wire \o m /\ finishPending' = (finishPending /\ r.kind # "finish")
    BY <1>4 DEF Succeed, FinishFrameDone, EndsFrame
  <2> HIDE DEF m
  <2> QED
    BY <1>2, <1>3, <2>1
<1>5. CASE Fail(r)
  <2>1. PICK n \in 0 .. Len(m) - 1 : wire' = wire \o SubSeq(m, 1, n)
    BY <1>5 DEF Fail
  <2>2. n = 0
    <3> HIDE DEF m
    <3> QED
      BY <1>2
  <2>3. SubSeq(m, 1, n) = << >>
    BY <2>2
  <2> QED
    BY <1>3, <1>5, <2>1, <2>3 DEF Fail
<1>6. CASE Throw(r)
  <2>1. PICK n \in 0 .. 1 : wire' = wire \o SubSeq(m, 1, n)
    BY <1>6 DEF Throw
  <2>2. r.kind = "large" /\ finishPending' = finishPending
    BY <1>6 DEF Throw
  <2>3. CASE n = 0
    <3>1. SubSeq(m, 1, n) = << >>
      BY <2>3
    <3> QED
      BY <1>3, <2>1, <2>2, <3>1
  <2>4. CASE n = 1
    <3> HIDE DEF m
    <3>0. PICK x \in Msgs : m = << x >>
      BY <1>2, <2>2
    <3>1. m \in Seq(Msgs) /\ Len(m) = 1
      BY <3>0
    <3>2. SubSeq(m, 1, n) = m
      BY <2>4, <3>1
    <3> QED
      BY <1>2, <1>3, <2>1, <2>2, <3>2
  <2> QED
    BY <2>1, <2>3, <2>4
<1> QED
  BY <1>4, <1>5, <1>6 DEF RunTasks

LEMMA TilesKept ==
    ASSUME wire' = wire, TilesFit
    PROVE  TilesFit' /\ FinishesSent' = FinishesSent
<1>1. \A n : FinishesBefore(n)' = FinishesBefore(n)
  BY DEF FinishesBefore
<1> QED
  BY <1>1 DEF TilesFit, FinishesSent, FinishesBefore

\* A message that belongs to the frame the server is at.
LEMMA TilesAppend ==
    ASSUME wire \in Seq(Msgs), NEW x \in Msgs, wire' = Append(wire, x), TilesFit,
           x.type \in {"tile", "finish"} =>
               /\ x.of.frame <= FinishesSent + 1
               /\ x.of.id[1] = Owner => x.of.frame = FinishesSent + 1
    PROVE  TilesFit'
<1> SUFFICES ASSUME NEW n \in 1 .. Len(wire'), wire'[n].type \in {"tile", "finish"}
             PROVE  /\ wire'[n].of.frame <= FinishesBefore(n)' + 1
                    /\ wire'[n].of.id[1] = Owner =>
                           wire'[n].of.frame = FinishesBefore(n)' + 1
  BY DEF TilesFit
<1>1. /\ Len(wire') = Len(wire) + 1 /\ Len(wire) \in Nat /\ wire'[Len(wire) + 1] = x
      /\ \A m \in 1 .. Len(wire) : wire'[m] = wire[m]
  OBVIOUS
<1>2. CASE n \in 1 .. Len(wire)
  <2>1. FinishesBefore(n)' = FinishesBefore(n)
    BY <1>2, CountAppend
  <2> QED
    BY <1>1, <1>2, <2>1 DEF TilesFit
<1>3. CASE n = Len(wire) + 1
  <2>1. FinishesBefore(n)' = FinishesBefore(n)
    BY <1>1, <1>3, CountAppend
  <2>2. FinishesBefore(n)' = FinishesSent
    BY <1>3, <2>1 DEF FinishesSent
  <2> QED
    BY <1>1, <1>3, <2>2
<1> QED
  BY <1>1, <1>2, <1>3

LEMMA ApartBefore ==
    ASSUME DOMAIN answer \subseteq DOMAIN answer', EndsApart'
    PROVE  EndsApart
  BY DEF EndsApart

\* A request that is submitted belongs to the frame of the application, which is the
\* server's unless a finish is pending; then there are no images to come.
LEMMA EnqueueFrames ==
    ASSUME Submitted, FramesFit, TilesFit, EndsApart',
           NEW p \in Producers, NEW kind \in AllKinds, Enqueue(p, kind),
           calls[p] < MayCall(p) + 2,
           batch' = batch, postponed' = postponed, wire' = wire,
           HasImage(kind) => ~ finishPending,
           kind = "finish" => drawn /\ p = Owner,
           finishPending' = (finishPending \/ kind = "finish"),
           frame' = IF EndsFrame(kind) THEN frame + 1 ELSE frame,
           drawn' => ~ EndsFrame(kind) /\ (drawn \/ HasImage(kind))
    PROVE  FramesFit' /\ TilesFit'
<1> DEFINE request == [id |-> << p, calls[p] + 1 >>, kind |-> kind, frame |-> frame]
<1>1. request \in Requests
  BY EnqueueFits DEF Submitted
<1>2. /\ Pipe' = Pipe \cup {request}
      /\ \A r \in Pipe : Before(r, request)
      /\ DOMAIN answer' = IF HasFuture(kind) THEN DOMAIN answer \cup {request}
                          ELSE DOMAIN answer
  BY <1>1, EnqueueOrders DEF Submitted
<1>3. request.kind = kind /\ request.frame = frame /\ request.id[1] = p
  OBVIOUS
<1> HIDE DEF request
<1>4. kind # "largeAndFinish"
  <2>1. SUFFICES ASSUME kind = "largeAndFinish"
                 PROVE  FALSE
    OBVIOUS
  <2>2. request \in DOMAIN answer'
    BY <1>2, <2>1 DEF HasFuture
  <2> QED
    BY <1>3, <2>1, <2>2 DEF EndsApart
<1>5. TilesFit' /\ FinishesSent' = FinishesSent
  BY TilesKept
<1>6. frame \in Nat /\ FinishesSent \in Nat /\ drawn \in BOOLEAN /\ finishPending \in BOOLEAN
  <2>1. wire \in Seq(Msgs)
    BY DEF Submitted, Fits, TypeOK, Msgs
  <2>2. Len(wire) + 1 \in 1 .. Len(wire) + 1
    BY <2>1
  <2>3. FinishesSent \in Nat
    BY <2>1, <2>2, SentFinite DEF FinishesSent
  <2>4. frame \in Frames /\ drawn \in BOOLEAN /\ finishPending \in BOOLEAN
    BY DEF Submitted, Fits, TypeOK
  <2> QED
    BY <2>3, <2>4, WorkerAssumption DEF Frames
<1>7. frame' = FinishesSent' + 1 + IF finishPending' THEN 1 ELSE 0
  BY <1>4, <1>5, <1>6 DEF FramesFit, EndsFrame
<1>8. drawn' => ~ finishPending'
  BY <1>4, <1>6 DEF FramesFit, EndsFrame, HasImage
<1>9. ASSUME NEW r \in Pipe', HasImage(r.kind)
      PROVE  /\ r.frame <= FinishesSent' + 1
             /\ r.id[1] = Owner => r.frame = FinishesSent' + 1
  <2>1. CASE r = request
    BY <1>3, <1>5, <1>6, <1>9, <2>1 DEF FramesFit
  <2>2. CASE r # request
    BY <1>2, <1>5, <1>9, <2>2 DEF FramesFit
  <2> QED
    BY <2>1, <2>2
<1>10. ASSUME NEW f \in Pipe', f.kind = "finish"
       PROVE  /\ finishPending'
              /\ f.frame = FinishesSent' + 1
              /\ f.id[1] = Owner
              /\ \A g \in Pipe' : g.kind = "finish" => g = f
              /\ \A r \in Pipe' : HasImage(r.kind) /\ r.id[1] = Owner => r.id[2] < f.id[2]
  <2>1. CASE kind = "finish"
    <3>1. ~ finishPending /\ \A g \in Pipe : g.kind # "finish"
      BY <1>6, <2>1 DEF FramesFit
    <3>2. f = request /\ \A g \in Pipe' : g.kind = "finish" => g = f
      BY <1>2, <1>10, <3>1
    <3>3. \A r \in Pipe' : HasImage(r.kind) => r \in Pipe
      BY <1>2, <1>3, <2>1 DEF HasImage
    <3>4. f.frame = FinishesSent' + 1 /\ f.id[1] = Owner
      BY <1>3, <1>5, <1>6, <2>1, <3>1, <3>2 DEF FramesFit
    <3>5. \A r \in Pipe' : HasImage(r.kind) /\ r.id[1] = Owner => r.id[2] < f.id[2]
      BY <1>2, <3>2, <3>3, <3>4 DEF Before
    <3> QED
      BY <2>1, <3>2, <3>4, <3>5
  <2>2. CASE kind # "finish"
    <3>1. f \in Pipe /\ f.kind = "finish"
      BY <1>2, <1>3, <1>10, <2>2
    <3>2. finishPending
      BY <3>1 DEF FramesFit
    <3>3. \A r \in Pipe' : HasImage(r.kind) \/ r.kind = "finish" => r \in Pipe
      BY <1>2, <1>3, <2>2, <3>2
    <3> QED
      BY <1>5, <3>1, <3>2, <3>3 DEF FramesFit
  <2> QED
    BY <2>1, <2>2
<1> QED
  BY <1>5, <1>7, <1>8, <1>9, <1>10 DEF FramesFit

LEMMA CallFrames ==
    ASSUME Submitted, FramesFit, TilesFit, EndsApart',
           \/ \E p \in Producers, kind \in Calls : Call(p, kind)
           \/ Open \/ Stop \/ (Destroy /\ connected)
    PROVE  FramesFit' /\ TilesFit'
<1>1. /\ Owner \in Producers /\ Calls \subseteq AllKinds
      /\ {"open", "stop", "close"} \subseteq AllKinds
      /\ \A q \in Producers : MayCall(q) \in Nat
  BY WorkerAssumption DEF AllKinds, MayCall
<1>2. /\ calls \in [Producers -> Nat]
      /\ owner = "new" => calls[Owner] = 0
      /\ owner = "alive" => calls[Owner] <= MayCall(Owner)
      /\ owner = "stop" => calls[Owner] <= MayCall(Owner) + 1
      /\ finishPending \in BOOLEAN
  BY DEF Submitted, Fits, TypeOK, CallsFit
<1>3. batch' = batch /\ postponed' = postponed /\ wire' = wire
  BY DEF Call, Open, Stop, Destroy, workerVars
<1>4. ASSUME NEW p \in Producers, NEW kind \in Calls, Call(p, kind)
      PROVE  FramesFit' /\ TilesFit'
  <2>1. /\ Enqueue(p, kind) /\ calls[p] < MayCall(p) + 2 /\ kind \in AllKinds
        /\ HasImage(kind) => ~ finishPending
        /\ kind = "finish" => drawn /\ p = Owner
        /\ finishPending' = (finishPending \/ kind = "finish")
        /\ frame' = IF EndsFrame(kind) THEN frame + 1 ELSE frame
    BY <1>1, <1>2, <1>4 DEF Call, Accepts, EndsFrame
  <2>2. drawn' => ~ EndsFrame(kind) /\ (drawn \/ HasImage(kind))
    BY <1>4 DEF Call
  <2> QED
    BY <1>3, <2>1, <2>2, EnqueueFrames
<1>5. ASSUME Open \/ Stop \/ (Destroy /\ connected)
      PROVE  FramesFit' /\ TilesFit'
  <2>1. PICK kind \in {"open", "stop", "close"} : Enqueue(Owner, kind)
    BY <1>5 DEF Open, Stop, Destroy
  <2>2. calls[Owner] < MayCall(Owner) + 2
    <3>1. CASE Open
      BY <1>1, <1>2, <3>1 DEF Open
    <3>2. CASE Stop
      BY <1>1, <1>2, <3>2 DEF Stop
    <3>3. CASE Destroy /\ connected
      BY <1>1, <1>2, <3>3 DEF Destroy
    <3> QED
      BY <1>5, <3>1, <3>2, <3>3
  <2>3. drawn' = drawn /\ finishPending' = finishPending /\ frame' = frame
    BY <1>5 DEF Open, Stop, Destroy
  <2>4. kind \in AllKinds /\ ~ HasImage(kind) /\ ~ EndsFrame(kind) /\ kind # "finish"
    BY <1>1 DEF HasImage, EndsFrame
  <2>5. finishPending' = (finishPending \/ kind = "finish")
    BY <1>2, <2>3, <2>4
  <2>6. drawn' => ~ EndsFrame(kind) /\ (drawn \/ HasImage(kind))
    BY <2>3, <2>4
  <2> QED
    BY <1>1, <1>3, <2>1, <2>2, <2>3, <2>4, <2>5, <2>6, EnqueueFrames
<1> QED
  BY <1>4, <1>5

\* To move requests changes nothing of that.
LEMMA SameFrames ==
    ASSUME FramesFit, TilesFit, Pipe' \subseteq Pipe,
           UNCHANGED << frame, drawn, finishPending, wire >>
    PROVE  FramesFit' /\ TilesFit'
<1>1. TilesFit' /\ FinishesSent' = FinishesSent
  BY TilesKept
<1>2. frame' = FinishesSent' + 1 + (IF finishPending' THEN 1 ELSE 0) /\ (drawn' => ~ finishPending')
  BY <1>1 DEF FramesFit
<1>3. \A r \in Pipe' : HasImage(r.kind) =>
          /\ r.frame <= FinishesSent' + 1
          /\ r.id[1] = Owner => r.frame = FinishesSent' + 1
  BY <1>1 DEF FramesFit
<1>4. \A f \in Pipe' : f.kind = "finish" =>
          /\ finishPending'
          /\ f.frame = FinishesSent' + 1
          /\ f.id[1] = Owner
          /\ \A g \in Pipe' : g.kind = "finish" => g = f
          /\ \A r \in Pipe' : HasImage(r.kind) /\ r.id[1] = Owner => r.id[2] < f.id[2]
  BY <1>1 DEF FramesFit
<1> QED
  BY <1>1, <1>2, <1>3, <1>4 DEF FramesFit

\* An image that is sent is one of the server's frame.  With the end of the frame sent
\* nothing is left of it: the finish was postponed to the last.
LEMMA AnswersFrames ==
    ASSUME Submitted, FramesFit, TilesFit, EndsApart, NEW r, Answers(r)
    PROVE  FramesFit' /\ TilesFit'
<1>1. /\ r \in Requests /\ r \in Pipe /\ Pipe' = Pipe \ {r}
  BY AnswersOrder DEF Submitted
<1>2. /\ wire \in Seq(Msgs) /\ frame \in Nat
      /\ finishPending \in BOOLEAN /\ drawn \in BOOLEAN
  BY WorkerAssumption DEF Submitted, Fits, TypeOK, Msgs, Frames
<1>3. frame' = frame /\ drawn' = drawn
  BY DEF Answers, HandleRequest, RefuseFinish, FinishNow, NextInBatch, appVars
<1>4. CASE UNCHANGED << wire, finishPending >>
  <2>1. Pipe' \subseteq Pipe
    BY <1>1
  <2> QED
    BY <1>3, <1>4, <2>1, SameFrames
<1>5. CASE RunTasks(r) /\ (r.kind = "finish" => FinishNow /\ r = postponed)
  <2>1. r.kind # "largeAndFinish"
    BY <1>1 DEF Submitted, Unanswered, HasFuture, EndsApart
  <2>2. CASE wire' = wire /\ finishPending' = finishPending
    BY <1>4, <2>2
  <2>3. ASSUME NEW x \in Msgs,
               wire' = Append(wire, x), x.of = r,
               x.type = "finish" <=> r.kind = "finish",
               x.type = "tile" <=> HasImage(r.kind),
               finishPending' = (finishPending /\ r.kind # "finish")
        PROVE  FramesFit' /\ TilesFit'
    <3>1. /\ FinishesSent' = FinishesSent + IF r.kind = "finish" THEN 1 ELSE 0
          /\ FinishesSent \in Nat
      BY <1>2, <2>3, CountAppend
    <3>2. /\ HasImage(r.kind) \/ r.kind = "finish" => r.frame <= FinishesSent + 1
          /\ (HasImage(r.kind) \/ r.kind = "finish") /\ r.id[1] = Owner =>
                 r.frame = FinishesSent + 1
      BY <1>1, <3>1 DEF FramesFit
    <3>3. TilesFit'
      BY <1>2, <2>3, <3>2, TilesAppend
    <3>4. CASE r.kind # "finish"
      <4>1. FinishesSent' = FinishesSent /\ finishPending' = finishPending
        BY <1>2, <2>3, <3>1, <3>4
      <4>2. frame' = FinishesSent' + 1 + (IF finishPending' THEN 1 ELSE 0)
        BY <1>3, <4>1 DEF FramesFit
      <4>3. \A q \in Pipe' : q \in Pipe
        BY <1>1
      <4> QED
        BY <1>3, <3>3, <4>1, <4>2, <4>3 DEF FramesFit
    <3>5. CASE r.kind = "finish"
      <4>1. /\ finishPending /\ r.id[1] = Owner
            /\ \A g \in Pipe : g.kind = "finish" => g = r
            /\ \A q \in Pipe : HasImage(q.kind) /\ q.id[1] = Owner => q.id[2] < r.id[2]
        BY <1>1, <3>5 DEF FramesFit
      <4>2. r = postponed /\ postponed # None /\ postponed' = None
        BY <1>5, <3>5 DEF FinishNow
      <4>3. \A q \in Pipe' : q \in Requests /\ q \in Pipe /\ q # r /\ (InQueue(q) \/ InBatch(q))
        BY <1>1, <4>2 DEF Pipe
      <4>4. \A q \in Pipe' : Before(r, q)
        BY <4>2, <4>3 DEF Submitted, Ordered, PostponedFirst
      <4>5. \A q \in Pipe' : ~ (HasImage(q.kind) /\ q.id[1] = Owner)
        <5> SUFFICES ASSUME NEW q \in Pipe', HasImage(q.kind), q.id[1] = Owner
                     PROVE  FALSE
          OBVIOUS
        <5>1. q.id[2] < r.id[2] /\ r.id[2] < q.id[2]
          BY <4>1, <4>3, <4>4 DEF Before
        <5>2. q.id[2] \in Nat /\ r.id[2] \in Nat
          BY <1>1, <4>3, RequestParts
        <5> QED
          BY <5>1, <5>2
      <4>6. \A q \in Pipe' : q.kind # "finish"
        BY <4>1, <4>3
      <4>7. ~ finishPending' /\ FinishesSent' = FinishesSent + 1
        BY <2>3, <3>1, <3>5
      <4>8. frame' = FinishesSent' + 1 + (IF finishPending' THEN 1 ELSE 0)
        BY <1>3, <3>1, <4>1, <4>7 DEF FramesFit
      <4>9. \A q \in Pipe' : HasImage(q.kind) => q.frame <= FinishesSent' + 1
        <5> SUFFICES ASSUME NEW q \in Pipe', HasImage(q.kind)
                     PROVE  q.frame <= FinishesSent' + 1
          OBVIOUS
        <5>1. q.frame <= FinishesSent + 1 /\ q.frame \in Nat
          BY <4>3, RequestParts DEF FramesFit
        <5> QED
          BY <3>1, <4>7, <5>1
      <4> QED
        BY <3>3, <4>5, <4>6, <4>7, <4>8, <4>9 DEF FramesFit
    <3> QED
      BY <3>4, <3>5
  <2> QED
    BY <1>1, <1>2, <1>5, <2>1, <2>2, <2>3, TasksSend
<1> QED
  BY <1>4, <1>5 DEF Answers, HandleRequest, RefuseFinish, FinishNow

LEMMA NextFrames ==
    ASSUME IInv, [Next]_vars
    PROVE  IInv'
<1>1. Submitted' /\ DOMAIN answer \subseteq DOMAIN answer'
  BY NextFits, NextOrders DEF IInv, Submitted
<1> SUFFICES ASSUME EndsApart'
             PROVE  FramesFit' /\ TilesFit'
  BY <1>1 DEF IInv
<1>2. Submitted /\ EndsApart /\ FramesFit /\ TilesFit
  BY <1>1, ApartBefore DEF IInv
<1>3. CASE \/ \E p \in Producers, kind \in Calls : Call(p, kind)
           \/ Open \/ Stop \/ (Destroy /\ connected)
  BY <1>2, <1>3, CallFrames
<1>4. ASSUME NEW p \in Producers, Collect(p)
      PROVE  FramesFit' /\ TilesFit'
  BY <1>2, <1>4, CollectOrders, SameFrames DEF Submitted, Collect, appVars
<1>5. CASE PostponeFinish
  BY <1>2, <1>5, PostponeOrders, SameFrames
     DEF Submitted, PostponeFinish, NextInBatch, appVars
<1>6. ASSUME NEW r, Answers(r)
      PROVE  FramesFit' /\ TilesFit'
  BY <1>2, <1>6, AnswersFrames
<1>7. CASE Drain
  <2>1. Pipe' \subseteq Pipe
    BY <1>2, <1>7, DrainOrders DEF Submitted
  <2> QED
    BY <1>2, <1>7, <2>1, SameFrames DEF Drain
<1>8. CASE Moves
  BY <1>2, <1>8, MovesKeep, SameFrames
<1> QED
  BY <1>3, <1>4, <1>5, <1>6, <1>7, <1>8, Steps

LEMMA InitFrames ==
    ASSUME Init
    PROVE  IInv
<1>1. Submitted
  BY InitSubmitted
<1>2. wire = << >> /\ frame = 1 /\ finishPending = FALSE /\ drawn = FALSE
  BY DEF Init
<1>3. Pipe = {}
  <2>1. /\ queue = [p \in Producers |-> << >>] /\ batch = << >> /\ postponed = None
    BY DEF Init
  <2>2. \A r : ~ InQueue(r) /\ ~ InBatch(r)
    BY <2>1 DEF InQueue, InBatch
  <2> QED
    BY <2>1, <2>2, RequestParts DEF Pipe
<1>4. FinishesSent = 0
  <2>1. {m \in 1 .. (Len(wire) + 1) - 1 : wire[m].type = "finish"} = {}
    BY <1>2
  <2> QED
    BY <2>1, FS_EmptySet DEF FinishesSent, FinishesBefore
<1>5. TilesFit
  BY <1>2 DEF TilesFit
<1>6. FramesFit
  BY <1>2, <1>3, <1>4 DEF FramesFit
<1> QED
  BY <1>1, <1>5, <1>6 DEF IInv

\* StreamSendWorker postpones a finish until the queue is empty, and StreamPrivate refuses
\* images meanwhile: so the server never counts an image to the frame after its own, nor
\* the owner's to the one before, however many threads send in parallel.
THEOREM TilesKeptInTheirFrame == Spec => []TilesInTheirFrame
<1>1. IInv => TilesInTheirFrame
  BY DEF IInv, EndsApart, TilesFit, TilesInTheirFrame
<1>2. IInv /\ [Next]_vars => IInv'
  BY NextFrames
<1> QED
  BY <1>1, <1>2, InitFrames, PTL DEF Spec

-----------------------------------------------------------------------------
(* Rest: what there is when no thread can go on                            *)

\* The requests that have not been dequeued, and the threads that have not signalled.
Queued == {r \in Requests : InQueue(r)}
Busy == {p \in Producers : pc[p] # "idle"}

\* Each request in a queue has a token, or somebody who is about to give or to use one.
TokensFit ==
    /\ IsFiniteSet(Queued) /\ IsFiniteSet(Busy)
    /\ Cardinality(Queued) = tokens + need + Cardinality(Busy)

\* What has no answer is on its way.
Awaited == \A r \in DOMAIN answer : answer[r] = "none" => r \in Pipe

\* The only promise that breaks is that of a finish, in the destructor.
BrokenFit == \A r \in DOMAIN answer : answer[r] = "broken" => r.kind = "finish" /\ owner = "gone"

\* How far the worker's thread and the owner are.
LifeFits ==
    /\ worker = "new" => owner \in {"new", "opening"} /\ \A r \in DOMAIN answer : answer[r] = "none"
    /\ owner = "opening" => \E r \in DOMAIN answer : r.kind = "open"
    /\ owner = "closing" => \E r \in DOMAIN answer : r.kind = "close"
    /\ owner \in {"stopping", "gone"} => ~ running
    /\ worker \notin {"new", "exited"} => owner # "gone"
    /\ worker = "exited" => owner \in {"stopping", "gone"}
    /\ owner \notin {"stopping", "gone"} /\ worker # "new" => running
    /\ owner = "gone" => Pipe = {}
    /\ owner = "stopping" /\ worker \in {"dequeue", "collect"} => \E r \in Pipe : r.kind = "stop"

RestInv == Submitted /\ TokensFit /\ Awaited /\ BrokenFit /\ LifeFits

-----------------------------------------------------------------------------
(* The tokens                                                              *)

LEMMA OneMoreRequest ==
    ASSUME IsFiniteSet(Queued), NEW r, r \notin Queued, Queued' = Queued \cup {r}
    PROVE  IsFiniteSet(Queued') /\ Cardinality(Queued') = Cardinality(Queued) + 1
BY FS_AddElement

LEMMA CountsAreNumbers ==
    ASSUME TokensFit
    PROVE  Cardinality(Queued) \in Nat /\ Cardinality(Busy) \in Nat
BY FS_CardinalityType DEF TokensFit

\* A thread that is idle submits a request.
LEMMA EnqueueTokens ==
    ASSUME Fits, Ordered, Unanswered, TokensFit, NEW p \in Producers, NEW kind \in AllKinds, Enqueue(p, kind),
           calls[p] < MayCall(p) + 2, tokens' = tokens, need' = need
    PROVE  TokensFit'
<1> DEFINE request == [id |-> << p, calls[p] + 1 >>, kind |-> kind, frame |-> frame]
<1>1. request \in Requests
  BY EnqueueFits
<1>2. /\ queue' = [queue EXCEPT ![p] = Append(@, request)]
      /\ pc[p] = "idle" /\ pc' = [pc EXCEPT ![p] = kind]
  BY DEF Enqueue
<1>3. /\ queue \in [Producers -> Seq(Requests)] /\ DOMAIN pc = Producers
      /\ calls[p] \in Nat
  BY DEF Fits, TypeOK
<1>4. request.id[1] = p /\ request.id[2] = calls[p] + 1
  OBVIOUS
<1> HIDE DEF request
<1>5. ~ InQueue(request)
  <2>1. SUFFICES ASSUME InQueue(request)
                 PROVE  FALSE
    OBVIOUS
  <2>2. request \in Pipe
    BY <1>1, <2>1 DEF Pipe
  <2>3. Issued(request)
    BY <2>2 DEF Unanswered
  <2> QED
    BY <1>3, <1>4, <2>3 DEF Issued
<1>6. ASSUME NEW r
      PROVE  InQueue(r)' <=> InQueue(r) \/ r = request
  <2>1. PICK q : q = queue[p] /\ q \in Seq(Requests)
    BY <1>3
  <2>2. queue'[p] = Append(q, request) /\ \A s \in Producers \ {p} : queue'[s] = queue[s]
    BY <1>2, <1>3, <2>1
  <2>3. /\ Len(queue'[p]) = Len(q) + 1 /\ Len(q) \in Nat
        /\ \A n \in 1 .. Len(q) : queue'[p][n] = q[n]
        /\ queue'[p][Len(q) + 1] = request
    BY <1>1, <2>1, <2>2
  <2>4. (\E n \in 1 .. Len(queue'[p]) : r = queue'[p][n]) <=> (\E n \in 1 .. Len(q) : r = q[n]) \/ r = request
    BY <2>3
  <2> QED
    BY <2>1, <2>2, <2>4 DEF InQueue
<1>7. Queued' = Queued \cup {request} /\ request \notin Queued
  BY <1>1, <1>5, <1>6 DEF Queued
<1>8. Busy' = Busy \cup {p} /\ p \notin Busy
  <2>1. kind # "idle"
    BY DEF AllKinds, Kinds
  <2> QED
    BY <1>2, <1>3, <2>1 DEF Busy
<1>9. /\ IsFiniteSet(Queued') /\ Cardinality(Queued') = Cardinality(Queued) + 1
      /\ IsFiniteSet(Busy') /\ Cardinality(Busy') = Cardinality(Busy) + 1
  BY <1>7, <1>8, FS_AddElement DEF TokensFit
<1>10. tokens \in Nat /\ need \in Nat
  BY WorkerAssumption DEF Fits, TypeOK
<1> QED
  BY <1>9, <1>10, CountsAreNumbers DEF TokensFit

LEMMA SignalTokens ==
    ASSUME Fits, TokensFit, NEW p \in Producers, Signal(p)
    PROVE  TokensFit'
<1>1. /\ pc[p] # "idle" /\ pc' = [pc EXCEPT ![p] = "idle"] /\ tokens' = tokens + 1
      /\ queue' = queue /\ need' = need
  BY DEF Signal, workerVars
<1>2. Queued' = Queued
  BY <1>1 DEF Queued, InQueue
<1>3. Busy' = Busy \ {p} /\ p \in Busy
  BY <1>1 DEF Busy, Fits, TypeOK
<1>4. IsFiniteSet(Busy') /\ Cardinality(Busy') = Cardinality(Busy) - 1
  BY <1>3, FS_RemoveElement DEF TokensFit
<1>5. tokens \in Nat /\ need \in Nat
  BY WorkerAssumption DEF Fits, TypeOK
<1> QED
  BY <1>1, <1>2, <1>4, <1>5, CountsAreNumbers DEF TokensFit

LEMMA CollectTokens ==
    ASSUME Fits, Ordered, TokensFit, NEW p \in Producers, Collect(p)
    PROVE  TokensFit'
<1>1. /\ worker = "collect" /\ queue[p] # << >>
      /\ queue' = [queue EXCEPT ![p] = Tail(@)]
      /\ need' = need - 1 /\ tokens' = tokens /\ pc' = pc
  BY DEF Collect, appVars
<1>2. queue \in [Producers -> Seq(Requests)] /\ need \in Nat /\ tokens \in Nat /\ need >= 1
  BY <1>1, WorkerAssumption DEF Fits, TypeOK, BatchFits
<1>3. PICK q : q = queue[p] /\ q \in Seq(Requests) /\ q # << >>
  BY <1>1, <1>2
<1>4. /\ queue'[p] = Tail(q) /\ \A s \in Producers \ {p} : queue'[s] = queue[s]
      /\ Len(q) \in Nat \ {0} /\ Len(Tail(q)) = Len(q) - 1 /\ q[1] \in Requests
      /\ \A n \in 1 .. Len(q) - 1 : Tail(q)[n] = q[n + 1]
  BY <1>1, <1>2, <1>3
<1>5. PICK h : h = q[1]
  OBVIOUS
<1>6. ASSUME NEW r \in Requests
      PROVE  InQueue(r)' <=> InQueue(r) /\ r # h
  <2>1. (\E n \in 1 .. Len(q) : r = q[n]) <=> (\E n \in 1 .. Len(Tail(q)) : r = Tail(q)[n]) \/ r = h
    <3>1. ASSUME NEW n \in 1 .. Len(q), r = q[n]
          PROVE  (\E m \in 1 .. Len(Tail(q)) : r = Tail(q)[m]) \/ r = h
      <4>1. CASE n = 1
        BY <1>5, <3>1, <4>1
      <4>2. CASE n # 1
        <5>1. n - 1 \in 1 .. Len(Tail(q)) /\ Tail(q)[n - 1] = q[n]
          BY <1>4, <4>2
        <5> QED
          BY <3>1, <5>1
      <4> QED
        BY <4>1, <4>2
    <3>2. ASSUME NEW m \in 1 .. Len(Tail(q)), r = Tail(q)[m]
          PROVE  \E n \in 1 .. Len(q) : r = q[n]
      <4>1. m + 1 \in 1 .. Len(q) /\ q[m + 1] = Tail(q)[m]
        BY <1>4
      <4> QED
        BY <3>2, <4>1
    <3>3. 1 \in 1 .. Len(q)
      BY <1>4
    <3> QED
      BY <1>5, <3>1, <3>2, <3>3
  <2>2. ASSUME NEW m \in 1 .. Len(Tail(q)), r = Tail(q)[m]
        PROVE  r # h
    <3>1. m + 1 \in 1 .. Len(q) /\ q[m + 1] = r /\ 1 \in 1 .. (m + 1) - 1
      BY <1>4, <2>2
    <3>2. Before(h, r)
      BY <1>3, <1>5, <3>1 DEF Ordered, QueuesOrdered
    <3> QED
      BY <3>2, RequestParts
  <2>3. ASSUME NEW s \in Producers \ {p}, NEW n \in 1 .. Len(queue[s]), r = queue[s][n]
        PROVE  r # h
    <3>1. r.id[1] = s
      BY <2>3 DEF Ordered, QueuesOrdered
    <3>2. 1 \in 1 .. Len(queue[p])
      BY <1>3, <1>4
    <3>3. h.id[1] = p
      BY <1>3, <1>5, <3>2 DEF Ordered, QueuesOrdered
    <3> QED
      BY <3>1, <3>3
  <2>4. InQueue(r) <=> \/ \E n \in 1 .. Len(q) : r = q[n]
                       \/ \E s \in Producers \ {p} : \E n \in 1 .. Len(queue[s]) : r = queue[s][n]
    BY <1>3 DEF InQueue
  <2>5. InQueue(r)' <=> \/ \E n \in 1 .. Len(Tail(q)) : r = Tail(q)[n]
                        \/ \E s \in Producers \ {p} : \E n \in 1 .. Len(queue[s]) : r = queue[s][n]
    <3>1. InQueue(r)' <=> \E s \in Producers : \E n \in 1 .. Len(queue'[s]) : r = queue'[s][n]
      BY DEF InQueue
    <3> QED
      BY <1>4, <3>1
  <2> QED
    BY <2>1, <2>2, <2>3, <2>4, <2>5
<1>7. Queued' = Queued \ {h} /\ h \in Queued
  <2>1. h \in Requests /\ 1 \in 1 .. Len(q)
    BY <1>4, <1>5
  <2>2. InQueue(h)
    BY <1>3, <1>5, <2>1 DEF InQueue
  <2> QED
    BY <1>6, <2>1, <2>2 DEF Queued
<1>8. IsFiniteSet(Queued') /\ Cardinality(Queued') = Cardinality(Queued) - 1
  BY <1>7, FS_RemoveElement DEF TokensFit
<1>9. Busy' = Busy
  BY <1>1 DEF Busy
<1> QED
  BY <1>1, <1>2, <1>8, <1>9, CountsAreNumbers DEF TokensFit

\* The steps that do not touch the queue.
LEMMA SameTokens ==
    ASSUME TokensFit, UNCHANGED << queue, tokens, need, pc >>
    PROVE  TokensFit'
<1>1. Queued' = Queued /\ Busy' = Busy
  BY DEF Queued, InQueue, Busy
<1> QED
  BY <1>1 DEF TokensFit

LEMMA TakeTokensTokens ==
    ASSUME Fits, TokensFit, TakeTokens
    PROVE  TokensFit'
<1>1. /\ worker = "dequeue" /\ tokens' = tokens - Batch(tokens) /\ need' = Batch(tokens)
      /\ queue' = queue /\ pc' = pc
  BY DEF TakeTokens, appVars
<1>2. need = 0 /\ tokens \in Nat /\ Batch(tokens) \in Nat /\ Batch(tokens) <= tokens
  BY <1>1, WorkerAssumption DEF Fits, TypeOK, BatchFits, Batch
<1>3. Queued' = Queued /\ Busy' = Busy
  BY <1>1 DEF Queued, InQueue, Busy
<1> QED
  BY <1>1, <1>2, <1>3, CountsAreNumbers DEF TokensFit

-----------------------------------------------------------------------------
(* Answers and places                                                      *)

Given == TokensFit /\ Awaited /\ BrokenFit

\* A thread submits a request, and the owner does not come to its end by it.
LEMMA EnqueueRest ==
    ASSUME RestInv, owner # "gone",
           \/ \E p \in Producers, kind \in Calls : Call(p, kind)
           \/ Open \/ Stop \/ (Destroy /\ connected)
    PROVE  /\ Given' /\ Pipe \subseteq Pipe'
           /\ \A r \in DOMAIN answer' : r \in DOMAIN answer \/ answer'[r] = "none"
           /\ \A r \in DOMAIN answer : r \in DOMAIN answer' /\ answer'[r] = answer[r]
<1>1. Fits /\ Ordered /\ Unanswered /\ TokensFit /\ Awaited /\ BrokenFit
  BY DEF RestInv, Submitted
<1>2. PICK p \in Producers, kind \in AllKinds :
          Enqueue(p, kind) /\ calls[p] < MayCall(p) + 2
  BY <1>1, CallEnqueues
<1>3. batch' = batch /\ postponed' = postponed /\ tokens' = tokens /\ need' = need
  BY DEF Call, Open, Stop, Destroy, workerVars
<1>4. TokensFit'
  BY <1>1, <1>2, <1>3, EnqueueTokens
<1> DEFINE request == [id |-> << p, calls[p] + 1 >>, kind |-> kind, frame |-> frame]
<1>5. request \in Requests
  BY <1>1, <1>2, EnqueueFits
<1>6. /\ Pipe' = Pipe \cup {request} /\ Unanswered'
      /\ DOMAIN answer' = IF HasFuture(kind) THEN DOMAIN answer \cup {request} ELSE DOMAIN answer
      /\ \A r \in DOMAIN answer : answer'[r] = answer[r]
  BY <1>1, <1>2, <1>3, <1>5, EnqueueOrders
<1> HIDE DEF request
<1>7. \A r \in DOMAIN answer' : r \in DOMAIN answer \/ (answer'[r] = "none" /\ r \in Pipe')
  BY <1>6 DEF Unanswered
<1>8. Awaited'
  BY <1>1, <1>6, <1>7 DEF Awaited
<1>9. BrokenFit'
  BY <1>1, <1>6, <1>7 DEF BrokenFit
<1> QED
  BY <1>4, <1>6, <1>7, <1>8, <1>9 DEF Given

LEMMA AnswersGiven ==
    ASSUME NEW r, Answers(r)
    PROVE  /\ r \in DOMAIN answer => answer'[r] \in {"true", "false", "error"}
           /\ UNCHANGED << queue, tokens, need, pc, owner, running >>
           /\ worker \in {"handle", "dequeue"} /\ worker' \in {"top", "handle"}
<1>1. ASSUME RunTasks(r)
      PROVE  r \in DOMAIN answer => answer'[r] \in {"true", "false", "error"}
  BY <1>1 DEF RunTasks, Succeed, Fail, Throw, Settle
<1>2. CASE HandleRequest /\ r = Head(batch)
  BY <1>1, <1>2 DEF HandleRequest, NextInBatch, appVars
<1>3. CASE RefuseFinish /\ r = Head(batch)
  BY <1>3 DEF RefuseFinish, NextInBatch, Settle, appVars
<1>4. CASE FinishNow /\ r = postponed
  BY <1>1, <1>4 DEF FinishNow, appVars
<1> QED
  BY <1>2, <1>3, <1>4 DEF Answers

LEMMA AnswersRest ==
    ASSUME RestInv, NEW r, Answers(r)
    PROVE  RestInv'
<1>1. Fits /\ Ordered /\ Unanswered /\ TokensFit /\ Awaited /\ BrokenFit /\ LifeFits
  BY DEF RestInv, Submitted
<1>2. /\ r \in Pipe /\ Pipe' = Pipe \ {r} /\ DOMAIN answer' = DOMAIN answer
      /\ \A q \in DOMAIN answer : q # r => answer'[q] = answer[q]
  BY <1>1, AnswersOrder
<1>3. /\ r \in DOMAIN answer => answer'[r] \in {"true", "false", "error"}
      /\ UNCHANGED << queue, tokens, need, pc, owner, running >>
      /\ worker \in {"handle", "dequeue"} /\ worker' \in {"top", "handle"}
  BY AnswersGiven
<1>4. Submitted'
  <2>1. [Next]_vars
    BY DEF Next, ThreadStep, WorkerStep, Answers
  <2> QED
    BY <1>1, <2>1, NextFits, NextOrders DEF Submitted
<1>5. TokensFit'
  BY <1>1, <1>3, SameTokens
<1>6. Awaited'
  BY <1>1, <1>2, <1>3 DEF Awaited
<1>7. BrokenFit'
  BY <1>1, <1>2, <1>3 DEF BrokenFit
<1>8. LifeFits'
  BY <1>1, <1>2, <1>3 DEF LifeFits
<1> QED
  BY <1>4, <1>5, <1>6, <1>7, <1>8 DEF RestInv

\* A request goes from one place to another.
LEMMA PassRest ==
    ASSUME RestInv, PostponeFinish \/ \E p \in Producers : Collect(p)
    PROVE  RestInv'
<1>1. Fits /\ Ordered /\ Unanswered /\ TokensFit /\ Awaited /\ BrokenFit /\ LifeFits
  BY DEF RestInv, Submitted
<1>2. Submitted'
  <2>1. [Next]_vars
    BY DEF Next, ThreadStep, WorkerStep
  <2> QED
    BY <1>1, <2>1, NextFits, NextOrders DEF Submitted
<1>3. Pipe' = Pipe
  BY <1>1, CollectOrders, PostponeOrders
<1>4. /\ UNCHANGED << answer, owner, running >>
      /\ \/ worker = "handle" /\ worker' \in {"top", "handle"}
         \/ worker = "collect" /\ worker' \in {"collect", "handle"}
  BY DEF PostponeFinish, NextInBatch, Collect, appVars
<1>5. TokensFit'
  <2>1. CASE PostponeFinish
    <3>1. UNCHANGED << queue, tokens, need, pc >>
      BY <2>1 DEF PostponeFinish, NextInBatch, appVars
    <3> QED
      BY <1>1, <3>1, SameTokens
  <2>2. CASE \E p \in Producers : Collect(p)
    BY <1>1, <2>2, CollectTokens
  <2> QED
    BY <2>1, <2>2
<1>6. Awaited' /\ BrokenFit'
  BY <1>1, <1>3, <1>4 DEF Awaited, BrokenFit
<1>7. LifeFits'
  BY <1>1, <1>3, <1>4 DEF LifeFits
<1> QED
  BY <1>2, <1>5, <1>6, <1>7 DEF RestInv

LEMMA MovesRest ==
    ASSUME RestInv, Moves
    PROVE  RestInv'
<1>1. Fits /\ Ordered /\ Unanswered /\ TokensFit /\ Awaited /\ BrokenFit /\ LifeFits
  BY DEF RestInv, Submitted
<1>2. Submitted'
  <2>1. [Next]_vars
    BY DEF Moves, Next, ThreadStep, WorkerStep, ConstructorStep, DestructorStep
  <2> QED
    BY <1>1, <2>1, NextFits, NextOrders DEF Submitted
<1>3. Pipe' = Pipe /\ answer' = answer
  BY MovesKeep
<1>4. TokensFit'
  <2>1. CASE \E p \in Producers : Signal(p)
    BY <1>1, <2>1, SignalTokens
  <2>2. CASE TakeTokens
    BY <1>1, <2>2, TakeTokensTokens
  <2>3. CASE Opened \/ CloseAnswered \/ (Destroy /\ ~ connected) \/ BeginRun \/ CheckRunning
             \/ Disconnect \/ UNCHANGED vars
    <3>1. UNCHANGED << queue, tokens, need, pc >>
      BY <2>3 DEF Opened, CloseAnswered, Destroy, BeginRun, CheckRunning, Disconnect, vars, appVars, workerVars
    <3> QED
      BY <1>1, <3>1, SameTokens
  <2> QED
    BY <2>1, <2>2, <2>3 DEF Moves
<1>5. Awaited'
  BY <1>1, <1>3 DEF Awaited
<1>6. owner' = owner \/ (owner # "gone" /\ owner' # "gone")
  BY DEF Moves, Opened, CloseAnswered, Destroy, Signal, BeginRun, CheckRunning, TakeTokens,
         Disconnect, vars, appVars
<1>7. BrokenFit'
  BY <1>1, <1>3, <1>6 DEF BrokenFit
<1>8. LifeFits'
  <2>1. CASE Opened
    <3>1. owner = "opening" /\ owner' = "alive" /\ worker' = worker /\ running' = running /\ Answered("open")
      BY <2>1 DEF Opened, workerVars
    <3> QED
      BY <1>1, <1>3, <3>1 DEF LifeFits, Answered
  <2>2. CASE CloseAnswered \/ (Destroy /\ ~ connected)
    <3>1. owner \in {"closing", "alive"} /\ owner' = "stop" /\ worker' = worker /\ running' = running
      BY <2>2 DEF CloseAnswered, Destroy, workerVars
    <3> QED
      BY <1>1, <1>3, <3>1 DEF LifeFits
  <2>3. CASE BeginRun
    <3>1. worker = "new" /\ worker' = "top" /\ running' = TRUE /\ owner' = owner
      BY <2>3 DEF BeginRun, appVars
    <3> QED
      BY <1>1, <1>3, <3>1 DEF LifeFits
  <2>4. CASE CheckRunning
    <3>1. worker = "top" /\ worker' = (IF running THEN "dequeue" ELSE "exited") /\ running' = running /\ owner' = owner
      BY <2>4 DEF CheckRunning, appVars
    <3> QED
      BY <1>1, <1>3, <3>1 DEF LifeFits
  <2>5. CASE TakeTokens
    <3>1. worker = "dequeue" /\ worker' = "collect" /\ running' = running /\ owner' = owner
      BY <2>5 DEF TakeTokens, appVars
    <3> QED
      BY <1>1, <1>3, <3>1 DEF LifeFits
  <2>6. CASE Disconnect \/ UNCHANGED vars \/ \E p \in Producers : Signal(p)
    <3>1. UNCHANGED << worker, running, owner >>
      BY <2>6 DEF Disconnect, vars, Signal, appVars, workerVars
    <3> QED
      BY <1>1, <1>3, <3>1 DEF LifeFits
  <2> QED
    BY <2>1, <2>2, <2>3, <2>4, <2>5, <2>6 DEF Moves
<1> QED
  BY <1>2, <1>4, <1>5, <1>7, <1>8 DEF RestInv

\* What the request of constructor and destructor is.
LEMMA OwnRequest ==
    ASSUME RestInv, NEW kind \in {"open", "close", "stop"}, Enqueue(Owner, kind),
           Open \/ Stop \/ (Destroy /\ connected)
    PROVE  /\ kind # "stop" => \E r \in DOMAIN answer' : r.kind = kind
           /\ \E r \in Pipe' : r.kind = kind
<1>1. Fits /\ Ordered /\ Unanswered
  BY DEF RestInv, Submitted
<1>2. Owner \in Producers /\ kind \in AllKinds
  BY WorkerAssumption DEF AllKinds
<1>3. calls[Owner] < MayCall(Owner) + 2
  <2>1. owner \in {"new", "alive", "stop"}
    BY DEF Open, Stop, Destroy
  <2>2. calls[Owner] \in Nat /\ MayCall(Owner) \in Nat /\ calls[Owner] <= MayCall(Owner) + 1
    BY <1>1, <1>2, <2>1, WorkerAssumption DEF Fits, TypeOK, CallsFit, MayCall
  <2> QED
    BY <2>2
<1>4. batch' = batch /\ postponed' = postponed
  BY DEF Open, Stop, Destroy, workerVars
<1> DEFINE request == [id |-> << Owner, calls[Owner] + 1 >>, kind |-> kind, frame |-> frame]
<1>5. request \in Requests /\ request.kind = kind
  BY <1>1, <1>2, <1>3, EnqueueFits
<1>6. /\ Pipe' = Pipe \cup {request}
      /\ DOMAIN answer' = IF HasFuture(kind) THEN DOMAIN answer \cup {request} ELSE DOMAIN answer
  BY <1>1, <1>2, <1>3, <1>4, <1>5, EnqueueOrders
<1> HIDE DEF request
<1> QED
  BY <1>5, <1>6 DEF HasFuture

LEMMA SubmitRest ==
    ASSUME RestInv,
           \/ \E p \in Producers, kind \in Calls : Call(p, kind)
           \/ Open \/ Stop \/ (Destroy /\ connected)
    PROVE  RestInv'
<1>1. Fits /\ Ordered /\ Unanswered /\ LifeFits
  BY DEF RestInv, Submitted
<1>2. Submitted'
  <2>1. [Next]_vars
    BY DEF Next, ThreadStep, ConstructorStep, DestructorStep
  <2> QED
    BY <1>1, <2>1, NextFits, NextOrders DEF Submitted
<1>3. owner \in {"new", "alive", "stop"}
  BY DEF Call, Open, Stop, Destroy
<1>4. /\ Given' /\ Pipe \subseteq Pipe'
      /\ \A r \in DOMAIN answer' : r \in DOMAIN answer \/ answer'[r] = "none"
      /\ \A r \in DOMAIN answer : r \in DOMAIN answer' /\ answer'[r] = answer[r]
  BY <1>3, EnqueueRest
<1>5. worker' = worker
  BY DEF Call, Open, Stop, Destroy, workerVars
<1>6. LifeFits'
  <2>1. CASE \E p \in Producers, kind \in Calls : Call(p, kind)
    <3>1. owner = "alive" /\ owner' = owner /\ running' = running
      BY <2>1 DEF Call
    <3> QED
      BY <1>1, <1>5, <3>1 DEF LifeFits
  <2>2. CASE Open
    <3>1. owner = "new" /\ owner' = "opening" /\ running' = running /\ Enqueue(Owner, "open")
      BY <2>2 DEF Open
    <3>2. \E r \in DOMAIN answer' : r.kind = "open"
      BY <2>2, <3>1, OwnRequest
    <3>3. worker = "new" => \A r \in DOMAIN answer' : answer'[r] = "none"
      BY <1>1, <1>4 DEF LifeFits
    <3> QED
      BY <1>1, <1>5, <3>1, <3>2, <3>3 DEF LifeFits
  <2>3. CASE Stop
    <3>1. owner = "stop" /\ owner' = "stopping" /\ running' = FALSE /\ Enqueue(Owner, "stop")
      BY <2>3 DEF Stop
    <3>2. \E r \in Pipe' : r.kind = "stop"
      BY <2>3, <3>1, OwnRequest
    <3> QED
      BY <1>1, <1>5, <3>1, <3>2 DEF LifeFits
  <2>4. CASE Destroy /\ connected
    <3>1. owner = "alive" /\ owner' = "closing" /\ running' = running /\ Enqueue(Owner, "close")
      BY <2>4 DEF Destroy
    <3>2. \E r \in DOMAIN answer' : r.kind = "close"
      BY <2>4, <3>1, OwnRequest
    <3> QED
      BY <1>1, <1>5, <3>1, <3>2 DEF LifeFits
  <2> QED
    BY <2>1, <2>2, <2>3, <2>4
<1> QED
  BY <1>2, <1>4, <1>6 DEF RestInv, Given

LEMMA DrainRest ==
    ASSUME RestInv, Drain
    PROVE  RestInv'
<1>1. Fits /\ Ordered /\ Unanswered /\ LifeFits /\ Awaited /\ BrokenFit
  BY DEF RestInv, Submitted
<1>2. Submitted'
  <2>1. [Next]_vars
    BY DEF Next, ThreadStep, DestructorStep
  <2> QED
    BY <1>1, <2>1, NextFits, NextOrders DEF Submitted
<1>3. Pipe' = {} /\ DOMAIN answer' = DOMAIN answer
  BY <1>1, DrainOrders
<1> DEFINE left == UNION {ToSet(queue[p]) : p \in Producers}
<1>4. /\ owner = "stopping" /\ AllIdle /\ worker = "exited" /\ owner' = "gone"
      /\ answer' = [r \in DOMAIN answer |-> CASE r \in left     -> "false"
                                               [] r = postponed  -> "broken"
                                               [] OTHER          -> answer[r]]
      /\ queue' = [p \in Producers |-> << >>] /\ tokens' = 0
      /\ UNCHANGED << pc, worker, need, running >>
  BY DEF Drain
<1>5. ASSUME NEW r \in DOMAIN answer
      PROVE  answer'[r] = IF r \in left THEN "false" ELSE IF r = postponed THEN "broken" ELSE answer[r]
  <2>1. CASE r \in left /\ r = postponed
    <3>1. r \in Requests
      BY <1>1 DEF Fits, TypeOK
    <3>2. InQueue(r)
      <4>1. PICK p \in Producers : r \in ToSet(queue[p])
        BY <2>1
      <4> QED
        BY <4>1 DEF InQueue, ToSet
    <3>3. Before(r, r)
      <4>1. r # None
        BY <3>1, RequestParts
      <4> QED
        BY <1>1, <2>1, <3>1, <3>2, <4>1 DEF Ordered, PostponedFirst
    <3> QED
      BY <3>1, <3>3, RequestParts
  <2>2. CASE ~ (r \in left /\ r = postponed)
    BY <1>4, <2>2
  <2> QED
    BY <2>1, <2>2
<1>6. ASSUME NEW r \in DOMAIN answer, answer[r] = "none"
      PROVE  r \in left \/ r = postponed
  <2>1. r \in Pipe
    BY <1>1, <1>6 DEF Awaited
  <2>2. ~ InBatch(r)
    BY <1>1, <1>4 DEF InBatch, Fits, BatchFits
  <2>3. InQueue(r) => r \in left
    BY DEF InQueue, ToSet
  <2> QED
    BY <2>1, <2>2, <2>3 DEF Pipe
<1>7. \A r \in DOMAIN answer' : answer'[r] # "none"
  BY <1>3, <1>5, <1>6
<1>8. BrokenFit'
  <2>1. postponed # None => postponed.kind = "finish"
    BY <1>1 DEF Ordered, PostponedFirst
  <2>2. \A r \in DOMAIN answer : r # None
    BY <1>1, RequestParts DEF Fits, TypeOK
  <2> QED
    BY <1>1, <1>3, <1>4, <1>5, <2>1, <2>2 DEF BrokenFit
<1>9. TokensFit'
  <2>1. Queued' = {}
    BY <1>4 DEF Queued, InQueue
  <2>2. Busy' = {}
    BY <1>4 DEF Busy, AllIdle
  <2>3. need = 0
    BY <1>1, <1>4 DEF Fits, BatchFits
  <2> QED
    BY <1>4, <2>1, <2>2, <2>3, FS_EmptySet DEF TokensFit
<1>10. LifeFits'
  BY <1>1, <1>3, <1>4 DEF LifeFits
<1> QED
  BY <1>2, <1>7, <1>8, <1>9, <1>10 DEF RestInv, Awaited

LEMMA RestInvInit == Init => RestInv
<1> SUFFICES ASSUME Init
             PROVE  RestInv
  OBVIOUS
<1>1. Submitted
  BY InitSubmitted
<1>2. /\ queue = [p \in Producers |-> << >>] /\ pc = [p \in Producers |-> "idle"] /\ tokens = 0 /\ need = 0
      /\ DOMAIN answer = {} /\ worker = "new" /\ owner = "new" /\ running = FALSE
  BY DEF Init
<1>3. Queued = {} /\ Busy = {}
  BY <1>2 DEF Queued, InQueue, Busy
<1>4. TokensFit
  BY <1>2, <1>3, FS_EmptySet DEF TokensFit
<1> QED
  BY <1>1, <1>2, <1>4 DEF RestInv, Awaited, BrokenFit, LifeFits

LEMMA RestInvNext == RestInv /\ [Next]_vars => RestInv'
BY Steps, SubmitRest, PassRest, AnswersRest, DrainRest, MovesRest

-----------------------------------------------------------------------------
(* What there is at rest                                                   *)

\* The worker has exited, or sleeps with nothing to do.
LEMMA RestIsEmpty ==
    ASSUME RestInv, Quiet, BatchSize # 0
    PROVE  Pipe = {}
<1>1. Fits /\ TokensFit /\ LifeFits
  BY DEF RestInv, Submitted
<1>2. Busy = {}
  BY DEF Quiet, Busy, AllIdle
<1>3. Cardinality(Busy) = 0 /\ Cardinality(Queued) \in Nat /\ tokens \in Nat /\ need \in Nat
  BY <1>1, <1>2, FS_EmptySet, CountsAreNumbers, WorkerAssumption DEF Fits, TypeOK
<1>4. Cardinality(Queued) = tokens + need
  BY <1>1, <1>3 DEF TokensFit
<1>5. CASE worker = "dequeue"
  <2>1. tokens = 0
    BY <1>3, <1>5, WorkerAssumption DEF Quiet, Batch
  <2>2. need = 0 /\ batch = << >>
    BY <1>1, <1>5 DEF Fits, BatchFits
  <2>3. Queued = {}
    BY <1>1, <1>4, <2>1, <2>2, FS_EmptySet DEF TokensFit
  <2>4. postponed = None
    BY <1>5, <2>1 DEF Quiet
  <2>5. \A r \in Requests : r # None
    BY RequestParts
  <2> QED
    BY <2>2, <2>3, <2>4, <2>5 DEF Pipe, Queued, InBatch
<1>6. CASE worker = "collect"
  <2>1. Queued = {}
    BY <1>6 DEF Quiet, Queued, InQueue
  <2>2. need >= 1
    BY <1>1, <1>6 DEF Fits, BatchFits
  <2> QED
    BY <1>3, <1>4, <2>1, <2>2, FS_EmptySet
<1>7. CASE worker = "exited"
  BY <1>1, <1>7 DEF Quiet, LifeFits
<1> QED
  BY <1>5, <1>6, <1>7 DEF Quiet

LEMMA RestInvAlways == Spec => []RestInv
BY RestInvInit, RestInvNext, PTL DEF Spec

\* Every future has its answer when the threads have come to rest, and the only promise
\* that ever breaks is that of a finish that the destructor finds postponed: of any
\* number of threads and calls, wherever the connection breaks (StreamSendWorker::run,
\* stop).  A worker that dequeues nothing at a time, as on a single core, answers nobody.
THEOREM EverybodyIsAnswered ==
    ASSUME BatchSize # 0
    PROVE  Spec => []AllAnswered
<1>1. RestInv => AllAnswered
  <2> SUFFICES ASSUME RestInv
               PROVE  AllAnswered
    OBVIOUS
  <2>1. Quiet => \A r \in DOMAIN answer : answer[r] # "none"
    BY RestIsEmpty DEF RestInv, Awaited
  <2> QED
    BY <2>1 DEF AllAnswered, RestInv, BrokenFit
<1> QED
  BY <1>1, RestInvAlways, PTL

\* The constructor of StreamPrivate and the destructors get the answers they wait for,
\* and the thread that stop() waits for ends, though it may be asleep when it is told.
THEOREM WaitsOfTheOwnerEnd ==
    ASSUME BatchSize # 0
    PROVE  Spec => []DestructorReturns
<1>1. RestInv => DestructorReturns
  <2> SUFFICES ASSUME RestInv, Quiet
               PROVE  owner \in {"alive", "gone"}
    BY DEF DestructorReturns
  <2>1. Pipe = {}
    BY RestIsEmpty
  <2>2. \A r \in DOMAIN answer : answer[r] # "none"
    BY <2>1 DEF RestInv, Awaited
  <2>3. owner # "opening" /\ owner # "closing"
    BY <2>2 DEF RestInv, LifeFits, Quiet, Answered
  <2>4. owner # "stopping"
    BY <2>1 DEF RestInv, LifeFits, Quiet
  <2>5. owner \in {"new", "opening", "alive", "closing", "stop", "stopping", "gone"}
    BY DEF RestInv, Submitted, Fits, TypeOK
  <2> QED
    BY <2>3, <2>4, <2>5 DEF Quiet
<1> QED
  BY <1>1, RestInvAlways, PTL
=============================================================================
