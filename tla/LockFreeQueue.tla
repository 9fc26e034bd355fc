---------------------------- MODULE LockFreeQueue ----------------------------
(***************************************************************************)
(* The queue of requests of a stream: moodycamel::BlockingConcurrentQueue  *)
(* as StreamSendWorker uses it, by enqueue from any thread and by          *)
(* wait_dequeue_bulk and try_dequeue from one.                             *)
(*                                                                         *)
(* Each producing thread has a queue of its own, an array of blocks that   *)
(* only it extends: blocks are found by an index, a ring of entries that   *)
(* grows, and are shared by all queues through a pool and a free list      *)
(* (FreeList.tla).  Positions are numbers that wrap around.                *)
(*                                                                         *)
(* One action is one access to the memory that threads share, with what    *)
(* its thread computes from it; how a thread finds its queue is            *)
(* ProducerTable.tla.                                                      *)
(***************************************************************************)
EXTENDS Integers, Sequences, FreeList, LightweightSemaphore

CONSTANTS
  ProducerList,    \* the producers, in the order of the producer list
  Consumer,        \* the thread that dequeues
  MaxItems,        \* bound: what each producer enqueues
  MaxBulk,         \* the size of _dequeuedRequests
  BLOCK_SIZE,
  IndexRange,      \* the number of values of index_t
  InitialCapacity, \* IMPLICIT_INITIAL_INDEX_SIZE
  PoolSize,        \* initialBlockPoolSize
  Start            \* what each producer has enqueued before, all dequeued

Producers == {ProducerList[i] : i \in DOMAIN ProducerList}

ASSUME QueueAssumption ==
    /\ ProducerList \in Seq(Threads)
    /\ \A i, j \in DOMAIN ProducerList : ProducerList[i] = ProducerList[j] => i = j
    /\ Threads = Producers \cup {Consumer} /\ Consumer \notin Producers
    /\ BLOCK_SIZE \in Nat /\ BLOCK_SIZE > 1 /\ MaxBulk \in Nat \ {0}
    /\ IndexRange \in Nat \ {0} /\ Start \in Nat
    /\ IndexRange % BLOCK_SIZE = 0 /\ Start % BLOCK_SIZE = 0
    /\ MaxItems \in [Producers -> Nat]
    /\ \A p \in Producers : MaxItems[p] < IndexRange
    /\ MaxBlocks > 0 /\ InitialCapacity \in Nat \ {0}

(* The capacity of a block index and the number of blocks that the indices *)
(* have room for are powers of two.                                        *)
ASSUME RingAssumption ==
    LET room == IndexRange \div BLOCK_SIZE
    IN  /\ room % InitialCapacity = 0
        /\ \A n \in 1 .. room :
             room % n = 0 /\ 2 * n <= room => room % (2 * n) = 0

VARIABLES
  tailIndex, headIndex, dequeueOptimisticCount, dequeueOvercommit,
  tailBlock,
  entries,     \* the entries of the block index: key and value
  blockIndex,  \* its headers, the last one is current: tail and index
  count,       \* elementsCompletelyDequeued of each block
  elements,    \* of each block, 0: none
  poolIndex,   \* initialBlockPoolIndex
  created,     \* the blocks in use: of the pool, or allocated
  put,         \* what each producer is doing
  get,         \* what the consumer is doing
  received     \* what has been dequeued of each producer

queue == <<tailIndex, headIndex, dequeueOptimisticCount, dequeueOvercommit>>
index == <<entries, blockIndex>>
blocks == <<count, elements>>
pool == <<poolIndex, created>>
vars == <<queue, tailBlock, index, blocks, pool, semaphore, put, get, received,
          freeListVars>>

Wrap(n) == n % IndexRange
circular_less_than(a, b) == 2 * Wrap(a - b) > IndexRange
Base(i) == i - (i % BLOCK_SIZE)
Slot(i) == i % BLOCK_SIZE

NoPut == [at |-> "idle", block |-> 0, entry |-> 0, tail |-> 0]
NoGet == [at |-> "wait", max |-> 0, got |-> 0, turn |-> 1, actual |-> 0,
          first |-> 0, header |-> 0, tail |-> 0, position |-> 0]

(* INVALID_BLOCK_BASE is an index that is not the first one of a block.    *)
INVALID_BLOCK_BASE == 1
FreeEntry(key) == [key |-> key, value |-> 0]

(* The blocks that a queue has used before are those of the free list.     *)
Init ==
    /\ tailIndex = [p \in Producers |-> Wrap(Start)]
    /\ headIndex = tailIndex
    /\ dequeueOptimisticCount = tailIndex
    /\ dequeueOvercommit = [p \in Producers |-> 0]
    /\ tailBlock = [p \in Producers |-> IF Start = 0 THEN 0 ELSE 1]
    /\ LET used == Start \div BLOCK_SIZE
           last(i) ==  \* the last block whose entry was the i-th
             CHOOSE n \in used - InitialCapacity .. used - 1 :
               n % InitialCapacity = i - 1
       IN  /\ entries = [p \in Producers |-> [i \in 1 .. InitialCapacity |->
                 FreeEntry(IF last(i) < 0 THEN INVALID_BLOCK_BASE
                           ELSE last(i) * BLOCK_SIZE)]]
           /\ blockIndex = [p \in Producers |-> <<
                 [tail |-> (used - 1) % InitialCapacity,
                  index |-> [i \in 1 .. InitialCapacity |-> i]]>>]
           /\ LET n == IF Start = 0 THEN 0 ELSE 1
              IN  poolIndex = n /\ created = n /\ FreeListInit(n)
    /\ count = [b \in Blocks |-> IF b <= created THEN BLOCK_SIZE ELSE 0]
    /\ elements = [b \in Blocks |-> [i \in 0 .. BLOCK_SIZE - 1 |-> 0]]
    /\ SemaphoreInit
    /\ put = [p \in Producers |-> NoPut]
    /\ get = NoGet
    /\ received = [p \in Producers |-> <<>>]

(* What p has enqueued; its elements are numbered.                         *)
Sent(p) == Wrap(tailIndex[p] - Start)

Header(p) == blockIndex[p][Len(blockIndex[p])]
Capacity(header) == Len(header.index)

(* The queue is not used while it is destroyed.                            *)
InUse == get.at \notin {"drain", "destroyed"}

At(p, at) == put[p].at = at
PutAt(p, at) == put' = [put EXCEPT ![p].at = at]

-----------------------------------------------------------------------------
(* enqueue, up to the block that the element goes to                       *)

(* A queue of half of all indices is full: enqueue does nothing.           *)
StartBlock(p) ==
    /\ At(p, "idle") /\ InUse
    /\ Sent(p) < MaxItems[p]
    /\ Slot(tailIndex[p]) = 0
    /\ circular_less_than(headIndex[p], tailIndex[p] + BLOCK_SIZE)
    /\ PutAt(p, "entry")
    /\ UNCHANGED <<queue, tailBlock, index, blocks, pool, semaphore, get,
                   received, freeListVars>>

(* insert_block_index_entry: the entry after the last one, if it is free.  *)
NextEntry(p) ==
    LET newTail == (Header(p).tail + 1) % Capacity(Header(p))
    IN  [tail |-> newTail, entry |-> Header(p).index[newTail + 1]]

IsFree(p, e) ==
    entries[p][e].key = INVALID_BLOCK_BASE \/ entries[p][e].value = 0

(* new_block_index: a ring of twice the size.  It begins with the old one, *)
(* from its oldest entry, whose entries both use.                          *)
Doubled(p) ==
    LET old == Header(p)
        n == Capacity(old)
    IN  [tail |-> n - 1,
         index |-> [i \in 1 .. 2 * n |->
           IF i <= n THEN old.index[((old.tail + i) % n) + 1] ELSE i]]

(* Mutant: the old ring is copied from its first entry.                    *)
InsertEntry_AsItLies(p) ==
    /\ At(p, "entry")
    /\ LET new == NextEntry(p)
           n == Capacity(Header(p))
       IN
       IF IsFree(p, new.entry)
       THEN /\ entries' = [entries EXCEPT ![p][new.entry].key = tailIndex[p]]
            /\ put' = [put EXCEPT ![p] = [at |-> "tail", block |-> 0,
                                  entry |-> new.entry, tail |-> new.tail]]
            /\ UNCHANGED blockIndex
       ELSE /\ entries' = [entries EXCEPT ![p] =
                 @ \o [i \in 1 .. n |-> FreeEntry(INVALID_BLOCK_BASE)]]
            /\ blockIndex' = [blockIndex EXCEPT ![p] =
                 Append(@, [Doubled(p) EXCEPT !.index =
                              [i \in 1 .. 2 * n |-> i]])]
            /\ UNCHANGED put
    /\ UNCHANGED <<queue, tailBlock, blocks, pool, semaphore, get, received,
                   freeListVars>>

InsertEntry(p) ==
    /\ At(p, "entry")
    /\ LET new == NextEntry(p) IN
       IF IsFree(p, new.entry)
       THEN /\ entries' = [entries EXCEPT ![p][new.entry].key = tailIndex[p]]
            /\ put' = [put EXCEPT ![p] = [at |-> "tail", block |-> 0,
                                  entry |-> new.entry, tail |-> new.tail]]
            /\ UNCHANGED blockIndex
       ELSE /\ entries' = [entries EXCEPT ![p] =
                 @ \o [i \in 1 .. Capacity(Header(p)) |->
                         FreeEntry(INVALID_BLOCK_BASE)]]
            /\ blockIndex' = [blockIndex EXCEPT ![p] = Append(@, Doubled(p))]
            /\ UNCHANGED put
    /\ UNCHANGED <<queue, tailBlock, blocks, pool, semaphore, get, received,
                   freeListVars>>

PublishEntry(p) ==
    /\ At(p, "tail")
    /\ blockIndex' = [blockIndex EXCEPT ![p][Len(blockIndex[p])].tail =
                                    put[p].tail]
    /\ PutAt(p, "pool")
    /\ UNCHANGED <<queue, tailBlock, entries, blocks, pool, semaphore, get,
                   received, freeListVars>>

(* requisition_block: of the initial pool, of the free list, or a new one. *)
TryPool(p) ==
    /\ At(p, "pool")
    /\ IF poolIndex >= PoolSize
       THEN PutAt(p, "list") /\ TryGet(p)
       ELSE PutAt(p, "take") /\ UNCHANGED call
    /\ UNCHANGED <<queue, tailBlock, index, blocks, pool, semaphore, get,
                   received, freeListHead, freeListRefs, freeListNext>>

TakeFromPool(p) ==
    /\ At(p, "take")
    /\ poolIndex' = poolIndex + 1
    /\ IF poolIndex < PoolSize
       THEN /\ created < MaxBlocks /\ created' = created + 1
            /\ put' = [put EXCEPT ![p].at = "block", ![p].block = created']
            /\ UNCHANGED call
       ELSE PutAt(p, "list") /\ TryGet(p) /\ UNCHANGED created
    /\ UNCHANGED <<queue, tailBlock, index, blocks, semaphore, get, received,
                   freeListHead, freeListRefs, freeListNext>>

TakeFromList(p) ==
    /\ At(p, "list") /\ call[p].at \in {"got", "empty"}
    /\ IF call[p].at = "got"
       THEN /\ put' = [put EXCEPT ![p].at = "block",
                                  ![p].block = call[p].head]
            /\ UNCHANGED created
       ELSE /\ created < MaxBlocks /\ created' = created + 1
            /\ put' = [put EXCEPT ![p].at = "block", ![p].block = created']
    /\ call' = [call EXCEPT ![p] = NoCall]
    /\ UNCHANGED <<queue, tailBlock, index, blocks, poolIndex, semaphore, get,
                   received, freeListHead, freeListRefs, freeListNext>>

(* reset_empty                                                             *)
ResetEmpty(b) == count' = [count EXCEPT ![b] = 0]

InsertBlock(p) ==
    /\ At(p, "block")
    /\ ResetEmpty(put[p].block)
    /\ entries' = [entries EXCEPT ![p][put[p].entry].value = put[p].block]
    /\ tailBlock' = [tailBlock EXCEPT ![p] = put[p].block]
    /\ put' = [put EXCEPT ![p] = [NoPut EXCEPT !.at = "element"]]
    /\ UNCHANGED <<queue, blockIndex, elements, pool, semaphore, get, received,
                   freeListVars>>

-----------------------------------------------------------------------------
(* enqueue, from the element on                                            *)

PutElement(p) ==
    /\ \/ At(p, "element")
       \/ At(p, "idle") /\ InUse /\ Slot(tailIndex[p]) # 0
          /\ Sent(p) < MaxItems[p]
    /\ elements' = [elements EXCEPT ![tailBlock[p]][Slot(tailIndex[p])] =
                      Sent(p) + 1]
    /\ PutAt(p, "publish")
    /\ UNCHANGED <<queue, tailBlock, index, count, pool, semaphore, get, received,
                   freeListVars>>

Publish(p) ==
    /\ At(p, "publish")
    /\ tailIndex' = [tailIndex EXCEPT ![p] = Wrap(@ + 1)]
    /\ PutAt(p, "signal")
    /\ UNCHANGED <<headIndex, dequeueOptimisticCount, dequeueOvercommit,
                   tailBlock, index, blocks, pool, semaphore, get, received,
                   freeListVars>>

Signal(p) ==
    /\ At(p, "signal")
    /\ CountUp
    /\ PutAt(p, IF ToRelease > 0 THEN "raise" ELSE "idle")
    /\ UNCHANGED <<queue, tailBlock, index, blocks, pool, m_sema, get, received,
                   freeListVars>>

WakeConsumer(p) ==
    /\ At(p, "raise")
    /\ Raise
    /\ PutAt(p, "idle")
    /\ UNCHANGED <<queue, tailBlock, index, blocks, pool, get, received,
                   freeListVars>>

-----------------------------------------------------------------------------
(* wait_dequeue_bulk                                                       *)

Turn == ProducerList[get.turn]
Getting(at) == get.at = at

(* The semaphore grants no more than have been enqueued, so that the turns *)
(* that follow end.                                                        *)
Granted(n) == [NoGet EXCEPT !.at = "turn", !.max = n]

KeepAllButSemaphore ==
    UNCHANGED <<queue, tailBlock, index, blocks, pool, put, received,
                freeListVars>>

(* waitMany: at once, or as it spins.                                      *)
WaitMany ==
    /\ Getting("wait") \/ Getting("spin")
    /\ TryWaitMany(MaxBulk)
    /\ get' = Granted(Many(MaxBulk))
    /\ KeepAllButSemaphore

StartSpinning ==
    /\ Getting("wait") /\ ~Positive
    /\ get' = [NoGet EXCEPT !.at = "spin"]
    /\ UNCHANGED semaphore
    /\ KeepAllButSemaphore

EndSpinning ==
    /\ Getting("spin")
    /\ CountDown /\ UNCHANGED m_sema
    /\ get' = [NoGet EXCEPT !.at = IF Positive THEN "more" ELSE "sleep"]
    /\ KeepAllButSemaphore

WakeUp ==
    /\ Getting("sleep")
    /\ Sleep
    /\ get' = [NoGet EXCEPT !.at = "more"]
    /\ KeepAllButSemaphore

(* It has one, and takes the others that are there.                        *)
TakeMore ==
    /\ Getting("more")
    /\ \/ /\ MaxBulk > 1 /\ TryWaitMany(MaxBulk - 1)
          /\ get' = Granted(1 + Many(MaxBulk - 1))
       \/ /\ ~Positive \/ MaxBulk = 1
          /\ get' = Granted(1) /\ UNCHANGED semaphore
    /\ KeepAllButSemaphore

(* The next producer, from the first one again as long as some are missing.*)
NextTurn(got) ==
    IF got = get.max THEN NoGet
    ELSE [NoGet EXCEPT !.at = "turn", !.max = get.max, !.got = got,
                       !.turn = (get.turn % Len(ProducerList)) + 1]

(* dequeue_bulk first claims elements it has seen.                         *)
Claim ==
    /\ Getting("turn")
    /\ LET p == Turn
           desired == Min2(get.max - get.got,
             Wrap(tailIndex[p]
                  - (dequeueOptimisticCount[p] - dequeueOvercommit[p])))
       IN  IF circular_less_than(0, desired)
           THEN /\ dequeueOptimisticCount' =
                     [dequeueOptimisticCount EXCEPT ![p] = Wrap(@ + desired)]
                /\ get' = [get EXCEPT !.at = "claimed", !.actual = desired]
           ELSE get' = NextTurn(get.got) /\ UNCHANGED dequeueOptimisticCount
    /\ UNCHANGED <<tailIndex, headIndex, dequeueOvercommit, tailBlock, index,
                   blocks, pool, semaphore, put, received, freeListVars>>

(* It claims them for good when they are still there: with one consumer    *)
(* they always are.                                                        *)
TakeHeadIndex ==
    /\ Getting("claimed")
    /\ LET p == Turn
           mine == dequeueOptimisticCount[p] - get.actual
           actual == Min2(get.actual,
                          Wrap(tailIndex[p] - (mine - dequeueOvercommit[p])))
       IN  /\ dequeueOvercommit' = [dequeueOvercommit EXCEPT ![p] =
                                      Wrap(@ + get.actual - actual)]
           /\ headIndex' = [headIndex EXCEPT ![p] = Wrap(@ + actual)]
           /\ get' = [get EXCEPT !.at = "header", !.actual = actual,
                                 !.first = headIndex[p]]
    /\ UNCHANGED <<tailIndex, dequeueOptimisticCount, tailBlock, index, blocks,
                   pool, semaphore, put, received, freeListVars>>

(* get_block_index_index_for_index: how far is the block from the last one?*)
LoadHeader ==
    /\ Getting("header")
    /\ get' = [get EXCEPT !.at = "tail", !.header = Len(blockIndex[Turn])]
    /\ UNCHANGED <<queue, tailBlock, index, blocks, pool, semaphore, put,
                   received, freeListVars>>

LoadTail ==
    /\ Getting("tail")
    /\ get' = [get EXCEPT !.at = "key",
                          !.tail = blockIndex[Turn][get.header].tail]
    /\ UNCHANGED <<queue, tailBlock, index, blocks, pool, semaphore, put,
                   received, freeListVars>>

(* The difference is an unsigned number; the capacity divides their count. *)
FindEntry ==
    /\ Getting("key")
    /\ LET header == blockIndex[Turn][get.header]
           tailBase == entries[Turn][header.index[get.tail + 1]].key
           offset == Wrap(Base(get.first) - tailBase) \div BLOCK_SIZE
       IN  get' = [get EXCEPT !.at = "move", !.tail = 0,
                     !.position = (get.tail + offset) % Capacity(header)]
    /\ UNCHANGED <<queue, tailBlock, index, blocks, pool, semaphore, put,
                   received, freeListVars>>

(* The elements of one block.                                              *)
Entry == blockIndex[Turn][get.header].index[get.position + 1]
InBlock == Min2(get.actual, BLOCK_SIZE - Slot(get.first))

(* The call goes on with the next block, or the next producer.             *)
NextBlock(g) ==
    IF g.actual = 0 THEN NextTurn(g.got)
    ELSE [g EXCEPT !.at = "move", !.position =
            (@ + 1) % Capacity(blockIndex[Turn][get.header])]

(* An implicit producer's block counts what has been taken out of it.  Was *)
(* it the last of its elements?                                            *)
SetManyEmpty(b, n) == count' = [count EXCEPT ![b] = @ + n]
SetEmpty(b) == SetManyEmpty(b, 1)
IsEmptied(b, n) == count[b] + n = BLOCK_SIZE

(* Who has emptied the block takes it out of the index.                    *)
MoveElements ==
    /\ Getting("move")
    /\ LET b == entries[Turn][Entry].value
           first == Slot(get.first)
           n == InBlock
           g == [get EXCEPT !.first = Wrap(@ + n), !.actual = @ - n,
                            !.got = @ + n]
       IN  /\ received' = [received EXCEPT ![Turn] =
                 @ \o [i \in 1 .. n |-> elements[b][first + i - 1]]]
           /\ elements' = [elements EXCEPT ![b] = [i \in DOMAIN @ |->
                 IF i \in first .. first + n - 1 THEN 0 ELSE @[i]]]
           /\ SetManyEmpty(b, n)
           /\ get' = IF IsEmptied(b, n)
                     THEN [g EXCEPT !.at = "empty"] ELSE NextBlock(g)
    /\ UNCHANGED <<queue, tailBlock, index, pool, semaphore, put, freeListVars>>

RemoveEntry ==
    /\ Getting("empty")
    /\ entries' = [entries EXCEPT ![Turn][Entry].value = 0]
    /\ get' = [get EXCEPT !.at = "free"]
    /\ Add(Consumer, entries[Turn][Entry].value)
    /\ UNCHANGED <<queue, tailBlock, blockIndex, blocks, pool, semaphore, put,
                   received, freeListHead, freeListRefs, freeListNext>>

BlockFreed ==
    /\ Getting("free") /\ call[Consumer].at = "added"
    /\ call' = [call EXCEPT ![Consumer] = NoCall]
    /\ get' = NextBlock(get)
    /\ UNCHANGED <<queue, tailBlock, index, blocks, pool, semaphore, put,
                   received, freeListHead, freeListRefs, freeListNext>>

-----------------------------------------------------------------------------
(* The end: StreamSendWorker::stop                                         *)

(* The thread has ended, and nobody sends any more.                        *)
Stop ==
    /\ Getting("wait")
    /\ \A p \in Producers : At(p, "idle")
    /\ get' = [NoGet EXCEPT !.at = "drain"]
    /\ UNCHANGED <<queue, tailBlock, index, blocks, pool, semaphore, put,
                   received, freeListVars>>

Size(p) == Wrap(tailIndex[p] - headIndex[p])

(* FreeList::add when there is no other thread.                            *)
AddedAlone(list, b) ==
    IF list.refs[b] = 0
    THEN [head |-> b, refs |-> [list.refs EXCEPT ![b] = 1],
          next |-> [list.next EXCEPT ![b] = list.head]]
    ELSE [list EXCEPT !.refs[b] = @ + SHOULD_BE_ON_FREELIST]

TheList == [head |-> freeListHead, refs |-> freeListRefs,
            next |-> freeListNext]

ListBecomes(list) ==
    /\ freeListHead' = list.head /\ freeListRefs' = list.refs
    /\ freeListNext' = list.next
    /\ UNCHANGED call

(* try_dequeue: of the producer with the most, the first of these.         *)
Best ==
    CHOOSE i \in DOMAIN ProducerList : \A j \in DOMAIN ProducerList :
      \/ Size(ProducerList[i]) > Size(ProducerList[j])
      \/ Size(ProducerList[i]) = Size(ProducerList[j]) /\ i <= j

DequeueGranted == Getting("drain") /\ TryWaitMany(1)

(* ImplicitProducer::dequeue: one element.                                 *)
TryDequeue ==
    /\ DequeueGranted
    /\ LET p == ProducerList[Best]
           header == Header(p)
           i == headIndex[p]
           tailBase == entries[p][header.index[header.tail + 1]].key
           offset == Wrap(Base(i) - tailBase) \div BLOCK_SIZE
           e == header.index[((header.tail + offset) % Capacity(header)) + 1]
           b == entries[p][e].value
           emptied == IsEmptied(b, 1)
       IN  /\ headIndex' = [headIndex EXCEPT ![p] = Wrap(@ + 1)]
           /\ dequeueOptimisticCount' =
                [dequeueOptimisticCount EXCEPT ![p] = Wrap(@ + 1)]
           /\ received' = [received EXCEPT ![p] =
                             Append(@, elements[b][Slot(i)])]
           /\ elements' = [elements EXCEPT ![b][Slot(i)] = 0]
           /\ SetEmpty(b)
           /\ entries' = IF emptied THEN [entries EXCEPT ![p][e].value = 0]
                                    ELSE entries
           /\ ListBecomes(IF emptied THEN AddedAlone(TheList, b)
                                     ELSE TheList)
    /\ UNCHANGED <<tailIndex, dequeueOvercommit, tailBlock, blockIndex, pool,
                   put, get>>

(* ~ImplicitProducer gives back the last block, unless it was given back   *)
(* with its last element; then all blocks of the list are freed.           *)
LastBlock(p) == tailBlock[p] # 0 /\ Slot(tailIndex[p]) # 0

Destroy ==
    /\ Getting("drain") /\ ~Positive
    /\ LET list[n \in 0 .. Len(ProducerList)] ==
             IF n = 0 THEN TheList
             ELSE IF LastBlock(ProducerList[n])
             THEN AddedAlone(list[n - 1], tailBlock[ProducerList[n]])
             ELSE list[n - 1]
       IN  ListBecomes(list[Len(ProducerList)])
    /\ get' = [NoGet EXCEPT !.at = "destroyed"]
    /\ UNCHANGED <<queue, tailBlock, index, blocks, pool, semaphore, put,
                   received>>

-----------------------------------------------------------------------------
Produce(p) ==
    \/ StartBlock(p) \/ InsertEntry(p) \/ PublishEntry(p) \/ TryPool(p)
    \/ TakeFromPool(p) \/ TakeFromList(p) \/ InsertBlock(p)
    \/ PutElement(p) \/ Publish(p) \/ Signal(p) \/ WakeConsumer(p)

Consume ==
    \/ WaitMany \/ StartSpinning \/ EndSpinning \/ WakeUp \/ TakeMore
    \/ Claim \/ TakeHeadIndex
    \/ LoadHeader \/ LoadTail \/ FindEntry
    \/ MoveElements \/ RemoveEntry \/ BlockFreed
    \/ Stop \/ TryDequeue \/ Destroy

ListStep(t) ==
    /\ FreeListStep(t)
    /\ UNCHANGED <<queue, tailBlock, index, blocks, pool, semaphore, put, get,
                   received>>

Next ==
    \/ \E p \in Producers : Produce(p)
    \/ Consume
    \/ \E t \in Threads : ListStep(t)

Spec == Init /\ [][Next]_vars

-----------------------------------------------------------------------------
(* Every element comes out once, in the order of its producer, whatever    *)
(* the blocks, the index and the positions do meanwhile.                   *)
Fifo == INSTANCE ProducerFifo WITH enqueued <- [p \in Producers |-> Sent(p)]
FifoSpec == Fifo!Spec

(* Where a block is.                                                       *)
InIndex(b) ==
    {pe \in UNION {{p} \X DOMAIN entries[p] : p \in Producers} :
       entries[pe[1]][pe[2]].value = b}
Adding(b) == {t \in Threads : call[t].node = b /\ call[t].at \in
                {"add", "addLoad", "addLink", "addCount", "addPush",
                 "addRetry"}}
Holding(b) ==
    {p \in Producers :
       \/ At(p, "block") /\ put[p].block = b
       \/ call[p].at \in {"took", "got"} /\ call[p].head = b}

(* A block that exists is in one place: in the index of one queue, free, or*)
(* in the hands of one thread.  None is used twice, and none is lost: at   *)
(* the end all of them are free, and free once.                            *)
BlocksInOnePlace ==
    /\ get.at = "destroyed" => OnFreeList = 1 .. created /\ Owed = {}
    /\ get.at # "destroyed" => \A b \in 1 .. created :
      /\ Cardinality(InIndex(b)) + Cardinality(Holding(b))
           + (IF b \in OnFreeList THEN 1 ELSE 0)
           + (IF b \in Owed \/ Adding(b) # {} THEN 1 ELSE 0)
         = 1
      /\ Cardinality(Adding(b)) <= 1
      /\ b \in Owed => Refs(b) > 0 \/ Adding(b) # {}

InQueue(p) == Sent(p) - Len(received[p])

AllInQueue ==
    LET all[n \in 0 .. Len(ProducerList)] ==
          IF n = 0 THEN 0 ELSE all[n - 1] + InQueue(ProducerList[n])
    IN  all[Len(ProducerList)]

(* The semaphore and the queue agree.  What the consumer has been granted  *)
(* is there: it goes round the producers until it has that many elements,  *)
(* which would be for ever otherwise.  And no wake-up is lost: it does not *)
(* sleep while there is something that nobody is about to wake it for.     *)
SemaphoreAgrees ==
    /\ get.max - get.got + (IF Positive THEN m_count ELSE 0)
         + (IF Getting("more") THEN 1 ELSE m_sema) <= AllInQueue
    /\ Getting("sleep") /\ m_sema = 0 /\ AllInQueue > 0 =>
         \E p \in Producers : At(p, "signal") \/ At(p, "raise")
=============================================================================
