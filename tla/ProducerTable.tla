---------------------------- MODULE ProducerTable ----------------------------
(***************************************************************************)
(* How a thread that enqueues finds its producer, the queue that is its own*)
(* (moodycamel::ConcurrentQueue::get_or_add_implicit_producer): in a hash  *)
(* table from threads to producers, that no lock protects.  When it is half*)
(* full one thread makes a table of twice the size, which refers to the old*)
(* one; the others go on with the old one while there is room.             *)
(*                                                                         *)
(* A thread's key is only written by that thread, so that to look for it is*)
(* one step, as is to write it to the first free entry that it comes to.   *)
(***************************************************************************)
EXTENDS Integers, Sequences, FiniteSets

CONSTANTS
  Threads,
  Nobody,       \* invalid_thread_id
  Hash,         \* of each thread, hash_thread_id
  InitialSize,  \* INITIAL_IMPLICIT_PRODUCER_HASH_SIZE
  MaxFailures   \* bound: how often the allocation of a table may fail

ASSUME TableAssumption ==
    /\ IsFiniteSet(Threads) /\ Nobody \notin Threads
    /\ Hash \in [Threads -> Nat] /\ InitialSize \in Nat \ {0}

VARIABLES
  tables,       \* implicitProducerHash, the last one, and its predecessors
  hashCount,    \* implicitProducerHashCount
  resizing,     \* implicitProducerHashResizeInProgress
  list,         \* producerListTail and the producers that follow
  producers,    \* how many producers have been created
  thread,       \* what each thread is doing
  failures,     \* how often there was no memory for a table
  given         \* history: the producers each thread was given

vars == <<tables, hashCount, resizing, list, producers, failures, thread,
          given>>

FreeEntry == [key |-> Nobody, value |-> 0]
NewTable(capacity) == [i \in 0 .. capacity - 1 |-> FreeEntry]
CapacityOf(n) == Cardinality(DOMAIN tables[n])

Idle == [at |-> "idle", main |-> 0, count |-> 0, producer |-> 0, tail |-> <<>>]

Init ==
    /\ tables = <<NewTable(InitialSize)>>
    /\ hashCount = 0 /\ resizing = FALSE
    /\ list = <<>> /\ producers = 0
    /\ thread = [t \in Threads |-> Idle]
    /\ failures = 0 /\ given = [t \in Threads |-> {}]

At(t, at) == thread[t].at = at
Goto(t, at) == thread' = [thread EXCEPT ![t].at = at]
Main(t) == thread[t].main

-----------------------------------------------------------------------------
(* The entries that a thread probes, from the one of its hash on.          *)
Probe(t, n, i) == (Hash[t] + i) % CapacityOf(n)

(* The first of them that is free or its own, if any.                      *)
Found(t, n) ==
    LET probed == {i \in 0 .. CapacityOf(n) - 1 :
                     tables[n][Probe(t, n, i)].key \in {t, Nobody}}
    IN  IF probed = {} THEN {}
        ELSE {Probe(t, n, CHOOSE i \in probed : \A j \in probed : i <= j)}

Knows(t, n) == \E e \in Found(t, n) : tables[n][e].key = t

ValueIn(t, n) == tables[n][CHOOSE e \in Found(t, n) : TRUE].value

(* The call returns the producer.                                          *)
Return(t, producer) ==
    /\ given' = [given EXCEPT ![t] = @ \cup {producer}]
    /\ thread' = [thread EXCEPT ![t] = Idle]

(* Tables are searched from the last one on.                               *)
LookUp(t) ==
    /\ At(t, "idle")
    /\ LET main == Len(tables)
           known == {n \in 1 .. main : Knows(t, n)}
           n == CHOOSE n \in known : \A m \in known : m <= n
       IN  IF known = {}
           THEN /\ thread' = [thread EXCEPT ![t] =
                     [Idle EXCEPT !.at = "count", !.main = main]]
                /\ UNCHANGED given
           ELSE IF n = main THEN Return(t, ValueIn(t, n))
           ELSE /\ thread' = [thread EXCEPT ![t] =
                     [Idle EXCEPT !.at = "place", !.main = main,
                                  !.producer = ValueIn(t, n)]]
                /\ UNCHANGED given
    /\ UNCHANGED <<tables, hashCount, resizing, list, producers, failures>>

Count(t) ==
    /\ At(t, "count")
    /\ hashCount' = hashCount + 1
    /\ thread' = [thread EXCEPT ![t].at = "room", ![t].count = hashCount']
    /\ UNCHANGED <<tables, resizing, list, producers, failures,
                   given>>

Half(n) == CapacityOf(n) \div 2

(* Only one thread makes the next table.                                   *)
TestAndSet(t) ==
    /\ At(t, "room") /\ thread[t].count >= Half(Main(t))
    /\ ~resizing
    /\ resizing' = TRUE
    /\ thread' = [thread EXCEPT ![t].main = Len(tables),
         ![t].at = IF thread[t].count >= Half(Len(tables)) THEN "resize"
                                                           ELSE "unlock"]
    /\ UNCHANGED <<tables, hashCount, list, producers, failures,
                   given>>

(* The size is doubled, until the table is less than half full; no more    *)
(* threads are counted than there are.                                     *)
NewCapacities(t) ==
    LET doubled == {CapacityOf(Main(t)) * 2^n : n \in 1 .. Cardinality(Threads) + 1}
    IN  {capacity \in doubled : thread[t].count < capacity \div 2}

Resize(t) ==
    /\ At(t, "resize")
    /\ \E capacity \in NewCapacities(t) :
         /\ \A other \in NewCapacities(t) : capacity <= other
         /\ tables' = Append(tables, NewTable(capacity))
    /\ thread' = [thread EXCEPT ![t].at = "unlock", ![t].main = Len(tables')]
    /\ UNCHANGED <<hashCount, resizing, list, producers, failures,
                   given>>

(* The call fails, and so does enqueue.                                    *)
(* Mutant: the thread still holds the lock.                               *)
CannotAllocate_KeepsLock(t) ==
    /\ At(t, "resize") /\ failures < MaxFailures
    /\ failures' = failures + 1
    /\ hashCount' = hashCount - 1
    /\ thread' = [thread EXCEPT ![t] = Idle]
    /\ UNCHANGED <<tables, resizing, list, producers, given>>

CannotAllocate(t) ==
    /\ At(t, "resize") /\ failures < MaxFailures
    /\ failures' = failures + 1
    /\ hashCount' = hashCount - 1
    /\ resizing' = FALSE
    /\ thread' = [thread EXCEPT ![t] = Idle]
    /\ UNCHANGED <<tables, list, producers, given>>

Unlock(t) ==
    /\ At(t, "unlock")
    /\ resizing' = FALSE
    /\ Goto(t, "full")
    /\ UNCHANGED <<tables, hashCount, list, producers, failures,
                   given>>

(* No table is to be made, or another thread is making it.                 *)
SkipResize(t) ==
    /\ At(t, "room")
    /\ thread[t].count < Half(Main(t)) \/ resizing
    /\ Goto(t, "full")
    /\ UNCHANGED <<tables, hashCount, resizing, list, producers, failures,
                   given>>

(* Up to three quarters the table takes more, beyond one waits for the next*)
TryAdd(t) ==
    /\ At(t, "full")
    /\ IF thread[t].count < Half(Main(t)) + CapacityOf(Main(t)) \div 4
       THEN Goto(t, "create")
       ELSE thread' = [thread EXCEPT ![t].at = "room",
                                     ![t].main = Len(tables)]
    /\ UNCHANGED <<tables, hashCount, resizing, list, producers, failures,
                   given>>

(* recycle_or_create_producer; none is ever inactive here.                 *)
Create(t) ==
    /\ At(t, "create")
    /\ producers' = producers + 1
    /\ thread' = [thread EXCEPT ![t].at = "push", ![t].tail = list,
                                ![t].producer = producers']
    /\ UNCHANGED <<tables, hashCount, resizing, list, failures, given>>

(* add_producer: a CAS that fails loads the list again.                    *)
(* Mutant: it is a store.                                                  *)
Push_Store(t) ==
    /\ At(t, "push")
    /\ list' = <<thread[t].producer>> \o thread[t].tail
    /\ Goto(t, "place")
    /\ UNCHANGED <<tables, hashCount, resizing, producers, failures, given>>

Push(t) ==
    /\ At(t, "push")
    /\ IF list = thread[t].tail
       THEN list' = <<thread[t].producer>> \o list /\ Goto(t, "place")
       ELSE thread' = [thread EXCEPT ![t].tail = list] /\ UNCHANGED list
    /\ UNCHANGED <<tables, hashCount, resizing, producers, failures, given>>

(* In the table that the thread began with, even if there is a newer one.  *)
Place(t) ==
    /\ At(t, "place")
    /\ \E e \in Found(t, Main(t)) :
         tables' = [tables EXCEPT ![Main(t)][e] =
                     [key |-> t, value |-> thread[t].producer]]
    /\ Return(t, thread[t].producer)
    /\ UNCHANGED <<hashCount, resizing, list, producers, failures>>

-----------------------------------------------------------------------------
Step(t) ==
    \/ Count(t) \/ TestAndSet(t) \/ Resize(t) \/ CannotAllocate(t)
    \/ Unlock(t) \/ SkipResize(t) \/ TryAdd(t) \/ Create(t) \/ Push(t)
    \/ Place(t)

Next == \E t \in Threads : LookUp(t) \/ Step(t)

(* A thread that has begun to look for its producer runs.                  *)
Spec == Init /\ [][Next]_vars /\ \A t \in Threads : WF_vars(Step(t))

-----------------------------------------------------------------------------
(* A thread gets the same producer each time, its own, though the table may*)
(* have been replaced meanwhile, and one that is in the list by which the  *)
(* consumer finds it.                                                      *)
OwnProducer ==
    /\ \A t \in Threads : \A q \in given[t] :
         /\ given[t] = {q}
         /\ \E i \in DOMAIN list : list[i] = q
         /\ \A u \in Threads \ {t} : q \notin given[u]
    /\ \A i, j \in DOMAIN list : list[i] = list[j] => i = j

(* A thread that looks for its producer comes to an end, though it may have*)
(* to wait for another one that makes the table.                           *)
LookUpEnds == \A t \in Threads : ~At(t, "idle") ~> At(t, "idle")
=============================================================================
