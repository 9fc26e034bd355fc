------------------------ MODULE LockFreeQueueProofs ------------------------
(***************************************************************************)
(* Proofs about LockFreeQueue: its semaphore and its queues agree, so that *)
(* the consumer is never granted what is not there, and no wake-up of it is*)
(* lost (SemaphoreAgrees).  Then the invariant of the blocks, which holds  *)
(* the place of each, and that the free list and the producers keep it;    *)
(* FifoProofs goes on with the consumer.                                   *)
(*                                                                         *)
(* What is in the queues is a sum over the producers.  The sums are reached*)
(* by induction on the number of producers, as a smallest counterexample.  *)
(***************************************************************************)
EXTENDS LockFreeQueue, FiniteSetTheorems, WellFoundedInduction, TLAPS

-----------------------------------------------------------------------------
(* Sums                                                                    *)

\* The partial sums of g, which has n numbers.
AreSums(all, g, n) ==
    /\ all \in [0 .. n -> Int] /\ all[0] = 0
    /\ \A i \in 1 .. n : all[i] = all[i - 1] + g[i]

IsSum(g, n, s) == \E all : AreSums(all, g, n) /\ s = all[n]

LEMMA Smallest ==
    ASSUME NEW S \in SUBSET Nat, S # {}
    PROVE  \E i \in S : \A j \in S : i <= j
<1> DEFINE R == {ss \in Nat \X Nat : ss[1] < ss[2]}
<1>1. IsWellFoundedOn(R, Nat)
  BY NatLessThanWellFounded, Zenon DEF OpToRel
<1>2. PICK i \in S : \A j \in S : << j, i >> \notin R
  <2> HIDE DEF R
  <2> QED
    BY <1>1, WFMin
<1>3. \A j \in S : ~ (j < i)
  BY <1>2
<1> QED
  BY <1>3

LEMMA SumsExist ==
    ASSUME NEW n \in Nat, NEW g \in [1 .. n -> Int]
    PROVE  \E all : AreSums(all, g, n)
<1> DEFINE missing == {k \in 0 .. n : ~ \E all : AreSums(all, g, k)}
<1>1. SUFFICES ASSUME missing # {}
               PROVE  FALSE
  <2>1. n \in 0 .. n
    OBVIOUS
  <2> QED
    BY <2>1
<1>2. PICK k \in missing : \A j \in missing : k <= j
  <2>1. missing \in SUBSET Nat
    OBVIOUS
  <2> HIDE DEF missing
  <2> QED
    BY <1>1, <2>1, Smallest
<1>3. k # 0
  <2>1. AreSums([i \in 0 .. 0 |-> 0], g, 0)
    BY DEF AreSums
  <2> QED
    BY <2>1
<1>4. k - 1 \in 0 .. n /\ k - 1 \notin missing /\ k \in 1 .. n
  BY <1>2, <1>3
<1>5. PICK all : AreSums(all, g, k - 1)
  BY <1>4
<1> DEFINE more == [i \in 0 .. k |-> IF i = k THEN all[k - 1] + g[k] ELSE all[i]]
<1>6. AreSums(more, g, k)
  <2>1. /\ all \in [0 .. k - 1 -> Int] /\ all[0] = 0
        /\ \A i \in 1 .. k - 1 : all[i] = all[i - 1] + g[i]
    BY <1>5 DEF AreSums
  <2>2. all[k - 1] \in Int /\ g[k] \in Int
    BY <1>4, <2>1
  <2>3. more \in [0 .. k -> Int] /\ more[0] = 0
    BY <1>4, <2>1, <2>2
  <2>4. ASSUME NEW i \in 1 .. k
        PROVE  more[i] = more[i - 1] + g[i]
    <3>1. CASE i = k
      BY <1>4, <3>1
    <3>2. CASE i # k
      <4>1. i \in 1 .. k - 1 /\ i \in 0 .. k /\ i - 1 \in 0 .. k /\ i - 1 # k
        BY <1>4, <3>2
      <4> QED
        BY <2>1, <3>2, <4>1
    <3> QED
      BY <3>1, <3>2
  <2> HIDE DEF more
  <2> QED
    BY <2>3, <2>4 DEF AreSums
<1> QED
  BY <1>6

\* A sum of smaller numbers is smaller.
LEMMA SumsGrow ==
    ASSUME NEW n \in Nat, NEW g, NEW h, NEW r, NEW s, IsSum(g, n, r), IsSum(h, n, s),
           \A i \in 1 .. n : g[i] \in Int /\ h[i] \in Int /\ g[i] <= h[i]
    PROVE  r <= s /\ r \in Int /\ s \in Int
<1>1. PICK a : AreSums(a, g, n) /\ r = a[n]
  BY DEF IsSum
<1>2. PICK b : AreSums(b, h, n) /\ s = b[n]
  BY DEF IsSum
<1>3. \A i \in 0 .. n : a[i] \in Int /\ b[i] \in Int
  BY <1>1, <1>2 DEF AreSums
<1> DEFINE wrong == {k \in 0 .. n : ~ (a[k] <= b[k])}
<1>4. SUFFICES ASSUME wrong # {}
               PROVE  FALSE
  <2>1. n \in 0 .. n
    OBVIOUS
  <2> QED
    BY <1>1, <1>2, <1>3, <2>1
<1>5. PICK k \in wrong : \A j \in wrong : k <= j
  <2>1. wrong \in SUBSET Nat
    OBVIOUS
  <2> HIDE DEF wrong
  <2> QED
    BY <1>4, <2>1, Smallest
<1>6. k # 0
  BY <1>1, <1>2, <1>5 DEF AreSums
<1>7. k - 1 \in 0 .. n /\ k - 1 \notin wrong /\ k \in 1 .. n
  BY <1>5, <1>6
<1>8. a[k] = a[k - 1] + g[k] /\ b[k] = b[k - 1] + h[k]
  BY <1>1, <1>2, <1>7 DEF AreSums
<1>9. a[k - 1] <= b[k - 1] /\ ~ (a[k] <= b[k])
  BY <1>5, <1>7
<1> QED
  BY <1>3, <1>7, <1>8, <1>9

\* When one of the numbers changes, the sum changes by as much.
LEMMA SumChanges ==
    ASSUME NEW n \in Nat, NEW g, NEW s, IsSum(g, n, s), NEW k \in 1 .. n, NEW d \in Int,
           NEW h, \A i \in 1 .. n : h[i] = IF i = k THEN g[i] + d ELSE g[i],
           \A i \in 1 .. n : g[i] \in Int
    PROVE  IsSum(h, n, s + d)
<1>1. PICK a : AreSums(a, g, n) /\ s = a[n]
  BY DEF IsSum
<1>2. /\ a \in [0 .. n -> Int] /\ a[0] = 0
      /\ \A i \in 1 .. n : a[i] = a[i - 1] + g[i]
  BY <1>1 DEF AreSums
<1> DEFINE b == [i \in 0 .. n |-> IF i < k THEN a[i] ELSE a[i] + d]
<1>3. b \in [0 .. n -> Int] /\ b[0] = 0 /\ b[n] = s + d
  BY <1>1, <1>2
<1>4. ASSUME NEW i \in 1 .. n
      PROVE  b[i] = b[i - 1] + h[i]
  <2>1. i \in 0 .. n /\ i - 1 \in 0 .. n /\ a[i] \in Int /\ a[i - 1] \in Int /\ g[i] \in Int
    BY <1>2
  <2>2. a[i] = a[i - 1] + g[i]
    BY <1>2
  <2>3. CASE i < k
    BY <2>1, <2>2, <2>3
  <2>4. CASE i = k
    BY <2>1, <2>2, <2>4
  <2>5. CASE i > k
    BY <2>1, <2>2, <2>5
  <2> QED
    BY <2>3, <2>4, <2>5
<1> HIDE DEF b
<1> QED
  BY <1>3, <1>4 DEF IsSum, AreSums

LEMMA SumSame ==
    ASSUME NEW n \in Nat, NEW g, NEW h, NEW s, IsSum(g, n, s),
           \A i \in 1 .. n : h[i] = g[i]
    PROVE  IsSum(h, n, s)
  BY DEF IsSum, AreSums

-----------------------------------------------------------------------------
(* Positions                                                               *)

LEMMA Remainder ==
    ASSUME NEW m \in Nat \ {0}, NEW q \in Int, NEW r \in 0 .. m - 1
    PROVE  (m * q + r) % m = r
<1> DEFINE a == m * q + r
           q2 == a \div m
           r2 == a % m
<1>1. a \in Int
  OBVIOUS
<1>2. q2 \in Int /\ r2 \in 0 .. m - 1 /\ a = m * q2 + r2
  <2> HIDE DEF a
  <2> QED
    BY <1>1
<1>3. m * q + r = m * q2 + r2
  BY <1>2
<1> HIDE DEF a, q2, r2
<1>4. CASE q2 >= q + 1
  <2>1. m * q2 >= m * (q + 1)
    BY <1>2, <1>4
  <2> QED
    BY <1>2, <1>3, <2>1
<1>5. CASE q >= q2 + 1
  <2>1. m * q >= m * (q2 + 1)
    BY <1>2, <1>5
  <2> QED
    BY <1>2, <1>3, <2>1
<1>6. CASE q = q2
  BY <1>2, <1>3, <1>6 DEF r2, a
<1> QED
  BY <1>2, <1>4, <1>5, <1>6

LEMMA WrapType ==
    ASSUME NEW i \in Int
    PROVE  Wrap(i) \in 0 .. IndexRange - 1 /\ \E q \in Int : i = IndexRange * q + Wrap(i)
<1>1. IndexRange \in Nat \ {0}
  BY QueueAssumption
<1>2. i \div IndexRange \in Int /\ i = IndexRange * (i \div IndexRange) + (i % IndexRange)
  BY <1>1
<1>3. i % IndexRange \in 0 .. IndexRange - 1
  BY <1>1
<1> QED
  BY <1>2, <1>3 DEF Wrap

\* One more element: the number of those enqueued grows by one though the index wraps.
LEMMA WrapNext ==
    ASSUME NEW t \in Int, NEW s \in Int, Wrap(t - s) < IndexRange - 1
    PROVE  Wrap(Wrap(t + 1) - s) = Wrap(t - s) + 1
<1>1. IndexRange \in Nat \ {0}
  BY QueueAssumption
<1>2. PICK q \in Int : t - s = IndexRange * q + Wrap(t - s)
  BY WrapType
<1>3. PICK q2 \in Int : t + 1 = IndexRange * q2 + Wrap(t + 1)
  BY WrapType
<1>4. Wrap(t - s) \in Nat /\ Wrap(t + 1) \in Int
  BY WrapType, <1>1
<1>5. Wrap(t + 1) - s = IndexRange * (q - q2) + (Wrap(t - s) + 1)
  BY <1>1, <1>2, <1>3, <1>4
<1>6. Wrap(t - s) + 1 \in 0 .. IndexRange - 1 /\ q - q2 \in Int
  BY <1>1, <1>4
<1> QED
  BY <1>1, <1>5, <1>6, Remainder DEF Wrap

LEMMA WrapStart ==
    ASSUME NEW s \in Int
    PROVE  Wrap(Wrap(s) - s) = 0
<1>1. IndexRange \in Nat \ {0}
  BY QueueAssumption
<1>2. PICK q \in Int : s = IndexRange * q + Wrap(s)
  BY WrapType
<1>3. Wrap(s) - s = IndexRange * (0 - q) + 0 /\ 0 - q \in Int /\ 0 \in 0 .. IndexRange - 1
  BY <1>1, <1>2, WrapType
<1> QED
  BY <1>1, <1>3, Remainder DEF Wrap

-----------------------------------------------------------------------------
(* The inductive invariant                                                 *)

N == Len(ProducerList)

PutSteps == {"idle", "entry", "tail", "pool", "take", "list", "block", "element", "publish",
             "signal", "raise"}

IndexesFit ==
    /\ tailIndex \in [Producers -> Int] /\ headIndex \in [Producers -> Int]
    /\ dequeueOptimisticCount \in [Producers -> Int]
    /\ dequeueOvercommit \in [Producers -> Int]

ReceivedFits ==
    DOMAIN received = Producers /\ \A p \in Producers : \E S : received[p] \in Seq(S)

\* Who is about to add an element has room for it.
PutsFit ==
    /\ DOMAIN put = Producers
    /\ \A p \in Producers :
          /\ "at" \in DOMAIN put[p] /\ put[p].at \in PutSteps
          /\ put[p].at \notin {"idle", "signal", "raise"} => Sent(p) < MaxItems[p]

\* Where the consumer has elements to fetch.
Fetching == {"turn", "claimed", "header", "tail", "key", "move", "empty", "free"}

GetFields == {"at", "max", "got", "turn", "actual", "first", "header", "tail", "position"}

GetsFit ==
    /\ GetFields \subseteq DOMAIN get
    /\ get.at \in Fetching \cup {"wait", "spin", "sleep", "more", "drain", "destroyed"}
    /\ get.max \in Nat /\ get.got \in Nat /\ get.actual \in Nat /\ get.first \in Int
    /\ get.got + get.actual <= get.max
    /\ get.at \in Fetching => get.turn \in 1 .. N
    /\ get.at \notin Fetching => get.max = 0

\* Elements that the consumer was granted, or will be when it wakes up, and has not got.
Held == IF get.at \in {"sleep", "more"} THEN 1 ELSE get.max - get.got

\* Elements of a producer that the semaphore has been told of.
Backlog(p) == InQueue(p) - (IF At(p, "signal") THEN 1 ELSE 0)

Backlogs == [i \in 1 .. N |-> Backlog(ProducerList[i])]

\* All of them are promised by the semaphore, or granted.
Balanced == IsSum(Backlogs, N, m_count + Held)

\* A sleeper is counted by m_count; when it is no more, one wake-up is on its way to it.
WakesFit ==
    /\ m_count \in Int /\ m_count >= -1 /\ m_sema \in {0, 1}
    /\ m_count = -1 => Getting("sleep")
    /\ IF Getting("sleep") /\ m_count >= 0
       THEN \/ m_sema = 1 /\ \A p \in Producers : ~ At(p, "raise")
            \/ m_sema = 0 /\ \E p \in Producers : At(p, "raise") /\
                                 \A q \in Producers \ {p} : ~ At(q, "raise")
       ELSE m_sema = 0 /\ \A p \in Producers : ~ At(p, "raise")

IInv ==
    IndexesFit /\ ReceivedFits /\ PutsFit /\ GetsFit /\ Balanced /\ WakesFit

-----------------------------------------------------------------------------
(* What the invariant says of the sums                                     *)

LEMMA ProducersFacts ==
    /\ N \in Nat /\ DOMAIN ProducerList = 1 .. N
    /\ \A i \in 1 .. N : ProducerList[i] \in Producers
    /\ \A p \in Producers : \E i \in 1 .. N :
          ProducerList[i] = p /\ \A j \in 1 .. N : ProducerList[j] = p => j = i
<1>1. N \in Nat /\ DOMAIN ProducerList = 1 .. N
  BY QueueAssumption DEF N
<1> QED
  BY <1>1, QueueAssumption DEF Producers

LEMMA InQueueType ==
    ASSUME tailIndex \in [Producers -> Int], ReceivedFits, NEW p \in Producers
    PROVE  InQueue(p) \in Int /\ Sent(p) \in 0 .. IndexRange - 1 /\ Len(received[p]) \in Nat
<1>1. tailIndex[p] - Start \in Int
  BY QueueAssumption
<1>2. Sent(p) \in 0 .. IndexRange - 1
  BY <1>1, WrapType DEF Sent
<1>3. Len(received[p]) \in Nat
  BY DEF ReceivedFits
<1> QED
  BY <1>2, <1>3, QueueAssumption DEF InQueue

\* The recursive function of AllInQueue gives the sum.
LEMMA AllIsSum ==
    ASSUME tailIndex \in [Producers -> Int], ReceivedFits
    PROVE  IsSum([i \in 1 .. N |-> InQueue(ProducerList[i])], N, AllInQueue)
<1> DEFINE g == [i \in 1 .. N |-> InQueue(ProducerList[i])]
           step(f) == [n \in 0 .. N |-> IF n = 0 THEN 0 ELSE f[n - 1] + InQueue(ProducerList[n])]
           all == CHOOSE f : f = step(f)
<1>1. AllInQueue = all[N]
  BY DEF AllInQueue, N
<1>2. N \in Nat /\ g \in [1 .. N -> Int]
  BY ProducersFacts, InQueueType
<1>3. PICK sums : AreSums(sums, g, N)
  <2> HIDE DEF g
  <2> QED
    BY <1>2, SumsExist
<1>4. /\ sums \in [0 .. N -> Int] /\ sums[0] = 0
      /\ \A i \in 1 .. N : sums[i] = sums[i - 1] + InQueue(ProducerList[i])
  BY <1>3 DEF AreSums
<1>5. sums = step(sums)
  BY <1>2, <1>4
<1>6. all = step(all)
  <2> HIDE DEF step
  <2> QED
    BY <1>5
<1> HIDE DEF all
<1>7. /\ DOMAIN all = 0 .. N /\ all[0] = 0
      /\ \A i \in 1 .. N : all[i] = all[i - 1] + InQueue(ProducerList[i])
  <2>1. DOMAIN all = 0 .. N
    BY <1>6
  <2>2. \A i \in 0 .. N : all[i] = IF i = 0 THEN 0 ELSE all[i - 1] + InQueue(ProducerList[i])
    BY <1>6
  <2> QED
    BY <1>2, <2>1, <2>2
<1>8. all[N] = sums[N]
  <2> DEFINE wrong == {k \in 0 .. N : all[k] # sums[k]}
  <2>1. SUFFICES ASSUME wrong # {}
                 PROVE  FALSE
    BY <1>2
  <2>2. PICK k \in wrong : \A j \in wrong : k <= j
    <3>1. wrong \in SUBSET Nat
      BY <1>2
    <3> HIDE DEF wrong
    <3> QED
      BY <2>1, <3>1, Smallest
  <2>3. k # 0
    BY <1>4, <1>7, <2>2
  <2>4. k - 1 \in 0 .. N /\ k - 1 \notin wrong /\ k \in 1 .. N
    BY <1>2, <2>2, <2>3
  <2> QED
    BY <1>4, <1>7, <2>2, <2>4
<1> QED
  BY <1>1, <1>3, <1>8 DEF IsSum

LEMMA BacklogType ==
    ASSUME tailIndex \in [Producers -> Int], ReceivedFits
    PROVE  /\ \A p \in Producers : Backlog(p) \in Int /\ Backlog(p) <= InQueue(p)
           /\ \A i \in 1 .. N : Backlogs[i] = Backlog(ProducerList[i]) /\ Backlogs[i] \in Int
<1>1. \A p \in Producers : Backlog(p) \in Int /\ Backlog(p) <= InQueue(p)
  BY InQueueType DEF Backlog
<1>2. \A i \in 1 .. N : Backlogs[i] = Backlog(ProducerList[i])
  BY DEF Backlogs
<1> QED
  BY <1>1, <1>2, ProducersFacts

LEMMA GrantedIsThere ==
    ASSUME IInv
    PROVE  SemaphoreAgrees
<1>1. IndexesFit /\ ReceivedFits /\ PutsFit /\ GetsFit /\ Balanced /\ WakesFit
  BY DEF IInv
<1>2. tailIndex \in [Producers -> Int]
  BY <1>1 DEF IndexesFit
<1> DEFINE g == [i \in 1 .. N |-> InQueue(ProducerList[i])]
<1>3. IsSum(g, N, AllInQueue) /\ \A i \in 1 .. N : g[i] = InQueue(ProducerList[i])
  BY <1>1, <1>2, AllIsSum
<1> HIDE DEF g
<1>4. /\ N \in Nat /\ IsSum(Backlogs, N, m_count + Held)
      /\ \A i \in 1 .. N : Backlogs[i] \in Int /\ g[i] \in Int /\ Backlogs[i] <= g[i]
  BY <1>1, <1>2, <1>3, BacklogType, InQueueType, ProducersFacts DEF Balanced
<1>5. m_count + Held <= AllInQueue /\ AllInQueue \in Int
  BY <1>3, <1>4, SumsGrow
<1>6. /\ m_count \in Int /\ get.max \in Nat /\ get.got \in Nat
      /\ (Getting("sleep") \/ Getting("more") => get.max = 0 /\ get.got = 0)
  BY <1>1 DEF WakesFit, GetsFit, Fetching, Getting
<1>7. get.max - get.got + (IF Positive THEN m_count ELSE 0)
        + (IF Getting("more") THEN 1 ELSE m_sema) <= AllInQueue
  <2>1. CASE Getting("sleep")
    <3>1. Held = 1 /\ m_sema \in {0, 1} /\ (m_count < 0 => m_count = -1 /\ m_sema = 0)
      BY <1>1, <2>1 DEF Held, Getting, WakesFit
    <3> QED
      BY <1>5, <1>6, <2>1, <3>1 DEF Getting, Positive
  <2>2. CASE Getting("more")
    <3>1. Held = 1 /\ m_sema = 0 /\ m_count >= 0
      BY <1>1, <2>2 DEF Held, Getting, WakesFit
    <3> QED
      BY <1>5, <1>6, <2>2, <3>1 DEF Positive
  <2>3. CASE ~ Getting("sleep") /\ ~ Getting("more")
    <3>1. Held = get.max - get.got /\ m_sema = 0 /\ m_count >= 0
      BY <1>1, <2>3 DEF Held, Getting, WakesFit
    <3> QED
      BY <1>5, <1>6, <2>3, <3>1 DEF Positive
  <2> QED
    BY <2>1, <2>2, <2>3
<1>8. ASSUME Getting("sleep"), m_sema = 0, AllInQueue > 0
      PROVE  \E p \in Producers : At(p, "signal") \/ At(p, "raise")
  <2>1. SUFFICES ASSUME \A p \in Producers : ~ At(p, "signal") /\ ~ At(p, "raise")
                 PROVE  FALSE
    OBVIOUS
  <2>2. \A i \in 1 .. N : g[i] <= Backlogs[i]
    BY <1>1, <1>2, <1>3, <1>4, <2>1, BacklogType, ProducersFacts, InQueueType DEF Backlog
  <2>3. AllInQueue <= m_count + Held
    BY <1>3, <1>4, <2>2, SumsGrow
  <2>4. m_count = -1 /\ Held = 1
    BY <1>1, <1>8, <2>1 DEF WakesFit, Held, Getting
  <2> QED
    BY <1>5, <1>8, <2>3, <2>4
<1> QED
  BY <1>7, <1>8 DEF SemaphoreAgrees

-----------------------------------------------------------------------------
(* What a step keeps                                                       *)

LEMMA BalanceChanges ==
    ASSUME IInv, NEW p \in Producers, NEW d \in Int,
           Backlog(p)' = Backlog(p) + d,
           \A q \in Producers \ {p} : Backlog(q)' = Backlog(q),
           (m_count + Held)' = m_count + Held + d
    PROVE  Balanced'
<1>1. /\ N \in Nat /\ IsSum(Backlogs, N, m_count + Held)
      /\ \A i \in 1 .. N : Backlogs[i] = Backlog(ProducerList[i]) /\ Backlogs[i] \in Int
  BY BacklogType, ProducersFacts DEF IInv, IndexesFit, Balanced
<1>2. PICK k \in 1 .. N : ProducerList[k] = p /\ \A j \in 1 .. N : ProducerList[j] = p => j = k
  BY ProducersFacts
<1>3. \A i \in 1 .. N : Backlogs'[i] = Backlog(ProducerList[i])'
  BY DEF Backlogs
<1>4. \A i \in 1 .. N : Backlogs'[i] = IF i = k THEN Backlogs[i] + d ELSE Backlogs[i]
  BY <1>1, <1>2, <1>3, ProducersFacts
<1>5. IsSum(Backlogs', N, m_count + Held + d)
  BY <1>1, <1>4, SumChanges
<1> QED
  BY <1>5 DEF Balanced

LEMMA BalanceKept ==
    ASSUME IInv, \A p \in Producers : Backlog(p)' = Backlog(p),
           (m_count + Held)' = m_count + Held
    PROVE  Balanced'
<1>1. N \in Nat /\ IsSum(Backlogs, N, m_count + Held)
  BY ProducersFacts DEF IInv, Balanced
<1>2. \A i \in 1 .. N : Backlogs'[i] = Backlogs[i]
  BY ProducersFacts DEF Backlogs
<1>3. IsSum(Backlogs', N, m_count + Held)
  BY <1>1, <1>2, SumSame
<1> QED
  BY <1>3 DEF Balanced

\* As long as the consumer is granted something, there is a producer.
LEMMA SomeProducer ==
    ASSUME IInv, m_count + Held # 0
    PROVE  N >= 1
<1>1. N \in Nat /\ IsSum(Backlogs, N, m_count + Held)
  BY ProducersFacts DEF IInv, Balanced
<1>2. N # 0
  BY <1>1 DEF IsSum, AreSums
<1> QED
  BY <1>1, <1>2

\* A producer that is neither before nor after its call to signal.
LEMMA QuietPut ==
    ASSUME IInv, NEW p \in Producers, Sent(p) < MaxItems[p],
           put[p].at \notin {"signal", "raise"},
           DOMAIN put' = Producers, "at" \in DOMAIN put'[p],
           put'[p].at \in PutSteps \ {"signal", "raise"},
           \A q \in Producers \ {p} : put'[q] = put[q],
           tailIndex' = tailIndex, headIndex' = headIndex, received' = received, get' = get,
           dequeueOptimisticCount' = dequeueOptimisticCount,
           dequeueOvercommit' = dequeueOvercommit, m_count' = m_count, m_sema' = m_sema
    PROVE  IInv'
<1>1. IndexesFit' /\ ReceivedFits' /\ GetsFit'
  BY DEF IInv, IndexesFit, ReceivedFits, GetsFit
<1>2. \A q \in Producers : Sent(q)' = Sent(q) /\ InQueue(q)' = InQueue(q)
  BY DEF Sent, InQueue
<1>3. PutsFit'
  BY <1>2 DEF IInv, PutsFit
<1>4. \A q \in Producers : (At(q, "signal")' <=> At(q, "signal")) /\ (At(q, "raise")' <=> At(q, "raise"))
  BY DEF At
<1>5. \A q \in Producers : Backlog(q)' = Backlog(q)
  BY <1>2, <1>4 DEF Backlog
<1>6. Balanced'
  <2>1. (m_count + Held)' = m_count + Held
    BY DEF Held
  <2> QED
    BY <1>5, <2>1, BalanceKept
<1>7. WakesFit'
  <2>1. Getting("sleep")' <=> Getting("sleep")
    BY DEF Getting
  <2> QED
    BY <1>4, <2>1 DEF IInv, WakesFit
<1> QED
  BY <1>1, <1>3, <1>6, <1>7 DEF IInv

\* A step of the consumer that leaves the semaphore and the elements alone.
LEMMA QuietGet ==
    ASSUME IInv, IndexesFit', GetsFit', Held' = Held,
           get.at # "sleep", get'.at # "sleep",
           tailIndex' = tailIndex, received' = received, put' = put,
           m_count' = m_count, m_sema' = m_sema
    PROVE  IInv'
<1>1. ReceivedFits'
  BY DEF IInv, ReceivedFits
<1>2. \A q \in Producers : Sent(q)' = Sent(q) /\ InQueue(q)' = InQueue(q)
  BY DEF Sent, InQueue
<1>3. PutsFit'
  BY <1>2 DEF IInv, PutsFit
<1>4. \A q \in Producers : (At(q, "signal")' <=> At(q, "signal")) /\ (At(q, "raise")' <=> At(q, "raise"))
  BY DEF At
<1>5. \A q \in Producers : Backlog(q)' = Backlog(q)
  BY <1>2, <1>4 DEF Backlog
<1>6. Balanced'
  BY <1>5, BalanceKept
<1>7. WakesFit'
  <2>1. ~ Getting("sleep")' /\ ~ Getting("sleep")
    BY DEF Getting
  <2> QED
    BY <1>4, <2>1 DEF IInv, WakesFit
<1> QED
  BY <1>1, <1>3, <1>6, <1>7 DEF IInv

-----------------------------------------------------------------------------
(* The producers                                                           *)

LEMMA PrepareKeeps ==
    ASSUME IInv, NEW p \in Producers,
           \/ StartBlock(p) \/ InsertEntry(p) \/ PublishEntry(p) \/ TryPool(p)
           \/ TakeFromPool(p) \/ TakeFromList(p) \/ InsertBlock(p) \/ PutElement(p)
    PROVE  IInv'
<1>1. /\ tailIndex' = tailIndex /\ headIndex' = headIndex /\ received' = received
      /\ get' = get /\ dequeueOptimisticCount' = dequeueOptimisticCount
      /\ dequeueOvercommit' = dequeueOvercommit /\ m_count' = m_count /\ m_sema' = m_sema
  BY DEF StartBlock, InsertEntry, PublishEntry, TryPool, TakeFromPool, TakeFromList,
         InsertBlock, PutElement, queue, semaphore
<1>2. DOMAIN put = Producers /\ \A q \in Producers : "at" \in DOMAIN put[q] /\ put[q].at \in PutSteps
  BY DEF IInv, PutsFit
<1>3. Sent(p) < MaxItems[p] /\ put[p].at \notin {"signal", "raise"}
  <2>1. put[p].at \in PutSteps \ {"idle", "signal", "raise"} => Sent(p) < MaxItems[p]
    BY DEF IInv, PutsFit
  <2> QED
    BY <2>1 DEF StartBlock, InsertEntry, PublishEntry, TryPool, TakeFromPool, TakeFromList,
                InsertBlock, PutElement, At, PutSteps
<1>4. /\ DOMAIN put' = Producers /\ "at" \in DOMAIN put'[p]
      /\ put'[p].at \in PutSteps \ {"signal", "raise"}
      /\ \A q \in Producers \ {p} : put'[q] = put[q]
  <2>1. CASE StartBlock(p)
    BY <1>2, <2>1 DEF StartBlock, PutAt, PutSteps
  <2>2. CASE InsertEntry(p)
    <3>1. CASE put' = put
      BY <1>2, <1>3, <3>1
    <3>2. CASE put' # put
      <4>1. PICK entry, tail : put' = [put EXCEPT ![p] =
                [at |-> "tail", block |-> 0, entry |-> entry, tail |-> tail]]
        BY <2>2, <3>2 DEF InsertEntry
      <4> QED
        BY <1>2, <4>1 DEF PutSteps
    <3> QED
      BY <3>1, <3>2
  <2>3. CASE PublishEntry(p)
    BY <1>2, <2>3 DEF PublishEntry, PutAt, PutSteps
  <2>4. CASE TryPool(p)
    BY <1>2, <2>4 DEF TryPool, PutAt, PutSteps
  <2>5. CASE TakeFromPool(p)
    BY <1>2, <2>5 DEF TakeFromPool, PutAt, PutSteps
  <2>6. CASE TakeFromList(p)
    BY <1>2, <2>6 DEF TakeFromList, PutSteps
  <2>7. CASE InsertBlock(p)
    BY <1>2, <2>7 DEF InsertBlock, NoPut, PutSteps
  <2>8. CASE PutElement(p)
    BY <1>2, <2>8 DEF PutElement, PutAt, PutSteps
  <2> QED
    BY <2>1, <2>2, <2>3, <2>4, <2>5, <2>6, <2>7, <2>8
<1> QED
  BY <1>1, <1>3, <1>4, QuietPut

LEMMA PublishKeeps ==
    ASSUME IInv, NEW p \in Producers, Publish(p)
    PROVE  IInv'
<1>1. /\ tailIndex' = [tailIndex EXCEPT ![p] = Wrap(@ + 1)]
      /\ put[p].at = "publish" /\ put' = [put EXCEPT ![p].at = "signal"]
      /\ headIndex' = headIndex /\ dequeueOptimisticCount' = dequeueOptimisticCount
      /\ dequeueOvercommit' = dequeueOvercommit /\ received' = received /\ get' = get
      /\ m_count' = m_count /\ m_sema' = m_sema
  BY DEF Publish, At, PutAt, semaphore
<1>2. IndexesFit /\ ReceivedFits /\ PutsFit /\ GetsFit /\ Balanced /\ WakesFit
  BY DEF IInv
<1>3. /\ DOMAIN put' = Producers /\ put'[p].at = "signal" /\ "at" \in DOMAIN put'[p]
      /\ \A q \in Producers \ {p} : put'[q] = put[q]
  BY <1>1, <1>2 DEF PutsFit
<1>4. IndexesFit' /\ tailIndex[p] \in Int /\ tailIndex'[p] = Wrap(tailIndex[p] + 1)
      /\ \A q \in Producers \ {p} : tailIndex'[q] = tailIndex[q]
  <2>1. tailIndex[p] + 1 \in Int /\ tailIndex \in [Producers -> Int]
    BY <1>2 DEF IndexesFit
  <2>2. Wrap(tailIndex[p] + 1) \in Int
    BY <2>1, WrapType
  <2> QED
    BY <1>1, <1>2, <2>1, <2>2 DEF IndexesFit
<1>5. Sent(p)' = Sent(p) + 1
  <2>1. Sent(p) < MaxItems[p] /\ MaxItems[p] \in Nat /\ MaxItems[p] <= IndexRange - 1
    BY <1>1, <1>2, QueueAssumption DEF PutsFit
  <2>2. Sent(p) \in Int
    BY <1>2, InQueueType, QueueAssumption DEF IndexesFit
  <2>3. Wrap(tailIndex[p] - Start) < IndexRange - 1
    BY <2>1, <2>2, QueueAssumption DEF Sent
  <2> QED
    BY <1>4, <2>3, WrapNext, QueueAssumption DEF Sent
<1>6. \A q \in Producers \ {p} : Sent(q)' = Sent(q) /\ InQueue(q)' = InQueue(q)
  BY <1>1, <1>4 DEF Sent, InQueue
<1>7. InQueue(p)' = InQueue(p) + 1 /\ InQueue(p) \in Int
  <2>1. Sent(p) \in Int /\ Len(received[p]) \in Nat /\ InQueue(p) \in Int
    BY <1>2, InQueueType, QueueAssumption DEF IndexesFit
  <2> QED
    BY <1>1, <1>5, <2>1 DEF InQueue
<1>8. PutsFit'
  BY <1>2, <1>3, <1>6 DEF PutsFit, PutSteps
<1>9. Balanced'
  <2>1. \A q \in Producers : Backlog(q)' = Backlog(q)
    BY <1>1, <1>3, <1>6, <1>7 DEF Backlog, At
  <2>2. (m_count + Held)' = m_count + Held
    BY <1>1 DEF Held
  <2> QED
    BY <2>1, <2>2, BalanceKept
<1>10. WakesFit'
  <2>1. /\ Getting("sleep")' <=> Getting("sleep")
        /\ \A q \in Producers : At(q, "raise")' <=> At(q, "raise")
    BY <1>1, <1>3 DEF Getting, At
  <2> QED
    BY <1>1, <1>2, <2>1 DEF WakesFit
<1> QED
  BY <1>1, <1>2, <1>4, <1>8, <1>9, <1>10 DEF IInv, ReceivedFits, GetsFit

LEMMA SignalKeeps ==
    ASSUME IInv, NEW p \in Producers, Signal(p) \/ WakeConsumer(p)
    PROVE  IInv'
<1>1. /\ tailIndex' = tailIndex /\ headIndex' = headIndex /\ received' = received
      /\ get' = get /\ dequeueOptimisticCount' = dequeueOptimisticCount
      /\ dequeueOvercommit' = dequeueOvercommit
  BY DEF Signal, WakeConsumer, queue
<1>2. IndexesFit /\ ReceivedFits /\ PutsFit /\ GetsFit /\ Balanced /\ WakesFit
  BY DEF IInv
<1>3. IndexesFit' /\ ReceivedFits' /\ GetsFit'
  BY <1>1, <1>2 DEF IndexesFit, ReceivedFits, GetsFit
<1>4. \A q \in Producers : Sent(q)' = Sent(q) /\ InQueue(q)' = InQueue(q) /\ InQueue(q) \in Int
  BY <1>1, <1>2, InQueueType DEF Sent, InQueue, IndexesFit
<1>5. (Getting("sleep")' <=> Getting("sleep")) /\ Held' = Held /\ Held \in Int /\ m_count \in Int
  BY <1>1, <1>2 DEF Getting, Held, GetsFit, WakesFit
<1>6. ASSUME NEW b \in {"idle", "raise"}, put' = [put EXCEPT ![p].at = b]
      PROVE  /\ PutsFit' /\ put'[p].at = b
             /\ \A q \in Producers \ {p} : put'[q] = put[q]
  BY <1>2, <1>4, <1>6 DEF PutsFit, PutSteps
<1>7. CASE Signal(p)
  <2>1. /\ put[p].at = "signal" /\ m_count' = m_count + 1 /\ m_sema' = m_sema
        /\ put' = [put EXCEPT ![p].at = IF ToRelease > 0 THEN "raise" ELSE "idle"]
    BY <1>7 DEF Signal, At, PutAt, CountUp
  <2>2. ToRelease > 0 <=> m_count < 0
    BY <1>5 DEF ToRelease, Min2
  <2>3. PICK b \in {"idle", "raise"} :
            put' = [put EXCEPT ![p].at = b] /\ (b = "raise" <=> m_count < 0)
    BY <2>1, <2>2
  <2>4. /\ PutsFit' /\ put'[p].at = b
        /\ \A q \in Producers \ {p} : put'[q] = put[q]
    BY <1>6, <2>3
  <2>5. Balanced'
    <3>1. Backlog(p)' = Backlog(p) + 1 /\ \A q \in Producers \ {p} : Backlog(q)' = Backlog(q)
      BY <1>4, <2>1, <2>4 DEF Backlog, At
    <3>2. (m_count + Held)' = m_count + Held + 1
      BY <1>5, <2>1
    <3> QED
      BY <3>1, <3>2, BalanceChanges
  <2>6. WakesFit'
    <3>1. ~ At(p, "raise") /\ (At(p, "raise")' <=> m_count < 0)
          /\ \A q \in Producers \ {p} : At(q, "raise")' <=> At(q, "raise")
      BY <2>1, <2>3, <2>4 DEF At
    <3>2. CASE m_count < 0
      <4>1. m_count = -1 /\ Getting("sleep") /\ m_sema = 0 /\ \A q \in Producers : ~ At(q, "raise")
        BY <1>2, <3>2 DEF WakesFit
      <4>2. At(p, "raise")' /\ \A q \in Producers \ {p} : ~ At(q, "raise")'
        BY <3>1, <3>2, <4>1
      <4>3. m_count' = 0 /\ m_sema' = 0 /\ Getting("sleep")'
        BY <1>5, <2>1, <4>1
      <4> QED
        BY <4>2, <4>3 DEF WakesFit
    <3>3. CASE m_count >= 0
      <4>1. \A q \in Producers : At(q, "raise")' <=> At(q, "raise")
        BY <1>5, <3>1, <3>3
      <4>2. m_count' >= 0 /\ m_count' \in Int /\ m_sema' = m_sema
        BY <1>5, <2>1, <3>3
      <4> QED
        BY <1>2, <1>5, <3>3, <4>1, <4>2 DEF WakesFit
    <3> QED
      BY <1>5, <3>2, <3>3
  <2> QED
    BY <1>3, <2>4, <2>5, <2>6 DEF IInv
<1>8. CASE WakeConsumer(p)
  <2>1. /\ put[p].at = "raise" /\ m_count' = m_count /\ m_sema' = m_sema + 1
        /\ put' = [put EXCEPT ![p].at = "idle"]
    BY <1>8 DEF WakeConsumer, At, PutAt, Raise
  <2>2. /\ PutsFit' /\ put'[p].at = "idle"
        /\ \A q \in Producers \ {p} : put'[q] = put[q]
    BY <1>6, <2>1
  <2>3. Balanced'
    <3>1. \A q \in Producers : Backlog(q)' = Backlog(q)
      BY <1>4, <2>1, <2>2 DEF Backlog, At
    <3>2. (m_count + Held)' = m_count + Held
      BY <1>5, <2>1
    <3> QED
      BY <3>1, <3>2, BalanceKept
  <2>4. WakesFit'
    <3>1. At(p, "raise") /\ ~ At(p, "raise")'
          /\ \A q \in Producers \ {p} : At(q, "raise")' <=> At(q, "raise")
      BY <2>1, <2>2 DEF At
    <3>2. /\ Getting("sleep") /\ m_count >= 0 /\ m_sema = 0
          /\ \A q \in Producers \ {p} : ~ At(q, "raise")
      BY <1>2, <3>1 DEF WakesFit
    <3> QED
      BY <1>5, <2>1, <3>1, <3>2 DEF WakesFit
  <2> QED
    BY <1>3, <2>2, <2>3, <2>4 DEF IInv
<1> QED
  BY <1>7, <1>8

-----------------------------------------------------------------------------
(* The consumer and the semaphore                                          *)

\* A step of the consumer that moves n between the semaphore and what it holds.
LEMMA SemaphoreStep ==
    ASSUME IInv, GetsFit', NEW n \in Int, m_count' = m_count - n, Held' = Held + n,
           m_count' >= 0, m_sema' = 0, get'.at # "sleep",
           \A p \in Producers : ~ At(p, "raise"),
           tailIndex' = tailIndex, headIndex' = headIndex, received' = received, put' = put,
           dequeueOptimisticCount' = dequeueOptimisticCount,
           dequeueOvercommit' = dequeueOvercommit
    PROVE  IInv'
<1>1. IndexesFit' /\ ReceivedFits'
  BY DEF IInv, IndexesFit, ReceivedFits
<1>2. \A q \in Producers : Sent(q)' = Sent(q) /\ InQueue(q)' = InQueue(q)
  BY DEF Sent, InQueue
<1>3. PutsFit'
  BY <1>2 DEF IInv, PutsFit
<1>4. \A q \in Producers : Backlog(q)' = Backlog(q)
  BY <1>2 DEF Backlog, At
<1>5. m_count \in Int /\ Held \in Int
  BY DEF IInv, WakesFit, GetsFit, Held
<1>6. Balanced'
  <2>1. (m_count + Held)' = m_count + Held
    BY <1>5
  <2> QED
    BY <1>4, <2>1, BalanceKept
<1>7. WakesFit'
  <2>1. ~ Getting("sleep")' /\ m_count' \in Int /\ \A q \in Producers : ~ At(q, "raise")'
    BY <1>5 DEF Getting, At
  <2> QED
    BY <2>1 DEF WakesFit
<1> QED
  BY <1>1, <1>3, <1>6, <1>7 DEF IInv

LEMMA GrantedFits ==
    ASSUME IInv, NEW n \in Nat \ {0}, get' = Granted(n), m_count + Held # 0
    PROVE  GetsFit' /\ Held' = n /\ get'.at # "sleep"
<1>1. N \in Nat /\ N >= 1
  BY SomeProducer, ProducersFacts
<1>2. /\ GetFields \subseteq DOMAIN get' /\ get'.at = "turn" /\ get'.max = n /\ get'.got = 0
      /\ get'.turn = 1 /\ get'.actual = 0 /\ get'.first = 0
  BY DEF Granted, NoGet, GetFields
<1>3. Held' = n
  BY <1>2 DEF Held
<1> QED
  BY <1>1, <1>2, <1>3 DEF GetsFit, Fetching

\* The consumer has nothing to fetch, and is at step at.
LEMMA NoGetFits ==
    ASSUME NEW at \in {"wait", "spin", "sleep", "more", "drain", "destroyed"},
           get' = [NoGet EXCEPT !.at = at]
    PROVE  /\ GetsFit' /\ get'.at = at
           /\ Held' = IF at \in {"sleep", "more"} THEN 1 ELSE 0
<1>1. /\ GetFields \subseteq DOMAIN get' /\ get'.at = at /\ get'.max = 0 /\ get'.got = 0
      /\ get'.turn = 1 /\ get'.actual = 0 /\ get'.first = 0
  BY DEF NoGet, GetFields
<1>2. Held' = IF at \in {"sleep", "more"} THEN 1 ELSE 0
  BY <1>1 DEF Held
<1> QED
  BY <1>1, <1>2 DEF GetsFit, Fetching

LEMMA ManyFacts ==
    ASSUME NEW max \in Nat \ {0}, m_count \in Int, Positive
    PROVE  Many(max) \in 1 .. m_count
  BY DEF Many, Min2, Positive

LEMMA WaitKeeps ==
    ASSUME IInv, WaitMany \/ StartSpinning \/ EndSpinning \/ WakeUp \/ TakeMore
    PROVE  IInv'
<1>1. /\ tailIndex' = tailIndex /\ headIndex' = headIndex /\ received' = received
      /\ put' = put /\ dequeueOptimisticCount' = dequeueOptimisticCount
      /\ dequeueOvercommit' = dequeueOvercommit
  BY DEF WaitMany, StartSpinning, EndSpinning, WakeUp, TakeMore, KeepAllButSemaphore, queue
<1>2. GetsFit /\ WakesFit /\ m_count \in Int /\ m_count >= -1 /\ m_sema \in {0, 1}
  BY DEF IInv, WakesFit
<1>3. MaxBulk \in Nat \ {0}
  BY QueueAssumption
<1>4. get.at # "sleep" =>
          m_count >= 0 /\ m_sema = 0 /\ \A p \in Producers : ~ At(p, "raise")
  BY <1>2 DEF WakesFit, Getting
<1>5. get.at \in {"wait", "spin"} => Held = 0
  <2>1. get.at \in {"wait", "spin"} => get.at \notin Fetching /\ get.at \notin {"sleep", "more"}
    BY DEF Fetching
  <2>2. get.at \notin Fetching => get.max = 0 /\ get.got = 0
    BY <1>2 DEF GetsFit
  <2> QED
    BY <2>1, <2>2 DEF Held
<1>6. get.at \in {"sleep", "more"} => Held = 1
  BY DEF Held
<1>7. CASE WaitMany
  <2> DEFINE n == Many(MaxBulk)
  <2>1. /\ get.at \in {"wait", "spin"} /\ Positive /\ m_count' = m_count - n
        /\ m_sema' = m_sema /\ get' = Granted(n)
    BY <1>7 DEF WaitMany, Getting, TryWaitMany
  <2>2. n \in 1 .. m_count /\ m_count > 0
    BY <1>2, <1>3, <2>1, ManyFacts DEF Positive
  <2> HIDE DEF n
  <2>3. GetsFit' /\ Held' = Held + n /\ get'.at # "sleep"
    BY <1>2, <1>5, <2>1, <2>2, GrantedFits
  <2> QED
    BY <1>1, <1>2, <1>4, <2>1, <2>2, <2>3, SemaphoreStep
<1>8. CASE StartSpinning
  <2>1. /\ get.at = "wait" /\ m_count' = m_count /\ m_sema' = m_sema
        /\ get' = [NoGet EXCEPT !.at = "spin"]
    BY <1>8 DEF StartSpinning, Getting, semaphore
  <2>2. GetsFit' /\ Held' = Held /\ get'.at # "sleep"
    BY <1>5, <2>1, NoGetFits
  <2>3. IndexesFit'
    BY <1>1 DEF IInv, IndexesFit
  <2> QED
    BY <1>1, <2>1, <2>2, <2>3, QuietGet
<1>9. CASE EndSpinning
  <2>1. /\ get.at = "spin" /\ m_count' = m_count - 1 /\ m_sema' = m_sema
        /\ get' = [NoGet EXCEPT !.at = IF Positive THEN "more" ELSE "sleep"]
    BY <1>9 DEF EndSpinning, Getting, CountDown
  <2>2. CASE Positive
    <3>1. GetsFit' /\ Held' = Held + 1 /\ get'.at # "sleep"
      BY <1>5, <2>1, <2>2, NoGetFits
    <3>2. m_count' >= 0 /\ m_sema' = 0
      BY <1>2, <1>4, <2>1, <2>2 DEF Positive
    <3> QED
      BY <1>1, <1>4, <2>1, <3>1, <3>2, SemaphoreStep
  <2>3. CASE ~ Positive
    <3>1. GetsFit' /\ Held' = Held + 1 /\ get'.at = "sleep" /\ Held = 0
      BY <1>5, <2>1, <2>3, NoGetFits
    <3>2. m_count = 0 /\ m_count' = -1 /\ m_sema' = 0
      BY <1>2, <1>4, <2>1, <2>3 DEF Positive
    <3>3. IndexesFit' /\ ReceivedFits'
      BY <1>1 DEF IInv, IndexesFit, ReceivedFits
    <3>4. \A q \in Producers : Sent(q)' = Sent(q) /\ InQueue(q)' = InQueue(q)
      BY <1>1 DEF Sent, InQueue
    <3>5. PutsFit'
      BY <1>1, <3>4 DEF IInv, PutsFit
    <3>6. \A q \in Producers : Backlog(q)' = Backlog(q)
      BY <1>1, <3>4 DEF Backlog, At
    <3>7. (m_count + Held)' = m_count + Held
      BY <3>1, <3>2
    <3>8. Balanced'
      BY <3>6, <3>7, BalanceKept
    <3>9. WakesFit'
      <4>1. Getting("sleep")' /\ \A q \in Producers : ~ At(q, "raise")'
        BY <1>1, <1>4, <2>1, <3>1 DEF Getting, At
      <4> QED
        BY <3>2, <4>1 DEF WakesFit
    <3> QED
      BY <3>1, <3>3, <3>5, <3>8, <3>9 DEF IInv
  <2> QED
    BY <2>2, <2>3
<1>10. CASE WakeUp
  <2>1. /\ get.at = "sleep" /\ m_count' = m_count /\ m_sema > 0 /\ m_sema' = m_sema - 1
        /\ get' = [NoGet EXCEPT !.at = "more"]
    BY <1>10 DEF WakeUp, Getting, Sleep
  <2>2. m_sema' = 0 /\ m_count >= 0 /\ \A p \in Producers : ~ At(p, "raise")
    BY <1>2, <2>1 DEF WakesFit, Getting
  <2>3. GetsFit' /\ Held' = 1 /\ get'.at # "sleep"
    BY <2>1, NoGetFits
  <2>4. m_count' = m_count - 0 /\ Held' = Held + 0 /\ m_count' >= 0
    BY <1>2, <1>6, <2>1, <2>2, <2>3
  <2> QED
    BY <1>1, <2>2, <2>3, <2>4, SemaphoreStep
<1>11. CASE TakeMore
  <2>1. get.at = "more" /\ Held = 1
    BY <1>6, <1>11 DEF TakeMore, Getting
  <2>2. CASE /\ MaxBulk > 1 /\ TryWaitMany(MaxBulk - 1)
             /\ get' = Granted(1 + Many(MaxBulk - 1))
    <3> DEFINE n == Many(MaxBulk - 1)
    <3>1. n \in 1 .. m_count /\ m_count' = m_count - n /\ m_sema' = m_sema
      <4>1. MaxBulk - 1 \in Nat \ {0} /\ Positive
        BY <1>3, <2>2 DEF TryWaitMany
      <4> QED
        BY <1>2, <2>2, <4>1, ManyFacts DEF TryWaitMany
    <3>2. get' = Granted(1 + n)
      BY <2>2
    <3> HIDE DEF n
    <3>3. m_count + Held # 0 /\ 1 + n \in Nat \ {0}
      BY <1>2, <2>1, <3>1
    <3>4. GetsFit' /\ Held' = 1 + n /\ get'.at # "sleep"
      BY <3>2, <3>3, GrantedFits
    <3> QED
      BY <1>1, <1>2, <1>4, <2>1, <3>1, <3>4, SemaphoreStep
  <2>3. CASE get' = Granted(1) /\ UNCHANGED semaphore
    <3>1. m_count' = m_count - 0 /\ m_sema' = m_sema
      BY <1>2, <2>3 DEF semaphore
    <3>2. m_count + Held # 0
      BY <1>2, <1>4, <2>1
    <3>3. GetsFit' /\ Held' = Held + 0 /\ get'.at # "sleep"
      BY <2>1, <2>3, <3>2, GrantedFits
    <3> QED
      BY <1>1, <1>2, <1>4, <2>1, <3>1, <3>3, SemaphoreStep
  <2> QED
    BY <1>11, <2>2, <2>3 DEF TakeMore
<1> QED
  BY <1>7, <1>8, <1>9, <1>10, <1>11

-----------------------------------------------------------------------------
(* The consumer and the queues                                             *)

\* The consumer at one of its steps, with g elements so far and a more to fetch.
FetchFits(r, g, a) ==
    /\ GetFields \subseteq DOMAIN r /\ r.at \in Fetching /\ r.first \in Int
    /\ r.max = get.max /\ r.got = g /\ r.actual = a /\ r.turn \in 1 .. N

LEMMA FetchingOn ==
    ASSUME GetsFit, NEW g \in Nat, NEW a \in Nat, g + a <= get.max, FetchFits(get', g, a)
    PROVE  GetsFit' /\ Held' = get.max - g /\ get'.at # "sleep"
<1>1. Held' = get.max - g
  BY DEF FetchFits, Fetching, Held
<1>2. GetsFit'
  BY DEF FetchFits, GetsFit
<1> QED
  BY <1>1, <1>2 DEF FetchFits, Fetching

LEMMA NextTurnFits ==
    ASSUME GetsFit, get.at \in Fetching, NEW g \in Nat, g <= get.max, get' = NextTurn(g)
    PROVE  GetsFit' /\ Held' = get.max - g /\ get'.at # "sleep"
<1>1. get.max \in Nat /\ N \in Nat /\ get.turn \in 1 .. N
  BY ProducersFacts DEF GetsFit
<1>2. CASE g = get.max
  <2>1. get' = [NoGet EXCEPT !.at = "wait"]
    BY <1>2 DEF NextTurn, NoGet
  <2> QED
    BY <1>1, <1>2, <2>1, NoGetFits
<1>3. CASE g # get.max
  <2>1. (get.turn % N) + 1 \in 1 .. N
    BY <1>1
  <2>2. FetchFits(get', g, 0)
    BY <1>3, <2>1 DEF NextTurn, NoGet, FetchFits, GetFields, Fetching, N
  <2> QED
    BY <2>2, FetchingOn
<1> QED
  BY <1>2, <1>3

\* Fetching goes on in the next block, or with the next producer.
LEMMA NextBlockFits ==
    ASSUME GetsFit, get.at \in Fetching, NEW r, NEW g \in Nat, NEW a \in Nat,
           g + a <= get.max, FetchFits(r, g, a), get' = NextBlock(r)
    PROVE  GetsFit' /\ Held' = get.max - g /\ get'.at # "sleep"
<1>1. r.actual = a /\ r.got = g
  BY DEF FetchFits
<1>2. CASE a = 0
  BY <1>1, <1>2, NextTurnFits DEF NextBlock, GetsFit
<1>3. CASE a # 0
  <2>1. PICK position : get' = [r EXCEPT !.at = "move", !.position = position]
    BY <1>1, <1>3 DEF NextBlock
  <2>2. FetchFits(get', g, a)
    BY <2>1 DEF FetchFits, GetFields, Fetching
  <2> QED
    BY <2>2, FetchingOn
<1> QED
  BY <1>2, <1>3

LEMMA ClaimKeeps ==
    ASSUME IInv, Claim
    PROVE  IInv'
<1>1. /\ tailIndex' = tailIndex /\ headIndex' = headIndex /\ received' = received
      /\ put' = put /\ dequeueOvercommit' = dequeueOvercommit /\ m_count' = m_count
      /\ m_sema' = m_sema
  BY DEF Claim, semaphore
<1>2. GetsFit /\ IndexesFit /\ get.at = "turn" /\ get.at \in Fetching
  BY DEF IInv, Claim, Getting, Fetching
<1>3. /\ get.max \in Nat /\ get.got \in Nat /\ get.actual \in Nat
      /\ get.got + get.actual <= get.max /\ get.turn \in 1 .. N
      /\ GetFields \subseteq DOMAIN get /\ get.first \in Int
  BY <1>2 DEF GetsFit
<1>4. Turn \in Producers
  BY <1>3, ProducersFacts DEF Turn
<1> DEFINE desired == Min2(get.max - get.got,
               Wrap(tailIndex[Turn] - (dequeueOptimisticCount[Turn] - dequeueOvercommit[Turn])))
<1>5. desired \in Nat /\ desired <= get.max - get.got
  <2>1. tailIndex[Turn] - (dequeueOptimisticCount[Turn] - dequeueOvercommit[Turn]) \in Int
    BY <1>2, <1>4 DEF IndexesFit
  <2>2. Wrap(tailIndex[Turn] - (dequeueOptimisticCount[Turn] - dequeueOvercommit[Turn])) \in Nat
    BY <2>1, WrapType, QueueAssumption
  <2> QED
    BY <1>3, <2>2 DEF Min2
<1>6. Held = get.max - get.got
  BY <1>2 DEF Held
<1>7. \/ /\ dequeueOptimisticCount' =
                [dequeueOptimisticCount EXCEPT ![Turn] = Wrap(@ + desired)]
         /\ get' = [get EXCEPT !.at = "claimed", !.actual = desired]
      \/ get' = NextTurn(get.got) /\ dequeueOptimisticCount' = dequeueOptimisticCount
  BY DEF Claim
<1> HIDE DEF desired
<1>8. IndexesFit' /\ GetsFit' /\ Held' = Held /\ get'.at # "sleep"
  <2>1. CASE /\ dequeueOptimisticCount' =
                    [dequeueOptimisticCount EXCEPT ![Turn] = Wrap(@ + desired)]
             /\ get' = [get EXCEPT !.at = "claimed", !.actual = desired]
    <3>1. Wrap(dequeueOptimisticCount[Turn] + desired) \in Int
      BY <1>2, <1>4, <1>5, WrapType DEF IndexesFit
    <3>2. IndexesFit'
      BY <1>1, <1>2, <2>1, <3>1 DEF IndexesFit
    <3>3. FetchFits(get', get.got, desired)
      BY <1>3, <2>1 DEF FetchFits, GetFields, Fetching
    <3> QED
      BY <1>2, <1>3, <1>5, <1>6, <3>2, <3>3, FetchingOn
  <2>2. CASE get' = NextTurn(get.got) /\ dequeueOptimisticCount' = dequeueOptimisticCount
    <3>1. IndexesFit'
      BY <1>1, <1>2, <2>2 DEF IndexesFit
    <3> QED
      BY <1>2, <1>3, <1>6, <2>2, <3>1, NextTurnFits
  <2> QED
    BY <1>7, <2>1, <2>2
<1> QED
  BY <1>1, <1>2, <1>8, QuietGet

LEMMA TakeHeadIndexKeeps ==
    ASSUME IInv, TakeHeadIndex
    PROVE  IInv'
<1> DEFINE mine == dequeueOptimisticCount[Turn] - get.actual
           actual == Min2(get.actual, Wrap(tailIndex[Turn] - (mine - dequeueOvercommit[Turn])))
<1>1. /\ tailIndex' = tailIndex /\ received' = received /\ put' = put
      /\ dequeueOptimisticCount' = dequeueOptimisticCount
      /\ m_count' = m_count /\ m_sema' = m_sema
      /\ dequeueOvercommit' = [dequeueOvercommit EXCEPT ![Turn] = Wrap(@ + get.actual - actual)]
      /\ headIndex' = [headIndex EXCEPT ![Turn] = Wrap(@ + actual)]
      /\ get' = [get EXCEPT !.at = "header", !.actual = actual, !.first = headIndex[Turn]]
  BY DEF TakeHeadIndex, semaphore
<1>2. GetsFit /\ IndexesFit /\ get.at = "claimed" /\ get.at \in Fetching
  BY DEF IInv, TakeHeadIndex, Getting, Fetching
<1>3. /\ get.max \in Nat /\ get.got \in Nat /\ get.actual \in Nat
      /\ get.got + get.actual <= get.max /\ get.turn \in 1 .. N
      /\ GetFields \subseteq DOMAIN get
  BY <1>2 DEF GetsFit
<1>4. Turn \in Producers
  BY <1>3, ProducersFacts DEF Turn
<1>5. /\ tailIndex[Turn] \in Int /\ headIndex[Turn] \in Int
      /\ dequeueOptimisticCount[Turn] \in Int /\ dequeueOvercommit[Turn] \in Int
  BY <1>2, <1>4 DEF IndexesFit
<1>6. actual \in Nat /\ actual <= get.actual
  <2>1. tailIndex[Turn] - (mine - dequeueOvercommit[Turn]) \in Int
    BY <1>3, <1>5
  <2> HIDE DEF mine
  <2>2. Wrap(tailIndex[Turn] - (mine - dequeueOvercommit[Turn])) \in Nat
    BY <2>1, WrapType, QueueAssumption
  <2> QED
    BY <1>3, <2>2 DEF Min2
<1> HIDE DEF actual, mine
<1>7. IndexesFit'
  <2>1. /\ Wrap(dequeueOvercommit[Turn] + get.actual - actual) \in Int
        /\ Wrap(headIndex[Turn] + actual) \in Int
    BY <1>3, <1>5, <1>6, WrapType
  <2> QED
    BY <1>1, <1>2, <2>1 DEF IndexesFit
<1>8. FetchFits(get', get.got, actual)
  BY <1>1, <1>3, <1>5 DEF FetchFits, GetFields, Fetching
<1>9. GetsFit' /\ Held' = Held /\ get'.at # "sleep"
  BY <1>2, <1>3, <1>6, <1>8, FetchingOn DEF Held
<1> QED
  BY <1>1, <1>2, <1>7, <1>9, QuietGet

\* The consumer looks for a block in the index, or gives one back.
LEMMA LocateKeeps ==
    ASSUME IInv, LoadHeader \/ LoadTail \/ FindEntry \/ RemoveEntry \/ BlockFreed
    PROVE  IInv'
<1>1. /\ tailIndex' = tailIndex /\ headIndex' = headIndex /\ received' = received
      /\ put' = put /\ dequeueOptimisticCount' = dequeueOptimisticCount
      /\ dequeueOvercommit' = dequeueOvercommit /\ m_count' = m_count /\ m_sema' = m_sema
  BY DEF LoadHeader, LoadTail, FindEntry, RemoveEntry, BlockFreed, queue, semaphore
<1>2. GetsFit /\ get.at \in {"header", "tail", "key", "empty", "free"} /\ get.at \in Fetching
  BY DEF IInv, LoadHeader, LoadTail, FindEntry, RemoveEntry, BlockFreed, Getting, Fetching
<1>3. /\ get.max \in Nat /\ get.got \in Nat /\ get.actual \in Nat
      /\ get.got + get.actual <= get.max
  BY <1>2 DEF GetsFit
<1>4. IndexesFit'
  BY <1>1 DEF IInv, IndexesFit
<1>5. Held = get.max - get.got
  BY <1>2 DEF Held
<1>6. FetchFits(get, get.got, get.actual)
  BY <1>2 DEF GetsFit, FetchFits
<1>7. GetsFit' /\ Held' = Held /\ get'.at # "sleep"
  <2>1. CASE BlockFreed
    <3>1. get' = NextBlock(get)
      BY <2>1 DEF BlockFreed
    <3> QED
      BY <1>2, <1>3, <1>5, <1>6, <3>1, NextBlockFits
  <2>2. CASE LoadHeader \/ LoadTail \/ FindEntry \/ RemoveEntry
    <3>1. FetchFits(get', get.got, get.actual)
      <4>1. CASE LoadHeader
        BY <1>6, <4>1 DEF LoadHeader, FetchFits, GetFields, Fetching
      <4>2. CASE LoadTail
        BY <1>6, <4>2 DEF LoadTail, FetchFits, GetFields, Fetching
      <4>3. CASE FindEntry
        <5>1. PICK position : get' = [get EXCEPT !.at = "move", !.tail = 0, !.position = position]
          BY <4>3 DEF FindEntry
        <5>2. /\ DOMAIN get' = DOMAIN get /\ get'.at = "move" /\ get'.first = get.first
              /\ get'.max = get.max /\ get'.got = get.got /\ get'.actual = get.actual
              /\ get'.turn = get.turn
          <6>1. {"at", "max", "got", "turn", "actual", "first"} \subseteq DOMAIN get
            BY <1>6 DEF FetchFits, GetFields
          <6> QED
            BY ONLY <5>1, <6>1
        <5> QED
          BY <1>6, <5>2 DEF FetchFits, Fetching
      <4>4. CASE RemoveEntry
        BY <1>6, <4>4 DEF RemoveEntry, FetchFits, GetFields, Fetching
      <4> QED
        BY <2>2, <4>1, <4>2, <4>3, <4>4
    <3> QED
      BY <1>2, <1>3, <1>5, <3>1, FetchingOn
  <2> QED
    BY <2>1, <2>2
<1> QED
  BY <1>1, <1>2, <1>4, <1>7, QuietGet

LEMMA EndKeeps ==
    ASSUME IInv, Stop \/ Destroy
    PROVE  IInv'
<1>1. /\ tailIndex' = tailIndex /\ headIndex' = headIndex /\ received' = received
      /\ put' = put /\ dequeueOptimisticCount' = dequeueOptimisticCount
      /\ dequeueOvercommit' = dequeueOvercommit /\ m_count' = m_count /\ m_sema' = m_sema
      /\ get.at \in {"wait", "drain"}
      /\ \E at \in {"drain", "destroyed"} : get' = [NoGet EXCEPT !.at = at]
  BY DEF Stop, Destroy, Getting, queue, semaphore
<1>2. get.max = 0 /\ get.got = 0
  BY <1>1 DEF IInv, GetsFit, Fetching
<1>3. GetsFit' /\ Held' = 0 /\ get'.at # "sleep"
  BY <1>1, NoGetFits
<1>4. Held = 0
  BY <1>1, <1>2 DEF Held
<1>5. IndexesFit'
  BY <1>1 DEF IInv, IndexesFit
<1> QED
  BY <1>1, <1>3, <1>4, <1>5, QuietGet

-----------------------------------------------------------------------------
(* What is taken out                                                       *)

\* A sequence of n elements.
Elements(e, n) == (\E S : e \in Seq(S)) /\ n \in Nat /\ Len(e) = n

LEMMA TakenKeeps ==
    ASSUME IInv, IndexesFit', GetsFit', NEW p \in Producers, NEW n, NEW e, Elements(e, n),
           received' = [received EXCEPT ![p] = @ \o e],
           (m_count + Held)' = m_count + Held - n, m_count' \in Nat, m_sema' = m_sema,
           get.at # "sleep", get'.at # "sleep", tailIndex' = tailIndex, put' = put
    PROVE  IInv'
<1>1. DOMAIN received = Producers /\ \A q \in Producers : \E S : received[q] \in Seq(S)
  BY DEF IInv, ReceivedFits
<1>2. /\ DOMAIN received' = Producers /\ received'[p] = received[p] \o e
      /\ \A q \in Producers \ {p} : received'[q] = received[q]
  BY <1>1
<1>3. Len(received'[p]) = Len(received[p]) + n /\ \E S : received'[p] \in Seq(S)
  <2>1. PICK S : received[p] \in Seq(S)
    BY <1>1
  <2>2. PICK S2 : e \in Seq(S2)
    BY DEF Elements
  <2> DEFINE both == S \cup S2
  <2>3. received[p] \in Seq(both) /\ e \in Seq(both)
    BY <2>1, <2>2
  <2> HIDE DEF both
  <2>4. received[p] \o e \in Seq(both) /\ Len(received[p] \o e) = Len(received[p]) + Len(e)
    BY <2>3
  <2> QED
    BY <1>2, <2>4 DEF Elements
<1>4. ReceivedFits'
  BY <1>1, <1>2, <1>3 DEF ReceivedFits
<1>5. \A q \in Producers : Sent(q)' = Sent(q)
  BY DEF Sent
<1>6. PutsFit'
  BY <1>5 DEF IInv, PutsFit
<1>7. tailIndex \in [Producers -> Int] /\ ReceivedFits /\ n \in Int
  BY DEF IInv, IndexesFit, Elements
<1>8. \A q \in Producers : Sent(q) \in Int /\ Len(received[q]) \in Int
  BY <1>7, InQueueType
<1>9. \A q \in Producers : At(q, "signal")' <=> At(q, "signal")
  BY DEF At
<1>10. \A q \in Producers \ {p} : Backlog(q)' = Backlog(q)
  BY <1>2, <1>5, <1>9 DEF Backlog, InQueue
<1>11. Backlog(p)' = Backlog(p) + (0 - n)
  BY <1>3, <1>5, <1>7, <1>8, <1>9 DEF Backlog, InQueue
<1>12. m_count \in Int /\ Held \in Int
  BY DEF IInv, WakesFit, GetsFit, Held
<1>13. Balanced'
  <2>1. (m_count + Held)' = m_count + Held + (0 - n) /\ 0 - n \in Int
    BY <1>7, <1>12
  <2> QED
    BY <1>10, <1>11, <2>1, BalanceChanges
<1>14. WakesFit'
  <2>1. ~ Getting("sleep")' /\ ~ Getting("sleep")
    BY DEF Getting
  <2>2. \A q \in Producers : At(q, "raise")' <=> At(q, "raise")
    BY DEF At
  <2> QED
    BY <2>1, <2>2 DEF IInv, WakesFit
<1> QED
  BY <1>4, <1>6, <1>13, <1>14 DEF IInv

LEMMA MoveKeeps ==
    ASSUME IInv, MoveElements
    PROVE  IInv'
<1> DEFINE b == entries[Turn][Entry].value
           n == InBlock
           e == [i \in 1 .. n |-> elements[b][Slot(get.first) + i - 1]]
           g == [get EXCEPT !.first = Wrap(@ + n), !.actual = @ - n, !.got = @ + n]
<1>1. /\ tailIndex' = tailIndex /\ headIndex' = headIndex /\ put' = put
      /\ dequeueOptimisticCount' = dequeueOptimisticCount
      /\ dequeueOvercommit' = dequeueOvercommit /\ m_count' = m_count /\ m_sema' = m_sema
      /\ received' = [received EXCEPT ![Turn] = @ \o e]
      /\ get' = [g EXCEPT !.at = "empty"] \/ get' = NextBlock(g)
  BY DEF MoveElements, queue, semaphore
<1>2. GetsFit /\ get.at = "move" /\ get.at \in Fetching
  BY DEF IInv, MoveElements, Getting, Fetching
<1>3. /\ get.max \in Nat /\ get.got \in Nat /\ get.actual \in Nat /\ get.first \in Int
      /\ get.got + get.actual <= get.max /\ get.turn \in 1 .. N
      /\ GetFields \subseteq DOMAIN get
  BY <1>2 DEF GetsFit
<1>4. Turn \in Producers
  BY <1>3, ProducersFacts DEF Turn
<1>5. n \in 0 .. get.actual
  <2>1. BLOCK_SIZE \in Nat /\ BLOCK_SIZE > 1
    BY QueueAssumption
  <2>2. get.first % BLOCK_SIZE \in 0 .. BLOCK_SIZE - 1
    BY <1>3, <2>1
  <2> QED
    BY <1>3, <2>1, <2>2 DEF InBlock, Min2, Slot
<1>6. Elements(e, n)
  <2>1. n \in Nat
    BY <1>3, <1>5
  <2> HIDE DEF n
  <2> DEFINE S == {e[i] : i \in 1 .. n}
  <2>2. e \in [1 .. n -> S]
    OBVIOUS
  <2> HIDE DEF e, S
  <2>3. e \in Seq(S) /\ Len(e) = n
    BY <2>1, <2>2
  <2> QED
    BY <2>1, <2>3 DEF Elements
<1> HIDE DEF n, e
<1>7. FetchFits(g, get.got + n, get.actual - n) /\ Wrap(get.first + n) \in Int
  <2>1. Wrap(get.first + n) \in Int
    BY <1>3, <1>5, WrapType
  <2> QED
    BY <1>2, <1>3, <2>1 DEF FetchFits, GetFields
<1>8. get.got + n \in Nat /\ get.actual - n \in Nat /\ (get.got + n) + (get.actual - n) <= get.max
  BY <1>3, <1>5
<1>9. GetsFit' /\ Held' = get.max - (get.got + n) /\ get'.at # "sleep"
  <2>1. CASE get' = [g EXCEPT !.at = "empty"]
    <3>1. FetchFits(get', get.got + n, get.actual - n)
      <4> HIDE DEF g
      <4> QED
        BY <1>7, <2>1 DEF FetchFits, GetFields, Fetching
    <3> QED
      BY <1>2, <1>8, <3>1, FetchingOn
  <2>2. CASE get' = NextBlock(g)
    <3> HIDE DEF g
    <3> QED
      BY <1>2, <1>7, <1>8, <2>2, NextBlockFits
  <2> QED
    BY <1>1, <2>1, <2>2
<1>10. Held = get.max - get.got
  BY <1>2 DEF Held
<1>11. IndexesFit'
  BY <1>1 DEF IInv, IndexesFit
<1>12. m_count \in Nat
  BY <1>2 DEF IInv, WakesFit, Getting
<1>13. (m_count + Held)' = m_count + Held - n /\ m_count' \in Nat
  BY <1>1, <1>3, <1>5, <1>9, <1>10, <1>12
<1> QED
  BY <1>1, <1>2, <1>4, <1>6, <1>9, <1>11, <1>13, TakenKeeps

\* The producer that try_dequeue chooses.
LEMMA BestIsThere ==
    ASSUME IndexesFit, N >= 1
    PROVE  Best \in 1 .. N /\ \A i \in 1 .. N : Size(ProducerList[i]) <= Size(ProducerList[Best])
<1>1. N \in Nat /\ DOMAIN ProducerList = 1 .. N /\ \A i \in 1 .. N : ProducerList[i] \in Producers
  BY ProducersFacts
<1>2. IndexRange \in Nat \ {0}
  BY QueueAssumption
<1>3. \A i \in 1 .. N : Size(ProducerList[i]) \in 0 .. IndexRange - 1
  <2>1. ASSUME NEW i \in 1 .. N
        PROVE  Size(ProducerList[i]) \in 0 .. IndexRange - 1
    <3>1. tailIndex[ProducerList[i]] - headIndex[ProducerList[i]] \in Int
      BY <1>1 DEF IndexesFit
    <3> QED
      BY <3>1, WrapType DEF Size
  <2> QED
    BY <2>1
<1> DEFINE rest == {IndexRange - 1 - Size(ProducerList[i]) : i \in 1 .. N}
<1>4. PICK least \in rest : \A m \in rest : least <= m
  <2>1. rest \in SUBSET Nat /\ rest # {}
    <3>1. 1 \in 1 .. N
      BY <1>1
    <3> QED
      BY <1>2, <1>3, <3>1
  <2> HIDE DEF rest
  <2> QED
    BY <2>1, Smallest
<1> DEFINE largest == {i \in 1 .. N : IndexRange - 1 - Size(ProducerList[i]) = least}
<1>5. PICK i \in largest : \A j \in largest : i <= j
  <2>1. largest \in SUBSET Nat /\ largest # {}
    BY <1>1, <1>4
  <2> HIDE DEF largest
  <2> QED
    BY <2>1, Smallest
<1>6. ASSUME NEW j \in 1 .. N
      PROVE  \/ Size(ProducerList[i]) > Size(ProducerList[j])
             \/ Size(ProducerList[i]) = Size(ProducerList[j]) /\ i <= j
  <2>1. least <= IndexRange - 1 - Size(ProducerList[j])
    BY <1>4
  <2>2. i \in 1 .. N /\ IndexRange - 1 - Size(ProducerList[i]) = least
    BY <1>5
  <2>3. Size(ProducerList[j]) \in Int /\ Size(ProducerList[i]) \in Int
    BY <1>3, <2>2
  <2>4. CASE Size(ProducerList[i]) = Size(ProducerList[j])
    <3>1. j \in largest
      BY <2>2, <2>4
    <3> QED
      BY <1>5, <2>4, <3>1
  <2> QED
    BY <1>2, <2>1, <2>2, <2>3, <2>4
<1>7. \E k \in DOMAIN ProducerList : \A j \in DOMAIN ProducerList :
          \/ Size(ProducerList[k]) > Size(ProducerList[j])
          \/ Size(ProducerList[k]) = Size(ProducerList[j]) /\ k <= j
  <2>1. i \in DOMAIN ProducerList
    BY <1>1, <1>5
  <2> QED
    BY <1>1, <1>6, <2>1
<1>8. /\ Best \in DOMAIN ProducerList
      /\ \A j \in DOMAIN ProducerList :
           \/ Size(ProducerList[Best]) > Size(ProducerList[j])
           \/ Size(ProducerList[Best]) = Size(ProducerList[j]) /\ Best <= j
  BY <1>7, Zenon DEF Best
<1>9. ASSUME NEW j \in 1 .. N
      PROVE  Size(ProducerList[j]) <= Size(ProducerList[Best])
  <2>1. Size(ProducerList[j]) \in Int /\ Size(ProducerList[Best]) \in Int
    BY <1>1, <1>3, <1>8
  <2> QED
    BY <1>1, <1>8, <2>1
<1> QED
  BY <1>1, <1>8, <1>9

LEMMA TryDequeueKeeps ==
    ASSUME IInv, TryDequeue
    PROVE  IInv'
<1>1. /\ tailIndex' = tailIndex /\ put' = put /\ get' = get
      /\ dequeueOvercommit' = dequeueOvercommit
      /\ get.at = "drain" /\ m_count > 0 /\ m_count' = m_count - Many(1) /\ m_sema' = m_sema
  BY DEF TryDequeue, DequeueGranted, Getting, TryWaitMany, Positive
<1>2. /\ headIndex' = [headIndex EXCEPT ![ProducerList[Best]] = Wrap(@ + 1)]
      /\ dequeueOptimisticCount' =
             [dequeueOptimisticCount EXCEPT ![ProducerList[Best]] = Wrap(@ + 1)]
      /\ \E x : received' = [received EXCEPT ![ProducerList[Best]] = Append(@, x)]
  BY DEF TryDequeue
<1>3. IndexesFit /\ GetsFit /\ m_count \in Int
  BY DEF IInv, WakesFit
<1>4. Many(1) = 1
  BY <1>1, <1>3 DEF Many, Min2
<1>5. Held = 0 /\ Held' = 0
  <2>1. get.max = 0 /\ get.got = 0
    BY <1>1, <1>3 DEF GetsFit, Fetching
  <2> QED
    BY <1>1, <2>1 DEF Held
<1>6. N >= 1
  BY <1>1, <1>3, <1>5, SomeProducer
<1>7. ProducerList[Best] \in Producers
  BY <1>3, <1>6, BestIsThere, ProducersFacts
<1>8. PICK p \in Producers : p = ProducerList[Best]
  BY <1>7
<1>9. IndexesFit'
  <2>1. headIndex[p] + 1 \in Int /\ dequeueOptimisticCount[p] + 1 \in Int
    BY <1>3 DEF IndexesFit
  <2>2. Wrap(headIndex[p] + 1) \in Int /\ Wrap(dequeueOptimisticCount[p] + 1) \in Int
    BY <2>1, WrapType
  <2> QED
    BY <1>1, <1>2, <1>3, <1>8, <2>2 DEF IndexesFit
<1>10. GetsFit'
  BY <1>1, <1>3 DEF GetsFit
<1>11. PICK x : received' = [received EXCEPT ![p] = Append(@, x)]
  BY <1>2, <1>8
<1>12. received' = [received EXCEPT ![p] = @ \o << x >>] /\ Elements(<< x >>, 1)
  <2>1. PICK S : received[p] \in Seq(S)
    BY DEF IInv, ReceivedFits
  <2> DEFINE both == S \cup {x}
  <2>2. received[p] \in Seq(both) /\ x \in both
    BY <2>1
  <2>3. << x >> \in Seq(both) /\ Len(<< x >>) = 1
    OBVIOUS
  <2> HIDE DEF both
  <2>4. Append(received[p], x) = received[p] \o << x >>
    BY <2>2
  <2> QED
    BY <1>11, <2>3, <2>4 DEF Elements
<1>13. (m_count + Held)' = m_count + Held - 1 /\ m_count' \in Nat
  BY <1>1, <1>3, <1>4, <1>5
<1>14. get.at # "sleep" /\ get'.at # "sleep"
  BY <1>1
<1> HIDE DEF Elements
<1> QED
  BY <1>1, <1>9, <1>10, <1>12, <1>13, <1>14, TakenKeeps

-----------------------------------------------------------------------------
(* The specification                                                       *)

\* Steps of the free list, and none at all.
LEMMA NothingElseKeeps ==
    ASSUME IInv,
           (\E t \in Threads : ListStep(t)) \/ UNCHANGED vars
    PROVE  IInv'
<1>1. /\ tailIndex' = tailIndex /\ headIndex' = headIndex /\ received' = received
      /\ put' = put /\ get' = get /\ dequeueOptimisticCount' = dequeueOptimisticCount
      /\ dequeueOvercommit' = dequeueOvercommit /\ m_count' = m_count /\ m_sema' = m_sema
  BY DEF ListStep, vars, queue, semaphore
<1>2. IndexesFit' /\ ReceivedFits' /\ GetsFit'
  BY <1>1 DEF IInv, IndexesFit, ReceivedFits, GetsFit
<1>3. \A q \in Producers : Sent(q)' = Sent(q) /\ InQueue(q)' = InQueue(q)
  BY <1>1 DEF Sent, InQueue
<1>4. PutsFit'
  BY <1>1, <1>3 DEF IInv, PutsFit
<1>5. Balanced'
  <2>1. \A q \in Producers : Backlog(q)' = Backlog(q)
    BY <1>1, <1>3 DEF Backlog, At
  <2>2. (m_count + Held)' = m_count + Held
    BY <1>1 DEF Held
  <2> QED
    BY <2>1, <2>2, BalanceKept
<1>6. WakesFit'
  BY <1>1 DEF IInv, WakesFit, Getting, At
<1> QED
  BY <1>2, <1>4, <1>5, <1>6 DEF IInv

LEMMA InitIInv == Init => IInv
<1>1. SUFFICES ASSUME Init
               PROVE  IInv
  OBVIOUS
<1>2. /\ tailIndex = [p \in Producers |-> Wrap(Start)] /\ headIndex = tailIndex
      /\ dequeueOptimisticCount = tailIndex
      /\ dequeueOvercommit = [p \in Producers |-> 0]
      /\ m_count = 0 /\ m_sema = 0 /\ put = [p \in Producers |-> NoPut] /\ get = NoGet
      /\ received = [p \in Producers |-> << >>]
  BY <1>1 DEF Init, SemaphoreInit
<1>3. Wrap(Start) \in Int /\ Start \in Int
  BY QueueAssumption, WrapType
<1>4. IndexesFit
  BY <1>2, <1>3 DEF IndexesFit
<1>5. ReceivedFits
  BY <1>2 DEF ReceivedFits
<1>6. PutsFit
  BY <1>2 DEF PutsFit, NoPut, PutSteps
<1>7. GetsFit /\ Held = 0
  BY <1>2 DEF GetsFit, NoGet, GetFields, Fetching, Held
<1>8. \A p \in Producers : Backlog(p) = 0
  <2>1. ASSUME NEW p \in Producers
        PROVE  Backlog(p) = 0
    <3>1. Sent(p) = 0
      BY <1>2, <1>3, WrapStart DEF Sent
    <3>2. Len(received[p]) = 0 /\ ~ At(p, "signal")
      BY <1>2 DEF At, NoPut
    <3>3. InQueue(p) = 0
      BY <3>1, <3>2 DEF InQueue
    <3>4. InQueue(p) \in Int
      BY <3>3
    <3>5. Backlog(p) = InQueue(p)
      BY <3>2, <3>4 DEF Backlog
    <3> QED
      BY <3>3, <3>5
  <2> QED
    BY <2>1
<1>9. Balanced
  <2>1. N \in Nat /\ \A i \in 1 .. N : Backlogs[i] = 0
    BY <1>8, ProducersFacts DEF Backlogs
  <2>2. AreSums([i \in 0 .. N |-> 0], Backlogs, N)
    BY <2>1 DEF AreSums
  <2>3. IsSum(Backlogs, N, 0)
    BY <2>1, <2>2 DEF IsSum
  <2> QED
    BY <1>2, <1>7, <2>3 DEF Balanced
<1>10. WakesFit
  BY <1>2 DEF WakesFit, Getting, At, NoGet, NoPut
<1> QED
  BY <1>4, <1>5, <1>6, <1>7, <1>9, <1>10 DEF IInv

LEMMA NextIInv == IInv /\ [Next]_vars => IInv'
<1>1. SUFFICES ASSUME IInv, [Next]_vars
               PROVE  IInv'
  OBVIOUS
<1>2. ASSUME NEW p \in Producers, Produce(p)
      PROVE  IInv'
  BY <1>1, <1>2, PrepareKeeps, PublishKeeps, SignalKeeps DEF Produce
<1>3. CASE Consume
  BY <1>1, <1>3, WaitKeeps, ClaimKeeps, TakeHeadIndexKeeps, LocateKeeps, MoveKeeps, EndKeeps,
     TryDequeueKeeps DEF Consume
<1>4. CASE (\E t \in Threads : ListStep(t)) \/ UNCHANGED vars
  BY <1>1, <1>4, NothingElseKeeps
<1> QED
  BY <1>1, <1>2, <1>3, <1>4 DEF Next

LEMMA InvariantKept == Spec => []IInv
  BY InitIInv, NextIInv, PTL DEF Spec

\* What wait_dequeue_bulk has been granted is in the queues, so that its turns end, and the
\* consumer does not sleep while there is something that nobody is about to wake it for.
THEOREM WakeUpsNotLost == Spec => []SemaphoreAgrees
<1>1. IInv => SemaphoreAgrees
  BY GrantedIsThere
<1> QED
  BY <1>1, InvariantKept, PTL

-----------------------------------------------------------------------------
(* The free list: its invariant                                            *)

AddSteps == {"addLoad", "addLink", "addCount", "addPush", "addRetry"}
GetCallSteps == {"load", "refs", "next", "take", "took", "got", "empty", "release"} \cup AddSteps
AddCallSteps == {"add", "added"} \cup AddSteps

CallRecords == [at : {"out"} \cup GetCallSteps \cup AddCallSteps, gets : BOOLEAN,
                node : 0 .. MaxBlocks, head : 0 .. MaxBlocks, next : 0 .. MaxBlocks]

\* What a thread knows of the nodes that it deals with.
CallFits(c, next) ==
    /\ c.at \in {"refs", "next", "take", "took", "got"} => c.head # 0
    /\ c.at \in {"release", "add"} \cup AddSteps => c.node # 0
    /\ c.at = "take" => c.next = next[c.head]
    /\ c.at \in {"addCount", "addPush"} => c.next = next[c.node]

CallsFit(cs, next) ==
    cs \in [Threads -> CallRecords] /\ \A t \in Threads : CallFits(cs[t], next)

\* The threads that have counted themselves as looking at a node.
LooksAt(c, b) ==
    \/ c.at \in {"next", "take"} /\ c.head = b
    \/ c.at = "release" /\ c.node = b

Lookers(cs, b) == {t \in Threads : LooksAt(cs[t], b)}

\* place[b] is where block b is: what it is in (at), whose that is (by), and which of the
\* owner's blocks it is (num).  What is counted of a node besides those that look at it:
Extra(at) ==
    CASE at \in {"list", "push"} -> 1
      [] at = "took" -> 2
      [] at \in {"link", "owed"} -> SHOULD_BE_ON_FREELIST
      [] OTHER -> 0

RefsFit(refs, cs, place) ==
    /\ refs \in [Blocks -> Nat] /\ DOMAIN place = Blocks
    /\ \A b \in Blocks :
         /\ refs[b] = Cardinality(Lookers(cs, b)) + Extra(place[b].at)
         /\ place[b].at = "owed" => Cardinality(Lookers(cs, b)) > 0
         /\ place[b].at = "link" => Cardinality(Lookers(cs, b)) = 0

\* The block is in the hands of this call.
Has(c, b, at) ==
    \/ at = c.at /\ at \in {"took", "got"} /\ c.head = b
    \/ at = "add" /\ c.at = "add" /\ c.node = b
    \/ at = "link" /\ c.at \in {"addLoad", "addLink", "addCount"} /\ c.node = b
    \/ at = "push" /\ c.at \in {"addPush", "addRetry"} /\ c.node = b

CallPlaces == {"took", "got", "add", "link", "push"}

InCalls(cs, place) ==
    \A b \in Blocks, at \in CallPlaces :
      /\ place[b].at = at => place[b].by \in Threads
      /\ \A t \in Threads : Has(cs[t], b, at) <=> place[b].at = at /\ place[b].by = t

\* The list has n nodes; place[b].num says how many there are from b on.
ChainFits(head, next, place, n) ==
    /\ head \in 0 .. MaxBlocks /\ next \in [Blocks -> 0 .. MaxBlocks] /\ n \in Nat
    /\ IF n = 0 THEN head = 0
       ELSE head # 0 /\ place[head].at = "list" /\ place[head].num = n
    /\ \A b \in Blocks : place[b].at = "list" =>
         /\ place[b].num \in 1 .. n
         /\ IF place[b].num = 1 THEN next[b] = 0
            ELSE /\ next[b] # 0 /\ place[next[b]].at = "list"
                 /\ place[next[b]].num = place[b].num - 1
    /\ \A b, d \in Blocks :
         place[b].at = "list" /\ place[d].at = "list" /\ place[b].num = place[d].num => b = d

FreeListFits(head, refs, next, cs, place, n) ==
    CallsFit(cs, next) /\ RefsFit(refs, cs, place) /\ InCalls(cs, place)
      /\ ChainFits(head, next, place, n)

FreeListNow(place, n) == FreeListFits(freeListHead, freeListRefs, freeListNext, call, place, n)

\* The places of the blocks that are neither in the list nor in a call.
Elsewhere == {"unused", "index", "hand"}

Places == Elsewhere \cup CallPlaces \cup {"list", "owed"}

SameElsewhere(place, place2) ==
    \A b \in Blocks :
      /\ place[b].at \in Elsewhere \/ place2[b].at \in Elsewhere => place2[b] = place[b]
      /\ place[b].at \in Places => place2[b].at \in Places

\* One call, one block's place changes.
Becomes(cs2, cs, t, c) ==
    DOMAIN cs2 = Threads /\ \A s \in Threads : cs2[s] = IF s = t THEN c ELSE cs[s]

Moves(place2, place, b, w) ==
    DOMAIN place2 = Blocks /\ \A d \in Blocks : place2[d] = IF d = b THEN w ELSE place[d]

-----------------------------------------------------------------------------
(* Who looks at a node                                                     *)

LEMMA LookersType ==
    ASSUME NEW cs, NEW b
    PROVE  /\ IsFiniteSet(Lookers(cs, b))
           /\ Cardinality(Lookers(cs, b)) \in Nat
           /\ Cardinality(Lookers(cs, b)) <= Cardinality(Threads)
           /\ Cardinality(Threads) \in Nat
<1>1. IsFiniteSet(Threads) /\ Lookers(cs, b) \subseteq Threads
  BY FreeListAssumption DEF Lookers
<1> QED
  BY <1>1, FS_Subset, FS_CardinalityType

LEMMA LookersChange ==
    ASSUME NEW cs, NEW t \in Threads, NEW c, NEW b, NEW cs2, Becomes(cs2, cs, t, c)
    PROVE  Cardinality(Lookers(cs2, b)) =
             Cardinality(Lookers(cs, b)) + (IF LooksAt(c, b) THEN 1 ELSE 0)
               - (IF LooksAt(cs[t], b) THEN 1 ELSE 0)
<1> DEFINE L == Lookers(cs, b)
           M == Lookers(cs2, b)
<1>1. \A s \in Threads : cs2[s] = IF s = t THEN c ELSE cs[s]
  BY DEF Becomes
<1>2. \A s \in Threads \ {t} : s \in M <=> s \in L
  BY <1>1 DEF Lookers
<1>3. (t \in M <=> LooksAt(c, b)) /\ (t \in L <=> LooksAt(cs[t], b))
  BY <1>1 DEF Lookers
<1>4. M \subseteq Threads /\ L \subseteq Threads
  BY DEF Lookers
<1>5. IsFiniteSet(L) /\ IsFiniteSet(M) /\ Cardinality(L) \in Nat /\ Cardinality(M) \in Nat
  BY LookersType
<1> HIDE DEF L, M
<1>6. CASE (t \in L) <=> (t \in M)
  <2>1. L = M
    BY <1>2, <1>4, <1>6
  <2> QED
    BY <1>3, <1>5, <1>6, <2>1 DEF L, M
<1>7. CASE t \in M /\ t \notin L
  <2>1. M = L \cup {t}
    BY <1>2, <1>4, <1>7
  <2>2. Cardinality(M) = Cardinality(L) + 1
    BY <1>5, <1>7, <2>1, FS_AddElement
  <2> QED
    BY <1>3, <1>5, <1>7, <2>2 DEF L, M
<1>8. CASE t \in L /\ t \notin M
  <2>1. L = M \cup {t}
    BY <1>2, <1>4, <1>8
  <2>2. Cardinality(L) = Cardinality(M) + 1
    BY <1>5, <1>8, <2>1, FS_AddElement
  <2> QED
    BY <1>3, <1>5, <1>8, <2>2 DEF L, M
<1> QED
  BY <1>6, <1>7, <1>8

LEMMA CallsChange ==
    ASSUME NEW cs, NEW next, NEW next2, CallsFit(cs, next), NEW t \in Threads, NEW c \in CallRecords,
           CallFits(c, next2), \A s \in Threads \ {t} : CallFits(cs[s], next2),
           NEW cs2, cs2 = [cs EXCEPT ![t] = c]
    PROVE  CallsFit(cs2, next2)
BY DEF CallsFit

\* A block that a call has in hand, or did, goes elsewhere.
LEMMA InCallsMoves ==
    ASSUME NEW cs, NEW place, InCalls(cs, place), NEW t \in Threads, NEW c, NEW b \in Blocks, NEW w,
           NEW cs2, NEW place2, Becomes(cs2, cs, t, c), Moves(place2, place, b, w),
           \A d \in Blocks, at \in CallPlaces : Has(cs[t], d, at) => d = b,
           \A d \in Blocks, at \in CallPlaces : Has(c, d, at) <=> d = b /\ w.at = at,
           w.at \in CallPlaces => w.by = t,
           place[b].at \in CallPlaces => place[b].by = t
    PROVE  InCalls(cs2, place2)
<1>1. \A s \in Threads : cs2[s] = IF s = t THEN c ELSE cs[s]
  BY DEF Becomes
<1>2. \A d \in Blocks : place2[d] = IF d = b THEN w ELSE place[d]
  BY DEF Moves
<1>3. ASSUME NEW d \in Blocks, NEW at \in CallPlaces, NEW s \in Threads
      PROVE  Has(cs2[s], d, at) <=> place2[d].at = at /\ place2[d].by = s
  <2>0. Has(cs[s], d, at) <=> place[d].at = at /\ place[d].by = s
    BY DEF InCalls
  <2>1. CASE s = t /\ d = b
    BY <1>1, <1>2, <2>1
  <2>2. CASE s = t /\ d # b
    BY <1>1, <1>2, <2>0, <2>2
  <2>3. CASE s # t /\ d = b
    BY <1>1, <1>2, <2>0, <2>3
  <2>4. CASE s # t /\ d # b
    BY <1>1, <1>2, <2>0, <2>4
  <2> QED
    BY <2>1, <2>2, <2>3, <2>4
<1>4. \A d \in Blocks, at \in CallPlaces : place2[d].at = at => place2[d].by \in Threads
  BY <1>2 DEF InCalls
<1> QED
  BY <1>3, <1>4 DEF InCalls

\* The call has the same block in hand as before.
LEMMA InCallsStay ==
    ASSUME NEW cs, NEW place, InCalls(cs, place), NEW t \in Threads, NEW c,
           NEW cs2, Becomes(cs2, cs, t, c),
           \A d \in Blocks, at \in CallPlaces : Has(c, d, at) <=> Has(cs[t], d, at)
    PROVE  InCalls(cs2, place)
<1>1. \A s \in Threads : cs2[s] = IF s = t THEN c ELSE cs[s]
  BY DEF Becomes
<1>2. \A d \in Blocks, at \in CallPlaces, s \in Threads : Has(cs2[s], d, at) <=> Has(cs[s], d, at)
  BY <1>1
<1> QED
  BY <1>2 DEF InCalls

LEMMA ChainSame ==
    ASSUME NEW head, NEW next, NEW place, NEW n, ChainFits(head, next, place, n),
           NEW b \in Blocks, NEW w, place[b].at # "list", w.at # "list",
           NEW place2, Moves(place2, place, b, w)
    PROVE  ChainFits(head, next, place2, n)
<1>1. \A d \in Blocks : place2[d] = IF d = b THEN w ELSE place[d]
  BY DEF Moves
<1>2. \A d \in Blocks : (place2[d].at = "list" <=> place[d].at = "list")
                     /\ (place[d].at = "list" => place2[d] = place[d])
  BY <1>1
<1>3. head \in 0 .. MaxBlocks /\ next \in [Blocks -> 0 .. MaxBlocks] /\ n \in Nat
  BY DEF ChainFits
<1>4. IF n = 0 THEN head = 0
       ELSE head # 0 /\ place2[head].at = "list" /\ place2[head].num = n
  BY <1>2, <1>3, FreeListAssumption DEF ChainFits, Blocks
<1>5. \A d \in Blocks : place2[d].at = "list" =>
         /\ place2[d].num \in 1 .. n
         /\ IF place2[d].num = 1 THEN next[d] = 0
            ELSE /\ next[d] # 0 /\ place2[next[d]].at = "list"
                 /\ place2[next[d]].num = place2[d].num - 1
  <2> TAKE d \in Blocks
  <2>1. HAVE place2[d].at = "list"
  <2>2. place[d].at = "list" /\ place2[d] = place[d]
    BY <1>2, <2>1
  <2>3. next[d] # 0 => next[d] \in Blocks
    BY <1>3, FreeListAssumption DEF Blocks
  <2> QED
    BY <1>2, <2>2, <2>3 DEF ChainFits
<1>6. \A b1, d \in Blocks :
         place2[b1].at = "list" /\ place2[d].at = "list" /\ place2[b1].num = place2[d].num => b1 = d
  BY <1>2 DEF ChainFits
<1> QED
  BY <1>3, <1>4, <1>5, <1>6 DEF ChainFits

CallSteps == {"out"} \cup GetCallSteps \cup AddCallSteps

\* The call of t becomes c.
CallIs(t, c) == call' = [call EXCEPT ![t] = c]

LEMMA GotoCall ==
    ASSUME call \in [Threads -> CallRecords], NEW t \in Threads, NEW at \in CallSteps, Goto(t, at)
    PROVE  \E c \in CallRecords :
             /\ CallIs(t, c)
             /\ c.at = at /\ c.gets = call[t].gets /\ c.node = call[t].node
             /\ c.head = call[t].head /\ c.next = call[t].next
<1> DEFINE c == [call[t] EXCEPT !.at = at]
<1>1. call[t] \in CallRecords
  OBVIOUS
<1>2. c \in CallRecords /\ c.at = at /\ c.gets = call[t].gets /\ c.node = call[t].node
             /\ c.head = call[t].head /\ c.next = call[t].next
  BY <1>1 DEF CallRecords, CallSteps
<1>3. CallIs(t, c)
  BY DEF Goto, CallIs
<1> QED
  BY <1>2, <1>3

HeadCall(c, h) ==
    /\ c.at = (IF h = 0 THEN "empty" ELSE "refs")
    /\ c.gets = TRUE /\ c.node = 0 /\ c.head = h /\ c.next = 0

LEMMA TryHeadCall ==
    ASSUME call \in [Threads -> CallRecords], NEW t \in Threads, NEW h \in 0 .. MaxBlocks,
           TryHead(t, h)
    PROVE  \E c \in CallRecords : CallIs(t, c) /\ HeadCall(c, h)
<1> DEFINE c == [NoCall EXCEPT !.at = IF h = 0 THEN "empty" ELSE "refs", !.gets = TRUE, !.head = h]
<1>1. NoCall \in CallRecords /\ NoCall.node = 0 /\ NoCall.next = 0
  BY FreeListAssumption DEF CallRecords, NoCall
<1>2. CallIs(t, c)
  BY DEF TryHead, CallIs
<1>3. c \in CallRecords /\ HeadCall(c, h)
  BY <1>1 DEF CallRecords, GetCallSteps, HeadCall
<1> HIDE DEF c
<1> QED
  BY <1>2, <1>3

LEMMA AddedCall ==
    ASSUME call \in [Threads -> CallRecords], NEW t \in Threads, Added(t)
    PROVE  \E c \in CallRecords :
             /\ CallIs(t, c)
             /\ c.at \in {"empty", "refs", "added"} /\ c.gets = call[t].gets
             /\ (c.at = "added") = (c.gets = FALSE)
             /\ c.at = "refs" => c.head # 0
<1>1. call[t] \in CallRecords
  OBVIOUS
<1>2. call[t].gets \in BOOLEAN /\ call[t].head \in 0 .. MaxBlocks
  BY <1>1 DEF CallRecords
<1>3. CASE call[t].gets = TRUE
  <2>1. TryHead(t, call[t].head)
    BY <1>3 DEF Added
  <2>2. PICK h \in 0 .. MaxBlocks : h = call[t].head
    BY <1>2
  <2>4. TryHead(t, h)
    BY <2>1, <2>2 DEF TryHead
  <2>3. PICK c \in CallRecords : CallIs(t, c) /\ HeadCall(c, h)
    BY <2>4, TryHeadCall
  <2> QED
    BY <1>3, <2>3 DEF HeadCall
<1>4. CASE call[t].gets = FALSE
  <2> DEFINE c == [NoCall EXCEPT !.at = "added"]
  <2>1. NoCall \in CallRecords /\ NoCall.gets = FALSE
    BY FreeListAssumption DEF CallRecords, NoCall
  <2>2. CallIs(t, c)
    BY <1>4 DEF Added, CallIs
  <2>3. c \in CallRecords /\ c.at = "added" /\ c.gets = FALSE
    BY <2>1 DEF CallRecords, AddCallSteps
  <2> HIDE DEF c
  <2> QED
    BY <1>4, <2>2, <2>3
<1> QED
  BY <1>2, <1>3, <1>4

-----------------------------------------------------------------------------
(* Steps that leave every block where it is                                *)

\* The call looks at the same nodes as before.
LEMMA QuietCall ==
    ASSUME NEW place, NEW n, FreeListNow(place, n), NEW t \in Threads, NEW c \in CallRecords,
           CallIs(t, c), CallFits(c, freeListNext),
           \A b \in Blocks : LooksAt(c, b) <=> LooksAt(call[t], b),
           \A b \in Blocks, at \in CallPlaces : Has(c, b, at) <=> Has(call[t], b, at),
           freeListHead' = freeListHead, freeListRefs' = freeListRefs,
           freeListNext' = freeListNext
    PROVE  FreeListNow(place, n)'
<1>0. call' = [call EXCEPT ![t] = c]
  BY DEF CallIs
<1>1. /\ CallsFit(call, freeListNext) /\ RefsFit(freeListRefs, call, place)
      /\ InCalls(call, place) /\ ChainFits(freeListHead, freeListNext, place, n)
  BY DEF FreeListNow, FreeListFits
<1>2. Becomes(call', call, t, c)
  BY <1>0, <1>1 DEF CallsFit, Becomes
<1>3. CallsFit(call', freeListNext)
  <2>1. \A s \in Threads \ {t} : CallFits(call[s], freeListNext)
    BY <1>1 DEF CallsFit
  <2> QED
    BY <1>0, <1>1, <2>1, CallsChange
<1>4. RefsFit(freeListRefs, call', place)
  <2>1. ASSUME NEW b \in Blocks
        PROVE  Cardinality(Lookers(call', b)) = Cardinality(Lookers(call, b))
    <3>1. Cardinality(Lookers(call', b)) =
             Cardinality(Lookers(call, b)) + (IF LooksAt(c, b) THEN 1 ELSE 0)
               - (IF LooksAt(call[t], b) THEN 1 ELSE 0)
      BY <1>2, LookersChange
    <3> QED
      BY <3>1, LookersType
  <2> QED
    BY <1>1, <2>1 DEF RefsFit
<1>5. InCalls(call', place)
  BY <1>1, <1>2, InCallsStay
<1> QED
  BY <1>1, <1>3, <1>4, <1>5 DEF FreeListNow, FreeListFits

LEMMA LoadHeadKeeps ==
    ASSUME NEW place, NEW n, FreeListNow(place, n), NEW t \in Threads, LoadHead(t)
    PROVE  FreeListNow(place, n)'
<1>1. call \in [Threads -> CallRecords] /\ freeListHead \in 0 .. MaxBlocks /\ call[t].at = "load"
  BY DEF FreeListNow, FreeListFits, CallsFit, ChainFits, LoadHead
<1>9. PICK h \in 0 .. MaxBlocks : h = freeListHead
  BY <1>1
<1>10. TryHead(t, h)
  BY <1>9 DEF LoadHead, TryHead
<1>2. PICK c \in CallRecords : CallIs(t, c) /\ HeadCall(c, h)
  BY <1>1, <1>10, TryHeadCall
<1>3. CallFits(c, freeListNext)
  BY <1>2 DEF HeadCall, CallFits, AddSteps
<1>4. \A b \in Blocks : ~ LooksAt(c, b) /\ ~ LooksAt(call[t], b)
  BY <1>1, <1>2 DEF LooksAt, HeadCall
<1>5. \A b \in Blocks, at \in CallPlaces : ~ Has(c, b, at) /\ ~ Has(call[t], b, at)
  BY <1>1, <1>2 DEF Has, CallPlaces, HeadCall
<1> QED
  BY <1>2, <1>3, <1>4, <1>5, QuietCall DEF LoadHead

LEMMA LoadNextKeeps ==
    ASSUME NEW place, NEW n, FreeListNow(place, n), NEW t \in Threads, LoadNext(t)
    PROVE  FreeListNow(place, n)'
<1>1. /\ call \in [Threads -> CallRecords] /\ call[t].at = "next" /\ CallFits(call[t], freeListNext)
      /\ freeListNext \in [Blocks -> 0 .. MaxBlocks]
  BY DEF FreeListNow, FreeListFits, CallsFit, ChainFits, LoadNext
<1>2. call[t] \in CallRecords /\ call[t].head # 0
  BY <1>1 DEF CallFits
<1>3. call[t].head \in Blocks
  BY <1>2, FreeListAssumption DEF CallRecords, Blocks
<1> DEFINE c == [call[t] EXCEPT !.at = "take", !.next = freeListNext[call[t].head]]
<1>4. /\ c \in CallRecords /\ c.at = "take" /\ c.head = call[t].head /\ c.node = call[t].node
      /\ c.next = freeListNext[call[t].head]
  BY <1>1, <1>2, <1>3 DEF CallRecords, GetCallSteps
<1>5. CallIs(t, c)
  BY DEF LoadNext, CallIs
<1> HIDE DEF c
<1>6. CallFits(c, freeListNext)
  BY <1>2, <1>4 DEF CallFits, AddSteps
<1>7. \A b \in Blocks : LooksAt(c, b) <=> LooksAt(call[t], b)
  BY <1>1, <1>4 DEF LooksAt
<1>8. \A b \in Blocks, at \in CallPlaces : ~ Has(c, b, at) /\ ~ Has(call[t], b, at)
  BY <1>1, <1>4 DEF Has, CallPlaces
<1> QED
  BY <1>4, <1>5, <1>6, <1>7, <1>8, QuietCall DEF LoadNext

LEMMA AddLoadKeeps ==
    ASSUME NEW place, NEW n, FreeListNow(place, n), NEW t \in Threads, AddLoad(t)
    PROVE  FreeListNow(place, n)'
<1>1. /\ call \in [Threads -> CallRecords] /\ call[t].at = "addLoad" /\ CallFits(call[t], freeListNext)
      /\ freeListHead \in 0 .. MaxBlocks
  BY DEF FreeListNow, FreeListFits, CallsFit, ChainFits, AddLoad
<1>2. call[t] \in CallRecords /\ call[t].node # 0
  BY <1>1 DEF CallFits, AddSteps
<1> DEFINE c == [call[t] EXCEPT !.at = "addLink", !.next = freeListHead]
<1>4. /\ c \in CallRecords /\ c.at = "addLink" /\ c.head = call[t].head /\ c.node = call[t].node
  BY <1>1, <1>2 DEF CallRecords, GetCallSteps, AddSteps
<1>5. CallIs(t, c)
  BY DEF AddLoad, CallIs
<1> HIDE DEF c
<1>6. CallFits(c, freeListNext)
  BY <1>2, <1>4 DEF CallFits, AddSteps
<1>7. \A b \in Blocks : ~ LooksAt(c, b) /\ ~ LooksAt(call[t], b)
  BY <1>1, <1>4 DEF LooksAt
<1>8. \A b \in Blocks, at \in CallPlaces : Has(c, b, at) <=> Has(call[t], b, at)
  BY <1>1, <1>4 DEF Has, CallPlaces
<1> QED
  BY <1>4, <1>5, <1>6, <1>7, <1>8, QuietCall DEF AddLoad

-----------------------------------------------------------------------------
(* Steps on one node                                                       *)

\* Nothing but what is counted of b changes, and its place.
Change(b, c, c2, w, w2) ==
    (IF LooksAt(c2, b) THEN 1 ELSE 0) - (IF LooksAt(c, b) THEN 1 ELSE 0)
      + Extra(w2.at) - Extra(w.at)

RefsGo(refs2, refs, b, c, c2, w, w2) == refs2 = [refs EXCEPT ![b] = @ + Change(b, c, c2, w, w2)]

LEMMA CallGoes ==
    ASSUME NEW place, NEW n, FreeListNow(place, n), NEW t \in Threads, NEW c \in CallRecords,
           CallIs(t, c), CallFits(c, freeListNext), freeListNext' = freeListNext,
           NEW b \in Blocks, NEW w, NEW place2, Moves(place2, place, b, w),
           InCalls(call', place2),
           RefsGo(freeListRefs', freeListRefs, b, call[t], c, place[b], w),
           \A e \in Blocks \ {b} : LooksAt(c, e) <=> LooksAt(call[t], e),
           w.at = "owed" => Cardinality(Lookers(call', b)) > 0,
           w.at = "link" => Cardinality(Lookers(call', b)) = 0,
           NEW m, ChainFits(freeListHead', freeListNext, place2, m)
    PROVE  FreeListNow(place2, m)'
<1>1. CallsFit(call, freeListNext) /\ RefsFit(freeListRefs, call, place)
  BY DEF FreeListNow, FreeListFits
<1>0. call' = [call EXCEPT ![t] = c]
  BY DEF CallIs
<1>2. Becomes(call', call, t, c)
  BY <1>0, <1>1 DEF CallsFit, Becomes
<1>3. CallsFit(call', freeListNext)
  <2>1. \A s \in Threads \ {t} : CallFits(call[s], freeListNext)
    BY <1>1 DEF CallsFit
  <2> QED
    BY <1>0, <1>1, <2>1, CallsChange
<1>4. RefsFit(freeListRefs', call', place2)
  <2> DEFINE d == Change(b, call[t], c, place[b], w)
  <2>1. /\ freeListRefs' = [e \in Blocks |-> freeListRefs'[e]] /\ DOMAIN place2 = Blocks
        /\ \A e \in Blocks : freeListRefs'[e] = IF e = b THEN freeListRefs[e] + d ELSE freeListRefs[e]
    BY <1>1 DEF RefsGo, Moves, RefsFit
  <2>2. ASSUME NEW e \in Blocks
        PROVE  /\ freeListRefs'[e] = Cardinality(Lookers(call', e)) + Extra(place2[e].at)
               /\ place2[e].at = "owed" => Cardinality(Lookers(call', e)) > 0
               /\ place2[e].at = "link" => Cardinality(Lookers(call', e)) = 0
               /\ freeListRefs'[e] \in Nat
    <3>1. /\ Cardinality(Lookers(call', e)) =
             Cardinality(Lookers(call, e)) + (IF LooksAt(c, e) THEN 1 ELSE 0)
               - (IF LooksAt(call[t], e) THEN 1 ELSE 0)
          /\ Cardinality(Lookers(call', e)) \in Nat /\ Cardinality(Lookers(call, e)) \in Nat
      BY <1>2, LookersChange, LookersType
    <3>2. /\ freeListRefs[e] = Cardinality(Lookers(call, e)) + Extra(place[e].at)
          /\ place[e].at = "owed" => Cardinality(Lookers(call, e)) > 0
          /\ place[e].at = "link" => Cardinality(Lookers(call, e)) = 0
      BY <1>1 DEF RefsFit
    <3>3. \A at : Extra(at) \in Nat
      BY LookersType DEF Extra, SHOULD_BE_ON_FREELIST
    <3>6. e = b => d = (IF LooksAt(c, e) THEN 1 ELSE 0) - (IF LooksAt(call[t], e) THEN 1 ELSE 0)
                           + Extra(w.at) - Extra(place[e].at)
      BY DEF Change
    <3> HIDE DEF d
    <3>4. CASE e = b
      <4>1. place2[e] = w /\ freeListRefs'[e] = freeListRefs[e] + d
        BY <2>1, <3>4 DEF Moves
      <4>2. freeListRefs'[e] = Cardinality(Lookers(call', e)) + Extra(w.at)
        BY <3>1, <3>2, <3>3, <3>4, <3>6, <4>1
      <4> QED
        BY <3>1, <3>3, <3>4, <4>1, <4>2
    <3>5. CASE e # b
      <4>1. place2[e] = place[e] /\ freeListRefs'[e] = freeListRefs[e]
        BY <2>1, <3>5 DEF Moves
      <4>2. Cardinality(Lookers(call', e)) = Cardinality(Lookers(call, e))
        BY <3>1, <3>5
      <4> QED
        BY <3>1, <3>2, <3>3, <4>1, <4>2
    <3> QED
      BY <3>4, <3>5
  <2>3. freeListRefs' \in [Blocks -> Nat]
    BY <2>1, <2>2
  <2> QED
    BY <2>1, <2>2, <2>3 DEF RefsFit
<1> QED
  BY <1>3, <1>4 DEF FreeListNow, FreeListFits

LEMMA FreeListFacts ==
    ASSUME NEW place, NEW n, FreeListNow(place, n), NEW t \in Threads
    PROVE  /\ call \in [Threads -> CallRecords] /\ call[t] \in CallRecords
           /\ CallFits(call[t], freeListNext)
           /\ freeListHead \in 0 .. MaxBlocks /\ freeListNext \in [Blocks -> 0 .. MaxBlocks]
           /\ freeListRefs \in [Blocks -> Nat] /\ DOMAIN place = Blocks
           /\ call[t].head \in 0 .. MaxBlocks /\ call[t].node \in 0 .. MaxBlocks
           /\ call[t].next \in 0 .. MaxBlocks
<1>1. CallsFit(call, freeListNext) /\ RefsFit(freeListRefs, call, place)
       /\ ChainFits(freeListHead, freeListNext, place, n)
  BY DEF FreeListNow, FreeListFits
<1>2. call \in [Threads -> CallRecords] /\ CallFits(call[t], freeListNext)
  BY <1>1 DEF CallsFit
<1>3. call[t] \in CallRecords
  BY <1>2
<1> QED
  BY <1>1, <1>2, <1>3 DEF RefsFit, ChainFits, CallRecords

LEMMA BlockNumbers == \A b : b \in 0 .. MaxBlocks /\ b # 0 <=> b \in Blocks
BY FreeListAssumption DEF Blocks

LEMMA FlagIsHigh ==
    /\ SHOULD_BE_ON_FREELIST \in Nat /\ SHOULD_BE_ON_FREELIST > Cardinality(Threads) + 2
    /\ Cardinality(Threads) \in Nat /\ Cardinality(Threads) > 0
    /\ \A i \in Nat : i < SHOULD_BE_ON_FREELIST =>
         /\ i % SHOULD_BE_ON_FREELIST = i
         /\ (i + SHOULD_BE_ON_FREELIST) % SHOULD_BE_ON_FREELIST = i
<1> DEFINE F == SHOULD_BE_ON_FREELIST
<1>1. IsFiniteSet(Threads) /\ Threads # {}
  BY FreeListAssumption, QueueAssumption
<1>2. Cardinality(Threads) \in Nat /\ Cardinality(Threads) # 0
  BY <1>1, FS_CardinalityType, FS_EmptySet
<1>3. F \in Nat \ {0} /\ F > Cardinality(Threads) + 2
  BY <1>2 DEF SHOULD_BE_ON_FREELIST
<1> HIDE DEF F
<1>4. ASSUME NEW i \in Nat, i < F
      PROVE  i % F = i /\ (i + F) % F = i
  <2>1. i \in 0 .. F - 1 /\ i = F * 0 + i /\ i + F = F * 1 + i
    BY <1>3, <1>4
  <2> QED
    BY <1>3, <2>1, Remainder
<1> QED
  BY <1>2, <1>3, <1>4 DEF F

Spot(at, by, num) == [at |-> at, by |-> by, num |-> num]

LEMMA ReferenceKeeps ==
    ASSUME NEW place, NEW n, FreeListNow(place, n), NEW t \in Threads, Reference(t)
    PROVE  FreeListNow(place, n)'
<1>1. /\ call \in [Threads -> CallRecords] /\ call[t].at = "refs" /\ CallFits(call[t], freeListNext)
      /\ DOMAIN place = Blocks
  BY FreeListFacts DEF Reference
<1>2. PICK b : b = call[t].head
  OBVIOUS
<1>3. b \in Blocks
  BY <1>1, <1>2, FreeListFacts, BlockNumbers DEF CallFits
<1>4. CASE Refs(b) = 0
  <2>1. Goto(t, "load") /\ UNCHANGED <<freeListHead, freeListRefs, freeListNext>>
    BY <1>2, <1>4 DEF Reference
  <2>2. PICK c \in CallRecords : CallIs(t, c) /\ c.at = "load"
    BY <1>1, <2>1, GotoCall DEF CallSteps, GetCallSteps
  <2>3. CallFits(c, freeListNext)
    BY <2>2 DEF CallFits, AddSteps
  <2>4. \A e \in Blocks : ~ LooksAt(c, e) /\ ~ LooksAt(call[t], e)
    BY <1>1, <2>2 DEF LooksAt
  <2>5. \A e \in Blocks, at \in CallPlaces : ~ Has(c, e, at) /\ ~ Has(call[t], e, at)
    BY <1>1, <2>2 DEF Has, CallPlaces
  <2> QED
    BY <2>1, <2>2, <2>3, <2>4, <2>5, QuietCall
<1>5. CASE Refs(b) # 0
  <2>1. /\ Goto(t, "next") /\ freeListRefs' = [freeListRefs EXCEPT ![b] = @ + 1]
        /\ freeListHead' = freeListHead /\ freeListNext' = freeListNext
    BY <1>2, <1>5 DEF Reference
  <2>2. PICK c \in CallRecords : CallIs(t, c) /\ c.at = "next" /\ c.head = call[t].head
    BY <1>1, <2>1, GotoCall DEF CallSteps, GetCallSteps
  <2>3. CallFits(c, freeListNext)
    BY <1>1, <2>2 DEF CallFits, AddSteps
  <2>4. /\ \A e \in Blocks \ {b} : ~ LooksAt(c, e)
        /\ \A e \in Blocks : ~ LooksAt(call[t], e)
        /\ LooksAt(c, b)
    BY <1>1, <1>2, <2>2 DEF LooksAt
  <2>5. \A e \in Blocks, at \in CallPlaces : ~ Has(c, e, at) /\ ~ Has(call[t], e, at)
    BY <1>1, <2>2 DEF Has, CallPlaces
  <2>6. Becomes(call', call, t, c)
    BY <1>1, <2>2 DEF CallIs, Becomes
  <2>7. InCalls(call, place) /\ ChainFits(freeListHead, freeListNext, place, n)
    BY DEF FreeListNow, FreeListFits
  <2>8. InCalls(call', place)
    BY <2>5, <2>6, <2>7, InCallsStay
  <2>9. Moves(place, place, b, place[b])
    BY <1>1 DEF Moves
  <2>11. /\ Cardinality(Lookers(call', b)) = Cardinality(Lookers(call, b)) + 1
         /\ Cardinality(Lookers(call, b)) \in Nat
    BY <2>4, <2>6, LookersChange, LookersType, <1>3
  <2>12. place[b].at # "link"
    <3>1. SUFFICES ASSUME place[b].at = "link"
                   PROVE  FALSE
      OBVIOUS
    <3>2. freeListRefs[b] = Cardinality(Lookers(call, b)) + Extra("link") /\ Cardinality(Lookers(call, b)) = 0
      BY <1>3, <3>1 DEF FreeListNow, FreeListFits, RefsFit
    <3>3. freeListRefs[b] = 0 + SHOULD_BE_ON_FREELIST
      BY <3>2, FlagIsHigh DEF Extra
    <3> QED
      BY <1>5, <3>3, FlagIsHigh, LookersType DEF Refs
  <2>13. RefsGo(freeListRefs', freeListRefs, b, call[t], c, place[b], place[b])
    <3>1. Extra(place[b].at) \in Nat
      BY FlagIsHigh DEF Extra
    <3>2. Change(b, call[t], c, place[b], place[b]) = 1
      BY <1>3, <2>4, <3>1 DEF Change
    <3> QED
      BY <2>1, <3>2 DEF RefsGo
  <2>14. place[b].at = "owed" => Cardinality(Lookers(call', b)) > 0
    BY <2>11
  <2>15. ChainFits(freeListHead', freeListNext, place, n)
    BY <2>1, <2>7
  <2>16. \A e \in Blocks \ {b} : LooksAt(c, e) <=> LooksAt(call[t], e)
    BY <2>4
  <2> QED
    BY <1>3, <2>1, <2>2, <2>3, <2>16, <2>8, <2>9, <2>12, <2>13, <2>14, <2>15, CallGoes
<1> QED
  BY <1>4, <1>5

LEMMA ChainPops ==
    ASSUME NEW head, NEW next, NEW place, NEW n, ChainFits(head, next, place, n), head # 0,
           NEW w, w.at # "list", NEW place2, Moves(place2, place, head, w)
    PROVE  \E m : m = n - 1 /\ ChainFits(next[head], next, place2, m)
<1>1. head \in Blocks /\ next \in [Blocks -> 0 .. MaxBlocks] /\ n \in Nat /\ n # 0
      /\ place[head].at = "list" /\ place[head].num = n
  BY BlockNumbers DEF ChainFits
<1>2. \A d \in Blocks : place2[d] = IF d = head THEN w ELSE place[d]
  BY DEF Moves
<1>3. \A d \in Blocks : place2[d].at = "list" <=> place[d].at = "list" /\ d # head
  BY <1>1, <1>2
<1> DEFINE h == next[head]
<1>4. h \in 0 .. MaxBlocks /\ n - 1 \in Nat
  BY <1>1
<1>5. h # 0 => h \in Blocks
  BY <1>4, BlockNumbers
<1>6. /\ IF n = 1 THEN h = 0 ELSE h # 0 /\ place[h].at = "list" /\ place[h].num = n - 1
  BY <1>1 DEF ChainFits
<1> HIDE DEF h
<1>7. IF n - 1 = 0 THEN h = 0
       ELSE h # 0 /\ place2[h].at = "list" /\ place2[h].num = n - 1
  BY <1>1, <1>2, <1>5, <1>6
<1>8. ASSUME NEW b \in Blocks, place2[b].at = "list"
      PROVE  /\ place2[b].num \in 1 .. n - 1
             /\ IF place2[b].num = 1 THEN next[b] = 0
                ELSE /\ next[b] # 0 /\ place2[next[b]].at = "list"
                     /\ place2[next[b]].num = place2[b].num - 1
  <2>1. place[b].at = "list" /\ b # head /\ place2[b] = place[b]
    BY <1>2, <1>3, <1>8
  <2>2. place[b].num \in 1 .. n /\ place[b].num # n
    BY <1>1, <2>1 DEF ChainFits
  <2>3. /\ IF place[b].num = 1 THEN next[b] = 0
                ELSE /\ next[b] # 0 /\ place[next[b]].at = "list"
                     /\ place[next[b]].num = place[b].num - 1
    BY <2>1 DEF ChainFits
  <2>4. place[b].num # 1 => next[b] \in Blocks /\ next[b] # head
    BY <1>1, <2>2, <2>3, BlockNumbers
  <2>5. place[b].num # 1 => place2[next[b]] = place[next[b]]
    BY <1>2, <2>4
  <2> QED
    BY <1>1, <2>1, <2>2, <2>3, <2>5
<1>9. \A b, d \in Blocks :
         place2[b].at = "list" /\ place2[d].at = "list" /\ place2[b].num = place2[d].num => b = d
  <2>1. \A b \in Blocks : place2[b].at = "list" => place[b].at = "list" /\ place2[b] = place[b]
    BY <1>2, <1>3
  <2> QED
    BY <2>1 DEF ChainFits
<1>10. PICK m : m = n - 1
  OBVIOUS
<1>11. ChainFits(h, next, place2, m)
  BY <1>1, <1>4, <1>7, <1>8, <1>9, <1>10 DEF ChainFits
<1> QED
  BY <1>10, <1>11 DEF h

LEMMA ChainPushes ==
    ASSUME NEW head, NEW next, NEW place, NEW n, ChainFits(head, next, place, n),
           NEW b \in Blocks, place[b].at # "list", next[b] = head,
           NEW w, w.at = "list", w.num = n + 1, NEW place2, Moves(place2, place, b, w)
    PROVE  \E m : ChainFits(b, next, place2, m)
<1>1. head \in 0 .. MaxBlocks /\ next \in [Blocks -> 0 .. MaxBlocks] /\ n \in Nat
  BY DEF ChainFits
<1>2. \A d \in Blocks : place2[d] = IF d = b THEN w ELSE place[d]
  BY DEF Moves
<1>3. b # 0 /\ b \in 0 .. MaxBlocks /\ place2[b] = w
  BY <1>2, BlockNumbers
<1>8. ASSUME NEW e \in Blocks, place2[e].at = "list"
      PROVE  /\ place2[e].num \in 1 .. n + 1
             /\ IF place2[e].num = 1 THEN next[e] = 0
                ELSE /\ next[e] # 0 /\ place2[next[e]].at = "list"
                     /\ place2[next[e]].num = place2[e].num - 1
  <2>1. CASE e = b
    <3>1. IF n = 0 THEN head = 0 ELSE head # 0 /\ place[head].at = "list" /\ place[head].num = n
      BY DEF ChainFits
    <3>2. n # 0 => head \in Blocks /\ head # b
      BY <1>1, <3>1, BlockNumbers
    <3>3. n # 0 => place2[head] = place[head]
      BY <1>2, <3>2
    <3> QED
      BY <1>1, <1>3, <2>1, <3>1, <3>3
  <2>2. CASE e # b
    <3>1. place[e].at = "list" /\ place2[e] = place[e]
      BY <1>2, <1>8, <2>2
    <3>2. place[e].num \in 1 .. n
          /\ IF place[e].num = 1 THEN next[e] = 0
                ELSE /\ next[e] # 0 /\ place[next[e]].at = "list"
                     /\ place[next[e]].num = place[e].num - 1
      BY <3>1 DEF ChainFits
    <3>3. place[e].num # 1 => next[e] \in Blocks /\ next[e] # b
      BY <1>1, <3>2, BlockNumbers
    <3>4. place[e].num # 1 => place2[next[e]] = place[next[e]]
      BY <1>2, <3>3
    <3> QED
      BY <1>1, <3>1, <3>2, <3>4
  <2> QED
    BY <2>1, <2>2
<1>9. ASSUME NEW e \in Blocks, NEW d \in Blocks,
             place2[e].at = "list", place2[d].at = "list", place2[e].num = place2[d].num
      PROVE  e = d
  <2>1. \A x \in Blocks : x # b /\ place2[x].at = "list" =>
            place[x].at = "list" /\ place2[x].num = place[x].num /\ place[x].num \in 1 .. n
    BY <1>2 DEF ChainFits
  <2>2. CASE e # b /\ d # b
    BY <1>9, <2>1, <2>2 DEF ChainFits
  <2>3. CASE e = b \/ d = b
    BY <1>1, <1>3, <1>9, <2>1, <2>3
  <2> QED
    BY <2>2, <2>3
<1>10. PICK m : m = n + 1
  OBVIOUS
<1>11. ChainFits(b, next, place2, m)
  BY <1>1, <1>3, <1>8, <1>9, <1>10 DEF ChainFits
<1> QED
  BY <1>11

LEMMA ChainLinks ==
    ASSUME NEW head, NEW next, NEW place, NEW n, ChainFits(head, next, place, n),
           NEW b \in Blocks, place[b].at # "list", NEW x, x \in 0 .. MaxBlocks
    PROVE  ChainFits(head, [next EXCEPT ![b] = x], place, n)
<1> DEFINE next2 == [next EXCEPT ![b] = x]
<1>1. next \in [Blocks -> 0 .. MaxBlocks]
  BY DEF ChainFits
<1>2. next2 \in [Blocks -> 0 .. MaxBlocks] /\ \A d \in Blocks : d # b => next2[d] = next[d]
  BY <1>1
<1> HIDE DEF next2
<1> QED
  BY <1>2 DEF ChainFits, next2

LEMMA CallMoves ==
    ASSUME NEW place, NEW n, FreeListNow(place, n), NEW t \in Threads, NEW c \in CallRecords,
           CallIs(t, c), CallFits(c, freeListNext), freeListNext' = freeListNext,
           NEW b \in Blocks, NEW w, NEW place2, Moves(place2, place, b, w),
           \A d \in Blocks, at \in CallPlaces : Has(call[t], d, at) => d = b,
           \A d \in Blocks, at \in CallPlaces : Has(c, d, at) <=> d = b /\ w.at = at,
           w.at \in CallPlaces => w.by = t,
           place[b].at \in CallPlaces => place[b].by = t,
           RefsGo(freeListRefs', freeListRefs, b, call[t], c, place[b], w),
           \A e \in Blocks \ {b} : LooksAt(c, e) <=> LooksAt(call[t], e),
           w.at = "owed" => Cardinality(Lookers(call', b)) > 0,
           w.at = "link" => Cardinality(Lookers(call', b)) = 0,
           NEW m, ChainFits(freeListHead', freeListNext, place2, m)
    PROVE  FreeListNow(place2, m)'
<1>1. Becomes(call', call, t, c) /\ InCalls(call, place)
  BY FreeListFacts DEF CallIs, Becomes, FreeListNow, FreeListFits
<1>2. InCalls(call', place2)
  BY <1>1, InCallsMoves
<1> QED
  BY <1>2, CallGoes

LEMMA InHand ==
    ASSUME NEW place, NEW n, FreeListNow(place, n), NEW t \in Threads, NEW b \in Blocks,
           NEW at \in CallPlaces, Has(call[t], b, at)
    PROVE  place[b].at = at /\ place[b].by = t
BY DEF FreeListNow, FreeListFits, InCalls

LEMMA Counted ==
    ASSUME NEW place, NEW n, FreeListNow(place, n), NEW b \in Blocks
    PROVE  /\ freeListRefs[b] = Cardinality(Lookers(call, b)) + Extra(place[b].at)
           /\ place[b].at = "owed" => Cardinality(Lookers(call, b)) > 0
           /\ place[b].at = "link" => Cardinality(Lookers(call, b)) = 0
           /\ Cardinality(Lookers(call, b)) \in Nat
           /\ Cardinality(Lookers(call, b)) <= Cardinality(Threads)
BY LookersType DEF FreeListNow, FreeListFits, RefsFit

LEMMA LookersThen ==
    ASSUME NEW place, NEW n, FreeListNow(place, n), NEW t \in Threads, NEW c, CallIs(t, c), NEW b
    PROVE  /\ Cardinality(Lookers(call', b)) =
             Cardinality(Lookers(call, b)) + (IF LooksAt(c, b) THEN 1 ELSE 0)
               - (IF LooksAt(call[t], b) THEN 1 ELSE 0)
           /\ Cardinality(Lookers(call', b)) \in Nat /\ Cardinality(Lookers(call, b)) \in Nat
<1>1. Becomes(call', call, t, c)
  BY FreeListFacts DEF CallIs, Becomes
<1> QED
  BY <1>1, LookersChange, LookersType

\* Refs has gone by this.
LEMMA Counts ==
    /\ Extra("list") = 1 /\ Extra("push") = 1 /\ Extra("took") = 2 /\ Extra("got") = 0 /\ Extra("add") = 0
    /\ Extra("link") = SHOULD_BE_ON_FREELIST /\ Extra("owed") = SHOULD_BE_ON_FREELIST
    /\ Extra("index") = 0 /\ Extra("hand") = 0 /\ Extra("unused") = 0
BY DEF Extra

LEMMA TakeHeadKeeps ==
    ASSUME NEW place, NEW n, FreeListNow(place, n), NEW t \in Threads, TakeHead(t)
    PROVE  \E place2, m : FreeListNow(place2, m)' /\ SameElsewhere(place, place2)
<1>1. /\ call \in [Threads -> CallRecords] /\ call[t] \in CallRecords /\ call[t].at = "take"
      /\ CallFits(call[t], freeListNext)
      /\ DOMAIN place = Blocks /\ freeListHead \in 0 .. MaxBlocks /\ freeListNext' = freeListNext
      /\ freeListRefs' = freeListRefs
  BY FreeListFacts DEF TakeHead
<1>2. PICK b : b = call[t].head
  OBVIOUS
<1>3. b \in Blocks /\ call[t].next = freeListNext[b]
  BY <1>1, <1>2, FreeListFacts, BlockNumbers DEF CallFits
<1>4. \A e \in Blocks, at \in CallPlaces : ~ Has(call[t], e, at)
  BY <1>1 DEF Has, CallPlaces
<1>5. CASE freeListHead = b
  <2> DEFINE c == [call[t] EXCEPT !.at = "took", !.next = 0]
  <2>0. 0 \in 0 .. MaxBlocks
    BY FreeListAssumption
  <2>1. c \in CallRecords /\ c.at = "took" /\ c.head = call[t].head /\ c.node = call[t].node
    BY <1>1, <2>0 DEF CallRecords, GetCallSteps
  <2>2. CallIs(t, c) /\ freeListHead' = freeListNext[b]
    BY <1>2, <1>3, <1>5 DEF TakeHead, CallIs
  <2> HIDE DEF c
  <2>3. CallFits(c, freeListNext)
    BY <1>1, <1>2, <2>1 DEF CallFits, AddSteps
  <2> DEFINE w == Spot("took", t, 0)
             place2 == [place EXCEPT ![b] = w]
  <2>4. Moves(place2, place, b, w) /\ w.at = "took" /\ w.by = t
    BY <1>1, <1>3 DEF Moves, Spot
  <2> HIDE DEF w, place2
  <2>5. place[b].at = "list" /\ freeListHead # 0 /\ ChainFits(freeListHead, freeListNext, place, n)
    BY <1>1, <1>3, <1>5, BlockNumbers DEF FreeListNow, FreeListFits, ChainFits
  <2>6. PICK m : ChainFits(freeListNext[b], freeListNext, place2, m)
    BY <1>5, <2>4, <2>5, ChainPops
  <2>7. \A d \in Blocks, at \in CallPlaces : Has(c, d, at) <=> d = b /\ w.at = at
    BY <1>2, <1>3, <2>1, <2>4 DEF Has, CallPlaces
  <2>8. /\ \A e \in Blocks \ {b} : LooksAt(c, e) <=> LooksAt(call[t], e)
        /\ ~ LooksAt(c, b) /\ LooksAt(call[t], b)
    BY <1>1, <1>2, <2>1 DEF LooksAt
  <2>9. Change(b, call[t], c, place[b], w) = 0
    BY <2>4, <2>5, <2>8, Counts DEF Change
  <2>10. RefsGo(freeListRefs', freeListRefs, b, call[t], c, place[b], w)
    BY <1>1, <1>3, <2>9, FreeListFacts DEF RefsGo
  <2>11. place[b].at \notin CallPlaces
    BY <2>5 DEF CallPlaces
  <2>12. ChainFits(freeListHead', freeListNext, place2, m)
    BY <2>2, <2>6
  <2>13. FreeListNow(place2, m)'
    BY <1>1, <1>3, <1>4, <2>1, <2>2, <2>3, <2>4, <2>7, <2>8, <2>10, <2>11, <2>12, CallMoves
  <2>14. SameElsewhere(place, place2)
    BY <2>4, <2>5 DEF SameElsewhere, Moves, Elsewhere, Places, CallPlaces
  <2> QED
    BY <2>13, <2>14
<1>6. CASE freeListHead # b
  <2> DEFINE c == [call[t] EXCEPT !.at = "release", !.next = 0, !.node = b, !.head = freeListHead]
  <2>0. 0 \in 0 .. MaxBlocks /\ b \in 0 .. MaxBlocks
    BY <1>3, FreeListAssumption DEF Blocks
  <2>1. c \in CallRecords /\ c.at = "release" /\ c.node = b
    BY <1>1, <2>0 DEF CallRecords, GetCallSteps
  <2>2. CallIs(t, c) /\ freeListHead' = freeListHead
    BY <1>2, <1>6 DEF TakeHead, CallIs
  <2> HIDE DEF c
  <2>3. CallFits(c, freeListNext)
    BY <1>3, <2>1, BlockNumbers DEF CallFits, AddSteps
  <2>4. \A e \in Blocks : LooksAt(c, e) <=> LooksAt(call[t], e)
    BY <1>1, <1>2, <2>1 DEF LooksAt
  <2>5. \A e \in Blocks, at \in CallPlaces : ~ Has(c, e, at)
    BY <2>1 DEF Has, CallPlaces
  <2>6. FreeListNow(place, n)'
    BY <1>1, <1>4, <2>1, <2>2, <2>3, <2>4, <2>5, QuietCall
  <2> QED
    BY <2>6 DEF SameElsewhere
<1> QED
  BY <1>5, <1>6

LEMMA TookKeeps ==
    ASSUME NEW place, NEW n, FreeListNow(place, n), NEW t \in Threads, Took(t)
    PROVE  \E place2, m : FreeListNow(place2, m)' /\ SameElsewhere(place, place2)
<1>1. /\ call \in [Threads -> CallRecords] /\ call[t].at = "took" /\ CallFits(call[t], freeListNext)
      /\ DOMAIN place = Blocks /\ freeListNext' = freeListNext /\ freeListHead' = freeListHead
      /\ freeListRefs \in [Blocks -> Nat]
  BY FreeListFacts DEF Took
<1>2. PICK b : b = call[t].head
  OBVIOUS
<1>3. b \in Blocks
  BY <1>1, <1>2, FreeListFacts, BlockNumbers DEF CallFits
<1>4. PICK c \in CallRecords : CallIs(t, c) /\ c.at = "got" /\ c.head = call[t].head
  BY <1>1, GotoCall DEF Took, CallSteps, GetCallSteps
<1>5. place[b].at = "took" /\ place[b].by = t
  BY <1>1, <1>2, <1>3, InHand DEF Has, CallPlaces
<1> DEFINE w == Spot("got", t, 0)
           place2 == [place EXCEPT ![b] = w]
<1>6. Moves(place2, place, b, w) /\ w.at = "got" /\ w.by = t
  BY <1>1, <1>3 DEF Moves, Spot
<1> HIDE DEF w, place2
<1>7. CallFits(c, freeListNext)
  BY <1>2, <1>3, <1>4, BlockNumbers DEF CallFits, AddSteps
<1>8. /\ \A d \in Blocks, at \in CallPlaces : Has(call[t], d, at) => d = b
      /\ \A d \in Blocks, at \in CallPlaces : Has(c, d, at) <=> d = b /\ w.at = at
  BY <1>1, <1>2, <1>4, <1>6 DEF Has, CallPlaces
<1>9. \A e \in Blocks : ~ LooksAt(c, e) /\ ~ LooksAt(call[t], e)
  BY <1>1, <1>4 DEF LooksAt
<1>10. Change(b, call[t], c, place[b], w) = -2
  BY <1>3, <1>5, <1>6, <1>9, Counts DEF Change
<1>11. RefsGo(freeListRefs', freeListRefs, b, call[t], c, place[b], w)
  <2>1. freeListRefs' = [freeListRefs EXCEPT ![b] = @ - 2] /\ freeListRefs[b] - 2 = freeListRefs[b] + (-2)
    BY <1>1, <1>2, <1>3 DEF Took
  <2> QED
    BY <1>10, <2>1 DEF RefsGo
<1>12. ChainFits(freeListHead', freeListNext, place2, n)
  <2>1. ChainFits(freeListHead, freeListNext, place, n)
    BY DEF FreeListNow, FreeListFits
  <2> QED
    BY <1>1, <1>3, <1>5, <1>6, <2>1, ChainSame
<1>13. FreeListNow(place2, n)'
  BY <1>1, <1>3, <1>4, <1>5, <1>6, <1>7, <1>8, <1>9, <1>11, <1>12, CallMoves
<1>14. SameElsewhere(place, place2)
  BY <1>5, <1>6 DEF SameElsewhere, Moves, Elsewhere, Places, CallPlaces
<1> QED
  BY <1>13, <1>14

LEMMA ReleaseKeeps ==
    ASSUME NEW place, NEW n, FreeListNow(place, n), NEW t \in Threads, Release(t)
    PROVE  \E place2, m : FreeListNow(place2, m)' /\ SameElsewhere(place, place2)
<1>1. /\ call \in [Threads -> CallRecords] /\ call[t].at = "release" /\ CallFits(call[t], freeListNext)
      /\ DOMAIN place = Blocks /\ freeListNext' = freeListNext /\ freeListHead' = freeListHead
      /\ freeListRefs \in [Blocks -> Nat] /\ call[t].head \in 0 .. MaxBlocks
  BY FreeListFacts DEF Release
<1>2. PICK b : b = call[t].node
  OBVIOUS
<1>3. b \in Blocks
  BY <1>1, <1>2, FreeListFacts, BlockNumbers DEF CallFits
<1>4. freeListRefs' = [freeListRefs EXCEPT ![b] = @ - 1]
  BY <1>2 DEF Release
<1>5. \A e \in Blocks : LooksAt(call[t], e) <=> e = b
  BY <1>1, <1>2 DEF LooksAt
<1>6. \A d \in Blocks, at \in CallPlaces : ~ Has(call[t], d, at)
  BY <1>1 DEF Has, CallPlaces
<1>7. ChainFits(freeListHead, freeListNext, place, n) /\ InCalls(call, place)
  BY DEF FreeListNow, FreeListFits
<1>8. Cardinality(Lookers(call, b)) > 0
  <2>1. PICK c : c = [call[t] EXCEPT !.at = "load"] /\ call[t] \in CallRecords
    BY <1>1
  <2>2. ~ LooksAt(c, b)
    BY <2>1 DEF LooksAt, CallRecords
  <2>3. PICK cs : cs = [call EXCEPT ![t] = c]
    OBVIOUS
  <2>4. Becomes(cs, call, t, c)
    BY <1>1, <2>3 DEF Becomes
  <2>5. Cardinality(Lookers(cs, b)) = Cardinality(Lookers(call, b)) + 0 - 1
    BY <1>3, <1>5, <2>2, <2>4, LookersChange
  <2> QED
    BY <2>5, LookersType
<1>9. CASE freeListRefs[b] = SHOULD_BE_ON_FREELIST + 1
  <2>1. Goto(t, "addLoad")
    BY <1>2, <1>9 DEF Release
  <2>2. PICK c \in CallRecords : CallIs(t, c) /\ c.at = "addLoad" /\ c.node = call[t].node
    BY <1>1, <2>1, GotoCall DEF CallSteps, GetCallSteps, AddSteps
  <2>3. place[b].at \in {"link", "owed"}
    <3>1. SUFFICES ASSUME place[b].at \notin {"link", "owed"}
                   PROVE  FALSE
      OBVIOUS
    <3>2. Extra(place[b].at) \in 0 .. 2
      BY <3>1 DEF Extra
    <3> QED
      BY <1>3, <1>9, <3>2, Counted, FlagIsHigh
  <2>4. place[b].at = "owed" /\ Cardinality(Lookers(call, b)) = 1
    BY <1>3, <1>8, <1>9, <2>3, Counted, Counts, FlagIsHigh
  <2> DEFINE w == Spot("link", t, 0)
             place2 == [place EXCEPT ![b] = w]
  <2>6. Moves(place2, place, b, w) /\ w.at = "link" /\ w.by = t
    BY <1>1, <1>3 DEF Moves, Spot
  <2> HIDE DEF w, place2
  <2>7. CallFits(c, freeListNext)
    BY <1>2, <1>3, <2>2, BlockNumbers DEF CallFits, AddSteps
  <2>8. \A d \in Blocks, at \in CallPlaces : Has(c, d, at) <=> d = b /\ w.at = at
    BY <1>2, <2>2, <2>6 DEF Has, CallPlaces
  <2>9. \A e \in Blocks : ~ LooksAt(c, e)
    BY <2>2 DEF LooksAt
  <2>10. Change(b, call[t], c, place[b], w) = -1
    BY <1>3, <1>5, <2>4, <2>6, <2>9, Counts, FlagIsHigh DEF Change
  <2>11. RefsGo(freeListRefs', freeListRefs, b, call[t], c, place[b], w)
    <3>1. freeListRefs[b] - 1 = freeListRefs[b] + (-1)
      BY <1>1, <1>3
    <3> QED
      BY <1>4, <2>10, <3>1 DEF RefsGo
  <2>12. ChainFits(freeListHead', freeListNext, place2, n)
    BY <1>1, <1>3, <1>7, <2>4, <2>6, ChainSame
  <2>13. Cardinality(Lookers(call', b)) = 0
    BY <1>3, <1>5, <2>2, <2>4, <2>9, LookersThen
  <2>14. /\ \A e \in Blocks \ {b} : LooksAt(c, e) <=> LooksAt(call[t], e)
         /\ place[b].at \notin CallPlaces
    BY <1>5, <2>4, <2>9 DEF CallPlaces
  <2>15. FreeListNow(place2, n)'
    BY <1>1, <1>3, <1>6, <2>2, <2>6, <2>7, <2>8, <2>11, <2>12, <2>13, <2>14, CallMoves
  <2>16. SameElsewhere(place, place2)
    BY <2>4, <2>6 DEF SameElsewhere, Moves, Elsewhere, Places, CallPlaces
  <2> QED
    BY <2>15, <2>16
<1>10. CASE freeListRefs[b] # SHOULD_BE_ON_FREELIST + 1
  <2>1. PICK h \in 0 .. MaxBlocks : h = call[t].head
    BY <1>1
  <2>2. TryHead(t, h)
    BY <1>2, <1>10, <2>1 DEF Release, TryHead
  <2>3. PICK c \in CallRecords : CallIs(t, c) /\ HeadCall(c, h)
    BY <1>1, <2>2, TryHeadCall
  <2>4. CallFits(c, freeListNext)
    BY <2>3 DEF HeadCall, CallFits, AddSteps
  <2>5. \A e \in Blocks : ~ LooksAt(c, e)
    BY <2>3 DEF LooksAt, HeadCall
  <2>6. \A e \in Blocks, at \in CallPlaces : ~ Has(c, e, at)
    BY <2>3 DEF Has, CallPlaces, HeadCall
  <2>7. place[b].at # "link"
    BY <1>3, <1>8, Counted
  <2>8. place[b].at = "owed" => Cardinality(Lookers(call', b)) > 0
    <3>1. SUFFICES ASSUME place[b].at = "owed"
                   PROVE  Cardinality(Lookers(call', b)) > 0
      OBVIOUS
    <3>2. Cardinality(Lookers(call, b)) # 1
      BY <1>3, <1>10, <3>1, Counted, Counts, FlagIsHigh
    <3> QED
      BY <1>3, <1>5, <1>8, <2>3, <2>5, <3>2, LookersThen
  <2>9. Moves(place, place, b, place[b])
    BY <1>1 DEF Moves
  <2>10. InCalls(call', place)
    <3>1. Becomes(call', call, t, c)
      BY <1>1, <2>3 DEF CallIs, Becomes
    <3> QED
      BY <1>6, <1>7, <2>6, <3>1, InCallsStay
  <2>11. RefsGo(freeListRefs', freeListRefs, b, call[t], c, place[b], place[b])
    <3>1. Extra(place[b].at) \in Nat
      BY FlagIsHigh DEF Extra
    <3>2. Change(b, call[t], c, place[b], place[b]) = -1
      BY <1>3, <1>5, <2>5, <3>1 DEF Change
    <3>3. freeListRefs[b] - 1 = freeListRefs[b] + (-1)
      BY <1>1, <1>3
    <3> QED
      BY <1>4, <3>2, <3>3 DEF RefsGo
  <2>12. /\ \A e \in Blocks \ {b} : LooksAt(c, e) <=> LooksAt(call[t], e)
         /\ ChainFits(freeListHead', freeListNext, place, n)
    BY <1>1, <1>5, <1>7, <2>5
  <2>13. FreeListNow(place, n)'
    BY <1>1, <1>3, <2>3, <2>4, <2>7, <2>8, <2>9, <2>10, <2>11, <2>12, CallGoes
  <2> QED
    BY <2>13 DEF SameElsewhere
<1> QED
  BY <1>9, <1>10

LEMMA FlagNodeKeeps ==
    ASSUME NEW place, NEW n, FreeListNow(place, n), NEW t \in Threads, FlagNode(t)
    PROVE  \E place2, m : FreeListNow(place2, m)' /\ SameElsewhere(place, place2)
<1>1. /\ call \in [Threads -> CallRecords] /\ call[t].at = "add" /\ CallFits(call[t], freeListNext)
      /\ DOMAIN place = Blocks /\ freeListNext' = freeListNext /\ freeListHead' = freeListHead
      /\ freeListRefs \in [Blocks -> Nat]
  BY FreeListFacts DEF FlagNode
<1>2. PICK b : b = call[t].node
  OBVIOUS
<1>3. b \in Blocks
  BY <1>1, <1>2, FreeListFacts, BlockNumbers DEF CallFits, AddSteps
<1>4. freeListRefs' = [freeListRefs EXCEPT ![b] = @ + SHOULD_BE_ON_FREELIST]
  BY <1>2 DEF FlagNode
<1>5. \A e \in Blocks : ~ LooksAt(call[t], e)
  BY <1>1 DEF LooksAt
<1>6. \A d \in Blocks, at \in CallPlaces : Has(call[t], d, at) => d = b
  BY <1>1, <1>2 DEF Has, CallPlaces
<1>7. ChainFits(freeListHead, freeListNext, place, n)
  BY DEF FreeListNow, FreeListFits
<1>8. place[b].at = "add" /\ place[b].by = t
  BY <1>1, <1>2, <1>3, InHand DEF Has, CallPlaces
<1>9. freeListRefs[b] = Cardinality(Lookers(call, b))
  BY <1>3, <1>8, Counted, Counts
<1>10. ASSUME NEW at, at \in {"link", "owed"}, NEW c \in CallRecords, CallIs(t, c), CallFits(c, freeListNext),
              \A e \in Blocks : ~ LooksAt(c, e),
              \A d \in Blocks, a \in CallPlaces : Has(c, d, a) <=> d = b /\ at = a,
              (at = "link") <=> (Cardinality(Lookers(call, b)) = 0)
       PROVE  \E place2, m : FreeListNow(place2, m)' /\ SameElsewhere(place, place2)
  <2> DEFINE w == Spot(at, t, 0)
             place2 == [place EXCEPT ![b] = w]
  <2>1. Moves(place2, place, b, w) /\ w.at = at /\ w.by = t
    BY <1>1, <1>3 DEF Moves, Spot
  <2> HIDE DEF w, place2
  <2>2. Cardinality(Lookers(call', b)) = Cardinality(Lookers(call, b))
    BY <1>3, <1>5, <1>10, LookersThen
  <2>3. /\ w.at = "owed" => Cardinality(Lookers(call', b)) > 0
        /\ w.at = "link" => Cardinality(Lookers(call', b)) = 0
    BY <1>10, <2>1, <2>2, LookersType
  <2>4. Change(b, call[t], c, place[b], w) = SHOULD_BE_ON_FREELIST
    BY <1>3, <1>5, <1>8, <1>10, <2>1, Counts, FlagIsHigh DEF Change
  <2>5. RefsGo(freeListRefs', freeListRefs, b, call[t], c, place[b], w)
    BY <1>4, <2>4 DEF RefsGo
  <2>6. ChainFits(freeListHead', freeListNext, place2, n)
    BY <1>1, <1>3, <1>7, <1>8, <1>10, <2>1, ChainSame
  <2>7. \A d \in Blocks, a \in CallPlaces : Has(c, d, a) <=> d = b /\ w.at = a
    BY <1>10, <2>1
  <2>8. FreeListNow(place2, n)'
    BY <1>1, <1>3, <1>5, <1>6, <1>8, <1>10, <2>1, <2>3, <2>5, <2>6, <2>7, CallMoves
  <2>9. SameElsewhere(place, place2)
    BY <1>8, <1>10, <2>1 DEF SameElsewhere, Moves, Elsewhere, Places, CallPlaces
  <2> QED
    BY <2>8, <2>9
<1>11. CASE freeListRefs[b] = 0
  <2>1. Goto(t, "addLoad")
    BY <1>2, <1>11 DEF FlagNode
  <2>2. PICK c \in CallRecords : CallIs(t, c) /\ c.at = "addLoad" /\ c.node = call[t].node
    BY <1>1, <2>1, GotoCall DEF CallSteps, GetCallSteps, AddSteps
  <2>3. CallFits(c, freeListNext)
    BY <1>2, <1>3, <2>2, BlockNumbers DEF CallFits, AddSteps
  <2>4. \A e \in Blocks : ~ LooksAt(c, e)
    BY <2>2 DEF LooksAt
  <2>5. \A d \in Blocks, a \in CallPlaces : Has(c, d, a) <=> d = b /\ "link" = a
    BY <1>2, <2>2 DEF Has, CallPlaces
  <2> QED
    BY <1>9, <1>10, <1>11, <2>2, <2>3, <2>4, <2>5
<1>12. CASE freeListRefs[b] # 0
  <2>1. Added(t)
    BY <1>2, <1>12 DEF FlagNode
  <2>2. PICK c \in CallRecords :
           CallIs(t, c) /\ c.at \in {"empty", "refs", "added"} /\ (c.at = "refs" => c.head # 0)
    BY <1>1, <2>1, AddedCall
  <2>3. CallFits(c, freeListNext)
    BY <2>2 DEF CallFits, AddSteps
  <2>4. \A e \in Blocks : ~ LooksAt(c, e)
    BY <2>2 DEF LooksAt
  <2>5. \A d \in Blocks, a \in CallPlaces : Has(c, d, a) <=> d = b /\ "owed" = a
    BY <2>2 DEF Has, CallPlaces
  <2> QED
    BY <1>9, <1>10, <1>12, <2>2, <2>3, <2>4, <2>5
<1> QED
  BY <1>11, <1>12

LEMMA AddRetryKeeps ==
    ASSUME NEW place, NEW n, FreeListNow(place, n), NEW t \in Threads, AddRetry(t)
    PROVE  \E place2, m : FreeListNow(place2, m)' /\ SameElsewhere(place, place2)
<1>1. /\ call \in [Threads -> CallRecords] /\ call[t].at = "addRetry" /\ CallFits(call[t], freeListNext)
      /\ DOMAIN place = Blocks /\ freeListNext' = freeListNext /\ freeListHead' = freeListHead
      /\ freeListRefs \in [Blocks -> Nat]
  BY FreeListFacts DEF AddRetry
<1>2. PICK b : b = call[t].node
  OBVIOUS
<1>3. b \in Blocks
  BY <1>1, <1>2, FreeListFacts, BlockNumbers DEF CallFits, AddSteps
<1>4. freeListRefs' = [freeListRefs EXCEPT ![b] = @ + SHOULD_BE_ON_FREELIST - 1]
  BY <1>2 DEF AddRetry
<1>5. \A e \in Blocks : ~ LooksAt(call[t], e)
  BY <1>1 DEF LooksAt
<1>6. \A d \in Blocks, at \in CallPlaces : Has(call[t], d, at) => d = b
  BY <1>1, <1>2 DEF Has, CallPlaces
<1>7. ChainFits(freeListHead, freeListNext, place, n)
  BY DEF FreeListNow, FreeListFits
<1>8. place[b].at = "push" /\ place[b].by = t
  BY <1>1, <1>2, <1>3, InHand DEF Has, CallPlaces
<1>9. freeListRefs[b] = Cardinality(Lookers(call, b)) + 1
  BY <1>3, <1>8, Counted, Counts
<1>10. ASSUME NEW at, at \in {"link", "owed"}, NEW c \in CallRecords, CallIs(t, c), CallFits(c, freeListNext),
              \A e \in Blocks : ~ LooksAt(c, e),
              \A d \in Blocks, a \in CallPlaces : Has(c, d, a) <=> d = b /\ at = a,
              (at = "link") <=> (Cardinality(Lookers(call, b)) = 0)
       PROVE  \E place2, m : FreeListNow(place2, m)' /\ SameElsewhere(place, place2)
  <2> DEFINE w == Spot(at, t, 0)
             place2 == [place EXCEPT ![b] = w]
  <2>1. Moves(place2, place, b, w) /\ w.at = at /\ w.by = t
    BY <1>1, <1>3 DEF Moves, Spot
  <2> HIDE DEF w, place2
  <2>2. Cardinality(Lookers(call', b)) = Cardinality(Lookers(call, b))
    BY <1>3, <1>5, <1>10, LookersThen
  <2>3. /\ w.at = "owed" => Cardinality(Lookers(call', b)) > 0
        /\ w.at = "link" => Cardinality(Lookers(call', b)) = 0
    BY <1>10, <2>1, <2>2, LookersType
  <2>4. Change(b, call[t], c, place[b], w) = SHOULD_BE_ON_FREELIST - 1
    BY <1>3, <1>5, <1>8, <1>10, <2>1, Counts, FlagIsHigh DEF Change
  <2>5. RefsGo(freeListRefs', freeListRefs, b, call[t], c, place[b], w)
    <3>1. freeListRefs[b] + SHOULD_BE_ON_FREELIST - 1 = freeListRefs[b] + (SHOULD_BE_ON_FREELIST - 1)
      BY <1>1, <1>3, FlagIsHigh
    <3> QED
      BY <1>4, <2>4, <3>1 DEF RefsGo
  <2>6. ChainFits(freeListHead', freeListNext, place2, n)
    BY <1>1, <1>3, <1>7, <1>8, <1>10, <2>1, ChainSame
  <2>7. \A d \in Blocks, a \in CallPlaces : Has(c, d, a) <=> d = b /\ w.at = a
    BY <1>10, <2>1
  <2>8. FreeListNow(place2, n)'
    BY <1>1, <1>3, <1>5, <1>6, <1>8, <1>10, <2>1, <2>3, <2>5, <2>6, <2>7, CallMoves
  <2>9. SameElsewhere(place, place2)
    BY <1>8, <1>10, <2>1 DEF SameElsewhere, Moves, Elsewhere, Places, CallPlaces
  <2> QED
    BY <2>8, <2>9
<1>11. CASE freeListRefs[b] = 1
  <2>1. Goto(t, "addLink")
    BY <1>2, <1>11 DEF AddRetry
  <2>2. PICK c \in CallRecords : CallIs(t, c) /\ c.at = "addLink" /\ c.node = call[t].node
    BY <1>1, <2>1, GotoCall DEF CallSteps, GetCallSteps, AddSteps
  <2>3. CallFits(c, freeListNext)
    BY <1>2, <1>3, <2>2, BlockNumbers DEF CallFits, AddSteps
  <2>4. \A e \in Blocks : ~ LooksAt(c, e)
    BY <2>2 DEF LooksAt
  <2>5. \A d \in Blocks, a \in CallPlaces : Has(c, d, a) <=> d = b /\ "link" = a
    BY <1>2, <2>2 DEF Has, CallPlaces
  <2>6. Cardinality(Lookers(call, b)) = 0
    BY <1>9, <1>11, LookersType
  <2> QED
    BY <1>10, <2>2, <2>3, <2>4, <2>5, <2>6
<1>12. CASE freeListRefs[b] # 1
  <2>1. Added(t)
    BY <1>2, <1>12 DEF AddRetry
  <2>2. PICK c \in CallRecords :
           CallIs(t, c) /\ c.at \in {"empty", "refs", "added"} /\ (c.at = "refs" => c.head # 0)
    BY <1>1, <2>1, AddedCall
  <2>3. CallFits(c, freeListNext)
    BY <2>2 DEF CallFits, AddSteps
  <2>4. \A e \in Blocks : ~ LooksAt(c, e)
    BY <2>2 DEF LooksAt
  <2>5. \A d \in Blocks, a \in CallPlaces : Has(c, d, a) <=> d = b /\ "owed" = a
    BY <2>2 DEF Has, CallPlaces
  <2>6. Cardinality(Lookers(call, b)) # 0
    BY <1>9, <1>12, LookersType
  <2> QED
    BY <1>10, <2>2, <2>3, <2>4, <2>5, <2>6
<1> QED
  BY <1>11, <1>12

LEMMA AddLinkKeeps ==
    ASSUME NEW place, NEW n, FreeListNow(place, n), NEW t \in Threads, AddLink(t)
    PROVE  FreeListNow(place, n)'
<1>1. /\ call \in [Threads -> CallRecords] /\ call[t].at = "addLink" /\ CallFits(call[t], freeListNext)
      /\ DOMAIN place = Blocks /\ freeListRefs' = freeListRefs /\ freeListHead' = freeListHead
      /\ freeListNext \in [Blocks -> 0 .. MaxBlocks] /\ call[t].next \in 0 .. MaxBlocks
  BY FreeListFacts DEF AddLink
<1>2. PICK b : b = call[t].node
  OBVIOUS
<1>3. b \in Blocks
  BY <1>1, <1>2, FreeListFacts, BlockNumbers DEF CallFits, AddSteps
<1>4. PICK x : x = call[t].next
  OBVIOUS
<1>5. freeListNext' = [freeListNext EXCEPT ![b] = x]
  BY <1>2, <1>4 DEF AddLink
<1>6. /\ freeListNext'[b] = x /\ \A d \in Blocks : d # b => freeListNext'[d] = freeListNext[d]
  BY <1>1, <1>3, <1>5
<1>7. PICK c \in CallRecords : CallIs(t, c) /\ c.at = "addCount" /\ c.node = b /\ c.next = x
  BY <1>1, <1>2, <1>4, GotoCall DEF AddLink, CallSteps, GetCallSteps, AddSteps
<1>8. place[b].at = "link" /\ place[b].by = t
  BY <1>1, <1>2, <1>3, InHand DEF Has, CallPlaces
<1>9. Becomes(call', call, t, c) /\ call' = [call EXCEPT ![t] = c]
  BY <1>1, <1>7 DEF CallIs, Becomes
<1>10. /\ CallsFit(call, freeListNext) /\ RefsFit(freeListRefs, call, place)
       /\ InCalls(call, place) /\ ChainFits(freeListHead, freeListNext, place, n)
  BY DEF FreeListNow, FreeListFits
<1>11. CallFits(c, freeListNext')
  BY <1>3, <1>6, <1>7, BlockNumbers DEF CallFits, AddSteps
<1>12. ASSUME NEW s \in Threads \ {t}
       PROVE  CallFits(call[s], freeListNext')
  <2>1. CallFits(call[s], freeListNext)
    BY <1>10 DEF CallsFit
  <2>2. ~ LooksAt(call[s], b)
    <3>1. Cardinality(Lookers(call, b)) = 0
      BY <1>3, <1>8, Counted
    <3>2. Lookers(call, b) = {}
      BY <3>1, LookersType, FS_EmptySet
    <3> QED
      BY <3>2 DEF Lookers
  <2>3. \A at \in CallPlaces : ~ Has(call[s], b, at)
    BY <1>3, <1>8, <1>10 DEF InCalls
  <2>4. call[s].at = "take" => call[s].head \in Blocks /\ call[s].head # b
    BY <2>1, <2>2, FreeListFacts, BlockNumbers DEF CallFits, LooksAt
  <2>5. call[s].at \in {"addCount", "addPush"} => call[s].node \in Blocks /\ call[s].node # b
    BY <2>1, <2>3, FreeListFacts, BlockNumbers DEF CallFits, Has, CallPlaces, AddSteps
  <2> QED
    BY <1>6, <2>1, <2>4, <2>5 DEF CallFits
<1>13. CallsFit(call', freeListNext')
  BY <1>9, <1>10, <1>11, <1>12, CallsChange
<1>14. RefsFit(freeListRefs', call', place)
  <2>1. \A e \in Blocks : ~ LooksAt(c, e) /\ ~ LooksAt(call[t], e)
    BY <1>1, <1>7 DEF LooksAt
  <2>2. \A e \in Blocks : Cardinality(Lookers(call', e)) = Cardinality(Lookers(call, e))
    BY <1>7, <2>1, LookersThen
  <2> QED
    BY <1>1, <1>10, <2>2 DEF RefsFit
<1>15. InCalls(call', place)
  <2>1. \A d \in Blocks, at \in CallPlaces : Has(c, d, at) <=> Has(call[t], d, at)
    BY <1>1, <1>2, <1>7 DEF Has, CallPlaces
  <2> QED
    BY <1>9, <1>10, <2>1, InCallsStay
<1>16. ChainFits(freeListHead', freeListNext', place, n)
  BY <1>1, <1>3, <1>4, <1>5, <1>8, <1>10, ChainLinks
<1> QED
  BY <1>13, <1>14, <1>15, <1>16 DEF FreeListNow, FreeListFits

LEMMA AddCountKeeps ==
    ASSUME NEW place, NEW n, FreeListNow(place, n), NEW t \in Threads, AddCount(t)
    PROVE  \E place2, m : FreeListNow(place2, m)' /\ SameElsewhere(place, place2)
<1>1. /\ call \in [Threads -> CallRecords] /\ call[t].at = "addCount" /\ CallFits(call[t], freeListNext)
      /\ DOMAIN place = Blocks /\ freeListNext' = freeListNext /\ freeListHead' = freeListHead
      /\ freeListRefs \in [Blocks -> Nat]
  BY FreeListFacts DEF AddCount
<1>2. PICK b : b = call[t].node
  OBVIOUS
<1>3. b \in Blocks
  BY <1>1, <1>2, FreeListFacts, BlockNumbers DEF CallFits, AddSteps
<1>4. PICK c \in CallRecords :
         CallIs(t, c) /\ c.at = "addPush" /\ c.node = call[t].node /\ c.next = call[t].next
  BY <1>1, GotoCall DEF AddCount, CallSteps, GetCallSteps, AddSteps
<1>5. place[b].at = "link" /\ place[b].by = t
  BY <1>1, <1>2, <1>3, InHand DEF Has, CallPlaces
<1> DEFINE w == Spot("push", t, 0)
           place2 == [place EXCEPT ![b] = w]
<1>6. Moves(place2, place, b, w) /\ w.at = "push" /\ w.by = t
  BY <1>1, <1>3 DEF Moves, Spot
<1> HIDE DEF w, place2
<1>7. CallFits(c, freeListNext)
  BY <1>1, <1>2, <1>3, <1>4, BlockNumbers DEF CallFits, AddSteps
<1>8. /\ \A d \in Blocks, at \in CallPlaces : Has(call[t], d, at) => d = b
      /\ \A d \in Blocks, at \in CallPlaces : Has(c, d, at) <=> d = b /\ w.at = at
  BY <1>1, <1>2, <1>4, <1>6 DEF Has, CallPlaces
<1>9. \A e \in Blocks : ~ LooksAt(c, e) /\ ~ LooksAt(call[t], e)
  BY <1>1, <1>4 DEF LooksAt
<1>10. Change(b, call[t], c, place[b], w) = 1 - SHOULD_BE_ON_FREELIST
  BY <1>3, <1>5, <1>6, <1>9, Counts, FlagIsHigh DEF Change
<1>11. RefsGo(freeListRefs', freeListRefs, b, call[t], c, place[b], w)
  <2>1. freeListRefs' = [freeListRefs EXCEPT ![b] = 1]
    BY <1>2 DEF AddCount
  <2>2. freeListRefs[b] = SHOULD_BE_ON_FREELIST
    BY <1>3, <1>5, Counted, Counts, FlagIsHigh
  <2>3. freeListRefs[b] + (1 - SHOULD_BE_ON_FREELIST) = 1
    BY <2>2, FlagIsHigh
  <2> QED
    BY <1>10, <2>1, <2>3 DEF RefsGo
<1>12. ChainFits(freeListHead', freeListNext, place2, n)
  <2>1. ChainFits(freeListHead, freeListNext, place, n)
    BY DEF FreeListNow, FreeListFits
  <2> QED
    BY <1>1, <1>3, <1>5, <1>6, <2>1, ChainSame
<1>13. FreeListNow(place2, n)'
  BY <1>1, <1>3, <1>4, <1>5, <1>6, <1>7, <1>8, <1>9, <1>11, <1>12, CallMoves
<1>14. SameElsewhere(place, place2)
  BY <1>5, <1>6 DEF SameElsewhere, Moves, Elsewhere, Places, CallPlaces
<1> QED
  BY <1>13, <1>14

LEMMA AddPushKeeps ==
    ASSUME NEW place, NEW n, FreeListNow(place, n), NEW t \in Threads, AddPush(t)
    PROVE  \E place2, m : FreeListNow(place2, m)' /\ SameElsewhere(place, place2)
<1>1. /\ call \in [Threads -> CallRecords] /\ call[t].at = "addPush" /\ CallFits(call[t], freeListNext)
      /\ call[t] \in CallRecords
      /\ DOMAIN place = Blocks /\ freeListNext' = freeListNext /\ freeListRefs' = freeListRefs
      /\ freeListRefs \in [Blocks -> Nat] /\ freeListHead \in 0 .. MaxBlocks
  BY FreeListFacts DEF AddPush
<1>2. PICK b : b = call[t].node
  OBVIOUS
<1>3. b \in Blocks
  BY <1>1, <1>2, FreeListFacts, BlockNumbers DEF CallFits, AddSteps
<1>4. \A e \in Blocks : ~ LooksAt(call[t], e)
  BY <1>1 DEF LooksAt
<1>5. place[b].at = "push" /\ place[b].by = t
  BY <1>1, <1>2, <1>3, InHand DEF Has, CallPlaces
<1>6. ChainFits(freeListHead, freeListNext, place, n)
  BY DEF FreeListNow, FreeListFits
<1>7. CASE freeListHead = call[t].next
  <2>1. freeListHead' = b /\ Added(t) /\ freeListNext[b] = freeListHead
    BY <1>1, <1>2, <1>7 DEF AddPush, CallFits
  <2>2. PICK c \in CallRecords :
           CallIs(t, c) /\ c.at \in {"empty", "refs", "added"} /\ (c.at = "refs" => c.head # 0)
    BY <1>1, <2>1, AddedCall
  <2>3. CallFits(c, freeListNext)
    BY <2>2 DEF CallFits, AddSteps
  <2>4. \A e \in Blocks : ~ LooksAt(c, e)
    BY <2>2 DEF LooksAt
  <2> DEFINE w == Spot("list", t, n + 1)
             place2 == [place EXCEPT ![b] = w]
  <2>5. Moves(place2, place, b, w) /\ w.at = "list" /\ w.by = t /\ w.num = n + 1
    BY <1>1, <1>3 DEF Moves, Spot
  <2> HIDE DEF w, place2
  <2>6. /\ \A d \in Blocks, at \in CallPlaces : Has(call[t], d, at) => d = b
        /\ \A d \in Blocks, at \in CallPlaces : Has(c, d, at) <=> d = b /\ w.at = at
    BY <1>1, <1>2, <2>2, <2>5 DEF Has, CallPlaces
  <2>7. PICK m : ChainFits(b, freeListNext, place2, m)
    BY <1>3, <1>5, <1>6, <2>1, <2>5, ChainPushes
  <2>8. ChainFits(freeListHead', freeListNext, place2, m)
    BY <2>1, <2>7
  <2>9. Change(b, call[t], c, place[b], w) = 0
    BY <1>3, <1>4, <1>5, <2>4, <2>5, Counts DEF Change
  <2>10. RefsGo(freeListRefs', freeListRefs, b, call[t], c, place[b], w)
    BY <1>1, <1>3, <2>9 DEF RefsGo
  <2>11. FreeListNow(place2, m)'
    BY <1>1, <1>3, <1>4, <1>5, <2>2, <2>3, <2>4, <2>5, <2>6, <2>8, <2>10, CallMoves
  <2>12. SameElsewhere(place, place2)
    BY <1>5, <2>5 DEF SameElsewhere, Moves, Elsewhere, Places, CallPlaces
  <2> QED
    BY <2>11, <2>12
<1>8. CASE freeListHead # call[t].next
  <2> DEFINE c == [call[t] EXCEPT !.at = "addRetry", !.next = freeListHead]
  <2>1. c \in CallRecords /\ c.at = "addRetry" /\ c.node = call[t].node
    BY <1>1 DEF CallRecords, GetCallSteps, AddSteps
  <2>2. CallIs(t, c) /\ freeListHead' = freeListHead
    BY <1>8 DEF AddPush, CallIs
  <2> HIDE DEF c
  <2>3. CallFits(c, freeListNext)
    BY <1>2, <1>3, <2>1, BlockNumbers DEF CallFits, AddSteps
  <2>4. \A e \in Blocks : ~ LooksAt(c, e)
    BY <2>1 DEF LooksAt
  <2>5. \A d \in Blocks, at \in CallPlaces : Has(c, d, at) <=> Has(call[t], d, at)
    BY <1>1, <2>1 DEF Has, CallPlaces
  <2>6. FreeListNow(place, n)'
    BY <1>1, <1>4, <2>1, <2>2, <2>3, <2>4, <2>5, QuietCall
  <2> QED
    BY <2>6 DEF SameElsewhere
<1> QED
  BY <1>7, <1>8

LEMMA ListStepKeeps ==
    ASSUME NEW place, NEW n, FreeListNow(place, n), NEW t \in Threads, FreeListStep(t)
    PROVE  \E place2, m : FreeListNow(place2, m)' /\ SameElsewhere(place, place2)
<1>1. SameElsewhere(place, place)
  BY DEF SameElsewhere
<1>2. CASE LoadHead(t)
  BY <1>1, <1>2, LoadHeadKeeps
<1>3. CASE Reference(t)
  BY <1>1, <1>3, ReferenceKeeps
<1>4. CASE LoadNext(t)
  BY <1>1, <1>4, LoadNextKeeps
<1>5. CASE TakeHead(t)
  BY <1>5, TakeHeadKeeps
<1>6. CASE Took(t)
  BY <1>6, TookKeeps
<1>7. CASE Release(t)
  BY <1>7, ReleaseKeeps
<1>8. CASE FlagNode(t)
  BY <1>8, FlagNodeKeeps
<1>9. CASE AddLoad(t)
  BY <1>1, <1>9, AddLoadKeeps
<1>10. CASE AddLink(t)
  BY <1>1, <1>10, AddLinkKeeps
<1>11. CASE AddCount(t)
  BY <1>11, AddCountKeeps
<1>12. CASE AddPush(t)
  BY <1>12, AddPushKeeps
<1>13. CASE AddRetry(t)
  BY <1>13, AddRetryKeeps
<1> QED
  BY <1>2, <1>3, <1>4, <1>5, <1>6, <1>7, <1>8, <1>9, <1>10, <1>11, <1>12, <1>13 DEF FreeListStep

-----------------------------------------------------------------------------
(* Quotients and remainders                                                *)

LEMMA DivMod ==
    ASSUME NEW m \in Nat \ {0}, NEW i \in Int
    PROVE  /\ i \div m \in Int /\ i % m \in 0 .. m - 1 /\ i = m * (i \div m) + (i % m)
           /\ i >= 0 => i \div m \in Nat
<1>1. i \div m \in Int /\ i % m \in 0 .. m - 1 /\ i = m * (i \div m) + (i % m)
  OBVIOUS
<1>2. i >= 0 => i \div m \in Nat
  <2>1. SUFFICES ASSUME i >= 0, i \div m < 0
                 PROVE  FALSE
    BY <1>1
  <2>2. PICK q \in Int : q = i \div m
    BY <1>1
  <2>3. q <= -1 /\ i = m * q + (i % m)
    BY <1>1, <2>1, <2>2
  <2>4. m * q <= m * (-1)
    BY <2>3
  <2> QED
    BY <1>1, <2>1, <2>3, <2>4
<1> QED
  BY <1>1, <1>2

LEMMA Quotient ==
    ASSUME NEW m \in Nat \ {0}, NEW q \in Int, NEW r \in 0 .. m - 1
    PROVE  (m * q + r) \div m = q /\ (m * q + r) % m = r
<1>1. PICK i \in Int : i = m * q + r
  OBVIOUS
<1>2. i % m = r
  BY <1>1, Remainder
<1>3. i \div m \in Int /\ i = m * (i \div m) + (i % m)
  BY DivMod
<1>4. PICK d \in Int : d = i \div m
  BY <1>3
<1>5. m * d = m * q
  BY <1>1, <1>2, <1>3, <1>4
<1>6. d = q
  <2>1. CASE d > q
    <3>1. m * d >= m * (q + 1)
      BY <2>1
    <3> QED
      BY <1>5, <3>1
  <2>2. CASE d < q
    <3>1. m * q >= m * (d + 1)
      BY <2>2
    <3> QED
      BY <1>5, <3>1
  <2> QED
    BY <2>1, <2>2
<1> QED
  BY <1>1, <1>2, <1>4, <1>6

\* A remainder may be taken early.
LEMMA RemainderSum ==
    ASSUME NEW m \in Nat \ {0}, NEW i \in Int, NEW j \in Int
    PROVE  ((i % m) + j) % m = (i + j) % m
<1>1. i \div m \in Int /\ i % m \in 0 .. m - 1 /\ i = m * (i \div m) + (i % m)
  BY DivMod
<1>2. PICK k \in Int : k = (i % m) + j
  BY <1>1
<1>3. k \div m \in Int /\ k % m \in 0 .. m - 1 /\ k = m * (k \div m) + (k % m)
  BY DivMod
<1>4. PICK a \in Int, b \in Int, r \in 0 .. m - 1 : a = i \div m /\ b = k \div m /\ r = k % m
  BY <1>1, <1>3
<1>5. i + j = m * a + k /\ k = m * b + r
  BY <1>1, <1>2, <1>3, <1>4
<1>6. m * a + m * b = m * (a + b)
  OBVIOUS
<1>7. i + j = m * (a + b) + r
  BY <1>5, <1>6
<1>8. (m * (a + b) + r) % m = r
  BY Remainder
<1> QED
  BY <1>2, <1>4, <1>7, <1>8

\* Less than m apart, the remainders differ.
LEMMA RemaindersDiffer ==
    ASSUME NEW m \in Nat \ {0}, NEW i \in Int, NEW j \in Int, i < j, j - i < m
    PROVE  i % m # j % m
<1>1. SUFFICES ASSUME i % m = j % m
               PROVE  FALSE
  OBVIOUS
<1>6. i = m * (i \div m) + (i % m) /\ j = m * (j \div m) + (j % m)
      /\ i \div m \in Int /\ j \div m \in Int /\ i % m \in 0 .. m - 1
  BY DivMod
<1>2. PICK a \in Int, b \in Int, r \in 0 .. m - 1 : i = m * a + r /\ j = m * b + r
  BY <1>1, <1>6
<1>3. j - i = m * b - m * a
  BY <1>2
<1>4. b > a
  <2>1. SUFFICES ASSUME b <= a
                 PROVE  FALSE
    BY <1>2
  <2>2. m * b <= m * a
    BY <2>1
  <2> QED
    BY <1>3, <2>2
<1>5. m * b >= m * (a + 1) /\ m * (a + 1) = m * a + m
  BY <1>4
<1> QED
  BY <1>3, <1>5

LEMMA RemainderDifference ==
    ASSUME NEW m \in Nat \ {0}, NEW i \in Int, NEW j \in Int
    PROVE  (j - (i % m)) % m = (j - i) % m
<1>1. i \div m \in Int /\ i % m \in 0 .. m - 1 /\ i = m * (i \div m) + (i % m)
  BY DivMod
<1>2. PICK q \in Int, r \in Int : q = i \div m /\ r = i % m /\ i = m * q + r
  BY <1>1
<1>3. PICK d \in Int : d = j - i
  OBVIOUS
<1>4. d \div m \in Int /\ d % m \in 0 .. m - 1 /\ d = m * (d \div m) + (d % m)
  BY DivMod
<1>5. PICK s \in Int, u \in 0 .. m - 1 : d = m * s + u /\ u = d % m
  BY <1>4
<1>6. m * s + m * q = m * (s + q)
  OBVIOUS
<1>7. j - r = m * (s + q) + u
  <2>1. PICK a \in Int, b \in Int : a = m * s /\ b = m * q
    OBVIOUS
  <2>2. d = a + u /\ i = b + r /\ j - i = d
    BY <1>2, <1>3, <1>5, <2>1
  <2>3. j - r = (a + b) + u
    BY <2>2
  <2> QED
    BY <1>6, <2>1, <2>3
<1>8. (m * (s + q) + u) % m = u
  BY Remainder
<1> QED
  BY <1>2, <1>3, <1>5, <1>7, <1>8

LEMMA RemainderKeeps ==
    ASSUME NEW m \in Nat \ {0}, NEW i \in 0 .. m - 1
    PROVE  i % m = i /\ i \div m = 0
<1>1. (m * 0 + i) % m = i /\ (m * 0 + i) \div m = 0
  BY Quotient
<1>2. m * 0 + i = i
  OBVIOUS
<1> QED
  BY <1>1, <1>2

LEMMA DividesTwice ==
    ASSUME NEW m \in Nat \ {0}, NEW k \in Nat \ {0}, NEW i \in Int, k % m = 0
    PROVE  (i % k) % m = i % m
<1>1. PICK q \in Int : i = k * q + (i % k)
  BY DivMod
<1>2. PICK r \in Int : r = i % k
  BY DivMod
<1>3. PICK a \in Int : k = m * a
  BY DivMod
<1>4. PICK b \in Int, s \in 0 .. m - 1 : r = m * b + s /\ s = r % m
  BY DivMod
<1>5. k * q = m * (a * q) /\ a * q \in Int
  BY <1>3
<1>6. PICK c \in Int : c = a * q
  BY <1>5
<1>7. i = m * c + r /\ m * c + (m * b + s) = m * (c + b) + s
  BY <1>1, <1>2, <1>5, <1>6
<1>8. i = m * (c + b) + s
  BY <1>4, <1>7
<1>9. (m * (c + b) + s) % m = s
  BY Remainder
<1> QED
  BY <1>2, <1>4, <1>8, <1>9

-----------------------------------------------------------------------------
(* Positions and blocks                                                    *)

\* The blocks that the indices have room for, and the key of the j-th block of a producer.
Room == IndexRange \div BLOCK_SIZE
KeyOf(j) == Wrap(Start + (j * BLOCK_SIZE))

LEMMA Sizes ==
    /\ BLOCK_SIZE \in Nat \ {0} /\ BLOCK_SIZE > 1 /\ IndexRange \in Nat \ {0} /\ Start \in Nat
    /\ Room \in Nat \ {0} /\ IndexRange = Room * BLOCK_SIZE
    /\ IndexRange % BLOCK_SIZE = 0 /\ Start % BLOCK_SIZE = 0
<1>1. /\ BLOCK_SIZE \in Nat \ {0} /\ BLOCK_SIZE > 1 /\ IndexRange \in Nat \ {0} /\ Start \in Nat
      /\ IndexRange % BLOCK_SIZE = 0 /\ Start % BLOCK_SIZE = 0
  BY QueueAssumption
<1>2. IndexRange = BLOCK_SIZE * (IndexRange \div BLOCK_SIZE) + (IndexRange % BLOCK_SIZE)
      /\ IndexRange \div BLOCK_SIZE \in Nat
  BY <1>1, DivMod
<1>3. PICK r \in Nat : r = Room
  BY <1>2 DEF Room
<1>4. IndexRange = BLOCK_SIZE * r
  BY <1>1, <1>2, <1>3 DEF Room
<1>5. BLOCK_SIZE * r = r * BLOCK_SIZE /\ r # 0
  BY <1>1, <1>4
<1> QED
  BY <1>1, <1>3, <1>4, <1>5

LEMMA WrapFacts ==
    ASSUME NEW i \in Int, NEW j \in Int
    PROVE  /\ Wrap(i) \in 0 .. IndexRange - 1
           /\ Wrap(Wrap(i) + j) = Wrap(i + j)
           /\ Wrap(j + Wrap(i)) = Wrap(i + j)
           /\ Wrap(j - Wrap(i)) = Wrap(j - i)
           /\ i \in 0 .. IndexRange - 1 => Wrap(i) = i
<1>1. IndexRange \in Nat \ {0}
  BY Sizes
<1>2. Wrap(i) \in 0 .. IndexRange - 1
  BY WrapType
<1>3. Wrap(Wrap(i) + j) = Wrap(i + j)
  BY <1>1, RemainderSum DEF Wrap
<1>4. j + Wrap(i) = Wrap(i) + j
  BY <1>1, <1>2
<1>5. Wrap(j - Wrap(i)) = Wrap(j - i)
  BY <1>1, RemainderDifference DEF Wrap
<1>6. i \in 0 .. IndexRange - 1 => Wrap(i) = i
  BY <1>1, RemainderKeeps DEF Wrap
<1> QED
  BY <1>2, <1>3, <1>4, <1>5, <1>6

\* The position in its block of the element after the first i ones.
LEMMA SlotIs ==
    ASSUME NEW i \in Int
    PROVE  Slot(Wrap(Start + i)) = i % BLOCK_SIZE
<1>1. Slot(Wrap(Start + i)) = (Start + i) % BLOCK_SIZE
  <2>1. Start + i \in Int
    BY Sizes
  <2> QED
    BY <2>1, Sizes, DividesTwice DEF Slot, Wrap
<1>2. PICK s \in Int : s = Start
  BY Sizes
<1>3. PICK m \in Nat \ {0} : m = BLOCK_SIZE
  BY Sizes
<1>4. ((s % m) + i) % m = (s + i) % m
  BY RemainderSum
<1>5. (s % m) + i = i
  BY <1>2, <1>3, Sizes
<1> QED
  BY <1>1, <1>2, <1>3, <1>4, <1>5

LEMMA KeyFacts ==
    ASSUME NEW j \in Int
    PROVE  KeyOf(j) \in Nat /\ KeyOf(j) # INVALID_BLOCK_BASE
<1>1. BLOCK_SIZE \in Nat \ {0} /\ BLOCK_SIZE > 1
  BY Sizes
<1>2. PICK i \in Int : i = j * BLOCK_SIZE
  BY <1>1
<1>3. i = BLOCK_SIZE * j + 0
  BY <1>1, <1>2
<1>4. i % BLOCK_SIZE = 0
  BY <1>1, <1>3, Remainder
<1>5. KeyOf(j) = Wrap(Start + i) /\ Start + i \in Int
  BY <1>2, Sizes DEF KeyOf
<1>6. KeyOf(j) \in Nat
  BY <1>5, WrapFacts, Sizes
<1>7. KeyOf(j) % BLOCK_SIZE = 0
  BY <1>4, <1>5, SlotIs DEF Slot
<1>8. 1 % BLOCK_SIZE = 1
  <2>1. (BLOCK_SIZE * 0 + 1) % BLOCK_SIZE = 1
    BY <1>1, Remainder
  <2> QED
    BY <1>1, <2>1
<1> QED
  BY <1>6, <1>7, <1>8 DEF INVALID_BLOCK_BASE

LEMMA BlockDistance ==
    ASSUME NEW x \in Int
    PROVE  Wrap(x * BLOCK_SIZE) \div BLOCK_SIZE = x % Room
<1>1. BLOCK_SIZE \in Nat \ {0} /\ Room \in Nat \ {0} /\ IndexRange = Room * BLOCK_SIZE /\ IndexRange \in Nat \ {0}
  BY Sizes
<1>2. x \div Room \in Int /\ x % Room \in 0 .. Room - 1 /\ x = Room * (x \div Room) + (x % Room)
  BY <1>1, DivMod
<1>3. PICK q \in Int, r \in 0 .. Room - 1 : x = Room * q + r /\ r = x % Room
  BY <1>2
<1>4. x * BLOCK_SIZE = IndexRange * q + r * BLOCK_SIZE
  <2>1. PICK k \in Int : k = Room * q
    BY <1>1
  <2>2. (k + r) * BLOCK_SIZE = k * BLOCK_SIZE + r * BLOCK_SIZE
    BY <1>1, <2>1
  <2>3. k * BLOCK_SIZE = (Room * BLOCK_SIZE) * q
    BY <1>1, <2>1
  <2> QED
    BY <1>1, <1>3, <2>1, <2>2, <2>3
<1>5. r * BLOCK_SIZE \in 0 .. IndexRange - 1
  <2>1. r * BLOCK_SIZE <= (Room - 1) * BLOCK_SIZE
    BY <1>1
  <2>2. (Room - 1) * BLOCK_SIZE = Room * BLOCK_SIZE - BLOCK_SIZE
    BY <1>1
  <2>3. r * BLOCK_SIZE \in Nat
    BY <1>1
  <2> QED
    BY <1>1, <2>1, <2>2, <2>3
<1>6. Wrap(x * BLOCK_SIZE) = r * BLOCK_SIZE
  <2>1. PICK k \in 0 .. IndexRange - 1 : k = r * BLOCK_SIZE
    BY <1>5
  <2>2. PICK m \in Nat \ {0} : m = IndexRange
    BY <1>1
  <2>3. (m * q + k) % m = k
    BY <2>1, <2>2, Remainder
  <2> QED
    BY <1>4, <2>1, <2>2, <2>3 DEF Wrap
<1>7. r * BLOCK_SIZE = BLOCK_SIZE * r + 0
  BY <1>1
<1>8. (BLOCK_SIZE * r + 0) \div BLOCK_SIZE = r
  BY <1>1, Quotient
<1> QED
  BY <1>3, <1>6, <1>7, <1>8

\* get_block_index_index_for_index finds the entry of the element's block.
LEMMA Located ==
    ASSUME NEW n \in Nat \ {0}, Room % n = 0, NEW o \in Int, NEW last \in Int, NEW i \in Nat
    PROVE  (((o + last) % n) + (Wrap(Base(Wrap(Start + i)) - KeyOf(last)) \div BLOCK_SIZE)) % n
             = (o + (i \div BLOCK_SIZE)) % n
<1>1. BLOCK_SIZE \in Nat \ {0} /\ Room \in Nat \ {0} /\ Start \in Nat
  BY Sizes
<1>2. PICK B \in Nat \ {0} : B = BLOCK_SIZE
  BY <1>1
<1>3. PICK j \in Nat, s \in Nat : j = i \div B /\ s = i % B /\ i = B * j + s
  <2>1. i \div B \in Nat /\ i % B \in 0 .. B - 1 /\ i = B * (i \div B) + (i % B)
    BY DivMod
  <2> QED
    BY <2>1
<1>4. Start + i \in Int /\ Wrap(Start + i) \in Int
  BY <1>1, WrapType
<1>5. Base(Wrap(Start + i)) = Wrap(Start + i) - s
  BY <1>2, <1>3, SlotIs DEF Base, Slot
<1>6. PICK a \in Int : a = last * BLOCK_SIZE
  BY <1>1
<1>7. PICK d \in Int : d = (Wrap(Start + i) - s) - KeyOf(last)
  BY <1>3, <1>4, KeyFacts
<1>8. Wrap(d) = Wrap((j - last) * BLOCK_SIZE)
  <2>1. KeyOf(last) = Wrap(Start + a) /\ Start + a \in Int
    BY <1>1, <1>6 DEF KeyOf
  <2>2. Wrap(d) = Wrap((Wrap(Start + i) - s) - (Start + a))
    <3>1. Wrap(Start + i) - s \in Int
      BY <1>3, <1>4
    <3> QED
      BY <1>7, <2>1, <3>1, WrapFacts
  <2>3. (Wrap(Start + i) - s) - (Start + a) = Wrap(Start + i) + ((0 - s) - (Start + a))
    BY <1>1, <1>4
  <2>4. PICK e \in Int : e = (0 - s) - (Start + a)
    BY <1>3, <2>1
  <2>5. Wrap(d) = Wrap((Start + i) + e)
    BY <1>4, <2>2, <2>3, <2>4, WrapFacts
  <2>6. (Start + i) + e = (B * j) - a
    BY <1>1, <1>3, <2>4
  <2>7. (B * j) - a = (j - last) * BLOCK_SIZE
    BY <1>2, <1>6
  <2> QED
    BY <2>5, <2>6, <2>7
<1>9. Wrap(d) \div BLOCK_SIZE = (j - last) % Room
  BY <1>8, BlockDistance
<1>10. PICK x \in Int : x = j - last
  OBVIOUS
<1>11. PICK y \in Int : y = x % Room
  <2>1. PICK R \in Nat \ {0} : R = Room
    BY <1>1
  <2> QED
    BY <2>1, DivMod
<1>12. y % n = x % n
  <2>1. PICK R \in Nat \ {0} : R = Room
    BY <1>1
  <2>2. R % n = 0
    BY <2>1
  <2>3. (x % R) % n = x % n
    BY <2>2, DividesTwice
  <2> QED
    BY <1>11, <2>1, <2>3
<1>13. (((o + last) % n) + y) % n = (o + j) % n
  <2>0. PICK z \in Int : z = o + last
    OBVIOUS
  <2>1. ((z % n) + y) % n = (z + y) % n
    BY RemainderSum
  <2>3. ((y % n) + z) % n = (y + z) % n
    BY RemainderSum
  <2>4. ((x % n) + z) % n = (x + z) % n
    BY RemainderSum
  <2>5. y + z = z + y /\ x + z = o + j
    BY <1>10, <2>0
  <2> QED
    BY <1>12, <2>0, <2>1, <2>3, <2>4, <2>5
<1> QED
  BY <1>2, <1>3, <1>5, <1>7, <1>9, <1>10, <1>11, <1>13

-----------------------------------------------------------------------------
(* The block index of one producer                                         *)

EntryRecords == [key : Nat, value : 0 .. MaxBlocks]

\* The entry of the k-th block, when the entry of the last one is at position tail of the ring.
EntryFrom(ix, tail, last, k) == ix[((tail + (k - last)) % Len(ix)) + 1]

RingShape(ix, es) ==
    /\ ix \in Seq(Nat) /\ es \in Seq(EntryRecords)
    /\ Len(ix) # 0 /\ Len(es) = Len(ix) /\ Room % Len(ix) = 0
    /\ \A i \in 1 .. Len(ix) : ix[i] \in 1 .. Len(ix)
    /\ \A i, j \in 1 .. Len(ix) : ix[i] = ix[j] => i = j

\* The blocks from rem on have entries, those before ins are there, and pub are published.
RingFits(ix, tail, es, rem, ins, pub) ==
    /\ RingShape(ix, es)
    /\ tail \in 0 .. Len(ix) - 1 /\ rem \in Nat /\ ins \in Nat /\ pub \in Nat
    /\ rem <= ins /\ ins <= pub /\ pub - rem <= Len(ix)
    /\ \A j \in rem .. pub - 1 : es[EntryFrom(ix, tail, pub - 1, j)].key = KeyOf(j)
    /\ \A j \in rem .. ins - 1 : es[EntryFrom(ix, tail, pub - 1, j)].value # 0
    /\ \A e \in 1 .. Len(ix) : es[e].value # 0 =>
         \E j \in rem .. ins - 1 : e = EntryFrom(ix, tail, pub - 1, j)

LEMMA EntryIs ==
    ASSUME NEW ix, NEW es, RingShape(ix, es), NEW tail \in Int, NEW last \in Int, NEW k \in Int
    PROVE  EntryFrom(ix, tail, last, k) \in 1 .. Len(ix)
<1>1. PICK n \in Nat \ {0} : n = Len(ix)
  BY DEF RingShape
<1>2. PICK d \in Int : d = tail + (k - last)
  OBVIOUS
<1>3. d % n \in 0 .. n - 1
  BY DivMod
<1>4. (d % n) + 1 \in 1 .. n
  BY <1>3
<1> QED
  BY <1>1, <1>2, <1>4 DEF RingShape, EntryFrom

LEMMA EntriesDiffer ==
    ASSUME NEW ix, NEW es, RingShape(ix, es), NEW tail \in Int, NEW last \in Int,
           NEW i \in Int, NEW j \in Int, i < j, j - i < Len(ix)
    PROVE  EntryFrom(ix, tail, last, i) # EntryFrom(ix, tail, last, j)
<1>1. PICK n \in Nat \ {0} : n = Len(ix)
  BY DEF RingShape
<1>2. PICK a \in Int, b \in Int : a = tail + (i - last) /\ b = tail + (j - last)
  OBVIOUS
<1>3. a < b /\ b - a < n
  BY <1>1, <1>2
<1>4. a % n # b % n
  BY <1>3, RemaindersDiffer
<1>5. a % n \in 0 .. n - 1 /\ b % n \in 0 .. n - 1
  BY DivMod
<1>6. PICK x \in Int, y \in Int : x = a % n /\ y = b % n
  BY <1>5
<1>7. x + 1 \in 1 .. n /\ y + 1 \in 1 .. n /\ x + 1 # y + 1
  BY <1>4, <1>5, <1>6
<1>8. ix[x + 1] # ix[y + 1]
  BY <1>1, <1>7 DEF RingShape
<1> QED
  BY <1>1, <1>2, <1>6, <1>8 DEF EntryFrom

\* The same entries, seen from d entries further.
LEMMA EntrySlides ==
    ASSUME NEW ix, Len(ix) \in Nat \ {0}, NEW tail \in Int, NEW last \in Int, NEW d \in Int, NEW k \in Int,
           NEW tail2 \in Int, NEW last2 \in Int, tail2 = (tail + d) % Len(ix), last2 = last + d
    PROVE  EntryFrom(ix, tail2, last2, k) = EntryFrom(ix, tail, last, k)
<1>1. PICK n \in Nat \ {0} : n = Len(ix)
  BY DEF RingShape
<1>2. PICK a \in Int, b \in Int : a = tail + d /\ b = k - last2
  OBVIOUS
<1>3. ((a % n) + b) % n = (a + b) % n
  BY RemainderSum
<1>4. a + b = tail + (k - last)
  BY <1>2
<1>5. EntryFrom(ix, tail2, last2, k) = ix[((tail + (k - last)) % n) + 1]
  BY <1>1, <1>2, <1>3, <1>4 DEF EntryFrom
<1> QED
  BY <1>1, <1>5 DEF EntryFrom

\* A ring of the size of the entries comes back to the same one.
LEMMA EntryRepeats ==
    ASSUME NEW ix, NEW es, RingShape(ix, es), NEW tail \in Int, NEW last \in Int, NEW k \in Int
    PROVE  EntryFrom(ix, tail, last, k + Len(ix)) = EntryFrom(ix, tail, last, k)
<1>1. PICK n \in Nat \ {0} : n = Len(ix)
  BY DEF RingShape
<1>2. PICK a \in Int : a = tail + (k - last)
  OBVIOUS
<1>3. PICK q \in Int, r \in 0 .. n - 1 : a = n * q + r /\ r = a % n
  <2>1. a \div n \in Int /\ a % n \in 0 .. n - 1 /\ a = n * (a \div n) + (a % n)
    BY DivMod
  <2> QED
    BY <2>1
<1>4. n * (q + 1) = n * q + n
  OBVIOUS
<1>5. a + n = n * (q + 1) + r
  BY <1>3, <1>4
<1>6. (n * (q + 1) + r) % n = r
  BY Remainder
<1>7. tail + ((k + n) - last) = a + n
  BY <1>2
<1> QED
  BY <1>1, <1>2, <1>3, <1>5, <1>6, <1>7 DEF EntryFrom

\* insert_block_index_entry finds the next entry free unless the ring is full.
LEMMA EntryFree ==
    ASSUME NEW ix, NEW tail, NEW es, NEW rem, NEW pub, RingFits(ix, tail, es, rem, pub, pub),
           NEW e, e = EntryFrom(ix, tail, pub - 1, pub)
    PROVE  /\ e = ix[((tail + 1) % Len(ix)) + 1] /\ e \in 1 .. Len(ix)
           /\ es[e].key = INVALID_BLOCK_BASE \/ es[e].value = 0 => pub - rem < Len(ix)
           /\ es[e].value # 0 => pub - rem = Len(ix)
<1>0. rem \in Nat /\ pub \in Nat /\ Len(ix) \in Nat \ {0} /\ tail \in 0 .. Len(ix) - 1
  BY DEF RingFits, RingShape
<1>1. PICK i \in Nat, j \in Nat, n \in Nat \ {0}, t \in Int : i = rem /\ j = pub /\ n = Len(ix) /\ t = tail
  <2>1. tail \in Int
    BY <1>0
  <2> QED
    BY <1>0, <2>1
<1>2. RingShape(ix, es) /\ i <= j /\ j - i <= n
  BY <1>1 DEF RingFits
<1>3. e = EntryFrom(ix, t, j - 1, j) /\ j - (j - 1) = 1
  BY <1>1
<1>4. e \in 1 .. Len(ix)
  BY <1>2, <1>3, EntryIs
<1>5. e = ix[((tail + 1) % Len(ix)) + 1]
  BY <1>1, <1>3 DEF EntryFrom
<1>6. CASE j - i = n
  <2>1. i + n = j /\ i \in i .. j - 1
    BY <1>6
  <2>2. EntryFrom(ix, t, j - 1, i + n) = EntryFrom(ix, t, j - 1, i)
    BY <1>1, <1>2, EntryRepeats
  <2>3. e = EntryFrom(ix, t, j - 1, i)
    BY <1>3, <2>1, <2>2
  <2>4. es[e].key = KeyOf(i) /\ es[e].value # 0
    BY <1>1, <2>1, <2>3 DEF RingFits
  <2>5. i \in Int
    OBVIOUS
  <2>6. KeyOf(i) # INVALID_BLOCK_BASE
    BY <2>5, KeyFacts
  <2> QED
    BY <1>1, <1>4, <1>5, <1>6, <2>4, <2>6
<1>7. CASE j - i < n
  <2>1. SUFFICES ASSUME es[e].value # 0
                 PROVE  FALSE
    BY <1>1, <1>4, <1>5, <1>7
  <2>2. PICK k \in i .. j - 1 : e = EntryFrom(ix, t, j - 1, k)
    BY <1>1, <1>4, <2>1 DEF RingFits
  <2>3. k \in Int /\ k < j /\ j - k < Len(ix)
    BY <1>1, <1>7
  <2> QED
    BY <1>2, <1>3, <2>2, <2>3, EntriesDiffer
<1>8. j - i = n \/ j - i < n
  BY <1>1, <1>2
<1> QED
  BY <1>6, <1>7, <1>8

\* One entry is written.
KeySet(es2, es, e, key) == es2 = [es EXCEPT ![e].key = key]
ValueSet(es2, es, e, b) == es2 = [es EXCEPT ![e].value = b]

LEMMA RingTypes ==
    ASSUME NEW ix, NEW tail, NEW es, NEW rem, NEW ins, NEW pub, RingFits(ix, tail, es, rem, ins, pub)
    PROVE  /\ rem \in Nat /\ ins \in Nat /\ pub \in Nat /\ tail \in Nat /\ tail \in Int /\ pub - 1 \in Int
           /\ Len(ix) \in Nat \ {0} /\ tail < Len(ix)
           /\ rem <= ins /\ ins <= pub /\ pub - rem <= Len(ix)
           /\ RingShape(ix, es) /\ DOMAIN es = 1 .. Len(ix) /\ \A e \in 1 .. Len(ix) : es[e] \in EntryRecords
<1>1. RingShape(ix, es) /\ tail \in 0 .. Len(ix) - 1
  BY DEF RingFits
<1>2. Len(ix) \in Nat \ {0}
  BY <1>1 DEF RingShape
<1>3. DOMAIN es = 1 .. Len(ix) /\ \A e \in 1 .. Len(ix) : es[e] \in EntryRecords
  BY <1>1 DEF RingShape
<1> QED
  BY <1>1, <1>2, <1>3 DEF RingFits

\* The entries of the blocks of a ring are different.
LEMMA EntriesOfRing ==
    ASSUME NEW ix, NEW tail, NEW es, NEW rem, NEW ins, NEW pub, RingFits(ix, tail, es, rem, ins, pub),
           NEW j \in Int, NEW k \in Int, rem <= j, rem <= k, j - rem < Len(ix), k - rem < Len(ix), j # k
    PROVE  EntryFrom(ix, tail, pub - 1, j) # EntryFrom(ix, tail, pub - 1, k)
<1>1. PICK t \in Int, l \in Int : t = tail /\ l = pub - 1
  BY RingTypes
<1>2. rem \in Nat /\ Len(ix) \in Nat /\ RingShape(ix, es)
  BY RingTypes
<1>3. CASE j < k
  <2>1. k - j < Len(ix)
    BY <1>2, <1>3
  <2> QED
    BY <1>1, <1>2, <1>3, <2>1, EntriesDiffer
<1>4. CASE k < j
  <2>1. j - k < Len(ix)
    BY <1>2, <1>4
  <2> QED
    BY <1>1, <1>2, <1>4, <2>1, EntriesDiffer
<1> QED
  BY <1>3, <1>4

LEMMA EntryOfRing ==
    ASSUME NEW ix, NEW tail, NEW es, NEW rem, NEW ins, NEW pub, RingFits(ix, tail, es, rem, ins, pub),
           NEW j \in Int
    PROVE  EntryFrom(ix, tail, pub - 1, j) \in 1 .. Len(ix)
<1>1. PICK t \in Int, l \in Int : t = tail /\ l = pub - 1
  BY RingTypes
<1> QED
  BY <1>1, RingTypes, EntryIs

LEMMA KeyWritten ==
    ASSUME NEW ix, NEW tail, NEW es, NEW rem, NEW pub, RingFits(ix, tail, es, rem, pub, pub),
           NEW e, e = EntryFrom(ix, tail, pub - 1, pub), pub - rem < Len(ix),
           NEW es2, KeySet(es2, es, e, KeyOf(pub))
    PROVE  RingFits(ix, tail, es2, rem, pub, pub) /\ es2[e].key = KeyOf(pub)
<1> USE DEF KeySet
<1>1. /\ rem \in Nat /\ pub \in Nat /\ rem <= pub /\ pub \in Int /\ Len(ix) \in Nat /\ RingShape(ix, es)
      /\ DOMAIN es = 1 .. Len(ix) /\ \A d \in 1 .. Len(ix) : es[d] \in EntryRecords
  BY RingTypes
<1>2. e \in 1 .. Len(ix)
  BY <1>1, EntryOfRing
<1>3. KeyOf(pub) \in Nat
  BY <1>1, KeyFacts
<1>4. es2[e] = [es[e] EXCEPT !.key = KeyOf(pub)] /\ \A d \in 1 .. Len(ix) : d # e => es2[d] = es[d]
  BY <1>1, <1>2
<1>5. es2[e].key = KeyOf(pub) /\ es2[e].value = es[e].value /\ es2[e] \in EntryRecords
  BY <1>1, <1>2, <1>3, <1>4 DEF EntryRecords
<1>6. es2 \in Seq(EntryRecords) /\ Len(es2) = Len(es)
  <2>1. es2 \in [1 .. Len(ix) -> EntryRecords]
    BY <1>1, <1>4, <1>5
  <2> QED
    BY <1>1, <2>1 DEF RingShape
<1>7. RingShape(ix, es2)
  BY <1>1, <1>6 DEF RingShape
<1>8. ASSUME NEW j \in rem .. pub - 1
      PROVE  /\ EntryFrom(ix, tail, pub - 1, j) \in 1 .. Len(ix)
             /\ es2[EntryFrom(ix, tail, pub - 1, j)] = es[EntryFrom(ix, tail, pub - 1, j)]
  <2>1. j \in Int /\ rem <= j /\ j # pub /\ j - rem < Len(ix) /\ rem <= pub
    BY <1>1
  <2>2. EntryFrom(ix, tail, pub - 1, j) # e
    BY <1>1, <2>1, EntriesOfRing
  <2>3. EntryFrom(ix, tail, pub - 1, j) \in 1 .. Len(ix)
    BY <2>1, EntryOfRing
  <2> QED
    BY <1>4, <2>2, <2>3
<1>9. \A d \in 1 .. Len(ix) : es2[d].value = es[d].value
  BY <1>4, <1>5
<1> QED
  BY <1>5, <1>7, <1>8, <1>9 DEF RingFits

LEMMA EntryPublished ==
    ASSUME NEW ix, NEW tail, NEW es, NEW rem, NEW pub, RingFits(ix, tail, es, rem, pub, pub),
           es[EntryFrom(ix, tail, pub - 1, pub)].key = KeyOf(pub), pub - rem < Len(ix),
           NEW tail2, tail2 = (tail + 1) % Len(ix), NEW pub2, pub2 = pub + 1
    PROVE  /\ RingFits(ix, tail2, es, rem, pub, pub2)
           /\ \A k \in Int : EntryFrom(ix, tail2, pub2 - 1, k) = EntryFrom(ix, tail, pub - 1, k)
<1>1. /\ rem \in Nat /\ pub \in Nat /\ tail \in Nat /\ rem <= pub /\ Len(ix) \in Nat \ {0} /\ RingShape(ix, es)
  BY RingTypes
<1>2. PICK t \in Int, l \in Int, n \in Nat \ {0} : t = tail /\ l = pub - 1 /\ n = Len(ix)
  BY <1>1
<1>3. pub2 - 1 = l + 1 /\ tail2 = (t + 1) % Len(ix) /\ pub2 \in Nat
  BY <1>1, <1>2
<1>4. tail2 \in 0 .. Len(ix) - 1
  <2>1. PICK i \in Int : i = t + 1
    OBVIOUS
  <2>2. i % n \in 0 .. n - 1
    BY DivMod
  <2> QED
    BY <1>2, <1>3, <2>1, <2>2
<1>5. ASSUME NEW k \in Int
      PROVE  EntryFrom(ix, tail2, pub2 - 1, k) = EntryFrom(ix, tail, pub - 1, k)
  <2>1. PICK d \in Int : d = 1
    OBVIOUS
  <2>2. PICK t2 \in Int, l2 \in Int : t2 = tail2 /\ l2 = pub2 - 1
    BY <1>3, <1>4
  <2>3. t2 = (t + d) % Len(ix) /\ l2 = l + d
    BY <1>3, <2>1, <2>2
  <2>4. EntryFrom(ix, t2, l2, k) = EntryFrom(ix, t, l, k)
    BY <1>1, <2>3, EntrySlides
  <2> QED
    BY <1>2, <2>2, <2>4
<1>6. \A j \in rem .. pub2 - 1 : es[EntryFrom(ix, tail2, pub2 - 1, j)].key = KeyOf(j)
  <2> TAKE j \in rem .. pub2 - 1
  <2>1. j \in Int /\ (j = pub \/ j \in rem .. pub - 1)
    BY <1>1
  <2>2. EntryFrom(ix, tail2, pub2 - 1, j) = EntryFrom(ix, tail, pub - 1, j)
    BY <1>5, <2>1
  <2> QED
    BY <2>1, <2>2 DEF RingFits
<1>7. \A j \in rem .. pub - 1 : EntryFrom(ix, tail2, pub2 - 1, j) = EntryFrom(ix, tail, pub - 1, j)
  BY <1>1, <1>5
<1>8. rem <= pub /\ pub <= pub2 /\ pub2 - rem <= Len(ix)
  BY <1>1
<1>9. \A j \in rem .. pub - 1 : es[EntryFrom(ix, tail2, pub2 - 1, j)].value # 0
  BY <1>7 DEF RingFits
<1>10. \A e \in 1 .. Len(ix) : es[e].value # 0 =>
         \E j \in rem .. pub - 1 : e = EntryFrom(ix, tail2, pub2 - 1, j)
  BY <1>7 DEF RingFits
<1>11. RingFits(ix, tail2, es, rem, pub, pub2)
  BY <1>1, <1>3, <1>4, <1>6, <1>8, <1>9, <1>10 DEF RingFits
<1> QED
  BY <1>5, <1>11

LEMMA BlockInserted ==
    ASSUME NEW ix, NEW tail, NEW es, NEW rem, NEW ins, NEW pub, RingFits(ix, tail, es, rem, ins, pub),
           pub = ins + 1, NEW e, e = EntryFrom(ix, tail, pub - 1, ins), NEW b \in Blocks,
           NEW es2, ValueSet(es2, es, e, b)
    PROVE  /\ RingFits(ix, tail, es2, rem, pub, pub) /\ es2[e].value = b
           /\ \A j \in rem .. ins - 1 : es2[EntryFrom(ix, tail, pub - 1, j)] = es[EntryFrom(ix, tail, pub - 1, j)]
           /\ \A d \in 1 .. Len(ix) : d # e => es2[d] = es[d]
<1> USE DEF ValueSet
<1>1. /\ rem \in Nat /\ ins \in Nat /\ ins \in Int /\ pub \in Nat /\ Len(ix) \in Nat /\ RingShape(ix, es)
      /\ rem <= ins /\ pub - rem <= Len(ix)
      /\ DOMAIN es = 1 .. Len(ix) /\ \A d \in 1 .. Len(ix) : es[d] \in EntryRecords
  BY RingTypes
<1>2. e \in 1 .. Len(ix)
  BY <1>1, EntryOfRing
<1>3. b \in 0 .. MaxBlocks /\ b # 0
  BY FreeListAssumption DEF Blocks
<1>4. es2[e] = [es[e] EXCEPT !.value = b] /\ \A d \in 1 .. Len(ix) : d # e => es2[d] = es[d]
  BY <1>1, <1>2
<1>5. es2[e].key = es[e].key /\ es2[e].value = b /\ es2[e] \in EntryRecords
  BY <1>1, <1>2, <1>3, <1>4 DEF EntryRecords
<1>6. es2 \in Seq(EntryRecords) /\ Len(es2) = Len(es)
  <2>1. es2 \in [1 .. Len(ix) -> EntryRecords]
    BY <1>1, <1>4, <1>5
  <2> QED
    BY <1>1, <2>1 DEF RingShape
<1>7. RingShape(ix, es2)
  BY <1>1, <1>6 DEF RingShape
<1>8. ASSUME NEW j \in rem .. ins - 1
      PROVE  /\ EntryFrom(ix, tail, pub - 1, j) \in 1 .. Len(ix)
             /\ es2[EntryFrom(ix, tail, pub - 1, j)] = es[EntryFrom(ix, tail, pub - 1, j)]
  <2>1. j \in Int /\ rem <= j /\ j # ins /\ j - rem < Len(ix) /\ ins - rem < Len(ix)
    BY <1>1
  <2>2. EntryFrom(ix, tail, pub - 1, j) # e
    BY <1>1, <2>1, EntriesOfRing
  <2>3. EntryFrom(ix, tail, pub - 1, j) \in 1 .. Len(ix)
    BY <2>1, EntryOfRing
  <2> QED
    BY <1>4, <2>2, <2>3
<1>9. \A j \in rem .. pub - 1 : j = ins \/ j \in rem .. ins - 1
  BY <1>1
<1>10. \A d \in 1 .. Len(ix) : es2[d].key = es[d].key
  BY <1>4, <1>5
<1>11. \A j \in rem .. pub - 1 : es2[EntryFrom(ix, tail, pub - 1, j)].key = KeyOf(j)
  <2> TAKE j \in rem .. pub - 1
  <2>1. EntryFrom(ix, tail, pub - 1, j) \in 1 .. Len(ix)
    BY <1>2, <1>8, <1>9
  <2> QED
    BY <1>10, <2>1 DEF RingFits
<1>12. \A j \in rem .. pub - 1 : es2[EntryFrom(ix, tail, pub - 1, j)].value # 0
  <2> TAKE j \in rem .. pub - 1
  <2>1. CASE j = ins
    BY <1>3, <1>5, <2>1
  <2>2. CASE j \in rem .. ins - 1
    BY <1>8, <2>2 DEF RingFits
  <2> QED
    BY <1>9, <2>1, <2>2
<1>13. \A d \in 1 .. Len(ix) : es2[d].value # 0 =>
         \E j \in rem .. pub - 1 : d = EntryFrom(ix, tail, pub - 1, j)
  <2> TAKE d \in 1 .. Len(ix)
  <2>1. HAVE es2[d].value # 0
  <2>2. ins \in rem .. pub - 1 /\ rem .. ins - 1 \subseteq rem .. pub - 1
    BY <1>1
  <2>3. CASE d = e
    BY <2>2, <2>3
  <2>4. CASE d # e
    <3>1. PICK j \in rem .. ins - 1 : d = EntryFrom(ix, tail, pub - 1, j)
      BY <1>4, <2>1, <2>4 DEF RingFits
    <3> QED
      BY <2>2, <3>1
  <2> QED
    BY <2>3, <2>4
<1>14. RingFits(ix, tail, es2, rem, pub, pub)
  <2>1. rem <= pub /\ pub <= pub /\ tail \in 0 .. Len(ix) - 1
    BY <1>1 DEF RingFits
  <2> QED
    BY <1>1, <1>7, <1>11, <1>12, <1>13, <2>1 DEF RingFits
<1> QED
  BY <1>4, <1>5, <1>8, <1>14

LEMMA EntryRemoved ==
    ASSUME NEW ix, NEW tail, NEW es, NEW rem, NEW ins, NEW pub, RingFits(ix, tail, es, rem, ins, pub),
           rem < ins, NEW e, e = EntryFrom(ix, tail, pub - 1, rem),
           NEW es2, ValueSet(es2, es, e, 0), NEW rem2, rem2 = rem + 1
    PROVE  /\ RingFits(ix, tail, es2, rem2, ins, pub)
           /\ \A j \in rem2 .. ins - 1 : es2[EntryFrom(ix, tail, pub - 1, j)] = es[EntryFrom(ix, tail, pub - 1, j)]
           /\ es2[e].value = 0
           /\ \A d \in 1 .. Len(ix) : d # e => es2[d] = es[d]
<1> USE DEF ValueSet
<1>1. /\ rem \in Nat /\ rem \in Int /\ ins \in Nat /\ pub \in Nat /\ Len(ix) \in Nat /\ RingShape(ix, es)
      /\ ins <= pub /\ pub - rem <= Len(ix)
      /\ DOMAIN es = 1 .. Len(ix) /\ \A d \in 1 .. Len(ix) : es[d] \in EntryRecords
  BY RingTypes
<1>2. e \in 1 .. Len(ix)
  BY <1>1, EntryOfRing
<1>3. 0 \in 0 .. MaxBlocks
  BY FreeListAssumption
<1>4. es2[e] = [es[e] EXCEPT !.value = 0] /\ \A d \in 1 .. Len(ix) : d # e => es2[d] = es[d]
  BY <1>1, <1>2
<1>5. es2[e].key = es[e].key /\ es2[e].value = 0 /\ es2[e] \in EntryRecords
  BY <1>1, <1>2, <1>3, <1>4 DEF EntryRecords
<1>6. es2 \in Seq(EntryRecords) /\ Len(es2) = Len(es)
  <2>1. es2 \in [1 .. Len(ix) -> EntryRecords]
    BY <1>1, <1>4, <1>5
  <2> QED
    BY <1>1, <2>1 DEF RingShape
<1>7. RingShape(ix, es2)
  BY <1>1, <1>6 DEF RingShape
<1>8. ASSUME NEW j \in rem2 .. pub - 1
      PROVE  /\ EntryFrom(ix, tail, pub - 1, j) \in 1 .. Len(ix)
             /\ es2[EntryFrom(ix, tail, pub - 1, j)] = es[EntryFrom(ix, tail, pub - 1, j)]
             /\ j \in rem .. pub - 1
  <2>1. j \in Int /\ rem <= j /\ rem <= rem /\ j # rem /\ j - rem < Len(ix) /\ rem - rem < Len(ix) /\ j \in rem .. pub - 1
    BY <1>1
  <2>2. EntryFrom(ix, tail, pub - 1, j) # e
    BY <1>1, <2>1, EntriesOfRing
  <2>3. EntryFrom(ix, tail, pub - 1, j) \in 1 .. Len(ix)
    BY <2>1, EntryOfRing
  <2> QED
    BY <1>4, <2>1, <2>2, <2>3
<1>9. \A j \in rem2 .. ins - 1 : j \in rem2 .. pub - 1 /\ j \in rem .. ins - 1
  BY <1>1
<1>10. \A j \in rem2 .. ins - 1 : es2[EntryFrom(ix, tail, pub - 1, j)] = es[EntryFrom(ix, tail, pub - 1, j)]
  BY <1>8, <1>9
<1>11. \A j \in rem2 .. pub - 1 : es2[EntryFrom(ix, tail, pub - 1, j)].key = KeyOf(j)
  BY <1>8 DEF RingFits
<1>12. \A j \in rem2 .. ins - 1 : es2[EntryFrom(ix, tail, pub - 1, j)].value # 0
  BY <1>9, <1>10 DEF RingFits
<1>13. \A d \in 1 .. Len(ix) : es2[d].value # 0 =>
         \E j \in rem2 .. ins - 1 : d = EntryFrom(ix, tail, pub - 1, j)
  <2> TAKE d \in 1 .. Len(ix)
  <2>1. HAVE es2[d].value # 0
  <2>2. d # e
    BY <1>5, <2>1
  <2>3. PICK j \in rem .. ins - 1 : d = EntryFrom(ix, tail, pub - 1, j)
    BY <1>4, <2>1, <2>2 DEF RingFits
  <2>4. j # rem
    BY <2>2, <2>3
  <2>5. j \in rem2 .. ins - 1
    BY <1>1, <2>4
  <2> QED
    BY <2>3, <2>5
<1>14. RingFits(ix, tail, es2, rem2, ins, pub)
  <2>1. rem2 \in Nat /\ rem2 <= ins /\ ins <= pub /\ pub - rem2 <= Len(ix) /\ tail \in 0 .. Len(ix) - 1
    BY <1>1 DEF RingFits
  <2> QED
    BY <1>1, <1>7, <1>11, <1>12, <1>13, <2>1 DEF RingFits
<1> QED
  BY <1>4, <1>5, <1>10, <1>14

TwiceAsLong(ix2, es2, ix, tail, es) ==
    /\ ix2 = [i \in 1 .. 2 * Len(ix) |-> IF i <= Len(ix) THEN ix[((tail + i) % Len(ix)) + 1] ELSE i]
    /\ es2 = es \o [i \in 1 .. Len(ix) |-> FreeEntry(INVALID_BLOCK_BASE)]

\* new_block_index: the entries of a full ring are found in the one of twice its size.
LEMMA RingDoubles ==
    ASSUME NEW ix, NEW tail, NEW es, NEW rem, NEW pub, RingFits(ix, tail, es, rem, pub, pub),
           pub - rem = Len(ix), 2 * Len(ix) <= Room,
           NEW tail2, tail2 = Len(ix) - 1,
           NEW ix2, NEW es2, TwiceAsLong(ix2, es2, ix, tail, es)
    PROVE  /\ RingFits(ix2, tail2, es2, rem, pub, pub)
           /\ \A k \in rem .. pub - 1 : EntryFrom(ix2, tail2, pub - 1, k) = EntryFrom(ix, tail, pub - 1, k)
           /\ \A d \in 1 .. Len(ix) : es2[d] = es[d]
           /\ \A d \in 1 .. Len(ix2) : es2[d].value # 0 => d \in 1 .. Len(ix)
<1> USE DEF TwiceAsLong
<1>1. /\ rem \in Nat /\ pub \in Nat /\ tail \in Nat /\ tail \in Int /\ Len(ix) \in Nat \ {0} /\ RingShape(ix, es)
      /\ DOMAIN es = 1 .. Len(ix) /\ \A d \in 1 .. Len(ix) : es[d] \in EntryRecords
  BY RingTypes
<1>2. PICK n \in Nat \ {0} : n = Len(ix)
  BY <1>1
<1>3. PICK t \in Int, r \in Int, l \in Int : t = tail /\ r = rem /\ l = pub - 1
  <2>1. rem \in Int /\ pub - 1 \in Int
    BY <1>1
  <2> QED
    BY <1>1, <2>1
<1>4. l = (r + n) - 1 /\ pub = r + n
  BY <1>1, <1>2, <1>3
<1>5. ASSUME NEW i \in 1 .. n
      PROVE  ix2[i] = EntryFrom(ix, t, 0, i) /\ ix2[i] \in 1 .. n
  <2>1. i \in 1 .. 2 * n /\ i - 0 = i /\ i \in Int
    OBVIOUS
  <2>2. ix2[i] = EntryFrom(ix, t, 0, i)
    BY <1>2, <1>3, <2>1 DEF EntryFrom
  <2> QED
    BY <1>1, <1>2, <2>1, <2>2, EntryIs
<1>6. \A i \in n + 1 .. 2 * n : ix2[i] = i
  BY <1>2
<1>7. ix2 \in [1 .. 2 * n -> Nat] /\ \A i \in 1 .. 2 * n : ix2[i] \in 1 .. 2 * n
  <2>1. \A i \in 1 .. 2 * n : i \in 1 .. n \/ i \in n + 1 .. 2 * n
    OBVIOUS
  <2>2. \A i \in 1 .. 2 * n : ix2[i] \in 1 .. 2 * n
    <3> TAKE i \in 1 .. 2 * n
    <3>1. CASE i \in 1 .. n
      <4>1. PICK k \in 1 .. n : k = ix2[i]
        BY <1>5, <3>1
      <4> QED
        BY <4>1
    <3>2. CASE i \in n + 1 .. 2 * n
      BY <1>6, <3>2
    <3> QED
      BY <2>1, <3>1, <3>2
  <2>3. PICK m \in Nat : m = 2 * n
    OBVIOUS
  <2>4. \A i \in 1 .. m : ix2[i] \in Nat
    <3>1. \A i \in 1 .. m : ix2[i] \in 1 .. m
      BY <2>2, <2>3
    <3>2. 1 .. m \subseteq Nat
      OBVIOUS
    <3> QED
      BY <3>1, <3>2
  <2>5. ix2 = [i \in 1 .. m |-> ix2[i]]
    BY <1>2, <2>3
  <2>6. ix2 \in [1 .. m -> Nat]
    BY <2>4, <2>5
  <2> QED
    BY <2>2, <2>3, <2>6
<1>8. ix2 \in Seq(Nat) /\ Len(ix2) = 2 * n
  <2>1. PICK m \in Nat : m = 2 * n
    OBVIOUS
  <2>2. ix2 \in [1 .. m -> Nat]
    BY <1>7, <2>1
  <2> QED
    BY <2>1, <2>2
<1>9. ASSUME NEW i \in 1 .. 2 * n, NEW j \in 1 .. 2 * n, i < j
      PROVE  ix2[i] # ix2[j]
  <2>1. CASE j <= n
    <3>1. i \in 1 .. n /\ j \in 1 .. n /\ j - i < Len(ix) /\ i \in Int /\ j \in Int
      BY <1>2, <1>9, <2>1
    <3>2. EntryFrom(ix, t, 0, i) # EntryFrom(ix, t, 0, j)
      BY <1>1, <1>9, <3>1, EntriesDiffer
    <3>3. ix2[i] = EntryFrom(ix, t, 0, i) /\ ix2[j] = EntryFrom(ix, t, 0, j)
      BY <1>5, <3>1
    <3> QED
      BY <3>2, <3>3
  <2>2. CASE i <= n /\ j > n
    <3>1. i \in 1 .. n /\ j \in n + 1 .. 2 * n
      BY <2>2
    <3>2. ix2[i] \in 1 .. n /\ ix2[j] = j
      BY <1>5, <1>6, <3>1
    <3> QED
      BY <2>2, <3>2
  <2>3. CASE i > n /\ j > n
    <3>1. i \in n + 1 .. 2 * n /\ j \in n + 1 .. 2 * n
      BY <2>3
    <3>2. ix2[i] = i /\ ix2[j] = j
      BY <1>6, <3>1
    <3> QED
      BY <1>9, <3>2
  <2> QED
    BY <1>9, <2>1, <2>2, <2>3
<1>10. \A i, j \in 1 .. 2 * n : ix2[i] = ix2[j] => i = j
  <2> SUFFICES ASSUME NEW i \in 1 .. 2 * n, NEW j \in 1 .. 2 * n, ix2[i] = ix2[j], i # j
               PROVE  FALSE
    OBVIOUS
  <2>1. i < j \/ j < i
    OBVIOUS
  <2> QED
    BY <1>9, <2>1
<1>11. Room % (2 * n) = 0
  <2>1. PICK m \in Nat \ {0} : m = Room
    BY Sizes
  <2>2. n \in 1 .. m /\ 2 * n <= m /\ m % n = 0
    BY <1>1, <1>2, <2>1 DEF RingShape
  <2>3. \A i \in 1 .. Room : Room % i = 0 /\ 2 * i <= Room => Room % (2 * i) = 0
    BY RingAssumption DEF Room
  <2> QED
    BY <2>1, <2>2, <2>3
<1> DEFINE free == [i \in 1 .. n |-> FreeEntry(INVALID_BLOCK_BASE)]
<1>12. free \in Seq(EntryRecords) /\ Len(free) = n
  <2>1. FreeEntry(INVALID_BLOCK_BASE) \in EntryRecords
    <3>1. 0 \in 0 .. MaxBlocks
      BY FreeListAssumption
    <3> QED
      BY <3>1 DEF FreeEntry, INVALID_BLOCK_BASE, EntryRecords
  <2> QED
    BY <2>1
<1>13. es \in Seq(EntryRecords) /\ Len(es) = n /\ es2 = es \o free
  BY <1>1, <1>2 DEF RingShape
<1>14. es2 \in Seq(EntryRecords) /\ Len(es2) = 2 * n /\ \A d \in 1 .. n : es2[d] = es[d]
  <2> HIDE DEF free
  <2>1. es2 \in Seq(EntryRecords)
    BY <1>12, <1>13
  <2>2. Len(es2) = n + n
    <3>0. es \in Seq(EntryRecords) /\ free \in Seq(EntryRecords)
      BY <1>12, <1>13
    <3>1. Len(es \o free) = Len(es) + Len(free)
      BY ONLY <3>0
    <3> QED
      BY <1>12, <1>13, <3>1
  <2>3. \A d \in 1 .. n : es2[d] = es[d]
    BY <1>12, <1>13
  <2> QED
    BY <2>1, <2>2, <2>3
<1>15. \A d \in 1 .. 2 * n : es2[d].value # 0 => d \in 1 .. n
  <2> TAKE d \in 1 .. 2 * n
  <2>1. HAVE es2[d].value # 0
  <2>2. SUFFICES ASSUME d > n
                 PROVE  FALSE
    OBVIOUS
  <2>3. es2[d] = free[d - n] /\ d - n \in 1 .. n
    <3> HIDE DEF free
    <3> QED
      BY <1>12, <1>13, <2>2
  <2>4. free[d - n].value = 0
    BY <2>3 DEF FreeEntry
  <2> QED
    BY <2>1, <2>3, <2>4
<1> HIDE DEF free
<1>16. RingShape(ix2, es2)
  <2>1. PICK m \in Nat \ {0} : m = 2 * n
    OBVIOUS
  <2>2. Len(ix2) = m /\ Len(es2) = m /\ Room % m = 0
    BY <1>8, <1>11, <1>14, <2>1
  <2>3. (\A i \in 1 .. m : ix2[i] \in 1 .. m) /\ (\A i, j \in 1 .. m : ix2[i] = ix2[j] => i = j)
    BY <1>7, <1>10, <2>1
  <2>4. Len(ix2) # 0 /\ Len(es2) = Len(ix2) /\ Room % Len(ix2) = 0
    BY <2>2
  <2>6. 1 .. Len(ix2) = 1 .. m
    BY <2>2
  <2>5. (\A i \in 1 .. Len(ix2) : ix2[i] \in 1 .. Len(ix2))
        /\ (\A i, j \in 1 .. Len(ix2) : ix2[i] = ix2[j] => i = j)
    BY ONLY <2>3, <2>6
  <2> QED
    BY <1>8, <1>14, <2>4, <2>5 DEF RingShape
<1>17. ASSUME NEW k \in rem .. pub - 1
       PROVE  EntryFrom(ix2, tail2, pub - 1, k) = EntryFrom(ix, tail, pub - 1, k)
  <2>1. PICK i \in Int : i = k - r
    BY <1>1, <1>3
  <2>2. i \in 0 .. n - 1 /\ k = r + i /\ k \in Int
    BY <1>1, <1>3, <1>4, <2>1
  <2>3. tail2 + (k - (pub - 1)) = i
    BY <1>2, <1>3, <1>4, <2>2
  <2>4. i % (2 * n) = i
    <3>1. PICK m \in Nat \ {0} : m = 2 * n
      OBVIOUS
    <3>2. i \in 0 .. m - 1
      BY <2>2, <3>1
    <3> QED
      BY <3>1, <3>2, RemainderKeeps
  <2>5. EntryFrom(ix2, tail2, pub - 1, k) = ix2[i + 1]
    BY <1>8, <2>3, <2>4 DEF EntryFrom
  <2>6. ix2[i + 1] = EntryFrom(ix, t, 0, i + 1)
    <3>1. PICK m \in 1 .. n : m = i + 1
      BY <2>2
    <3>2. ix2[m] = EntryFrom(ix, t, 0, m)
      BY <1>5
    <3> QED
      BY <3>1, <3>2
  <2>7. EntryFrom(ix, t, l, k + Len(ix)) = EntryFrom(ix, t, l, k)
    BY <1>1, <2>2, EntryRepeats
  <2>8. (i + 1) - 0 = (k + n) - l
    BY <1>4, <2>2
  <2>9. EntryFrom(ix, t, l, k + n) = EntryFrom(ix, t, 0, i + 1)
    BY <2>8 DEF EntryFrom
  <2> QED
    BY <1>2, <1>3, <2>5, <2>6, <2>7, <2>9
<1>18. ASSUME NEW k \in rem .. pub - 1
       PROVE  EntryFrom(ix, tail, pub - 1, k) \in 1 .. n
  <2>1. k \in Int
    BY <1>1
  <2> QED
    BY <1>2, <2>1, EntryOfRing
<1>19. \A k \in rem .. pub - 1 : es2[EntryFrom(ix2, tail2, pub - 1, k)] = es[EntryFrom(ix, tail, pub - 1, k)]
  BY <1>14, <1>17, <1>18
<1>20. \A d \in 1 .. 2 * n : es2[d].value # 0 =>
         \E j \in rem .. pub - 1 : d = EntryFrom(ix2, tail2, pub - 1, j)
  <2> TAKE d \in 1 .. 2 * n
  <2>1. HAVE es2[d].value # 0
  <2>2. d \in 1 .. n /\ es[d].value # 0
    BY <1>14, <1>15, <2>1
  <2>3. PICK j \in rem .. pub - 1 : d = EntryFrom(ix, tail, pub - 1, j)
    BY <1>2, <2>2 DEF RingFits
  <2> QED
    BY <1>17, <2>3
<1>21. RingFits(ix2, tail2, es2, rem, pub, pub)
  <2>1. tail2 \in 0 .. Len(ix2) - 1 /\ pub - rem <= Len(ix2) /\ rem <= pub /\ pub <= pub
    BY <1>1, <1>2, <1>3, <1>4, <1>8
  <2>2. \A k \in rem .. pub - 1 : es2[EntryFrom(ix2, tail2, pub - 1, k)].key = KeyOf(k)
    BY <1>19 DEF RingFits
  <2>3. \A k \in rem .. pub - 1 : es2[EntryFrom(ix2, tail2, pub - 1, k)].value # 0
    BY <1>19 DEF RingFits
  <2> QED
    BY <1>1, <1>8, <1>16, <1>20, <2>1, <2>2, <2>3 DEF RingFits
<1> QED
  BY <1>2, <1>8, <1>14, <1>15, <1>17, <1>21

-----------------------------------------------------------------------------
(* The invariant of the queues                                             *)

BlockSteps == {"pool", "take", "list", "block"}
EntrySteps == {"entry", "tail", "element"} \cup BlockSteps
ElementSteps == {"element", "publish"}
Locating == {"header", "tail", "key", "move", "empty", "free"}

PutRecords == [at : PutSteps, block : 0 .. MaxBlocks, entry : Nat, tail : Nat]
GetRecords ==
    [at : Fetching \cup {"wait", "spin", "sleep", "more", "drain", "destroyed"}, max : Nat, got : Nat,
     turn : Nat, actual : Nat, first : Int, header : Nat, tail : Nat, position : Nat]
HeaderRecords == [tail : Nat, index : Seq(Nat)]
SlotNumbers == 0 .. BLOCK_SIZE - 1

TypesFit ==
    /\ tailBlock \in [Producers -> 0 .. MaxBlocks]
    /\ put \in [Producers -> PutRecords] /\ get \in GetRecords
    /\ received \in [Producers -> Seq(Nat)]
    /\ count \in [Blocks -> Int] /\ elements \in [Blocks -> [SlotNumbers -> Nat]]
    /\ DOMAIN entries = Producers
    /\ blockIndex \in [Producers -> Seq(HeaderRecords)]
    /\ \A p \in Producers : Len(blockIndex[p]) > 0
    /\ created \in 0 .. MaxBlocks /\ poolIndex \in Nat

\* How many elements have come out of a producer's queue; how many are in blocks.
Gone(p) == Len(received[p])
End(p) == Sent(p) + (IF put[p].at = "publish" THEN 1 ELSE 0)

\* How many blocks have been in its index, how many entries have been published for one, and
\* how many blocks are out of it again.
Ins(p) ==
    (Sent(p) \div BLOCK_SIZE) + (IF Sent(p) % BLOCK_SIZE # 0 \/ put[p].at \in ElementSteps THEN 1 ELSE 0)
Pub(p) == Ins(p) + (IF put[p].at \in BlockSteps THEN 1 ELSE 0)
Rem(p) == (Gone(p) \div BLOCK_SIZE) - (IF get.at = "empty" /\ Turn = p THEN 1 ELSE 0)

\* What the consumer has claimed of p, and has taken off the head.
Claimed(p) == IF get.at \in Locating \cup {"claimed"} /\ Turn = p THEN get.actual ELSE 0
Headed(p) == IF get.at \in Locating /\ Turn = p THEN get.actual ELSE 0

NumbersFit(p) ==
    /\ received[p] = [i \in 1 .. Gone(p) |-> i]
    /\ Gone(p) + Claimed(p) <= Sent(p) /\ Sent(p) <= MaxItems[p]
    /\ tailIndex[p] = Wrap(Start + Sent(p))
    /\ headIndex[p] = Wrap(Start + (Gone(p) + Headed(p)))
    /\ dequeueOptimisticCount[p] = Wrap(Start + (Gone(p) + Claimed(p)))
    /\ dequeueOvercommit[p] = 0

\* What a producer knows of its index.
PutFits(c, ix, tail, es, rem, ins, pub, sent, tb) ==
    /\ c.at \in EntrySteps => sent % BLOCK_SIZE = 0
    /\ c.at = "tail" =>
         /\ c.entry = EntryFrom(ix, tail, pub - 1, pub) /\ c.tail = (tail + 1) % Len(ix)
         /\ pub - rem < Len(ix) /\ es[c.entry].key = KeyOf(pub)
    /\ c.at \in BlockSteps => c.entry = EntryFrom(ix, tail, pub - 1, ins)
    /\ sent % BLOCK_SIZE # 0 \/ c.at \in ElementSteps =>
         tb = es[EntryFrom(ix, tail, pub - 1, ins - 1)].value

\* The blocks of an index, and those alone, are placed there.
IndexPlaces(place, p, ix, tail, es, rem, ins, pub) ==
    /\ \A j \in rem .. ins - 1 :
         LET b == es[EntryFrom(ix, tail, pub - 1, j)].value
         IN  b \in Blocks /\ place[b].at = "index" /\ place[b].by = p /\ place[b].num = j
    /\ \A b \in Blocks : place[b].at = "index" /\ place[b].by = p =>
         /\ place[b].num \in rem .. ins - 1
         /\ es[EntryFrom(ix, tail, pub - 1, place[b].num)].value = b

HandPlaces(place, p, c) ==
    /\ c.at = "block" => c.block \in Blocks /\ place[c.block].at = "hand" /\ place[c.block].by = p
    /\ \A b \in Blocks : place[b].at = "hand" /\ place[b].by = p => c.at = "block" /\ c.block = b

\* The blocks count what is gone, and hold what is not.
BlockFilled(b, j, cnt, els, gone, end) ==
    /\ cnt[b] = IF gone <= j * BLOCK_SIZE THEN 0 ELSE gone - (j * BLOCK_SIZE)
    /\ \A s \in SlotNumbers :
         gone <= (j * BLOCK_SIZE) + s /\ (j * BLOCK_SIZE) + s < end =>
           els[b][s] = (j * BLOCK_SIZE) + s + 1

BlocksFilled(place, p, cnt, els, gone, end) ==
    \A b \in Blocks : place[b].at = "index" /\ place[b].by = p =>
      BlockFilled(b, place[b].num, cnt, els, gone, end)

ProducerFits(place, p, ix, tail, es, rem, ins, pub, sent, gone, end, c, tb, cnt, els) ==
    /\ RingFits(ix, tail, es, rem, ins, pub)
    /\ PutFits(c, ix, tail, es, rem, ins, pub, sent, tb)
    /\ IndexPlaces(place, p, ix, tail, es, rem, ins, pub)
    /\ HandPlaces(place, p, c)
    /\ BlocksFilled(place, p, cnt, els, gone, end)

ProducerNow(place, p) ==
    ProducerFits(place, p, Header(p).index, Header(p).tail, entries[p], Rem(p), Ins(p), Pub(p),
                 Sent(p), Gone(p), End(p), put[p], tailBlock[p], count, elements)

PlacesKnown(place, n) ==
    \A b \in Blocks :
      /\ place[b].at \in Places
      /\ place[b].at = "unused" <=> b > n
      /\ place[b].at \in {"index", "hand"} => place[b].by \in Producers

CallsAgree ==
    /\ \A p \in Producers :
         IF put[p].at = "list" THEN call[p].gets /\ call[p].at \in GetCallSteps ELSE call[p].at = "out"
    /\ IF get.at = "free" THEN ~ call[Consumer].gets /\ call[Consumer].at \in AddCallSteps
                          ELSE call[Consumer].at = "out"

\* What the consumer knows of what it fetches.
GetKnows(g, gone) ==
    /\ g.at \in Locating => g.first = Wrap(Start + gone)
    /\ g.at \in {"claimed", "header", "tail", "key", "move"} => g.actual # 0
    /\ g.at \in {"empty", "free"} => gone % BLOCK_SIZE = 0 /\ gone # 0

\* In the header it looks at, which may be an old one, the entry of block c is at position t.
\* It finds all blocks that are in the index, up to the last one.
Scans(hx, t, c, last, ix, tail, pub, rem) ==
    /\ hx \in Seq(Nat) /\ Len(hx) # 0 /\ Room % Len(hx) = 0
    /\ t \in 0 .. Len(hx) - 1 /\ c \in Int /\ last \in Int /\ last <= pub - 1
    /\ \A k \in rem .. last : EntryFrom(hx, t, c, k) = EntryFrom(ix, tail, pub - 1, k)

Scanning == {"tail", "key", "move", "empty", "free"}

\* ht is the tail of the header, which is the h-th one of m.
ScanFits(hx, ht, h, m, g, gone, ix, tail, pub, rem) ==
    \E last \in Int :
      /\ gone + g.actual <= (last + 1) * BLOCK_SIZE
      /\ g.at = "tail" => Scans(hx, ht, last, last, ix, tail, pub, rem) /\ (h = m => last = pub - 1)
      /\ g.at = "key" => Scans(hx, g.tail, last, last, ix, tail, pub, rem)
      /\ g.at = "move" => Scans(hx, g.position, gone \div BLOCK_SIZE, last, ix, tail, pub, rem)
      /\ g.at \in {"empty", "free"} =>
           Scans(hx, g.position, (gone \div BLOCK_SIZE) - 1, last, ix, tail, pub, rem)

ScanNow ==
    get.at \in Scanning =>
      /\ get.header \in 1 .. Len(blockIndex[Turn])
      /\ ScanFits(blockIndex[Turn][get.header].index, blockIndex[Turn][get.header].tail,
                  get.header, Len(blockIndex[Turn]), get, Gone(Turn),
                  Header(Turn).index, Header(Turn).tail, Pub(Turn), Rem(Turn))

Idle == get.at \in {"drain", "destroyed"} => \A p \in Producers : put[p].at = "idle"

QNow(place, n) ==
    /\ TypesFit /\ CallsAgree /\ FreeListNow(place, n) /\ PlacesKnown(place, created)
    /\ \A p \in Producers : ProducerNow(place, p) /\ NumbersFit(p)
    /\ GetKnows(get, Gone(Turn)) /\ ScanNow

-----------------------------------------------------------------------------
(* What a step leaves alone                                                *)

\* What the queue of p and its producer look like is the same.
SameView(p) ==
    /\ Header(p)' = Header(p) /\ entries'[p] = entries[p]
    /\ Rem(p)' = Rem(p) /\ Ins(p)' = Ins(p) /\ Pub(p)' = Pub(p)
    /\ Sent(p)' = Sent(p) /\ Gone(p)' = Gone(p) /\ End(p)' = End(p)
    /\ put'[p] = put[p] /\ tailBlock'[p] = tailBlock[p]

\* The blocks of p are in the same places, with the same in them.
SamePlaces(place, place2, p) ==
    \A b \in Blocks :
      \/ place[b].at \in {"index", "hand"} /\ place[b].by = p
      \/ place2[b].at \in {"index", "hand"} /\ place2[b].by = p
      => place2[b] = place[b]

SameFilled(place, p) ==
    \A b \in Blocks : place[b].at = "index" /\ place[b].by = p =>
      count'[b] = count[b] /\ elements'[b] = elements[b]

\* Nothing happens to the variables of p.
Quiet(p) ==
    /\ tailIndex'[p] = tailIndex[p] /\ headIndex'[p] = headIndex[p]
    /\ dequeueOptimisticCount'[p] = dequeueOptimisticCount[p]
    /\ dequeueOvercommit'[p] = dequeueOvercommit[p]
    /\ tailBlock'[p] = tailBlock[p] /\ entries'[p] = entries[p] /\ blockIndex'[p] = blockIndex[p]
    /\ put'[p] = put[p] /\ received'[p] = received[p]

SameClaims(p) ==
    /\ Rem(p)' = Rem(p) /\ Claimed(p)' = Claimed(p) /\ Headed(p)' = Headed(p)

LEMMA ProducerStays ==
    ASSUME NEW place, NEW place2, NEW p, ProducerNow(place, p), SameView(p),
           SamePlaces(place, place2, p), SameFilled(place, p)
    PROVE  ProducerNow(place2, p)'
<1> DEFINE ix == Header(p).index
           tail == Header(p).tail
           es == entries[p]
<1>1. /\ RingFits(ix, tail, es, Rem(p), Ins(p), Pub(p))
      /\ PutFits(put[p], ix, tail, es, Rem(p), Ins(p), Pub(p), Sent(p), tailBlock[p])
      /\ IndexPlaces(place, p, ix, tail, es, Rem(p), Ins(p), Pub(p))
      /\ HandPlaces(place, p, put[p])
      /\ BlocksFilled(place, p, count, elements, Gone(p), End(p))
  BY DEF ProducerNow, ProducerFits
<1>2. HandPlaces(place2, p, put[p])
  BY <1>1 DEF HandPlaces, SamePlaces
<1>3. BlocksFilled(place2, p, count', elements', Gone(p), End(p))
  BY <1>1 DEF BlocksFilled, BlockFilled, SamePlaces, SameFilled
<1>4. IndexPlaces(place2, p, ix, tail, es, Rem(p), Ins(p), Pub(p))
  BY <1>1 DEF IndexPlaces, SamePlaces
<1>5. /\ ix' = ix /\ tail' = tail /\ es' = es
  BY DEF SameView
<1> HIDE DEF ix, tail, es
<1>6. ProducerFits(place2, p, ix, tail, es, Rem(p), Ins(p), Pub(p), Sent(p), Gone(p), End(p), put[p],
                   tailBlock[p], count', elements')
  BY <1>1, <1>2, <1>3, <1>4 DEF ProducerFits
<1>7. ProducerFits(place2, p, ix', tail', es', Rem(p)', Ins(p)', Pub(p)', Sent(p)', Gone(p)', End(p)', put'[p],
                   tailBlock'[p], count', elements')
  BY <1>5, <1>6 DEF SameView
<1> QED
  BY <1>7 DEF ProducerNow, ix, tail, es

LEMMA QuietView ==
    ASSUME NEW p, Quiet(p), Rem(p)' = Rem(p)
    PROVE  SameView(p)
<1>1. Sent(p)' = Sent(p) /\ Gone(p)' = Gone(p) /\ Header(p)' = Header(p)
  BY DEF Quiet, Sent, Gone, Header
<1>2. End(p)' = End(p) /\ Ins(p)' = Ins(p)
  BY <1>1 DEF Quiet, End, Ins
<1>3. Pub(p)' = Pub(p)
  BY <1>2 DEF Quiet, Pub
<1> QED
  BY <1>1, <1>2, <1>3 DEF SameView, Quiet

LEMMA QuietNumbers ==
    ASSUME NEW p, Quiet(p), SameClaims(p), NumbersFit(p)
    PROVE  NumbersFit(p)'
<1>1. Sent(p)' = Sent(p) /\ Gone(p)' = Gone(p)
  BY DEF Quiet, Sent, Gone
<1> QED
  BY <1>1 DEF NumbersFit, Quiet, SameClaims

LEMMA GetSame ==
    ASSUME NEW p, get' = get, received'[p] = received[p]
    PROVE  SameClaims(p) /\ Turn' = Turn /\ Gone(p)' = Gone(p)
<1>1. Turn' = Turn /\ Gone(p)' = Gone(p)
  BY DEF Turn, Gone
<1>2. Rem(p)' = Rem(p)
  BY <1>1 DEF Rem
<1>3. Claimed(p)' = Claimed(p) /\ Headed(p)' = Headed(p)
  BY <1>1 DEF Claimed, Headed
<1> QED
  BY <1>1, <1>2, <1>3 DEF SameClaims

LEMMA SameScan ==
    ASSUME ScanNow, get' = get, received' = received, blockIndex'[Turn] = blockIndex[Turn],
           Pub(Turn)' = Pub(Turn)
    PROVE  ScanNow'
<1>1. Turn' = Turn /\ Gone(Turn)' = Gone(Turn)
  BY DEF Turn, Gone
<1>2. Rem(Turn)' = Rem(Turn)
  BY <1>1 DEF Rem
<1>3. Header(Turn)' = Header(Turn)
  BY <1>1 DEF Header
<1> QED
  BY <1>1, <1>2, <1>3 DEF ScanNow

-----------------------------------------------------------------------------
(* A step of a producer                                                    *)

QueuesNow == \E place, n : QNow(place, n)

PutIs(p, c) == put' = [put EXCEPT ![p] = c]

SameIndices(p) ==
    /\ tailIndex'[p] = tailIndex[p] /\ headIndex'[p] = headIndex[p]
    /\ dequeueOptimisticCount'[p] = dequeueOptimisticCount[p]
    /\ dequeueOvercommit'[p] = dequeueOvercommit[p] /\ received'[p] = received[p]

LEMMA NumbersStay ==
    ASSUME NEW p, SameIndices(p)
    PROVE  /\ Sent(p)' = Sent(p) /\ Gone(p)' = Gone(p)
           /\ NumbersFit(p) /\ SameClaims(p) => NumbersFit(p)'
<1>1. Sent(p)' = Sent(p) /\ Gone(p)' = Gone(p)
  BY DEF SameIndices, Sent, Gone
<1> QED
  BY <1>1 DEF NumbersFit, SameIndices, SameClaims

LEMMA PutChanges ==
    ASSUME put \in [Producers -> PutRecords], NEW p \in Producers, NEW c \in PutRecords, PutIs(p, c)
    PROVE  /\ put' \in [Producers -> PutRecords] /\ put'[p] = c
           /\ \A q \in Producers \ {p} : put'[q] = put[q]
BY DEF PutIs

LEMMA PutGoes ==
    ASSUME put \in [Producers -> PutRecords], NEW p \in Producers, NEW at \in PutSteps, PutAt(p, at)
    PROVE  \E c \in PutRecords :
             /\ PutIs(p, c)
             /\ c.at = at /\ c.block = put[p].block /\ c.entry = put[p].entry /\ c.tail = put[p].tail
<1> DEFINE c == [put[p] EXCEPT !.at = at]
<1>1. put[p] \in PutRecords
  OBVIOUS
<1>2. c \in PutRecords /\ c.at = at /\ c.block = put[p].block /\ c.entry = put[p].entry /\ c.tail = put[p].tail
  BY <1>1 DEF PutRecords
<1>3. PutIs(p, c)
  BY DEF PutAt, PutIs
<1> QED
  BY <1>2, <1>3

\* The queue stays as it is while its producer goes on.
LEMMA ProducerGoes ==
    ASSUME NEW place, NEW place2, NEW p, ProducerNow(place, p),
           Header(p)' = Header(p), entries'[p] = entries[p], tailBlock'[p] = tailBlock[p],
           Rem(p)' = Rem(p), Ins(p)' = Ins(p), Pub(p)' = Pub(p), Sent(p)' = Sent(p),
           Gone(p)' = Gone(p), End(p)' = End(p), NEW c, put'[p] = c,
           \A b \in Blocks :
             \/ place[b].at = "index" /\ place[b].by = p
             \/ place2[b].at = "index" /\ place2[b].by = p
             => place2[b] = place[b],
           SameFilled(place, p), HandPlaces(place2, p, c),
           PutFits(c, Header(p).index, Header(p).tail, entries[p], Rem(p), Ins(p), Pub(p), Sent(p),
                   tailBlock[p])
    PROVE  ProducerNow(place2, p)'
<1> DEFINE ix == Header(p).index
           tail == Header(p).tail
           es == entries[p]
<1>1. /\ RingFits(ix, tail, es, Rem(p), Ins(p), Pub(p))
      /\ PutFits(c, ix, tail, es, Rem(p), Ins(p), Pub(p), Sent(p), tailBlock[p])
      /\ IndexPlaces(place, p, ix, tail, es, Rem(p), Ins(p), Pub(p))
      /\ BlocksFilled(place, p, count, elements, Gone(p), End(p))
  BY DEF ProducerNow, ProducerFits
<1>3. BlocksFilled(place2, p, count', elements', Gone(p), End(p))
  BY <1>1 DEF BlocksFilled, BlockFilled, SameFilled
<1>4. IndexPlaces(place2, p, ix, tail, es, Rem(p), Ins(p), Pub(p))
  BY <1>1 DEF IndexPlaces
<1>5. /\ ix' = ix /\ tail' = tail /\ es' = es
  OBVIOUS
<1> HIDE DEF ix, tail, es
<1>6. ProducerFits(place2, p, ix, tail, es, Rem(p), Ins(p), Pub(p), Sent(p), Gone(p), End(p), c,
                   tailBlock[p], count', elements')
  BY <1>1, <1>3, <1>4 DEF ProducerFits
<1>7. ProducerFits(place2, p, ix', tail', es', Rem(p)', Ins(p)', Pub(p)', Sent(p)', Gone(p)', End(p)', put'[p],
                   tailBlock'[p], count', elements')
  BY <1>5, <1>6
<1> QED
  BY <1>7 DEF ProducerNow, ix, tail, es

LEMMA CallsStay ==
    ASSUME CallsAgree, call' = call, get' = get, NEW p,
           \A q \in Producers \ {p} : put'[q] = put[q], put[p].at # "list", put'[p].at # "list"
    PROVE  CallsAgree'
BY DEF CallsAgree

LEMMA FreeListStays ==
    ASSUME NEW place, NEW n, FreeListNow(place, n), UNCHANGED freeListVars
    PROVE  FreeListNow(place, n)'
BY DEF FreeListNow, freeListVars

LEMMA ProducerStep ==
    ASSUME NEW place, NEW n, QNow(place, n), NEW p \in Producers, get' = get, received' = received,
           \A q \in Producers \ {p} : Quiet(q),
           NEW place2, \A q \in Producers \ {p} : SamePlaces(place, place2, q) /\ SameFilled(place, q),
           NEW m, FreeListNow(place2, m)', PlacesKnown(place2, created'), TypesFit', CallsAgree',
           ProducerNow(place2, p)', NumbersFit(p)', ScanNow'
    PROVE  QueuesNow'
<1>1. ASSUME NEW q \in Producers \ {p}
      PROVE  ProducerNow(place2, q)' /\ NumbersFit(q)'
  <2>1. ProducerNow(place, q) /\ NumbersFit(q)
    BY DEF QNow
  <2>2. SameClaims(q)
    BY GetSame
  <2>3. NumbersFit(q)'
    BY <2>1, <2>2, QuietNumbers
  <2>4. SameView(q)
    BY <2>2, QuietView DEF SameClaims
  <2> QED
    BY <2>1, <2>3, <2>4, ProducerStays
<1>2. \A q \in Producers : ProducerNow(place2, q)' /\ NumbersFit(q)'
  BY <1>1
<1>3. GetKnows(get, Gone(Turn)) /\ Turn' = Turn
  BY DEF QNow, Turn
<1>4. Gone(Turn)' = Gone(Turn)
  BY <1>3 DEF Gone
<1>5. GetKnows(get, Gone(Turn))'
  BY <1>3, <1>4
<1>6. PlacesKnown(place2, created)'
  OBVIOUS
<1>7. QNow(place2, m)'
  BY <1>2, <1>5, <1>6 DEF QNow
<1> QED
  BY <1>7 DEF QueuesNow

LEMMA PutStep ==
    ASSUME NEW place, NEW n, QNow(place, n), NEW p \in Producers, NEW c \in PutRecords, PutIs(p, c),
           UNCHANGED <<queue, tailBlock, index, blocks, get, received>>,
           created' \in 0 .. MaxBlocks, poolIndex' \in Nat, CallsAgree',
           NEW place2, \A b \in Blocks : place[b].at = "index" \/ place2[b].at = "index" => place2[b] = place[b],
           \A q \in Producers \ {p} : SamePlaces(place, place2, q),
           NEW m, FreeListNow(place2, m)', PlacesKnown(place2, created'),
           c.at \in ElementSteps <=> put[p].at \in ElementSteps,
           c.at \in BlockSteps <=> put[p].at \in BlockSteps,
           c.at = "publish" <=> put[p].at = "publish",
           HandPlaces(place2, p, c),
           PutFits(c, Header(p).index, Header(p).tail, entries[p], Rem(p), Ins(p), Pub(p), Sent(p),
                   tailBlock[p])
    PROVE  QueuesNow'
<1>1. TypesFit /\ put \in [Producers -> PutRecords]
  BY DEF QNow, TypesFit
<1>2. /\ put' \in [Producers -> PutRecords] /\ put'[p] = c
      /\ \A q \in Producers \ {p} : put'[q] = put[q]
  BY <1>1, PutChanges
<1>3. TypesFit'
  BY <1>1, <1>2 DEF TypesFit, index, blocks
<1>4. \A q \in Producers \ {p} : Quiet(q)
  BY <1>2 DEF Quiet, queue, index
<1>5. SameIndices(p) /\ SameClaims(p) /\ Turn' = Turn
  BY GetSame DEF SameIndices, queue, Turn
<1>6. NumbersFit(p)' /\ Sent(p)' = Sent(p) /\ Gone(p)' = Gone(p)
  BY <1>5, NumbersStay DEF QNow
<1>7. Ins(p)' = Ins(p)
  BY <1>2, <1>6 DEF Ins
<1>8. Pub(p)' = Pub(p)
  BY <1>2, <1>7 DEF Pub
<1>9. End(p)' = End(p)
  BY <1>2, <1>6 DEF End
<1>10. \A q \in Producers : SameFilled(place, q)
  BY DEF SameFilled, blocks
<1>11. ProducerNow(place, p)
  BY DEF QNow
<1>12. Header(p)' = Header(p) /\ entries'[p] = entries[p] /\ tailBlock'[p] = tailBlock[p]
  BY DEF Header, index
<1>13. Rem(p)' = Rem(p)
  BY <1>5 DEF SameClaims
<1>14. SameFilled(place, p)
  BY <1>10
<1>15. ProducerNow(place2, p)'
  BY <1>2, <1>6, <1>7, <1>8, <1>9, <1>11, <1>12, <1>13, <1>14, ProducerGoes
<1>16. ScanNow'
  <2>1. Pub(Turn)' = Pub(Turn)
    <3>1. CASE Turn = p
      BY <1>5, <1>8, <3>1
    <3>2. CASE Turn # p
      <4>1. tailIndex' = tailIndex /\ PutIs(p, c)
        BY DEF queue
      <4>2. put'[Turn] = put[Turn]
        BY <1>1, <3>2, <4>1 DEF PutIs
      <4>3. Sent(Turn)' = Sent(Turn)
        BY <1>5, <4>1 DEF Sent
      <4>4. Ins(Turn)' = Ins(Turn)
        BY <1>5, <4>2, <4>3 DEF Ins
      <4> QED
        BY <1>5, <4>2, <4>4 DEF Pub
    <3> QED
      BY <3>1, <3>2
  <2> QED
    BY <2>1, SameScan DEF QNow, index
<1>17. get' = get /\ received' = received
  OBVIOUS
<1>18. \A q \in Producers \ {p} : SamePlaces(place, place2, q) /\ SameFilled(place, q)
  BY <1>10
<1> QED
  BY <1>3, <1>4, <1>6, <1>15, <1>16, <1>17, <1>18, ProducerStep

\* It does nothing with blocks.
LEMMA PlainPutStep ==
    ASSUME NEW place, NEW n, QNow(place, n), NEW p \in Producers, NEW c \in PutRecords, PutIs(p, c),
           UNCHANGED <<queue, tailBlock, index, blocks, pool, get, received, freeListVars>>,
           put[p].at \notin {"list", "block"}, c.at \notin {"list", "block"},
           c.at \in ElementSteps <=> put[p].at \in ElementSteps,
           c.at \in BlockSteps <=> put[p].at \in BlockSteps,
           c.at = "publish" <=> put[p].at = "publish",
           PutFits(c, Header(p).index, Header(p).tail, entries[p], Rem(p), Ins(p), Pub(p), Sent(p),
                   tailBlock[p])
    PROVE  QueuesNow'
<1>1. TypesFit /\ CallsAgree /\ FreeListNow(place, n) /\ PlacesKnown(place, created) /\ ProducerNow(place, p)
  BY DEF QNow
<1>2. put' \in [Producers -> PutRecords] /\ put'[p] = c /\ \A q \in Producers \ {p} : put'[q] = put[q]
  BY <1>1, PutChanges DEF TypesFit
<1>3. CallsAgree'
  BY <1>1, <1>2, CallsStay DEF freeListVars
<1>4. created' \in 0 .. MaxBlocks /\ poolIndex' \in Nat /\ PlacesKnown(place, created')
  BY <1>1 DEF pool, TypesFit
<1>5. FreeListNow(place, n)'
  BY <1>1, FreeListStays
<1>6. HandPlaces(place, p, put[p])
  BY <1>1 DEF ProducerNow, ProducerFits
<1>7. HandPlaces(place, p, c)
  BY <1>6 DEF HandPlaces
<1>8. /\ \A b \in Blocks : place[b].at = "index" \/ place[b].at = "index" => place[b] = place[b]
      /\ \A q \in Producers \ {p} : SamePlaces(place, place, q)
  BY DEF SamePlaces
<1> QED
  BY <1>3, <1>4, <1>5, <1>7, <1>8, PutStep

LEMMA PutFitsOn ==
    ASSUME NEW c, NEW d, NEW ix, NEW tail, NEW es, NEW rem, NEW ins, NEW pub, NEW sent, NEW tb,
           PutFits(d, ix, tail, es, rem, ins, pub, sent, tb), c.entry = d.entry, c.at # "tail",
           c.at \in EntrySteps => d.at \in EntrySteps, c.at \in BlockSteps => d.at \in BlockSteps,
           c.at \in ElementSteps => d.at \in ElementSteps
    PROVE  PutFits(c, ix, tail, es, rem, ins, pub, sent, tb)
BY DEF PutFits

LEMMA PutFact ==
    ASSUME NEW place, NEW n, QNow(place, n), NEW p \in Producers
    PROVE  /\ put[p] \in PutRecords /\ put \in [Producers -> PutRecords]
           /\ ProducerNow(place, p) /\ NumbersFit(p)
           /\ RingFits(Header(p).index, Header(p).tail, entries[p], Rem(p), Ins(p), Pub(p))
           /\ PutFits(put[p], Header(p).index, Header(p).tail, entries[p], Rem(p), Ins(p), Pub(p), Sent(p),
                      tailBlock[p])
           /\ IndexPlaces(place, p, Header(p).index, Header(p).tail, entries[p], Rem(p), Ins(p), Pub(p))
           /\ HandPlaces(place, p, put[p])
           /\ BlocksFilled(place, p, count, elements, Gone(p), End(p))
BY DEF QNow, TypesFit, ProducerNow, ProducerFits

LEMMA SentIs ==
    ASSUME tailIndex \in [Producers -> Int], ReceivedFits, NEW p \in Producers, NumbersFit(p)
    PROVE  Slot(tailIndex[p]) = Sent(p) % BLOCK_SIZE /\ Sent(p) \in 0 .. IndexRange - 1 /\ Sent(p) \in Int
           /\ Sent(p) \in Nat
<1>1. Sent(p) \in 0 .. IndexRange - 1
  BY InQueueType
<1>2. Sent(p) \in Int /\ Sent(p) \in Nat
  BY <1>1, Sizes
<1>3. tailIndex[p] = Wrap(Start + Sent(p))
  BY DEF NumbersFit
<1> QED
  BY <1>1, <1>2, <1>3, SlotIs

LEMMA StartBlockKeepsQ ==
    ASSUME IInv, NEW place, NEW n, QNow(place, n), NEW p \in Producers, StartBlock(p)
    PROVE  QueuesNow'
<1>1. PICK c \in PutRecords : PutIs(p, c) /\ c.at = "entry"
  BY PutFact, PutGoes DEF StartBlock, PutSteps
<1>2. Sent(p) % BLOCK_SIZE = 0
  BY PutFact, SentIs DEF IInv, IndexesFit, StartBlock
<1>3. PutFits(c, Header(p).index, Header(p).tail, entries[p], Rem(p), Ins(p), Pub(p), Sent(p), tailBlock[p])
  BY <1>1, <1>2 DEF PutFits, BlockSteps, ElementSteps
<1>4. put[p].at = "idle"
  BY DEF StartBlock, At
<1>5. /\ UNCHANGED <<queue, tailBlock, index, blocks, pool, get, received, freeListVars>>
      /\ put[p].at \notin {"list", "block"} /\ c.at \notin {"list", "block"}
      /\ c.at \in ElementSteps <=> put[p].at \in ElementSteps
      /\ c.at \in BlockSteps <=> put[p].at \in BlockSteps
      /\ c.at = "publish" <=> put[p].at = "publish"
  BY <1>1, <1>4 DEF StartBlock, BlockSteps, ElementSteps
<1> QED
  BY <1>1, <1>3, <1>5, PlainPutStep

LEMMA SignalKeepsQ ==
    ASSUME NEW place, NEW n, QNow(place, n), NEW p \in Producers, Signal(p) \/ WakeConsumer(p)
    PROVE  QueuesNow'
<1>1. PICK c \in PutRecords : PutIs(p, c) /\ c.at \in {"raise", "idle"} /\ c.entry = put[p].entry
  <2>1. "raise" \in PutSteps /\ "idle" \in PutSteps
    BY DEF PutSteps
  <2>2. PutAt(p, "raise") \/ PutAt(p, "idle")
    BY DEF Signal, WakeConsumer
  <2>3. CASE PutAt(p, "raise")
    BY <2>1, <2>3, PutFact, PutGoes
  <2>4. CASE PutAt(p, "idle")
    BY <2>1, <2>4, PutFact, PutGoes
  <2> QED
    BY <2>2, <2>3, <2>4
<1>2. put[p].at \in {"signal", "raise"}
  BY DEF Signal, WakeConsumer, At
<1>3. PutFits(c, Header(p).index, Header(p).tail, entries[p], Rem(p), Ins(p), Pub(p), Sent(p), tailBlock[p])
  BY <1>1, <1>2, PutFact, PutFitsOn DEF EntrySteps, BlockSteps, ElementSteps
<1>5. /\ UNCHANGED <<queue, tailBlock, index, blocks, pool, get, received, freeListVars>>
      /\ put[p].at \notin {"list", "block"} /\ c.at \notin {"list", "block"}
      /\ c.at \in ElementSteps <=> put[p].at \in ElementSteps
      /\ c.at \in BlockSteps <=> put[p].at \in BlockSteps
      /\ c.at = "publish" <=> put[p].at = "publish"
  BY <1>1, <1>2 DEF Signal, WakeConsumer, BlockSteps, ElementSteps
<1> QED
  BY <1>1, <1>3, <1>5, PlainPutStep

\* A thread begins to take a block from the free list.
LEMMA TryGetKeeps ==
    ASSUME NEW place, NEW n, FreeListNow(place, n), NEW t \in Threads, call[t].at = "out", TryGet(t),
           freeListHead' = freeListHead, freeListRefs' = freeListRefs, freeListNext' = freeListNext
    PROVE  /\ FreeListNow(place, n)' /\ call'[t].gets /\ call'[t].at = "load"
           /\ \A s \in Threads \ {t} : call'[s] = call[s]
<1> DEFINE c == [NoCall EXCEPT !.at = "load", !.gets = TRUE]
<1>1. NoCall \in CallRecords
  BY FreeListAssumption DEF CallRecords, NoCall
<1>2. c \in CallRecords /\ c.at = "load" /\ c.gets
  BY <1>1 DEF CallRecords, GetCallSteps
<1>3. CallIs(t, c)
  BY DEF TryGet, CallIs
<1> HIDE DEF c
<1>4. CallFits(c, freeListNext)
  BY <1>2 DEF CallFits, AddSteps
<1>5. \A b \in Blocks : LooksAt(c, b) <=> LooksAt(call[t], b)
  BY <1>2 DEF LooksAt
<1>6. \A b \in Blocks, at \in CallPlaces : Has(c, b, at) <=> Has(call[t], b, at)
  BY <1>2 DEF Has, CallPlaces
<1>7. FreeListNow(place, n)'
  BY <1>2, <1>3, <1>4, <1>5, <1>6, QuietCall
<1>8. call \in [Threads -> CallRecords]
  BY FreeListFacts
<1> QED
  BY <1>2, <1>3, <1>7, <1>8 DEF CallIs

LEMMA ThreadsAre ==
    /\ Producers \subseteq Threads /\ Consumer \in Threads /\ Consumer \notin Producers
    /\ Threads = Producers \cup {Consumer}
BY QueueAssumption

\* requisition_block asks the free list.
LEMMA ListAsked ==
    ASSUME NEW place, NEW n, QNow(place, n), NEW p \in Producers, put[p].at \in {"pool", "take"},
           PutAt(p, "list"), TryGet(p), created' = created, poolIndex' \in Nat,
           UNCHANGED <<queue, tailBlock, index, blocks, get, received, freeListHead, freeListRefs, freeListNext>>
    PROVE  QueuesNow'
<1>1. PICK c \in PutRecords : PutIs(p, c) /\ c.at = "list" /\ c.entry = put[p].entry
  BY PutFact, PutGoes DEF PutSteps
<1>2. PutFits(c, Header(p).index, Header(p).tail, entries[p], Rem(p), Ins(p), Pub(p), Sent(p), tailBlock[p])
  BY <1>1, PutFact, PutFitsOn DEF EntrySteps, BlockSteps, ElementSteps
<1>3. p \in Threads /\ TypesFit /\ CallsAgree /\ FreeListNow(place, n) /\ PlacesKnown(place, created)
  BY ThreadsAre DEF QNow
<1>4. call[p].at = "out"
  BY <1>3 DEF CallsAgree
<1>5. /\ FreeListNow(place, n)' /\ call'[p].gets /\ call'[p].at = "load"
      /\ \A s \in Threads \ {p} : call'[s] = call[s]
  BY <1>3, <1>4, TryGetKeeps
<1>6. put'[p] = c /\ \A q \in Producers \ {p} : put'[q] = put[q]
  BY <1>1, PutFact, PutChanges
<1>7. CallsAgree'
  <2>1. get' = get /\ call'[Consumer] = call[Consumer]
    BY <1>5, ThreadsAre
  <2>2. ASSUME NEW q \in Producers
        PROVE  IF put'[q].at = "list" THEN call'[q].gets /\ call'[q].at \in GetCallSteps ELSE call'[q].at = "out"
    <3>1. CASE q = p
      BY <1>1, <1>5, <1>6, <3>1 DEF GetCallSteps
    <3>2. CASE q # p
      BY <1>3, <1>5, <1>6, <3>2, ThreadsAre DEF CallsAgree
    <3> QED
      BY <3>1, <3>2
  <2> QED
    BY <1>3, <2>1, <2>2 DEF CallsAgree
<1>8. created' \in 0 .. MaxBlocks /\ PlacesKnown(place, created')
  BY <1>3 DEF TypesFit
<1>9. HandPlaces(place, p, c)
  BY <1>1, PutFact DEF HandPlaces
<1>10. /\ \A b \in Blocks : place[b].at = "index" \/ place[b].at = "index" => place[b] = place[b]
       /\ \A q \in Producers \ {p} : SamePlaces(place, place, q)
  BY DEF SamePlaces
<1>11. /\ c.at \in ElementSteps <=> put[p].at \in ElementSteps
       /\ c.at \in BlockSteps <=> put[p].at \in BlockSteps
       /\ c.at = "publish" <=> put[p].at = "publish"
  BY <1>1 DEF BlockSteps, ElementSteps
<1>12. UNCHANGED <<queue, tailBlock, index, blocks, get, received>>
  OBVIOUS
<1> QED
  BY <1>1, <1>2, <1>5, <1>7, <1>8, <1>9, <1>10, <1>11, <1>12, PutStep

LEMMA TryPoolKeepsQ ==
    ASSUME NEW place, NEW n, QNow(place, n), NEW p \in Producers, TryPool(p)
    PROVE  QueuesNow'
<1>1. put[p].at = "pool"
  BY DEF TryPool, At
<1>2. CASE PutAt(p, "list") /\ TryGet(p)
  <2>1. created' = created /\ poolIndex' \in Nat
    BY DEF TryPool, pool, QNow, TypesFit
  <2>2. UNCHANGED <<queue, tailBlock, index, blocks, get, received, freeListHead, freeListRefs, freeListNext>>
    BY DEF TryPool
  <2> QED
    BY <1>1, <1>2, <2>1, <2>2, ListAsked
<1>3. CASE PutAt(p, "take") /\ UNCHANGED call
  <2>1. PICK c \in PutRecords : PutIs(p, c) /\ c.at = "take" /\ c.entry = put[p].entry
    BY <1>3, PutFact, PutGoes DEF PutSteps
  <2>2. PutFits(c, Header(p).index, Header(p).tail, entries[p], Rem(p), Ins(p), Pub(p), Sent(p), tailBlock[p])
    BY <1>1, <2>1, PutFact, PutFitsOn DEF EntrySteps, BlockSteps, ElementSteps
  <2>3. /\ UNCHANGED <<queue, tailBlock, index, blocks, pool, get, received, freeListVars>>
        /\ put[p].at \notin {"list", "block"} /\ c.at \notin {"list", "block"}
        /\ c.at \in ElementSteps <=> put[p].at \in ElementSteps
        /\ c.at \in BlockSteps <=> put[p].at \in BlockSteps
        /\ c.at = "publish" <=> put[p].at = "publish"
    BY <1>1, <1>3, <2>1 DEF TryPool, BlockSteps, ElementSteps, freeListVars
  <2> QED
    BY <2>1, <2>2, <2>3, PlainPutStep
<1> QED
  BY <1>2, <1>3 DEF TryPool

\* A block that nobody has comes into the hands of a producer.
LEMMA BlockTaken ==
    ASSUME NEW place, NEW n, QNow(place, n), NEW p \in Producers, put[p].at \in {"take", "list"},
           NEW b \in Blocks, NEW c \in PutRecords, PutIs(p, c), c.at = "block", c.block = b, c.entry = put[p].entry,
           NEW place2, NEW w, w = Spot("hand", p, 0), Moves(place2, place, b, w),
           place[b].at \in {"unused", "got"},
           NEW m, FreeListNow(place2, m)', CallsAgree', poolIndex' \in Nat,
           IF place[b].at = "unused" THEN b = created + 1 /\ created' = b ELSE created' = created,
           UNCHANGED <<queue, tailBlock, index, blocks, get, received>>
    PROVE  QueuesNow'
<1>1. TypesFit /\ PlacesKnown(place, created)
  BY DEF QNow
<1>2. w.at = "hand" /\ w.by = p
  BY DEF Spot
<1>3. PutFits(c, Header(p).index, Header(p).tail, entries[p], Rem(p), Ins(p), Pub(p), Sent(p), tailBlock[p])
  BY PutFact, PutFitsOn DEF EntrySteps, BlockSteps, ElementSteps
<1>4. created' \in 0 .. MaxBlocks
  BY <1>1 DEF TypesFit, Blocks
<1>5. place2[b] = w /\ \A d \in Blocks \ {b} : place2[d] = place[d]
  BY DEF Moves
<1>6. PlacesKnown(place2, created')
  <2>1. ASSUME NEW d \in Blocks
        PROVE  /\ place2[d].at \in Places
               /\ place2[d].at = "unused" <=> d > created'
               /\ place2[d].at \in {"index", "hand"} => place2[d].by \in Producers
    <3>1. CASE d = b
      <4>1. created \in Int /\ b <= created'
        BY <1>1 DEF TypesFit, PlacesKnown, Blocks
      <4>2. ~ (d > created')
        BY <3>1, <4>1, <1>4 DEF Blocks
      <4> QED
        BY <1>2, <1>5, <3>1, <4>2 DEF Places, Elsewhere
    <3>2. CASE d # b
      <4>1. d > created <=> d > created'
        BY <1>1, <3>2 DEF TypesFit, Blocks
      <4> QED
        BY <1>1, <1>5, <3>2, <4>1 DEF PlacesKnown
    <3> QED
      BY <3>1, <3>2
  <2> QED
    BY <2>1 DEF PlacesKnown
<1>7. HandPlaces(place2, p, c)
  BY <1>2, <1>5, PutFact DEF HandPlaces
<1>8. \A d \in Blocks : place[d].at = "index" \/ place2[d].at = "index" => place2[d] = place[d]
  BY <1>2, <1>5
<1>9. \A q \in Producers \ {p} : SamePlaces(place, place2, q)
  BY <1>2, <1>5 DEF SamePlaces
<1>10. /\ c.at \in ElementSteps <=> put[p].at \in ElementSteps
       /\ c.at \in BlockSteps <=> put[p].at \in BlockSteps
       /\ c.at = "publish" <=> put[p].at = "publish"
  BY DEF BlockSteps, ElementSteps
<1> QED
  BY <1>3, <1>4, <1>6, <1>7, <1>8, <1>9, <1>10, PutStep

\* A block's place changes that the free list does not deal with.
LEMMA PlaceMoves ==
    ASSUME NEW place, NEW n, FreeListNow(place, n), UNCHANGED freeListVars,
           NEW b \in Blocks, NEW w, place[b].at \in Elsewhere, w.at \in Elsewhere,
           NEW place2, Moves(place2, place, b, w)
    PROVE  FreeListNow(place2, n)'
<1>1. /\ CallsFit(call, freeListNext) /\ RefsFit(freeListRefs, call, place) /\ InCalls(call, place)
      /\ ChainFits(freeListHead, freeListNext, place, n)
  BY DEF FreeListNow, FreeListFits
<1>2. place2[b] = w /\ DOMAIN place2 = Blocks /\ \A d \in Blocks \ {b} : place2[d] = place[d]
  BY DEF Moves
<1>3. place[b].at \notin CallPlaces \cup {"list", "owed"} /\ w.at \notin CallPlaces \cup {"list", "owed"}
  BY DEF Elsewhere, CallPlaces
<1>4. InCalls(call, place2)
  BY <1>1, <1>2, <1>3 DEF InCalls
<1>5. ChainFits(freeListHead, freeListNext, place2, n)
  BY <1>1, <1>3, ChainSame
<1>6. RefsFit(freeListRefs, call, place2)
  <2>1. Extra(w.at) = 0 /\ Extra(place[b].at) = 0
    BY DEF Extra, Elsewhere
  <2> QED
    BY <1>1, <1>2, <1>3, <2>1 DEF RefsFit, CallPlaces
<1>7. FreeListNow(place2, n)
  BY <1>1, <1>4, <1>5, <1>6 DEF FreeListNow, FreeListFits
<1> QED
  BY <1>7, FreeListStays

LEMMA MovesExist ==
    ASSUME NEW place, DOMAIN place = Blocks, NEW b \in Blocks, NEW w
    PROVE  \E place2 : Moves(place2, place, b, w)
<1> DEFINE place2 == [d \in Blocks |-> IF d = b THEN w ELSE place[d]]
<1>1. Moves(place2, place, b, w)
  BY DEF Moves
<1> QED
  BY <1>1

LEMMA PutBlock ==
    ASSUME put \in [Producers -> PutRecords], NEW p \in Producers, NEW b \in Blocks,
           put' = [put EXCEPT ![p].at = "block", ![p].block = b]
    PROVE  \E c \in PutRecords : PutIs(p, c) /\ c.at = "block" /\ c.block = b /\ c.entry = put[p].entry
<1> DEFINE c == [put[p] EXCEPT !.at = "block", !.block = b]
<1>1. put[p] \in PutRecords /\ b \in 0 .. MaxBlocks
  BY FreeListAssumption DEF Blocks
<1>2. c \in PutRecords /\ c.at = "block" /\ c.block = b /\ c.entry = put[p].entry
  BY <1>1 DEF PutRecords, PutSteps
<1>3. PutIs(p, c)
  BY DEF PutIs
<1> QED
  BY <1>2, <1>3

LEMMA TakeFromPoolKeepsQ ==
    ASSUME NEW place, NEW n, QNow(place, n), NEW p \in Producers, TakeFromPool(p)
    PROVE  QueuesNow'
<1>1. put[p].at = "take" /\ poolIndex' \in Nat
  BY DEF TakeFromPool, At, QNow, TypesFit
<1>2. CASE ~ (poolIndex < PoolSize)
  <2>1. PutAt(p, "list") /\ TryGet(p) /\ created' = created
    BY <1>2 DEF TakeFromPool
  <2>2. UNCHANGED <<queue, tailBlock, index, blocks, get, received, freeListHead, freeListRefs, freeListNext>>
    BY DEF TakeFromPool
  <2> QED
    BY <1>1, <2>1, <2>2, ListAsked
<1>3. CASE poolIndex < PoolSize
  <2>1. TypesFit /\ PlacesKnown(place, created) /\ FreeListNow(place, n) /\ CallsAgree
    BY DEF QNow
  <2>2. PICK b : b = created + 1
    OBVIOUS
  <2>3. b \in Blocks /\ b > created /\ created' = b /\ created < MaxBlocks
    BY <1>3, <2>1, <2>2, FreeListAssumption DEF TakeFromPool, TypesFit, Blocks
  <2>4. place[b].at = "unused"
    BY <2>1, <2>3 DEF PlacesKnown
  <2>5. PICK c \in PutRecords : PutIs(p, c) /\ c.at = "block" /\ c.block = b /\ c.entry = put[p].entry
    BY <1>3, <2>3, PutFact, PutBlock DEF TakeFromPool
  <2>6. PICK w : w = Spot("hand", p, 0)
    OBVIOUS
  <2>7. PICK place2 : Moves(place2, place, b, w)
    <3>1. DOMAIN place = Blocks
      BY <2>1 DEF FreeListNow, FreeListFits, RefsFit
    <3> QED
      BY <2>3, <3>1, MovesExist
  <2>8. UNCHANGED freeListVars
    BY <1>3 DEF TakeFromPool, freeListVars
  <2>9. FreeListNow(place2, n)'
    <3>1. w.at \in Elsewhere /\ place[b].at \in Elsewhere
      BY <2>4, <2>6 DEF Elsewhere, Spot
    <3> QED
      BY <2>1, <2>3, <2>7, <2>8, <3>1, PlaceMoves
  <2>10. CallsAgree'
    <3>1. put'[p] = c /\ \A q \in Producers \ {p} : put'[q] = put[q]
      BY <2>5, PutFact, PutChanges
    <3>2. call' = call /\ get' = get
      BY <1>3 DEF TakeFromPool
    <3> QED
      BY <1>1, <2>1, <2>5, <3>1, <3>2, CallsStay
  <2>11. UNCHANGED <<queue, tailBlock, index, blocks, get, received>>
    BY DEF TakeFromPool
  <2>12. put[p].at \in {"take", "list"} /\ place[b].at \in {"unused", "got"}
         /\ IF place[b].at = "unused" THEN b = created + 1 /\ created' = b ELSE created' = created
    BY <1>1, <2>2, <2>3, <2>4
  <2> QED
    BY <1>1, <2>3, <2>5, <2>6, <2>7, <2>9, <2>10, <2>11, <2>12, BlockTaken
<1> QED
  BY <1>2, <1>3

LEMMA NoCallFacts ==
    /\ NoCall \in CallRecords /\ NoCall.at = "out"
    /\ \A next : CallFits(NoCall, next)
    /\ \A b : ~ LooksAt(NoCall, b)
    /\ \A b, at : at \in CallPlaces => ~ Has(NoCall, b, at)
<1>1. NoCall \in CallRecords /\ NoCall.at = "out"
  BY FreeListAssumption DEF CallRecords, NoCall
<1>2. "out" \notin AddSteps
  BY DEF AddSteps
<1> QED
  BY <1>1, <1>2 DEF CallFits, LooksAt, Has, CallPlaces

\* try_get returns.
LEMMA CallEnds ==
    ASSUME NEW place, NEW n, FreeListNow(place, n), NEW t \in Threads, CallIs(t, NoCall),
           freeListHead' = freeListHead, freeListRefs' = freeListRefs, freeListNext' = freeListNext,
           NEW b \in Blocks, NEW w, w.at \in Elsewhere, NEW place2, Moves(place2, place, b, w),
           \/ call[t].at = "got" /\ call[t].head = b
           \/ call[t].at \in {"empty", "added", "out"} /\ place[b].at \in Elsewhere
    PROVE  FreeListNow(place2, n)'
<1>1. /\ freeListHead \in 0 .. MaxBlocks /\ freeListRefs \in [Blocks -> Nat]
      /\ call \in [Threads -> CallRecords]
  BY FreeListFacts
<1>2. place[b].at \in Elsewhere \cup {"got"} /\ (place[b].at = "got" => place[b].by = t)
  <2>1. CASE call[t].at = "got" /\ call[t].head = b
    <3>1. Has(call[t], b, "got") /\ "got" \in CallPlaces
      BY <2>1 DEF Has, CallPlaces
    <3> QED
      BY <3>1, InHand
  <2>2. CASE place[b].at \in Elsewhere
    BY <2>2 DEF Elsewhere
  <2> QED
    BY <2>1, <2>2
<1>3. \A d \in Blocks, at \in CallPlaces : Has(call[t], d, at) => d = b
  BY DEF Has, CallPlaces, AddSteps
<1>4. \A d \in Blocks, at \in CallPlaces : Has(NoCall, d, at) <=> d = b /\ w.at = at
  <2>1. w.at \notin CallPlaces
    BY DEF CallPlaces, Elsewhere
  <2>2. \A d, at : at \in CallPlaces => ~ Has(NoCall, d, at)
    BY NoCallFacts
  <2> HIDE DEF NoCall
  <2> QED
    BY <2>1, <2>2
<1>5. w.at \notin CallPlaces \cup {"owed", "link", "list"} /\ place[b].at \notin {"list", "owed", "link"}
      /\ (place[b].at \in CallPlaces => place[b].by = t)
  BY <1>2 DEF CallPlaces, Elsewhere
<1>6. \A e \in Blocks : ~ LooksAt(NoCall, e) /\ ~ LooksAt(call[t], e)
  BY NoCallFacts DEF LooksAt
<1>7. Change(b, call[t], NoCall, place[b], w) = 0
  <2>1. Extra(w.at) = 0 /\ Extra(place[b].at) = 0
    BY <1>2 DEF Extra, Elsewhere
  <2> QED
    BY <1>6, <2>1 DEF Change
<1>8. RefsGo(freeListRefs', freeListRefs, b, call[t], NoCall, place[b], w)
  BY <1>1, <1>7 DEF RefsGo
<1>9. ChainFits(freeListHead', freeListNext, place2, n)
  <2>1. ChainFits(freeListHead, freeListNext, place, n)
    BY DEF FreeListNow, FreeListFits
  <2>2. ChainFits(freeListHead, freeListNext, place2, n)
    BY <1>5, <2>1, ChainSame
  <2> QED
    BY <2>2
<1>10. PICK c \in CallRecords : c = NoCall
  BY NoCallFacts
<1>11. CallIs(t, c) /\ CallFits(c, freeListNext)
  BY <1>10, NoCallFacts
<1> HIDE DEF NoCall
<1>12. FreeListNow(place2, n)'
  BY <1>3, <1>4, <1>5, <1>6, <1>8, <1>9, <1>10, <1>11, CallMoves
<1> QED
  BY <1>12

LEMMA TakeFromListKeepsQ ==
    ASSUME NEW place, NEW n, QNow(place, n), NEW p \in Producers, TakeFromList(p)
    PROVE  QueuesNow'
<1>1. put[p].at = "list" /\ poolIndex' \in Nat /\ call[p].at \in {"got", "empty"}
  BY DEF TakeFromList, At, QNow, TypesFit
<1>2. TypesFit /\ PlacesKnown(place, created) /\ FreeListNow(place, n) /\ CallsAgree /\ p \in Threads
  BY ThreadsAre DEF QNow
<1>3. PICK b : b = IF call[p].at = "got" THEN call[p].head ELSE created + 1
  OBVIOUS
<1>4. call \in [Threads -> CallRecords] /\ call[p].head \in 0 .. MaxBlocks /\ CallFits(call[p], freeListNext)
      /\ DOMAIN place = Blocks
  BY <1>2, FreeListFacts
<1>5. b \in Blocks /\ (call[p].at = "got" => place[b].at = "got")
      /\ (call[p].at = "empty" => place[b].at = "unused")
      /\ put' = [put EXCEPT ![p].at = "block", ![p].block = b]
      /\ IF place[b].at = "unused" THEN b = created + 1 /\ created' = b ELSE created' = created
  <2>1. CASE call[p].at = "got"
    <3>1. b \in Blocks
      BY <1>3, <1>4, <2>1, BlockNumbers DEF CallFits
    <3>2. Has(call[p], b, "got") /\ "got" \in CallPlaces
      BY <1>3, <2>1 DEF Has, CallPlaces
    <3>3. place[b].at = "got"
      BY <1>2, <3>1, <3>2, InHand
    <3> QED
      BY <1>3, <2>1, <3>1, <3>3 DEF TakeFromList
  <2>2. CASE call[p].at = "empty"
    <3>1. b \in Blocks /\ b > created /\ created' = b /\ b = created + 1
      BY <1>2, <1>3, <2>2, FreeListAssumption DEF TakeFromList, TypesFit, Blocks
    <3>2. place[b].at = "unused"
      BY <1>2, <3>1 DEF PlacesKnown
    <3> QED
      BY <1>3, <2>2, <3>1, <3>2 DEF TakeFromList
  <2> QED
    BY <1>1, <2>1, <2>2
<1>6. PICK c \in PutRecords : PutIs(p, c) /\ c.at = "block" /\ c.block = b /\ c.entry = put[p].entry
  BY <1>5, PutFact, PutBlock
<1>7. PICK w : w = Spot("hand", p, 0)
  OBVIOUS
<1>8. PICK place2 : Moves(place2, place, b, w)
  BY <1>4, <1>5, MovesExist
<1>9. CallIs(p, NoCall) /\ freeListHead' = freeListHead /\ freeListRefs' = freeListRefs
      /\ freeListNext' = freeListNext
  BY DEF TakeFromList, CallIs
<1>10. FreeListNow(place2, n)'
  <2>1. w.at \in Elsewhere
    BY <1>7 DEF Elsewhere, Spot
  <2>2. \/ call[p].at = "got" /\ call[p].head = b
        \/ call[p].at \in {"empty", "added", "out"} /\ place[b].at \in Elsewhere
    BY <1>1, <1>3, <1>5 DEF Elsewhere
  <2> QED
    BY <1>2, <1>5, <1>8, <1>9, <2>1, <2>2, CallEnds
<1>11. CallsAgree'
  <2>1. put'[p] = c /\ \A q \in Producers \ {p} : put'[q] = put[q]
    BY <1>6, PutFact, PutChanges
  <2>2. call'[p].at = "out" /\ \A t \in Threads \ {p} : call'[t] = call[t]
    BY <1>2, <1>4, <1>9, NoCallFacts DEF CallIs
  <2>3. get' = get /\ call'[Consumer] = call[Consumer]
    BY <2>2, ThreadsAre DEF TakeFromList
  <2>4. ASSUME NEW q \in Producers
        PROVE  IF put'[q].at = "list" THEN call'[q].gets /\ call'[q].at \in GetCallSteps ELSE call'[q].at = "out"
    <3>1. CASE q = p
      BY <1>6, <2>1, <2>2, <3>1
    <3>2. CASE q # p
      BY <1>2, <2>1, <2>2, <3>2, ThreadsAre DEF CallsAgree
    <3> QED
      BY <3>1, <3>2
  <2> QED
    BY <1>2, <2>3, <2>4 DEF CallsAgree
<1>12. UNCHANGED <<queue, tailBlock, index, blocks, get, received>>
  BY DEF TakeFromList
<1>13. put[p].at \in {"take", "list"} /\ place[b].at \in {"unused", "got"}
  BY <1>1, <1>5
<1> QED
  BY <1>1, <1>5, <1>6, <1>7, <1>8, <1>10, <1>11, <1>12, <1>13, BlockTaken

LEMMA ProducerThen ==
    ASSUME NEW place2, NEW p, NEW ix, NEW tail, NEW es, NEW rem, NEW ins, NEW pub, NEW sent, NEW gone,
           NEW end, NEW c, NEW tb,
           Header(p)'.index = ix, Header(p)'.tail = tail, entries'[p] = es, Rem(p)' = rem, Ins(p)' = ins,
           Pub(p)' = pub, Sent(p)' = sent, Gone(p)' = gone, End(p)' = end, put'[p] = c, tailBlock'[p] = tb,
           RingFits(ix, tail, es, rem, ins, pub), PutFits(c, ix, tail, es, rem, ins, pub, sent, tb),
           IndexPlaces(place2, p, ix, tail, es, rem, ins, pub), HandPlaces(place2, p, c),
           BlocksFilled(place2, p, count', elements', gone, end)
    PROVE  ProducerNow(place2, p)'
<1>1. ProducerFits(place2, p, Header(p)'.index, Header(p)'.tail, entries'[p], Rem(p)', Ins(p)', Pub(p)',
                   Sent(p)', Gone(p)', End(p)', put'[p], tailBlock'[p], count', elements')
  BY DEF ProducerFits
<1> QED
  BY <1>1 DEF ProducerNow

\* A producer between blocks.
LEMMA BetweenBlocks ==
    ASSUME IInv, NEW place, NEW n, QNow(place, n), NEW p \in Producers, put[p].at \in EntrySteps
    PROVE  /\ Sent(p) % BLOCK_SIZE = 0 /\ Sent(p) \in Nat /\ Sent(p) = BLOCK_SIZE * (Sent(p) \div BLOCK_SIZE)
           /\ Sent(p) \div BLOCK_SIZE \in Nat
           /\ tailIndex[p] = KeyOf(Sent(p) \div BLOCK_SIZE)
           /\ put[p].at # "element" => Ins(p) = Sent(p) \div BLOCK_SIZE
           /\ put[p].at = "element" => Ins(p) = (Sent(p) \div BLOCK_SIZE) + 1
           /\ Ins(p) \in Nat
           /\ put[p].at \notin BlockSteps => Pub(p) = Ins(p)
           /\ put[p].at \in BlockSteps => Pub(p) = Ins(p) + 1
<1>1. Sent(p) \in Nat /\ Sent(p) % BLOCK_SIZE = 0 /\ NumbersFit(p)
  BY PutFact, SentIs DEF IInv, IndexesFit, PutFits
<1>2. PICK s \in Nat : s = Sent(p)
  BY <1>1
<1>3. PICK B \in Nat \ {0} : B = BLOCK_SIZE
  BY Sizes
<1>4. s \div B \in Int /\ s % B \in 0 .. B - 1 /\ s = B * (s \div B) + (s % B) /\ s \div B \in Nat
  <2>1. s \in Int /\ s >= 0
    OBVIOUS
  <2> QED
    BY <2>1, DivMod
<1>5. PICK q \in Nat : q = s \div B
  BY <1>4
<1>6. s = B * q
  BY <1>1, <1>2, <1>3, <1>4, <1>5
<1>7. tailIndex[p] = KeyOf(q)
  <2>1. tailIndex[p] = Wrap(Start + s)
    BY <1>1, <1>2 DEF NumbersFit
  <2>2. B * q = q * B
    OBVIOUS
  <2> QED
    BY <1>3, <1>6, <2>1, <2>2 DEF KeyOf
<1>8. Ins(p) = q + (IF put[p].at = "element" THEN 1 ELSE 0)
  <2>1. Ins(p) = q + (IF Sent(p) % BLOCK_SIZE # 0 \/ put[p].at \in ElementSteps THEN 1 ELSE 0)
    BY <1>2, <1>3, <1>5 DEF Ins
  <2>2. put[p].at \in ElementSteps <=> put[p].at = "element"
    BY DEF ElementSteps, EntrySteps, BlockSteps
  <2> QED
    BY <1>1, <2>1, <2>2
<1>9. PICK i \in Nat : i = Ins(p)
  BY <1>8
<1>10. Pub(p) = i + (IF put[p].at \in BlockSteps THEN 1 ELSE 0)
  BY <1>9 DEF Pub
<1>11. q = Sent(p) \div BLOCK_SIZE /\ Sent(p) = BLOCK_SIZE * q
  BY <1>2, <1>3, <1>5, <1>6
<1> QED
  BY <1>1, <1>7, <1>8, <1>9, <1>10, <1>11

LEMMA NextEntryIs ==
    ASSUME IInv, NEW place, NEW n, QNow(place, n), NEW p \in Producers, put[p].at = "entry",
           NEW e, e = NextEntry(p).entry
    PROVE  /\ e = EntryFrom(Header(p).index, Header(p).tail, Pub(p) - 1, Pub(p))
           /\ NextEntry(p).tail = (Header(p).tail + 1) % Len(Header(p).index)
           /\ e \in 1 .. Len(Header(p).index) /\ Ins(p) = Pub(p)
           /\ IsFree(p, e) => Pub(p) - Rem(p) < Len(Header(p).index)
           /\ ~ IsFree(p, e) => Pub(p) - Rem(p) = Len(Header(p).index)
<1>1. Pub(p) = Ins(p)
  BY BetweenBlocks DEF EntrySteps, BlockSteps
<1>2. PICK ix, tail, es, rem, pub : /\ ix = Header(p).index /\ tail = Header(p).tail /\ es = entries[p]
                                    /\ rem = Rem(p) /\ pub = Pub(p)
  OBVIOUS
<1>3. RingFits(ix, tail, es, rem, pub, pub)
  BY <1>1, <1>2, PutFact
<1>4. PICK f : f = EntryFrom(ix, tail, pub - 1, pub)
  OBVIOUS
<1>5. /\ f = ix[((tail + 1) % Len(ix)) + 1] /\ f \in 1 .. Len(ix)
      /\ es[f].key = INVALID_BLOCK_BASE \/ es[f].value = 0 => pub - rem < Len(ix)
      /\ es[f].value # 0 => pub - rem = Len(ix)
  BY <1>3, <1>4, EntryFree
<1>6. NextEntry(p).tail = (tail + 1) % Len(ix) /\ e = ix[((tail + 1) % Len(ix)) + 1]
  BY <1>2 DEF NextEntry, Capacity
<1>7. e = f
  BY <1>5, <1>6
<1> QED
  BY <1>1, <1>2, <1>4, <1>5, <1>6, <1>7 DEF IsFree

\* insert_block_index_entry, when the next entry is free.
LEMMA KeyInserted ==
    ASSUME IInv, NEW place, NEW n, QNow(place, n), NEW p \in Producers, put[p].at = "entry",
           NEW e, e = NextEntry(p).entry, IsFree(p, e),
           entries' = [entries EXCEPT ![p][e].key = tailIndex[p]],
           put' = [put EXCEPT ![p] = [at |-> "tail", block |-> 0, entry |-> e, tail |-> NextEntry(p).tail]],
           UNCHANGED <<queue, tailBlock, blockIndex, blocks, pool, get, received, freeListVars>>
    PROVE  QueuesNow'
<1>1. TypesFit /\ CallsAgree /\ FreeListNow(place, n) /\ PlacesKnown(place, created)
  BY DEF QNow
<1>2. PICK ix, tail, es, rem, pub, sent, gone, end, tb :
        /\ ix = Header(p).index /\ tail = Header(p).tail /\ es = entries[p] /\ rem = Rem(p) /\ pub = Pub(p)
        /\ sent = Sent(p) /\ gone = Gone(p) /\ end = End(p) /\ tb = tailBlock[p]
  OBVIOUS
<1>3. /\ Ins(p) = pub /\ sent % BLOCK_SIZE = 0 /\ tailIndex[p] = KeyOf(pub)
  BY <1>2, BetweenBlocks DEF EntrySteps, BlockSteps
<1>4. /\ RingFits(ix, tail, es, rem, pub, pub) /\ IndexPlaces(place, p, ix, tail, es, rem, pub, pub)
      /\ HandPlaces(place, p, put[p]) /\ BlocksFilled(place, p, count, elements, gone, end)
      /\ NumbersFit(p) /\ put[p] \in PutRecords
  BY <1>2, <1>3, PutFact
<1>5. /\ e = EntryFrom(ix, tail, pub - 1, pub) /\ NextEntry(p).tail = (tail + 1) % Len(ix)
      /\ e \in 1 .. Len(ix) /\ pub - rem < Len(ix)
  BY <1>2, NextEntryIs
<1>6. PICK es2 : KeySet(es2, es, e, KeyOf(pub))
  BY DEF KeySet
<1>7. entries'[p] = es2 /\ DOMAIN entries' = Producers /\ \A q \in Producers \ {p} : entries'[q] = entries[q]
  BY <1>1, <1>2, <1>3, <1>6 DEF TypesFit, KeySet
<1>8. RingFits(ix, tail, es2, rem, pub, pub) /\ es2[e].key = KeyOf(pub)
  BY <1>4, <1>5, <1>6, KeyWritten
<1>9. /\ pub \in Nat /\ rem \in Nat /\ tail \in Nat /\ Len(ix) \in Nat \ {0} /\ DOMAIN es = 1 .. Len(ix)
      /\ \A d \in 1 .. Len(ix) : es[d] \in EntryRecords
  BY <1>4, RingTypes
<1>10. \A d \in 1 .. Len(ix) : es2[d].value = es[d].value
  BY <1>6, <1>9 DEF EntryRecords, KeySet
<1>11. PICK t2 \in Nat : t2 = (tail + 1) % Len(ix)
  <2>1. PICK l \in Nat \ {0} : l = Len(ix)
    BY <1>9
  <2>2. PICK t \in Int : t = tail + 1
    BY <1>9
  <2>3. t % l \in 0 .. l - 1
    BY <2>1, <2>2, DivMod
  <2> QED
    BY <2>1, <2>2, <2>3
<1>12. PICK c : c = [at |-> "tail", block |-> 0, entry |-> e, tail |-> t2]
  OBVIOUS
<1>13. c \in PutRecords /\ PutIs(p, c) /\ c.at = "tail" /\ c.entry = e /\ c.tail = (tail + 1) % Len(ix)
  BY <1>5, <1>9, <1>11, <1>12, FreeListAssumption DEF PutRecords, PutSteps, PutIs
<1>14. /\ put' \in [Producers -> PutRecords] /\ put'[p] = c
       /\ \A q \in Producers \ {p} : put'[q] = put[q]
  BY <1>1, <1>13, PutChanges DEF TypesFit
<1>15. IndexPlaces(place, p, ix, tail, es2, rem, pub, pub)
  <2>1. \A k \in Int : EntryFrom(ix, tail, pub - 1, k) \in 1 .. Len(ix)
    BY <1>4, EntryOfRing
  <2>2. \A k \in Int : es2[EntryFrom(ix, tail, pub - 1, k)].value = es[EntryFrom(ix, tail, pub - 1, k)].value
    BY <1>10, <2>1
  <2>3. \A k \in rem .. pub - 1 : k \in Int
    OBVIOUS
  <2> QED
    BY <1>4, <2>2, <2>3 DEF IndexPlaces
<1>16. PutFits(c, ix, tail, es2, rem, pub, pub, sent, tb)
  BY <1>3, <1>5, <1>8, <1>13 DEF PutFits, BlockSteps, ElementSteps
<1>17. HandPlaces(place, p, c)
  BY <1>4, <1>13 DEF HandPlaces
<1>18. SameIndices(p) /\ SameClaims(p) /\ Turn' = Turn
  BY GetSame DEF SameIndices, queue, Turn
<1>19. NumbersFit(p)' /\ Sent(p)' = sent /\ Gone(p)' = gone
  BY <1>2, <1>4, <1>18, NumbersStay
<1>20. Ins(p)' = pub /\ Pub(p)' = pub /\ End(p)' = end
  <2>1. Ins(p)' = Ins(p)
    BY <1>2, <1>13, <1>14, <1>19 DEF Ins, ElementSteps
  <2>2. Pub(p)' = Pub(p)
    BY <1>13, <1>14, <2>1 DEF Pub, BlockSteps
  <2>3. End(p)' = End(p)
    BY <1>2, <1>13, <1>14, <1>19 DEF End
  <2> QED
    BY <1>2, <1>3, <2>1, <2>2, <2>3
<1>21. ProducerNow(place, p)'
  <2>1. BlocksFilled(place, p, count', elements', gone, end)
    BY <1>4 DEF blocks
  <2>2. Header(p)'.index = ix /\ Header(p)'.tail = tail /\ tailBlock'[p] = tb /\ Rem(p)' = rem
    BY <1>2, <1>18 DEF Header, SameClaims
  <2> QED
    BY <1>7, <1>8, <1>14, <1>15, <1>16, <1>17, <1>19, <1>20, <2>1, <2>2, ProducerThen
<1>22. ScanNow'
  <2>1. Pub(Turn)' = Pub(Turn)
    <3>1. CASE Turn = p
      BY <1>2, <1>18, <1>20, <3>1
    <3>2. CASE Turn # p
      <4>1. put'[Turn] = put[Turn]
        BY <1>1, <1>13, <3>2 DEF PutIs, TypesFit
      <4>2. Sent(Turn)' = Sent(Turn)
        BY <1>18 DEF Sent, queue
      <4>3. Ins(Turn)' = Ins(Turn)
        BY <1>18, <4>1, <4>2 DEF Ins
      <4> QED
        BY <1>18, <4>1, <4>3 DEF Pub
    <3> QED
      BY <3>1, <3>2
  <2> QED
    BY <2>1, SameScan DEF QNow
<1>23. CallsAgree'
  BY <1>1, <1>13, <1>14, CallsStay DEF freeListVars
<1>24. TypesFit'
  BY <1>1, <1>7, <1>14 DEF TypesFit, pool, blocks
<1>25. FreeListNow(place, n)' /\ PlacesKnown(place, created')
  BY <1>1, FreeListStays DEF pool
<1>26. \A q \in Producers \ {p} : Quiet(q) /\ SamePlaces(place, place, q) /\ SameFilled(place, q)
  BY <1>7, <1>14 DEF Quiet, queue, SamePlaces, SameFilled, blocks
<1> QED
  BY <1>19, <1>21, <1>22, <1>23, <1>24, <1>25, <1>26, ProducerStep

LEMMA ScansCarry ==
    ASSUME NEW hx, NEW t, NEW c, NEW last, NEW ix, NEW tail, NEW pub, NEW rem, NEW ix2, NEW tail2, NEW pub2,
           Scans(hx, t, c, last, ix, tail, pub, rem), pub \in Int, pub2 \in Int, pub <= pub2,
           \A k \in rem .. pub - 1 : EntryFrom(ix2, tail2, pub2 - 1, k) = EntryFrom(ix, tail, pub - 1, k),
           rem \in Int
    PROVE  Scans(hx, t, c, last, ix2, tail2, pub2, rem)
<1>1. last \in Int /\ last <= pub - 1 /\ last <= pub2 - 1
  BY DEF Scans
<1>2. \A k \in rem .. last : k \in rem .. pub - 1
  BY <1>1
<1> QED
  BY <1>1, <1>2 DEF Scans

\* The index changes under the consumer, which looks at an old header, or has read the tail of its.
LEMMA ScanCarries ==
    ASSUME NEW hx, NEW ht, NEW h, NEW m, NEW g, NEW gone, NEW ix, NEW tail, NEW pub, NEW rem,
           ScanFits(hx, ht, h, m, g, gone, ix, tail, pub, rem), pub \in Int, rem \in Int,
           NEW ix2, NEW tail2, NEW pub2, pub2 \in Int, pub <= pub2,
           \A k \in rem .. pub - 1 : EntryFrom(ix2, tail2, pub2 - 1, k) = EntryFrom(ix, tail, pub - 1, k),
           NEW ht2, NEW m2, g.at = "tail" => ht2 = ht /\ h # m2
    PROVE  ScanFits(hx, ht2, h, m2, g, gone, ix2, tail2, pub2, rem)
<1>1. PICK last \in Int :
      /\ gone + g.actual <= (last + 1) * BLOCK_SIZE
      /\ g.at = "tail" => Scans(hx, ht, last, last, ix, tail, pub, rem) /\ (h = m => last = pub - 1)
      /\ g.at = "key" => Scans(hx, g.tail, last, last, ix, tail, pub, rem)
      /\ g.at = "move" => Scans(hx, g.position, gone \div BLOCK_SIZE, last, ix, tail, pub, rem)
      /\ g.at \in {"empty", "free"} =>
           Scans(hx, g.position, (gone \div BLOCK_SIZE) - 1, last, ix, tail, pub, rem)
  BY DEF ScanFits
<1>2. \A t, c : Scans(hx, t, c, last, ix, tail, pub, rem) => Scans(hx, t, c, last, ix2, tail2, pub2, rem)
  BY ScansCarry
<1> QED
  BY <1>1, <1>2 DEF ScanFits

\* There is room for twice as many blocks.
LEMMA RoomToDouble ==
    ASSUME NEW n \in Nat \ {0}, Room % n = 0, NEW i \in Nat, n <= i, BLOCK_SIZE * i < IndexRange
    PROVE  2 * n <= Room
<1>1. PICK R \in Nat \ {0}, B \in Nat \ {0} : R = Room /\ B = BLOCK_SIZE /\ IndexRange = R * B
  BY Sizes
<1>2. i < R
  <2>1. SUFFICES ASSUME R <= i
                 PROVE  FALSE
    OBVIOUS
  <2>2. R * B <= i * B
    BY <2>1
  <2>3. B * i = i * B
    OBVIOUS
  <2> QED
    BY <1>1, <2>2, <2>3
<1>3. R \div n \in Int /\ R = n * (R \div n) + (R % n)
  <2>1. R \in Int
    OBVIOUS
  <2> QED
    BY <2>1, DivMod
<1>4. PICK q \in Int : q = R \div n
  BY <1>3
<1>5. R = n * q
  BY <1>1, <1>3, <1>4
<1>6. q >= 2
  <2>1. SUFFICES ASSUME q <= 1
                 PROVE  FALSE
    OBVIOUS
  <2>2. n * q <= n
    BY <2>1
  <2> QED
    BY <1>2, <1>5, <2>2
<1>7. n * q >= 2 * n
  BY <1>6
<1> QED
  BY <1>1, <1>5, <1>7

\* new_block_index.
LEMMA IndexDoubled ==
    ASSUME IInv, NEW place, NEW n, QNow(place, n), NEW p \in Producers, put[p].at = "entry",
           NEW e, e = NextEntry(p).entry, ~ IsFree(p, e),
           entries' = [entries EXCEPT ![p] = @ \o [i \in 1 .. Capacity(Header(p)) |-> FreeEntry(INVALID_BLOCK_BASE)]],
           blockIndex' = [blockIndex EXCEPT ![p] = Append(@, Doubled(p))],
           UNCHANGED <<queue, tailBlock, blocks, pool, put, get, received, freeListVars>>
    PROVE  QueuesNow'
<1>1. TypesFit /\ CallsAgree /\ FreeListNow(place, n) /\ PlacesKnown(place, created)
  BY DEF QNow
<1>2. PICK ix, tail, es, rem, pub, sent, gone, end, tb, c :
        /\ ix = Header(p).index /\ tail = Header(p).tail /\ es = entries[p] /\ rem = Rem(p) /\ pub = Pub(p)
        /\ sent = Sent(p) /\ gone = Gone(p) /\ end = End(p) /\ tb = tailBlock[p] /\ c = put[p]
  OBVIOUS
<1>3. /\ Ins(p) = pub /\ sent % BLOCK_SIZE = 0 /\ sent \in Nat /\ pub \in Nat /\ sent = BLOCK_SIZE * pub
  BY <1>2, BetweenBlocks DEF EntrySteps, BlockSteps
<1>4. /\ RingFits(ix, tail, es, rem, pub, pub) /\ IndexPlaces(place, p, ix, tail, es, rem, pub, pub)
      /\ HandPlaces(place, p, c) /\ BlocksFilled(place, p, count, elements, gone, end)
      /\ NumbersFit(p) /\ c \in PutRecords
  BY <1>2, <1>3, PutFact
<1>5. pub - rem = Len(ix)
  BY <1>2, NextEntryIs
<1>6. /\ pub \in Nat /\ rem \in Nat /\ tail \in Nat /\ Len(ix) \in Nat \ {0} /\ RingShape(ix, es)
  BY <1>4, RingTypes
<1>7. 2 * Len(ix) <= Room
  <2>1. PICK l \in Nat \ {0} : l = Len(ix)
    BY <1>6
  <2>2. Room % l = 0 /\ l <= pub
    BY <1>5, <1>6, <2>1 DEF RingShape
  <2>3. sent < IndexRange
    <3>1. tailIndex \in [Producers -> Int] /\ ReceivedFits
      BY DEF IInv, IndexesFit
    <3>2. Sent(p) \in 0 .. IndexRange - 1 /\ IndexRange \in Nat
      BY <3>1, InQueueType, Sizes
    <3> QED
      BY <1>2, <3>2
  <2> QED
    BY <1>3, <2>1, <2>2, <2>3, RoomToDouble
<1>8. PICK tail2 : tail2 = Len(ix) - 1
  OBVIOUS
<1>9. PICK ix2 : ix2 = [i \in 1 .. 2 * Len(ix) |-> IF i <= Len(ix) THEN ix[((tail + i) % Len(ix)) + 1] ELSE i]
  OBVIOUS
<1>10. PICK es2 : es2 = es \o [i \in 1 .. Len(ix) |-> FreeEntry(INVALID_BLOCK_BASE)]
  OBVIOUS
<1>31. TwiceAsLong(ix2, es2, ix, tail, es)
  BY <1>9, <1>10 DEF TwiceAsLong
<1>11. /\ RingFits(ix2, tail2, es2, rem, pub, pub)
       /\ \A k \in rem .. pub - 1 : EntryFrom(ix2, tail2, pub - 1, k) = EntryFrom(ix, tail, pub - 1, k)
       /\ \A d \in 1 .. Len(ix) : es2[d] = es[d]
  BY <1>4, <1>5, <1>7, <1>8, <1>31, RingDoubles
<1>12. /\ entries'[p] = es2 /\ DOMAIN entries' = Producers
       /\ \A q \in Producers \ {p} : entries'[q] = entries[q]
  BY <1>1, <1>2, <1>10 DEF TypesFit, Capacity
<1>13. /\ Doubled(p).tail = tail2 /\ Doubled(p).index = ix2
  BY <1>2, <1>8, <1>9 DEF Doubled, Capacity
<1>14. Doubled(p) \in HeaderRecords
  <2>1. RingShape(ix2, es2) /\ tail2 \in Nat
    BY <1>11, RingTypes
  <2>2. ix2 \in Seq(Nat)
    BY <2>1 DEF RingShape
  <2>3. Doubled(p) = [tail |-> tail2, index |-> ix2]
    BY <1>2, <1>8, <1>9 DEF Doubled, Capacity
  <2> QED
    BY <2>1, <2>2, <2>3 DEF HeaderRecords
<1>15. PICK h \in HeaderRecords : h = Doubled(p)
  BY <1>14
<1>16. PICK hs \in Seq(HeaderRecords) : hs = blockIndex[p] /\ Len(hs) > 0
  BY <1>1 DEF TypesFit
<1>17. /\ blockIndex'[p] = Append(hs, h) /\ blockIndex' \in [Producers -> Seq(HeaderRecords)]
       /\ \A q \in Producers \ {p} : blockIndex'[q] = blockIndex[q]
  <2>1. Append(hs, h) \in Seq(HeaderRecords) /\ blockIndex \in [Producers -> Seq(HeaderRecords)]
    BY <1>1 DEF TypesFit
  <2>2. blockIndex' = [blockIndex EXCEPT ![p] = Append(hs, h)]
    BY <1>15, <1>16
  <2> QED
    BY <2>1, <2>2
<1>18. Len(Append(hs, h)) = Len(hs) + 1 /\ Append(hs, h)[Len(hs) + 1] = h
       /\ \A i \in 1 .. Len(hs) : Append(hs, h)[i] = hs[i]
  OBVIOUS
<1>19. Header(p)' = h
  BY <1>17, <1>18 DEF Header
<1>20. IndexPlaces(place, p, ix2, tail2, es2, rem, pub, pub)
  <2>1. \A k \in rem .. pub - 1 :
          es2[EntryFrom(ix2, tail2, pub - 1, k)] = es[EntryFrom(ix, tail, pub - 1, k)]
    <3> TAKE k \in rem .. pub - 1
    <3>1. k \in Int
      OBVIOUS
    <3>2. EntryFrom(ix, tail, pub - 1, k) \in 1 .. Len(ix)
      BY <1>4, <3>1, EntryOfRing
    <3> QED
      BY <1>11, <3>2
  <2> QED
    BY <1>4, <2>1 DEF IndexPlaces
<1>21. PutFits(c, ix2, tail2, es2, rem, pub, pub, sent, tb)
  BY <1>2, <1>3 DEF PutFits, BlockSteps, ElementSteps
<1>22. SameIndices(p) /\ SameClaims(p) /\ Turn' = Turn
  BY GetSame DEF SameIndices, queue, Turn
<1>23. NumbersFit(p)' /\ Sent(p)' = sent /\ Gone(p)' = gone
  BY <1>2, <1>4, <1>22, NumbersStay
<1>24. Ins(p)' = pub /\ Pub(p)' = pub /\ End(p)' = end /\ put'[p] = c /\ tailBlock'[p] = tb
  <2>1. Ins(p)' = Ins(p)
    BY <1>2, <1>23 DEF Ins
  <2>2. Pub(p)' = Pub(p)
    BY <2>1 DEF Pub
  <2>3. End(p)' = End(p)
    BY <1>2, <1>23 DEF End
  <2> QED
    BY <1>2, <1>3, <2>1, <2>2, <2>3
<1>25. ProducerNow(place, p)'
  <2>1. BlocksFilled(place, p, count', elements', gone, end)
    BY <1>4 DEF blocks
  <2>2. Header(p)'.index = ix2 /\ Header(p)'.tail = tail2 /\ Rem(p)' = rem
    BY <1>2, <1>13, <1>15, <1>19, <1>22 DEF SameClaims
  <2> QED
    BY <1>4, <1>11, <1>12, <1>20, <1>21, <1>23, <1>24, <2>1, <2>2, ProducerThen
<1>26. ScanNow'
  <2>1. CASE Turn # p
    <3>1. blockIndex'[Turn] = blockIndex[Turn]
      BY <1>1, <2>1 DEF TypesFit
    <3>2. Pub(Turn)' = Pub(Turn)
      <4>1. Sent(Turn)' = Sent(Turn) /\ put' = put
        BY <1>22 DEF Sent, queue
      <4>2. Ins(Turn)' = Ins(Turn)
        BY <1>22, <4>1 DEF Ins
      <4> QED
        BY <1>22, <4>1, <4>2 DEF Pub
    <3> QED
      BY <3>1, <3>2, SameScan DEF QNow
  <2>2. CASE Turn = p
    <3>1. SUFFICES ASSUME get.at \in Scanning
                   PROVE  ScanNow'
      BY DEF ScanNow
    <3>2. /\ get.header \in 1 .. Len(hs)
          /\ ScanFits(hs[get.header].index, hs[get.header].tail, get.header, Len(hs), get, gone,
                      ix, tail, pub, rem)
      BY <1>2, <1>16, <2>2, <3>1 DEF QNow, ScanNow
    <3>3. PICK hx, ht, i, m, m2 : /\ hx = hs[get.header].index /\ ht = hs[get.header].tail
                                  /\ i = get.header /\ m = Len(hs) /\ m2 = Len(hs) + 1
      OBVIOUS
    <3>4. i # m2
      BY <3>2, <3>3
    <3>5. ScanFits(hx, ht, i, m, get, gone, ix, tail, pub, rem)
      BY <3>2, <3>3
    <3>6. pub \in Int /\ rem \in Int /\ pub <= pub
      BY <1>6
    <3>7. ScanFits(hx, ht, i, m2, get, gone, ix2, tail2, pub, rem)
      BY <1>11, <3>4, <3>5, <3>6, ScanCarries
    <3>8. /\ blockIndex'[Turn'] = Append(hs, h) /\ get' = get /\ Gone(Turn)' = gone
          /\ Pub(Turn)' = pub /\ Rem(Turn)' = rem /\ Header(Turn)' = h
      <4>1. Turn' = p
        BY <1>22, <2>2
      <4> QED
        BY <1>2, <1>17, <1>19, <1>22, <1>23, <1>24, <4>1 DEF SameClaims
    <3>9. /\ get.header \in 1 .. Len(Append(hs, h)) /\ Append(hs, h)[get.header].index = hx
          /\ Append(hs, h)[get.header].tail = ht /\ m2 = Len(Append(hs, h))
      BY <1>18, <3>2, <3>3
    <3>10. h.index = ix2 /\ h.tail = tail2
      BY <1>13, <1>15
    <3> QED
      BY <3>3, <3>7, <3>8, <3>9, <3>10 DEF ScanNow
  <2> QED
    BY <2>1, <2>2
<1>27. CallsAgree'
  BY <1>1 DEF CallsAgree, freeListVars
<1>28. TypesFit'
  <2>1. \A q \in Producers : Len(blockIndex'[q]) > 0
    BY <1>1, <1>16, <1>17, <1>18 DEF TypesFit
  <2> QED
    BY <1>1, <1>12, <1>17, <2>1 DEF TypesFit, pool, blocks
<1>29. FreeListNow(place, n)' /\ PlacesKnown(place, created')
  BY <1>1, FreeListStays DEF pool
<1>30. \A q \in Producers \ {p} : Quiet(q) /\ SamePlaces(place, place, q) /\ SameFilled(place, q)
  BY <1>12, <1>17 DEF Quiet, queue, SamePlaces, SameFilled, blocks
<1> QED
  BY <1>23, <1>25, <1>26, <1>27, <1>28, <1>29, <1>30, ProducerStep

LEMMA InsertEntryKeepsQ ==
    ASSUME IInv, NEW place, NEW n, QNow(place, n), NEW p \in Producers, InsertEntry(p)
    PROVE  QueuesNow'
<1>1. put[p].at = "entry"
  BY DEF InsertEntry, At
<1>2. PICK e : e = NextEntry(p).entry
  OBVIOUS
<1>3. CASE IsFree(p, e)
  <2>1. /\ entries' = [entries EXCEPT ![p][e].key = tailIndex[p]]
        /\ put' = [put EXCEPT ![p] = [at |-> "tail", block |-> 0, entry |-> e, tail |-> NextEntry(p).tail]]
        /\ UNCHANGED <<queue, tailBlock, blockIndex, blocks, pool, get, received, freeListVars>>
    BY <1>2, <1>3 DEF InsertEntry
  <2> QED
    BY <1>1, <1>2, <1>3, <2>1, KeyInserted
<1>4. CASE ~ IsFree(p, e)
  <2>1. /\ entries' = [entries EXCEPT ![p] =
                         @ \o [i \in 1 .. Capacity(Header(p)) |-> FreeEntry(INVALID_BLOCK_BASE)]]
        /\ blockIndex' = [blockIndex EXCEPT ![p] = Append(@, Doubled(p))]
        /\ UNCHANGED <<queue, tailBlock, blocks, pool, put, get, received, freeListVars>>
    BY <1>2, <1>4 DEF InsertEntry
  <2> QED
    BY <1>1, <1>2, <1>4, <2>1, IndexDoubled
<1> QED
  BY <1>3, <1>4

LEMMA PublishEntryKeepsQ ==
    ASSUME IInv, NEW place, NEW n, QNow(place, n), NEW p \in Producers, PublishEntry(p)
    PROVE  QueuesNow'
<1>1. TypesFit /\ CallsAgree /\ FreeListNow(place, n) /\ PlacesKnown(place, created)
  BY DEF QNow
<1>2. put[p].at = "tail" /\ UNCHANGED <<queue, tailBlock, entries, blocks, pool, get, received, freeListVars>>
      /\ PutAt(p, "pool")
      /\ blockIndex' = [blockIndex EXCEPT ![p][Len(blockIndex[p])].tail = put[p].tail]
  BY DEF PublishEntry, At
<1>3. PICK ix, tail, es, rem, pub, sent, gone, end, tb :
        /\ ix = Header(p).index /\ tail = Header(p).tail /\ es = entries[p] /\ rem = Rem(p) /\ pub = Pub(p)
        /\ sent = Sent(p) /\ gone = Gone(p) /\ end = End(p) /\ tb = tailBlock[p]
  OBVIOUS
<1>4. /\ Ins(p) = pub /\ sent % BLOCK_SIZE = 0 /\ sent \in Nat /\ pub \in Nat
  BY <1>2, <1>3, BetweenBlocks DEF EntrySteps, BlockSteps
<1>5. /\ RingFits(ix, tail, es, rem, pub, pub) /\ IndexPlaces(place, p, ix, tail, es, rem, pub, pub)
      /\ HandPlaces(place, p, put[p]) /\ BlocksFilled(place, p, count, elements, gone, end)
      /\ NumbersFit(p) /\ put[p] \in PutRecords
      /\ put[p].entry = EntryFrom(ix, tail, pub - 1, pub) /\ put[p].tail = (tail + 1) % Len(ix)
      /\ pub - rem < Len(ix) /\ es[put[p].entry].key = KeyOf(pub)
  BY <1>2, <1>3, <1>4, PutFact DEF PutFits
<1>6. PICK tail2, pub2 : tail2 = (tail + 1) % Len(ix) /\ pub2 = pub + 1
  OBVIOUS
<1>7. /\ RingFits(ix, tail2, es, rem, pub, pub2)
      /\ \A k \in Int : EntryFrom(ix, tail2, pub2 - 1, k) = EntryFrom(ix, tail, pub - 1, k)
  BY <1>5, <1>6, EntryPublished
<1>8. /\ rem \in Int /\ pub \in Int /\ pub2 \in Int /\ tail2 \in Nat /\ pub <= pub2
  BY <1>4, <1>6, <1>7, RingTypes
<1>9. PICK c \in PutRecords : PutIs(p, c) /\ c.at = "pool" /\ c.entry = put[p].entry
  BY <1>2, PutFact, PutGoes DEF PutSteps
<1>10. /\ put' \in [Producers -> PutRecords] /\ put'[p] = c
       /\ \A q \in Producers \ {p} : put'[q] = put[q]
  BY <1>1, <1>9, PutChanges DEF TypesFit
<1>11. PICK hs \in Seq(HeaderRecords) : hs = blockIndex[p] /\ Len(hs) > 0
  BY <1>1 DEF TypesFit
<1>12. PICK m \in Nat : m = Len(hs)
  BY <1>11
<1>13. m \in 1 .. Len(hs) /\ hs[m] \in HeaderRecords /\ hs[m] = Header(p)
  BY <1>11, <1>12 DEF Header
<1>14. PICK h \in HeaderRecords : h = [hs[m] EXCEPT !.tail = tail2]
  BY <1>8, <1>13 DEF HeaderRecords
<1>15. h.index = ix /\ h.tail = tail2
  BY <1>3, <1>13, <1>14 DEF HeaderRecords
<1>16. PICK hs2 : hs2 = [hs EXCEPT ![m] = h]
  OBVIOUS
<1>17. hs2 \in Seq(HeaderRecords) /\ Len(hs2) = m /\ hs2[m] = h
       /\ \A i \in 1 .. m : i # m => hs2[i] = hs[i]
  BY <1>12, <1>13, <1>16
<1>18. /\ blockIndex'[p] = hs2 /\ blockIndex' \in [Producers -> Seq(HeaderRecords)]
       /\ \A q \in Producers \ {p} : blockIndex'[q] = blockIndex[q]
  <2>1. blockIndex' = [blockIndex EXCEPT ![p] = hs2]
    BY <1>2, <1>5, <1>6, <1>11, <1>12, <1>14, <1>16
  <2>2. blockIndex \in [Producers -> Seq(HeaderRecords)]
    BY <1>1 DEF TypesFit
  <2> QED
    BY <1>17, <2>1, <2>2
<1>19. Header(p)' = h
  BY <1>17, <1>18 DEF Header
<1>20. IndexPlaces(place, p, ix, tail2, es, rem, pub, pub2)
  <2>1. \A k \in rem .. pub - 1 : k \in Int
    OBVIOUS
  <2> QED
    BY <1>5, <1>7, <2>1 DEF IndexPlaces
<1>21. PutFits(c, ix, tail2, es, rem, pub, pub2, sent, tb)
  BY <1>4, <1>5, <1>7, <1>8, <1>9 DEF PutFits, ElementSteps
<1>22. SameIndices(p) /\ SameClaims(p) /\ Turn' = Turn
  BY <1>2, GetSame DEF SameIndices, queue, Turn
<1>23. NumbersFit(p)' /\ Sent(p)' = sent /\ Gone(p)' = gone
  BY <1>3, <1>5, <1>22, NumbersStay
<1>24. Ins(p)' = pub /\ Pub(p)' = pub2 /\ End(p)' = end /\ tailBlock'[p] = tb
  <2>1. Ins(p)' = Ins(p)
    BY <1>2, <1>3, <1>9, <1>10, <1>23 DEF Ins, ElementSteps
  <2>2. Pub(p)' = Ins(p) + 1
    BY <1>9, <1>10, <2>1 DEF Pub, BlockSteps
  <2>3. End(p)' = End(p)
    BY <1>2, <1>3, <1>9, <1>10, <1>23 DEF End
  <2> QED
    BY <1>2, <1>3, <1>4, <1>6, <2>1, <2>2, <2>3
<1>25. ProducerNow(place, p)'
  <2>1. BlocksFilled(place, p, count', elements', gone, end)
    BY <1>2, <1>5 DEF blocks
  <2>2. Header(p)'.index = ix /\ Header(p)'.tail = tail2 /\ Rem(p)' = rem /\ entries'[p] = es
    BY <1>2, <1>3, <1>15, <1>19, <1>22 DEF SameClaims
  <2>3. HandPlaces(place, p, c)
    BY <1>2, <1>5, <1>9 DEF HandPlaces
  <2> QED
    BY <1>7, <1>10, <1>20, <1>21, <1>23, <1>24, <2>1, <2>2, <2>3, ProducerThen
<1>26. ScanNow'
  <2>1. CASE Turn # p
    <3>1. blockIndex'[Turn] = blockIndex[Turn]
      BY <1>1, <1>2, <2>1 DEF TypesFit
    <3>2. Pub(Turn)' = Pub(Turn)
      <4>1. put'[Turn] = put[Turn]
        BY <1>1, <1>9, <2>1 DEF PutIs, TypesFit
      <4>2. Sent(Turn)' = Sent(Turn)
        BY <1>2, <1>22 DEF Sent, queue
      <4>3. Ins(Turn)' = Ins(Turn)
        BY <1>22, <4>1, <4>2 DEF Ins
      <4> QED
        BY <1>22, <4>1, <4>3 DEF Pub
    <3> QED
      BY <1>2, <3>1, <3>2, SameScan DEF QNow
  <2>2. CASE Turn = p
    <3>1. SUFFICES ASSUME get.at \in Scanning
                   PROVE  ScanNow'
      BY <1>2 DEF ScanNow
    <3>2. PICK i : i = get.header
      OBVIOUS
    <3>3. /\ i \in 1 .. m
          /\ ScanFits(hs[i].index, hs[i].tail, i, m, get, gone, ix, tail, pub, rem)
      BY <1>3, <1>11, <1>12, <2>2, <3>1, <3>2 DEF QNow, ScanNow
    <3>4. PICK hx, ht : hx = hs[i].index /\ ht = hs[i].tail
      OBVIOUS
    <3>5. PICK ht2 : ht2 = hs2[i].tail
      OBVIOUS
    <3>6. hs2[i].index = hx
      BY <1>3, <1>13, <1>15, <1>17, <3>3, <3>4
    <3>7. ScanFits(hx, ht2, i, m, get, gone, ix, tail2, pub2, rem)
      <4>1. ScanFits(hx, ht, i, m, get, gone, ix, tail, pub, rem)
        BY <3>3, <3>4
      <4>2. \A k \in rem .. pub - 1 : EntryFrom(ix, tail2, pub2 - 1, k) = EntryFrom(ix, tail, pub - 1, k)
        BY <1>7, <1>8
      <4>3. CASE ~ (get.at = "tail" /\ i = m)
        <5>1. get.at = "tail" => ht2 = ht /\ i # m
          BY <1>17, <3>3, <3>4, <3>5, <4>3
        <5> QED
          BY <1>8, <4>1, <4>2, <5>1, ScanCarries
      <4>4. CASE get.at = "tail" /\ i = m
        <5>1. hx = ix /\ ht2 = tail2
          BY <1>3, <1>13, <1>15, <1>17, <3>4, <3>5, <4>4
        <5>2. PICK last \in Int : gone + get.actual <= (last + 1) * BLOCK_SIZE
                                  /\ Scans(hx, ht, last, last, ix, tail, pub, rem) /\ last = pub - 1
          BY <4>1, <4>4 DEF ScanFits
        <5>3. PICK l2 \in Int : l2 = pub2 - 1
          BY <1>8
        <5>4. Scans(hx, ht2, l2, l2, ix, tail2, pub2, rem)
          <6>1. tail2 \in 0 .. Len(ix) - 1 /\ RingShape(ix, es)
            BY <1>7 DEF RingFits
          <6> QED
            BY <1>8, <5>1, <5>3, <6>1 DEF Scans, RingShape
        <5>5. gone + get.actual <= (l2 + 1) * BLOCK_SIZE
          <6>1. PICK B \in Nat \ {0} : B = BLOCK_SIZE
            BY Sizes
          <6>2. (l2 + 1) * B = ((last + 1) * B) + B
            BY <1>6, <1>8, <5>2, <5>3
          <6>3. PICK x \in Int : x = (last + 1) * B
            OBVIOUS
          <6>4. gone + get.actual \in Int
            <7>1. gone \in Nat
              BY <1>3 DEF IInv, ReceivedFits, Gone
            <7>2. get.actual \in Nat
              BY DEF IInv, GetsFit
            <7> QED
              BY <7>1, <7>2
          <6> QED
            BY <5>2, <6>1, <6>2, <6>3, <6>4
        <5> QED
          BY <4>4, <5>3, <5>4, <5>5 DEF ScanFits
      <4> QED
        BY <4>3, <4>4
    <3>8. /\ blockIndex'[Turn'] = hs2 /\ get' = get /\ Gone(Turn)' = gone
          /\ Pub(Turn)' = pub2 /\ Rem(Turn)' = rem /\ Header(Turn)' = h
      <4>1. Turn' = p
        BY <1>22, <2>2
      <4> QED
        BY <1>2, <1>3, <1>18, <1>19, <1>22, <1>23, <1>24, <4>1 DEF SameClaims
    <3> QED
      BY <1>15, <1>17, <3>2, <3>3, <3>5, <3>6, <3>7, <3>8 DEF ScanNow
  <2> QED
    BY <2>1, <2>2
<1>27. CallsAgree'
  BY <1>1, <1>2, <1>9, <1>10, CallsStay DEF freeListVars
<1>28. TypesFit'
  <2>1. \A q \in Producers : Len(blockIndex'[q]) > 0
    BY <1>1, <1>11, <1>12, <1>17, <1>18 DEF TypesFit
  <2> QED
    BY <1>1, <1>2, <1>10, <1>18, <2>1 DEF TypesFit, pool, blocks
<1>29. FreeListNow(place, n)' /\ PlacesKnown(place, created')
  BY <1>1, <1>2, FreeListStays DEF pool
<1>30. \A q \in Producers \ {p} : Quiet(q) /\ SamePlaces(place, place, q) /\ SameFilled(place, q)
  BY <1>2, <1>10, <1>18 DEF Quiet, queue, SamePlaces, SameFilled, blocks
<1>31. get' = get /\ received' = received
  BY <1>2
<1> QED
  BY <1>23, <1>25, <1>26, <1>27, <1>28, <1>29, <1>30, <1>31, ProducerStep

LEMMA GoneFits ==
    ASSUME IInv, NEW p \in Producers, NumbersFit(p)
    PROVE  Gone(p) \in Nat /\ Sent(p) \in Nat /\ Claimed(p) \in Nat /\ Headed(p) \in Nat
           /\ Gone(p) <= Sent(p) /\ Gone(p) + Claimed(p) <= Sent(p) /\ Sent(p) < IndexRange
<1>1. Gone(p) \in Nat
  BY DEF IInv, ReceivedFits, Gone
<1>2. get.actual \in Nat
  BY DEF IInv, GetsFit
<1>3. Claimed(p) \in Nat /\ Headed(p) \in Nat
  BY <1>2 DEF Claimed, Headed
<1>4. tailIndex \in [Producers -> Int] /\ ReceivedFits
  BY DEF IInv, IndexesFit
<1>5. Sent(p) \in 0 .. IndexRange - 1 /\ IndexRange \in Nat
  BY <1>4, InQueueType, Sizes
<1>6. Gone(p) + Claimed(p) <= Sent(p)
  BY DEF NumbersFit
<1> QED
  BY <1>1, <1>3, <1>5, <1>6

LEMMA InsertBlockKeepsQ ==
    ASSUME IInv, NEW place, NEW n, QNow(place, n), NEW p \in Producers, InsertBlock(p)
    PROVE  QueuesNow'
<1>1. TypesFit /\ CallsAgree /\ FreeListNow(place, n) /\ PlacesKnown(place, created)
  BY DEF QNow
<1>2. PICK b : b = put[p].block
  OBVIOUS
<1>3. PICK ix, tail, es, rem, ins, pub, sent, gone, end, e :
        /\ ix = Header(p).index /\ tail = Header(p).tail /\ es = entries[p] /\ rem = Rem(p) /\ ins = Ins(p)
        /\ pub = Pub(p) /\ sent = Sent(p) /\ gone = Gone(p) /\ end = End(p) /\ e = put[p].entry
  OBVIOUS
<1>4. /\ put[p].at = "block" /\ count' = [count EXCEPT ![b] = 0]
      /\ entries' = [entries EXCEPT ![p][e].value = b]
      /\ tailBlock' = [tailBlock EXCEPT ![p] = b]
      /\ put' = [put EXCEPT ![p] = [NoPut EXCEPT !.at = "element"]]
      /\ UNCHANGED <<queue, blockIndex, elements, pool, semaphore, get, received, freeListVars>>
  BY <1>2, <1>3 DEF InsertBlock, At, ResetEmpty
<1>5. /\ sent % BLOCK_SIZE = 0 /\ sent \in Nat /\ ins \in Nat /\ pub = ins + 1 /\ sent = BLOCK_SIZE * ins
      /\ ins = sent \div BLOCK_SIZE
  BY <1>3, <1>4, BetweenBlocks DEF EntrySteps, BlockSteps
<1>6. /\ RingFits(ix, tail, es, rem, ins, pub) /\ IndexPlaces(place, p, ix, tail, es, rem, ins, pub)
      /\ HandPlaces(place, p, put[p]) /\ BlocksFilled(place, p, count, elements, gone, end)
      /\ NumbersFit(p) /\ e = EntryFrom(ix, tail, pub - 1, ins)
  BY <1>3, <1>4, PutFact DEF PutFits, BlockSteps
<1>7. b \in Blocks /\ place[b].at = "hand" /\ place[b].by = p
      /\ \A d \in Blocks : place[d].at = "hand" /\ place[d].by = p => d = b
  BY <1>2, <1>4, <1>6 DEF HandPlaces
<1>8. PICK es2 : ValueSet(es2, es, e, b)
  BY DEF ValueSet
<1>9. /\ RingFits(ix, tail, es2, rem, pub, pub) /\ es2[e].value = b
      /\ \A j \in rem .. ins - 1 : es2[EntryFrom(ix, tail, pub - 1, j)] = es[EntryFrom(ix, tail, pub - 1, j)]
  <2>1. RingFits(ix, tail, es, rem, ins, pub) /\ e = EntryFrom(ix, tail, pub - 1, ins)
    BY <1>6
  <2>2. pub = ins + 1 /\ b \in Blocks
    BY <1>5, <1>7
  <2> QED
    BY <1>8, <2>1, <2>2, BlockInserted
<1>10. entries'[p] = es2 /\ DOMAIN entries' = Producers /\ \A q \in Producers \ {p} : entries'[q] = entries[q]
  BY <1>1, <1>3, <1>4, <1>8 DEF TypesFit, ValueSet
<1>11. PICK w : w = Spot("index", p, ins)
  OBVIOUS
<1>12. w.at = "index" /\ w.by = p /\ w.num = ins
  BY <1>11 DEF Spot
<1>13. DOMAIN place = Blocks
  BY <1>1 DEF FreeListNow, FreeListFits, RefsFit
<1>14. PICK place2 : Moves(place2, place, b, w)
  BY <1>7, <1>13, MovesExist
<1>15. place2[b] = w /\ \A d \in Blocks \ {b} : place2[d] = place[d]
  BY <1>7, <1>14 DEF Moves
<1>16. FreeListNow(place2, n)'
  <2>1. w.at \in Elsewhere /\ place[b].at \in Elsewhere /\ UNCHANGED freeListVars
    BY <1>4, <1>7, <1>12 DEF Elsewhere
  <2> QED
    BY <1>1, <1>7, <1>14, <2>1, PlaceMoves
<1>17. PICK c : c = [NoPut EXCEPT !.at = "element"]
  OBVIOUS
<1>18. c \in PutRecords /\ c.at = "element" /\ PutIs(p, c)
  BY <1>4, <1>17, FreeListAssumption DEF PutRecords, PutSteps, NoPut, PutIs
<1>19. /\ put' \in [Producers -> PutRecords] /\ put'[p] = c
       /\ \A q \in Producers \ {p} : put'[q] = put[q]
  BY <1>1, <1>18, PutChanges DEF TypesFit
<1>20. /\ tailBlock'[p] = b /\ tailBlock' \in [Producers -> 0 .. MaxBlocks]
       /\ \A q \in Producers \ {p} : tailBlock'[q] = tailBlock[q]
  <2>1. b \in 0 .. MaxBlocks
    BY <1>7, BlockNumbers
  <2> QED
    BY <1>1, <1>4, <2>1 DEF TypesFit
<1>21. /\ count'[b] = 0 /\ count' \in [Blocks -> Int] /\ elements' = elements
       /\ \A d \in Blocks \ {b} : count'[d] = count[d]
  <2>1. count \in [Blocks -> Int]
    BY <1>1 DEF TypesFit
  <2>2. count' = [count EXCEPT ![b] = 0] /\ elements' = elements
    BY <1>4
  <2> QED
    BY <1>7, <2>1, <2>2
<1>22. SameIndices(p) /\ SameClaims(p) /\ Turn' = Turn
  BY <1>4, GetSame DEF SameIndices, queue, Turn
<1>23. NumbersFit(p)' /\ Sent(p)' = sent /\ Gone(p)' = gone
  BY <1>3, <1>6, <1>22, NumbersStay
<1>24. Ins(p)' = pub /\ Pub(p)' = pub /\ End(p)' = sent /\ end = sent
  <2>1. Ins(p)' = (sent \div BLOCK_SIZE) + 1
    BY <1>18, <1>19, <1>23 DEF Ins, ElementSteps
  <2>2. Pub(p)' = Ins(p)'
    <3>1. Ins(p)' \in Nat
      BY <1>5, <2>1
    <3>2. Pub(p)' = Ins(p)' + 0
      BY <1>18, <1>19 DEF Pub, BlockSteps
    <3> QED
      BY <3>1, <3>2
  <2>3. End(p)' = sent + 0 /\ end = sent + 0
    BY <1>3, <1>4, <1>18, <1>19, <1>23 DEF End
  <2>4. Ins(p)' = pub
    BY <1>5, <2>1
  <2>5. End(p)' = sent /\ end = sent
    <3>1. sent + 0 = sent
      BY <1>5
    <3> QED
      BY <2>3, <3>1
  <2> QED
    BY <2>2, <2>4, <2>5
<1>25. rem \in Nat /\ rem <= ins /\ pub - 1 = ins /\ ins \in Nat /\ ins \in rem .. pub - 1
  BY <1>5, <1>6, RingTypes
<1>26. IndexPlaces(place2, p, ix, tail, es2, rem, pub, pub)
  <2>1. ASSUME NEW j \in rem .. pub - 1, NEW d, d = es2[EntryFrom(ix, tail, pub - 1, j)].value
        PROVE  d \in Blocks /\ place2[d].at = "index" /\ place2[d].by = p /\ place2[d].num = j
    <3>1. CASE j = ins
      BY <1>6, <1>7, <1>9, <1>12, <1>15, <2>1, <3>1
    <3>2. CASE j # ins
      <4>1. j \in rem .. ins - 1
        BY <1>25, <1>5, <3>2
      <4>2. d = es[EntryFrom(ix, tail, pub - 1, j)].value
        BY <1>9, <2>1, <4>1
      <4>3. d \in Blocks /\ place[d].at = "index" /\ place[d].by = p /\ place[d].num = j
        BY <1>6, <4>1, <4>2 DEF IndexPlaces
      <4> QED
        BY <1>7, <1>15, <4>3
    <3> QED
      BY <3>1, <3>2
  <2>2. ASSUME NEW d \in Blocks, place2[d].at = "index" /\ place2[d].by = p
        PROVE  /\ place2[d].num \in rem .. pub - 1
               /\ es2[EntryFrom(ix, tail, pub - 1, place2[d].num)].value = d
    <3>1. CASE d = b
      <4>1. place2[d].num = ins
        BY <1>12, <1>15, <3>1
      <4> QED
        BY <1>6, <1>9, <1>25, <3>1, <4>1
    <3>2. CASE d # b
      <4>1. place2[d] = place[d]
        BY <1>15, <3>2
      <4>2. place[d].num \in rem .. ins - 1 /\ es[EntryFrom(ix, tail, pub - 1, place[d].num)].value = d
        BY <1>6, <2>2, <4>1 DEF IndexPlaces
      <4>3. place[d].num \in rem .. pub - 1
        BY <1>25, <4>2
      <4> QED
        BY <1>9, <4>1, <4>2, <4>3
    <3> QED
      BY <3>1, <3>2
  <2> QED
    BY <2>1, <2>2 DEF IndexPlaces
<1>27. PutFits(c, ix, tail, es2, rem, pub, pub, sent, b)
  BY <1>5, <1>6, <1>9, <1>18, <1>25 DEF PutFits, BlockSteps
<1>28. HandPlaces(place2, p, c)
  BY <1>7, <1>12, <1>15, <1>18 DEF HandPlaces
<1>29. BlocksFilled(place2, p, count', elements', gone, sent)
  <2>1. ASSUME NEW d \in Blocks, place2[d].at = "index" /\ place2[d].by = p
        PROVE  BlockFilled(d, place2[d].num, count', elements', gone, sent)
    <3>1. CASE d = b
      <4>1. gone <= ins * BLOCK_SIZE /\ sent = ins * BLOCK_SIZE /\ ins * BLOCK_SIZE \in Nat
        <5>1. gone <= sent
          BY <1>3, <1>6, GoneFits
        <5>2. BLOCK_SIZE * ins = ins * BLOCK_SIZE
          BY <1>5, Sizes
        <5> QED
          BY <1>5, <5>1, <5>2
      <4>2. \A s \in SlotNumbers : ~ (ins * BLOCK_SIZE) + s < sent
        BY <4>1, Sizes DEF SlotNumbers
      <4> QED
        BY <1>12, <1>15, <1>21, <3>1, <4>1, <4>2 DEF BlockFilled
    <3>2. CASE d # b
      <4>1. place2[d] = place[d]
        BY <1>15, <3>2
      <4>2. BlockFilled(d, place[d].num, count, elements, gone, sent)
        BY <1>6, <1>24, <2>1, <4>1 DEF BlocksFilled
      <4> QED
        BY <1>21, <3>2, <4>1, <4>2 DEF BlockFilled
    <3> QED
      BY <3>1, <3>2
  <2> QED
    BY <2>1 DEF BlocksFilled
<1>30. ProducerNow(place2, p)'
  <2>1. Header(p)'.index = ix /\ Header(p)'.tail = tail /\ Rem(p)' = rem
    BY <1>3, <1>4, <1>22 DEF SameClaims, Header
  <2> QED
    BY <1>9, <1>10, <1>19, <1>20, <1>23, <1>24, <1>26, <1>27, <1>28, <1>29, <2>1, ProducerThen
<1>31. ScanNow'
  <2>1. Pub(Turn)' = Pub(Turn)
    <3>1. CASE Turn = p
      BY <1>3, <1>22, <1>24, <3>1
    <3>2. CASE Turn # p
      <4>1. put'[Turn] = put[Turn]
        BY <1>1, <1>18, <3>2 DEF PutIs, TypesFit
      <4>2. Sent(Turn)' = Sent(Turn)
        BY <1>4, <1>22 DEF Sent, queue
      <4>3. Ins(Turn)' = Ins(Turn)
        BY <1>22, <4>1, <4>2 DEF Ins
      <4> QED
        BY <1>22, <4>1, <4>3 DEF Pub
    <3> QED
      BY <3>1, <3>2
  <2> QED
    BY <1>4, <2>1, SameScan DEF QNow
<1>32. CallsAgree'
  BY <1>1, <1>4, <1>18, <1>19, CallsStay DEF freeListVars
<1>33. TypesFit'
  BY <1>1, <1>4, <1>10, <1>19, <1>20, <1>21 DEF TypesFit, pool
<1>34. PlacesKnown(place2, created')
  <2>1. created' = created /\ created \in Nat /\ \A d \in Blocks : d \in Int
    BY <1>1, <1>4 DEF pool, TypesFit, Blocks
  <2>2. ~ (b > created)
    BY <1>1, <1>7 DEF PlacesKnown
  <2> QED
    BY <1>1, <1>12, <1>15, <2>1, <2>2 DEF PlacesKnown, Places, Elsewhere
<1>35. \A q \in Producers \ {p} : Quiet(q)
  BY <1>4, <1>10, <1>19, <1>20 DEF Quiet, queue
<1>36. \A q \in Producers \ {p} : SamePlaces(place, place2, q) /\ SameFilled(place, q)
  BY <1>7, <1>12, <1>15, <1>21 DEF SamePlaces, SameFilled
<1>37. get' = get /\ received' = received
  BY <1>4
<1> QED
  BY <1>16, <1>23, <1>30, <1>31, <1>32, <1>33, <1>34, <1>35, <1>36, <1>37, ProducerStep

LEMMA NextNumber ==
    ASSUME NEW m \in Nat \ {0}, NEW i \in Nat
    PROVE  /\ (i + 1) % m = 0 => (i + 1) \div m = (i \div m) + 1
           /\ (i + 1) % m # 0 => (i + 1) \div m = i \div m
<1>1. i \in Int /\ i \div m \in Int /\ i % m \in 0 .. m - 1 /\ i = m * (i \div m) + (i % m)
  <2>1. i \in Int
    OBVIOUS
  <2> QED
    BY <2>1, DivMod
<1>2. PICK q \in Int, r \in 0 .. m - 1 : q = i \div m /\ r = i % m /\ i = m * q + r
  BY <1>1
<1>3. CASE r = m - 1
  <2>1. PICK q2 \in Int, z \in 0 .. m - 1 : q2 = q + 1 /\ z = 0
    OBVIOUS
  <2>2. (m * q2 + z) \div m = q2 /\ (m * q2 + z) % m = z
    BY Quotient
  <2>3. m * q2 + z = i + 1
    <3>1. m * q2 = m * q + m
      BY <2>1
    <3> QED
      BY <1>2, <1>3, <2>1, <3>1
  <2> QED
    BY <1>2, <2>1, <2>2, <2>3
<1>4. CASE r # m - 1
  <2>1. PICK r2 \in 0 .. m - 1 : r2 = r + 1
    BY <1>4
  <2>2. (m * q + r2) \div m = q /\ (m * q + r2) % m = r2
    BY Quotient
  <2>3. m * q + r2 = i + 1 /\ r2 # 0
    BY <1>2, <2>1
  <2> QED
    BY <1>2, <2>2, <2>3
<1> QED
  BY <1>3, <1>4

LEMMA SentGrows ==
    ASSUME IInv, NEW p \in Producers, Publish(p)
    PROVE  /\ Sent(p) < MaxItems[p] /\ Sent(p)' = Sent(p) + 1
           /\ \A q \in Producers \ {p} : tailIndex'[q] = tailIndex[q] /\ Sent(q)' = Sent(q)
<1>1. /\ tailIndex' = [tailIndex EXCEPT ![p] = Wrap(@ + 1)] /\ put[p].at = "publish"
  BY DEF Publish, At
<1>2. tailIndex \in [Producers -> Int] /\ ReceivedFits /\ Sent(p) < MaxItems[p]
  BY <1>1 DEF IInv, IndexesFit, PutsFit
<1>3. Sent(p) \in Int /\ tailIndex[p] \in Int
  BY <1>2, InQueueType, Sizes
<1>4. MaxItems[p] \in Nat /\ MaxItems[p] <= IndexRange - 1 /\ Start \in Int /\ IndexRange \in Nat
  BY QueueAssumption
<1>5. Wrap(tailIndex[p] - Start) < IndexRange - 1
  BY <1>2, <1>3, <1>4 DEF Sent
<1>6. tailIndex'[p] = Wrap(tailIndex[p] + 1) /\ \A q \in Producers \ {p} : tailIndex'[q] = tailIndex[q]
  BY <1>1, <1>2
<1>7. Sent(p)' = Sent(p) + 1
  BY <1>3, <1>4, <1>5, <1>6, WrapNext DEF Sent
<1> QED
  BY <1>2, <1>6, <1>7 DEF Sent

LEMMA PublishKeepsQ ==
    ASSUME IInv, NEW place, NEW n, QNow(place, n), NEW p \in Producers, Publish(p)
    PROVE  QueuesNow'
<1>1. TypesFit /\ CallsAgree /\ FreeListNow(place, n) /\ PlacesKnown(place, created)
  BY DEF QNow
<1>2. PICK ix, tail, es, rem, ins, pub, sent, gone, end, tb :
        /\ ix = Header(p).index /\ tail = Header(p).tail /\ es = entries[p] /\ rem = Rem(p) /\ ins = Ins(p)
        /\ pub = Pub(p) /\ sent = Sent(p) /\ gone = Gone(p) /\ end = End(p) /\ tb = tailBlock[p]
  OBVIOUS
<1>3. /\ put[p].at = "publish" /\ PutAt(p, "signal")
      /\ UNCHANGED <<headIndex, dequeueOptimisticCount, dequeueOvercommit,
                     tailBlock, index, blocks, pool, get, received, freeListVars>>
  BY DEF Publish, At
<1>4. /\ RingFits(ix, tail, es, rem, ins, pub) /\ IndexPlaces(place, p, ix, tail, es, rem, ins, pub)
      /\ HandPlaces(place, p, put[p]) /\ BlocksFilled(place, p, count, elements, gone, end)
      /\ NumbersFit(p) /\ PutFits(put[p], ix, tail, es, rem, ins, pub, sent, tb)
  BY <1>2, <1>3, PutFact
<1>5. PICK c \in PutRecords : PutIs(p, c) /\ c.at = "signal"
  BY <1>3, PutFact, PutGoes DEF PutSteps
<1>6. /\ put' \in [Producers -> PutRecords] /\ put'[p] = c
      /\ \A q \in Producers \ {p} : put'[q] = put[q]
  BY <1>1, <1>5, PutChanges DEF TypesFit
<1>7. PICK sent2 : sent2 = sent + 1
  OBVIOUS
<1>8. Sent(p)' = sent2 /\ sent < MaxItems[p] /\ sent \in Nat /\ sent2 \in Nat
      /\ \A q \in Producers \ {p} : tailIndex'[q] = tailIndex[q] /\ Sent(q)' = Sent(q)
  <2>1. sent \in Nat
    BY <1>2, <1>4, GoneFits
  <2> QED
    BY <1>2, <1>7, <2>1, SentGrows
<1>9. SameClaims(p) /\ Turn' = Turn /\ Gone(p)' = gone
  BY <1>2, <1>3, GetSame DEF Turn
<1>10. PICK B \in Nat \ {0} : B = BLOCK_SIZE
  BY Sizes
<1>11. sent \div B \in Nat /\ sent2 \div B \in Nat
  <2>1. sent \in Int /\ sent >= 0 /\ sent2 \in Int /\ sent2 >= 0
    BY <1>8
  <2> QED
    BY <2>1, DivMod
<1>12. ins = (sent \div B) + 1
  BY <1>2, <1>3, <1>10 DEF Ins, ElementSteps
<1>13. Ins(p)' = (sent2 \div B) + (IF sent2 % B # 0 THEN 1 ELSE 0)
  BY <1>5, <1>6, <1>8, <1>10 DEF Ins, ElementSteps
<1>14. /\ sent2 % B = 0 => sent2 \div B = (sent \div B) + 1
       /\ sent2 % B # 0 => sent2 \div B = sent \div B
  BY <1>7, <1>8, NextNumber
<1>15. Ins(p)' = ins
  BY <1>11, <1>12, <1>13, <1>14
<1>16. Pub(p)' = pub
  BY <1>2, <1>3, <1>5, <1>6, <1>15 DEF Pub, BlockSteps
<1>17. End(p)' = sent2 /\ end = sent2
  <2>1. End(p)' = sent2 + 0
    BY <1>5, <1>6, <1>8 DEF End
  <2>2. end = sent + 1
    BY <1>2, <1>3 DEF End
  <2> QED
    BY <1>7, <1>8, <2>1, <2>2
<1>18. NumbersFit(p)'
  <2>1. tailIndex'[p] = Wrap(Start + sent2)
    <3>1. tailIndex'[p] = Wrap(tailIndex[p] + 1) /\ tailIndex[p] = Wrap(Start + sent)
      BY <1>2, <1>4 DEF Publish, IInv, IndexesFit, NumbersFit
    <3>2. PICK i \in Int, j \in Int : i = Start + sent /\ j = 1
      BY <1>8, Sizes
    <3>3. Wrap(Wrap(i) + j) = Wrap(i + j)
      BY WrapFacts
    <3>4. i + j = Start + sent2
      BY <1>7, <1>8, <3>2, Sizes
    <3> QED
      BY <3>1, <3>2, <3>3, <3>4
  <2>2. sent2 <= MaxItems[p]
    <3>1. MaxItems[p] \in Nat
      BY QueueAssumption
    <3> QED
      BY <1>7, <1>8, <3>1
  <2>3. Gone(p) + Claimed(p) <= sent2
    <3>1. Gone(p) \in Nat /\ Claimed(p) \in Nat /\ Gone(p) + Claimed(p) <= sent
      BY <1>2, <1>4, GoneFits
    <3> QED
      BY <1>7, <1>8, <3>1
  <2>4. /\ Claimed(p)' = Claimed(p) /\ Headed(p)' = Headed(p) /\ Gone(p)' = Gone(p)
        /\ received'[p] = received[p] /\ headIndex'[p] = headIndex[p]
        /\ dequeueOptimisticCount'[p] = dequeueOptimisticCount[p]
        /\ dequeueOvercommit'[p] = dequeueOvercommit[p]
    BY <1>2, <1>3, <1>9 DEF SameClaims
  <2> QED
    BY <1>4, <1>8, <2>1, <2>2, <2>3, <2>4 DEF NumbersFit
<1>19. PutFits(c, ix, tail, es, rem, ins, pub, sent2, tb)
  BY <1>3, <1>4, <1>5 DEF PutFits, EntrySteps, BlockSteps, ElementSteps
<1>20. ProducerNow(place, p)'
  <2>1. HandPlaces(place, p, c) /\ BlocksFilled(place, p, count', elements', gone, sent2)
    BY <1>3, <1>4, <1>5, <1>17 DEF HandPlaces, blocks
  <2>2. /\ Header(p)'.index = ix /\ Header(p)'.tail = tail /\ Rem(p)' = rem /\ entries'[p] = es
        /\ tailBlock'[p] = tb
    BY <1>2, <1>3, <1>9 DEF SameClaims, Header, index
  <2> QED
    BY <1>4, <1>6, <1>8, <1>9, <1>15, <1>16, <1>17, <1>19, <2>1, <2>2, ProducerThen
<1>21. ScanNow'
  <2>1. Pub(Turn)' = Pub(Turn)
    <3>1. CASE Turn = p
      BY <1>2, <1>9, <1>16, <3>1
    <3>2. CASE Turn # p
      <4>1. put'[Turn] = put[Turn]
        BY <1>1, <1>5, <3>2 DEF PutIs, TypesFit
      <4>2. tailIndex'[Turn] = tailIndex[Turn]
        <5>1. tailIndex' = [tailIndex EXCEPT ![p] = Wrap(@ + 1)] /\ tailIndex \in [Producers -> Int]
          BY DEF Publish, IInv, IndexesFit
        <5> QED
          BY <3>2, <5>1
      <4>3. Sent(Turn)' = Sent(Turn)
        BY <1>9, <4>2 DEF Sent
      <4>4. Ins(Turn)' = Ins(Turn)
        BY <1>9, <4>1, <4>3 DEF Ins
      <4> QED
        BY <1>9, <4>1, <4>4 DEF Pub
    <3> QED
      BY <3>1, <3>2
  <2> QED
    BY <1>3, <2>1, SameScan DEF QNow, index
<1>22. CallsAgree'
  BY <1>1, <1>3, <1>5, <1>6, CallsStay DEF freeListVars
<1>23. TypesFit'
  BY <1>1, <1>3, <1>6 DEF TypesFit, pool, blocks, index
<1>24. FreeListNow(place, n)' /\ PlacesKnown(place, created')
  BY <1>1, <1>3, FreeListStays DEF pool
<1>25. \A q \in Producers \ {p} : Quiet(q) /\ SamePlaces(place, place, q) /\ SameFilled(place, q)
  BY <1>3, <1>6, <1>8 DEF Quiet, SamePlaces, SameFilled, blocks, index
<1>26. get' = get /\ received' = received
  BY <1>3
<1> QED
  BY <1>18, <1>20, <1>21, <1>22, <1>23, <1>24, <1>25, <1>26, ProducerStep

LEMMA PutElementKeepsQ ==
    ASSUME IInv, NEW place, NEW n, QNow(place, n), NEW p \in Producers, PutElement(p)
    PROVE  QueuesNow'
<1>1. TypesFit /\ CallsAgree /\ FreeListNow(place, n) /\ PlacesKnown(place, created)
  BY DEF QNow
<1>2. PICK ix, tail, es, rem, ins, pub, sent, gone, end, b :
        /\ ix = Header(p).index /\ tail = Header(p).tail /\ es = entries[p] /\ rem = Rem(p) /\ ins = Ins(p)
        /\ pub = Pub(p) /\ sent = Sent(p) /\ gone = Gone(p) /\ end = End(p) /\ b = tailBlock[p]
  OBVIOUS
<1>3. /\ (put[p].at = "element" \/ (put[p].at = "idle" /\ Slot(tailIndex[p]) # 0))
      /\ elements' = [elements EXCEPT ![b][Slot(tailIndex[p])] = sent + 1]
      /\ PutAt(p, "publish")
      /\ UNCHANGED <<queue, tailBlock, index, count, pool, get, received, freeListVars>>
  BY <1>2 DEF PutElement, At
<1>4. /\ RingFits(ix, tail, es, rem, ins, pub) /\ IndexPlaces(place, p, ix, tail, es, rem, ins, pub)
      /\ HandPlaces(place, p, put[p]) /\ BlocksFilled(place, p, count, elements, gone, end)
      /\ NumbersFit(p) /\ PutFits(put[p], ix, tail, es, rem, ins, pub, sent, b)
  BY <1>2, <1>3, PutFact
<1>5. PICK c \in PutRecords : PutIs(p, c) /\ c.at = "publish"
  BY <1>3, PutFact, PutGoes DEF PutSteps
<1>6. /\ put' \in [Producers -> PutRecords] /\ put'[p] = c
      /\ \A q \in Producers \ {p} : put'[q] = put[q]
  BY <1>1, <1>5, PutChanges DEF TypesFit
<1>7. PICK B \in Nat \ {0} : B = BLOCK_SIZE
  BY Sizes
<1>8. sent \in Nat /\ sent \in Int /\ gone \in Nat /\ gone <= sent
  BY <1>2, <1>4, GoneFits
<1>9. sent \div B \in Nat /\ sent % B \in 0 .. B - 1 /\ sent = B * (sent \div B) + (sent % B)
  <2>1. sent \in Int /\ sent >= 0
    BY <1>8
  <2> QED
    BY <2>1, DivMod
<1>10. PICK k \in Nat, s \in 0 .. B - 1 : k = sent \div B /\ s = sent % B /\ sent = B * k + s
  BY <1>9
<1>11. Slot(tailIndex[p]) = s
  <2>1. tailIndex \in [Producers -> Int] /\ ReceivedFits
    BY DEF IInv, IndexesFit
  <2> QED
    BY <1>2, <1>4, <1>7, <1>10, <2>1, SentIs
<1>12. s # 0 \/ put[p].at \in ElementSteps
  BY <1>3, <1>11 DEF ElementSteps
<1>13. ins = k + 1 /\ ins - 1 = k
  BY <1>2, <1>7, <1>10, <1>12 DEF Ins
<1>14. rem <= k /\ k \in rem .. ins - 1
  <2>1. rem \in Nat /\ rem <= ins
    BY <1>4, RingTypes
  <2>2. gone \div B \in Int /\ gone \div B <= k
    <3>1. gone \in Int /\ gone >= 0
      BY <1>8
    <3>2. gone \div B \in Int /\ gone % B \in 0 .. B - 1 /\ gone = B * (gone \div B) + (gone % B)
      BY <3>1, DivMod
    <3>3. PICK g \in Int, r \in 0 .. B - 1 : g = gone \div B /\ gone = B * g + r
      BY <3>2
    <3>4. g <= k
      <4>1. SUFFICES ASSUME g >= k + 1
                     PROVE  FALSE
        OBVIOUS
      <4>2. B * g >= B * k + B
        BY <4>1
      <4>3. PICK x \in Int, y \in Int : x = B * g /\ y = B * k
        OBVIOUS
      <4> QED
        BY <1>8, <1>10, <3>3, <4>2, <4>3
    <3> QED
      BY <3>3, <3>4
  <2>3. rem = (gone \div B) - (IF get.at = "empty" /\ Turn = p THEN 1 ELSE 0)
    BY <1>2, <1>7 DEF Rem
  <2> QED
    BY <1>13, <2>1, <2>2, <2>3
<1>15. b = es[EntryFrom(ix, tail, pub - 1, k)].value
  BY <1>4, <1>7, <1>10, <1>12, <1>13 DEF PutFits
<1>16. b \in Blocks /\ place[b].at = "index" /\ place[b].by = p /\ place[b].num = k
  BY <1>4, <1>14, <1>15 DEF IndexPlaces
<1>17. \A d \in Blocks \ {b} : place[d].at = "index" /\ place[d].by = p => place[d].num # k
  BY <1>4, <1>15 DEF IndexPlaces
<1>18. /\ elements' \in [Blocks -> [SlotNumbers -> Nat]]
       /\ \A d \in Blocks \ {b} : elements'[d] = elements[d]
       /\ elements'[b][s] = sent + 1 /\ \A i \in SlotNumbers \ {s} : elements'[b][i] = elements[b][i]
  <2>1. elements \in [Blocks -> [SlotNumbers -> Nat]] /\ s \in SlotNumbers /\ sent + 1 \in Nat
    BY <1>1, <1>7, <1>8 DEF TypesFit, SlotNumbers
  <2> QED
    BY <1>3, <1>11, <1>16, <2>1
<1>19. SameIndices(p) /\ SameClaims(p) /\ Turn' = Turn
  BY <1>3, GetSame DEF SameIndices, queue, Turn
<1>20. NumbersFit(p)' /\ Sent(p)' = sent /\ Gone(p)' = gone
  BY <1>2, <1>4, <1>19, NumbersStay
<1>21. Ins(p)' = ins
  BY <1>2, <1>5, <1>6, <1>7, <1>10, <1>13, <1>20 DEF Ins, ElementSteps
<1>22. Pub(p)' = pub
  <2>1. put[p].at \notin BlockSteps /\ c.at \notin BlockSteps
    BY <1>3, <1>5 DEF BlockSteps
  <2> QED
    BY <1>2, <1>6, <1>21, <2>1 DEF Pub
<1>23. End(p)' = sent + 1 /\ end = sent + 0
  BY <1>2, <1>3, <1>5, <1>6, <1>20 DEF End
<1>24. PutFits(c, ix, tail, es, rem, ins, pub, sent, b)
  BY <1>4, <1>5, <1>13, <1>15 DEF PutFits, EntrySteps, BlockSteps
<1>25. BlocksFilled(place, p, count', elements', gone, sent + 1)
  <2>1. ASSUME NEW d \in Blocks, place[d].at = "index" /\ place[d].by = p
        PROVE  BlockFilled(d, place[d].num, count', elements', gone, sent + 1)
    <3>1. PICK j : j = place[d].num
      OBVIOUS
    <3>2. j \in rem .. ins - 1 /\ j \in Int
      BY <1>4, <2>1, <3>1 DEF IndexPlaces
    <3>3. BlockFilled(d, j, count, elements, gone, end)
      BY <1>4, <2>1, <3>1 DEF BlocksFilled
    <3>4. count'[d] = IF gone <= j * BLOCK_SIZE THEN 0 ELSE gone - (j * BLOCK_SIZE)
      BY <1>3, <3>3 DEF BlockFilled
    <3>5. ASSUME NEW i \in SlotNumbers, gone <= (j * BLOCK_SIZE) + i, (j * BLOCK_SIZE) + i < sent + 1
          PROVE  elements'[d][i] = (j * BLOCK_SIZE) + i + 1
      <4>1. i \in 0 .. B - 1
        BY <1>7 DEF SlotNumbers
      <4>2. PICK x \in Int : x = j * BLOCK_SIZE
        BY <1>7, <3>2
      <4>3. CASE x + i < sent
        <5>1. elements[d][i] = x + i + 1
          BY <1>8, <1>23, <3>3, <3>5, <4>2, <4>3 DEF BlockFilled
        <5>2. ~ (d = b /\ i = s)
          <6>1. SUFFICES ASSUME d = b, i = s
                         PROVE  FALSE
            OBVIOUS
          <6>2. j = k
            BY <1>16, <3>1, <6>1
          <6>3. x = B * k
            BY <1>7, <4>2, <6>2
          <6> QED
            BY <1>8, <1>10, <4>3, <6>1, <6>3
        <5> QED
          BY <1>18, <4>2, <5>1, <5>2
      <4>4. CASE ~ (x + i < sent)
        <5>1. x + i = sent
          BY <1>8, <3>5, <4>1, <4>2, <4>4
        <5>2. B * j + i = sent
          <6>1. x = B * j
            BY <1>7, <3>2, <4>2
          <6> QED
            BY <5>1, <6>1
        <5>3. (B * j + i) \div B = j /\ (B * j + i) % B = i
          BY <3>2, <4>1, Quotient
        <5>4. j = k /\ i = s
          BY <1>10, <5>2, <5>3
        <5>5. d = b
          BY <1>17, <2>1, <3>1, <5>4
        <5> QED
          BY <1>18, <4>2, <5>1, <5>4, <5>5
      <4> QED
        BY <4>3, <4>4
    <3> QED
      BY <3>1, <3>4, <3>5 DEF BlockFilled
  <2> QED
    BY <2>1 DEF BlocksFilled
<1>26. ProducerNow(place, p)'
  <2>1. HandPlaces(place, p, c)
    BY <1>3, <1>4, <1>5 DEF HandPlaces
  <2>2. /\ Header(p)'.index = ix /\ Header(p)'.tail = tail /\ Rem(p)' = rem /\ entries'[p] = es
        /\ tailBlock'[p] = b
    BY <1>2, <1>3, <1>19 DEF SameClaims, Header, index
  <2> QED
    BY <1>4, <1>6, <1>20, <1>21, <1>22, <1>23, <1>24, <1>25, <2>1, <2>2, ProducerThen
<1>27. ScanNow'
  <2>1. Pub(Turn)' = Pub(Turn)
    <3>1. CASE Turn = p
      BY <1>2, <1>19, <1>22, <3>1
    <3>2. CASE Turn # p
      <4>1. put'[Turn] = put[Turn]
        BY <1>1, <1>5, <3>2 DEF PutIs, TypesFit
      <4>2. Sent(Turn)' = Sent(Turn)
        BY <1>3, <1>19 DEF Sent, queue
      <4>3. Ins(Turn)' = Ins(Turn)
        BY <1>19, <4>1, <4>2 DEF Ins
      <4> QED
        BY <1>19, <4>1, <4>3 DEF Pub
    <3> QED
      BY <3>1, <3>2
  <2> QED
    BY <1>3, <2>1, SameScan DEF QNow, index
<1>28. CallsAgree'
  BY <1>1, <1>3, <1>5, <1>6, CallsStay DEF freeListVars
<1>29. TypesFit'
  BY <1>1, <1>3, <1>6, <1>18 DEF TypesFit, pool, index
<1>30. FreeListNow(place, n)' /\ PlacesKnown(place, created')
  BY <1>1, <1>3, FreeListStays DEF pool
<1>31. \A q \in Producers \ {p} : Quiet(q) /\ SamePlaces(place, place, q) /\ SameFilled(place, q)
  BY <1>3, <1>6, <1>16, <1>18 DEF Quiet, SamePlaces, SameFilled, index, queue
<1>32. get' = get /\ received' = received
  BY <1>3
<1> QED
  BY <1>20, <1>26, <1>27, <1>28, <1>29, <1>30, <1>31, <1>32, ProducerStep

LEMMA ProduceKeepsQ ==
    ASSUME IInv, QueuesNow, NEW p \in Producers, Produce(p)
    PROVE  QueuesNow'
<1>1. PICK place, n : QNow(place, n)
  BY DEF QueuesNow
<1> QED
  BY <1>1, StartBlockKeepsQ, InsertEntryKeepsQ, PublishEntryKeepsQ, TryPoolKeepsQ, TakeFromPoolKeepsQ,
     TakeFromListKeepsQ, InsertBlockKeepsQ, PutElementKeepsQ, PublishKeepsQ, SignalKeepsQ DEF Produce
=============================================================================
