----------------------------- MODULE FifoProofs -----------------------------
(***************************************************************************)
(* Proofs about LockFreeQueue: the consumer keeps the invariant of the     *)
(* blocks that LockFreeQueueProofs states, as the free list and the        *)
(* producers do.  So each block is in one place at a time                  *)
(* (BlocksInOnePlace), and what a producer enqueues comes out once and in  *)
(* the order in which it was put in, for any number of producers, blocks   *)
(* and elements: the queue implements ProducerFifo (FifoSpec).             *)
(***************************************************************************)
EXTENDS LockFreeQueueProofs

-----------------------------------------------------------------------------
(* A step of the consumer                                                  *)

LEMMA ConsumerStep ==
    ASSUME NEW place, NEW n, QNow(place, n), NEW p \in Producers,
           NEW place2,
           \A q \in Producers \ {p} :
             Quiet(q) /\ SameClaims(q) /\ SamePlaces(place, place2, q) /\ SameFilled(place, q),
           NEW m, FreeListNow(place2, m)', PlacesKnown(place2, created'), TypesFit', CallsAgree',
           ProducerNow(place2, p)', NumbersFit(p)', GetKnows(get, Gone(Turn))', ScanNow'
    PROVE  QueuesNow'
<1>1. ASSUME NEW q \in Producers \ {p}
      PROVE  ProducerNow(place2, q)' /\ NumbersFit(q)'
  <2>1. ProducerNow(place, q) /\ NumbersFit(q)
    BY DEF QNow
  <2>2. SameClaims(q) /\ Quiet(q) /\ SamePlaces(place, place2, q) /\ SameFilled(place, q)
    OBVIOUS
  <2>3. NumbersFit(q)'
    BY <2>1, <2>2, QuietNumbers
  <2>4. SameView(q)
    BY <2>2, QuietView DEF SameClaims
  <2> QED
    BY <2>1, <2>2, <2>3, <2>4, ProducerStays
<1>2. \A q \in Producers : ProducerNow(place2, q)' /\ NumbersFit(q)'
  BY <1>1
<1>6. PlacesKnown(place2, created)'
  OBVIOUS
<1>7. QNow(place2, m)'
  BY <1>2, <1>6 DEF QNow
<1> QED
  BY <1>7 DEF QueuesNow

\* Only what the consumer is doing changes.
LEMMA GetStep ==
    ASSUME NEW place, NEW n, QNow(place, n),
           UNCHANGED <<queue, tailBlock, index, blocks, pool, put, received>>,
           FreeListNow(place, n)', CallsAgree', get' \in GetRecords,
           \A q \in Producers : SameClaims(q),
           GetKnows(get, Gone(Turn))', ScanNow'
    PROVE  QueuesNow'
<1>1. TypesFit /\ PlacesKnown(place, created)
  BY DEF QNow
<1>2. /\ tailIndex' = tailIndex /\ headIndex' = headIndex /\ dequeueOptimisticCount' = dequeueOptimisticCount
      /\ dequeueOvercommit' = dequeueOvercommit /\ entries' = entries /\ blockIndex' = blockIndex
      /\ count' = count /\ elements' = elements /\ created' = created /\ poolIndex' = poolIndex
      /\ tailBlock' = tailBlock /\ put' = put /\ received' = received
  BY DEF queue, index, blocks, pool
<1>3. ASSUME NEW q \in Producers
      PROVE  ProducerNow(place, q)' /\ NumbersFit(q)'
  <2>1. ProducerNow(place, q) /\ NumbersFit(q)
    BY DEF QNow
  <2>2. SameClaims(q) /\ Quiet(q) /\ SamePlaces(place, place, q) /\ SameFilled(place, q)
    BY <1>2 DEF Quiet, SamePlaces, SameFilled
  <2>3. NumbersFit(q)'
    BY <2>1, <2>2, QuietNumbers
  <2>4. SameView(q)
    BY <2>2, QuietView DEF SameClaims
  <2> QED
    BY <2>1, <2>2, <2>3, <2>4, ProducerStays
<1>4. TypesFit'
  BY <1>1, <1>2 DEF TypesFit
<1>5. PlacesKnown(place, created)'
  BY <1>1, <1>2
<1>6. QNow(place, n)'
  BY <1>3, <1>4, <1>5 DEF QNow
<1> QED
  BY <1>6 DEF QueuesNow

\* The consumer claims nothing, before or after.
LEMMA NoFetchStep ==
    ASSUME NEW place, NEW n, QNow(place, n),
           UNCHANGED <<queue, tailBlock, index, blocks, pool, put, received, freeListVars>>,
           get.at \notin Locating \cup {"claimed"}, get' \in GetRecords,
           get'.at \notin Locating \cup {"claimed"}
    PROVE  QueuesNow'
<1>1. CallsAgree /\ FreeListNow(place, n)
  BY DEF QNow
<1>2. /\ get.at \notin {"claimed", "header", "tail", "key", "move", "empty", "free"}
      /\ get'.at \notin {"claimed", "header", "tail", "key", "move", "empty", "free"}
  BY DEF Locating
<1>3. FreeListNow(place, n)'
  BY <1>1, FreeListStays
<1>4. CallsAgree'
  BY <1>1, <1>2 DEF CallsAgree, freeListVars
<1>5. \A q \in Producers : Gone(q)' = Gone(q)
  BY DEF Gone
<1>6. \A q \in Producers : SameClaims(q)
  BY <1>2, <1>5 DEF SameClaims, Rem, Claimed, Headed, Locating
<1>7. GetKnows(get, Gone(Turn))'
  BY <1>2 DEF GetKnows, Locating
<1>8. ScanNow'
  BY <1>2 DEF ScanNow, Scanning
<1> QED
  BY <1>3, <1>4, <1>6, <1>7, <1>8, GetStep

\* The fields of get, one by one.
LEMMA GetSet ==
    ASSUME NEW g \in GetRecords
    PROVE  /\ \A at \in Fetching : [g EXCEPT !.at = at] \in GetRecords /\ [g EXCEPT !.at = at].at = at
           /\ \A i \in Nat : [g EXCEPT !.max = i] \in GetRecords /\ [g EXCEPT !.max = i].at = g.at
           /\ \A i \in Nat : [g EXCEPT !.got = i] \in GetRecords /\ [g EXCEPT !.got = i].at = g.at
           /\ \A i \in Nat : [g EXCEPT !.turn = i] \in GetRecords /\ [g EXCEPT !.turn = i].at = g.at
BY DEF GetRecords

LEMMA NoGets ==
    /\ NoGet \in GetRecords
    /\ \A at \in {"wait", "spin", "sleep", "more", "drain", "destroyed"} :
         [NoGet EXCEPT !.at = at] \in GetRecords /\ [NoGet EXCEPT !.at = at].at = at
    /\ \A max \in Nat : Granted(max) \in GetRecords /\ Granted(max).at = "turn"
<1>1. NoGet \in GetRecords
  BY DEF NoGet, GetRecords, Fetching
<1>2. ASSUME NEW at \in {"wait", "spin", "sleep", "more", "drain", "destroyed"}
      PROVE  [NoGet EXCEPT !.at = at] \in GetRecords /\ [NoGet EXCEPT !.at = at].at = at
  <2>1. at \in Fetching \cup {"wait", "spin", "sleep", "more", "drain", "destroyed"}
    OBVIOUS
  <2> HIDE <1>2
  <2> QED
    BY ONLY <2>1 DEF NoGet, GetRecords
<1>3. ASSUME NEW max \in Nat
      PROVE  Granted(max) \in GetRecords /\ Granted(max).at = "turn"
  <2>1. PICK g : g = [NoGet EXCEPT !.at = "turn"]
    OBVIOUS
  <2>2. "turn" \in Fetching
    BY DEF Fetching
  <2>3. g \in GetRecords /\ g.at = "turn"
    BY <1>1, <2>1, <2>2, GetSet
  <2>4. Granted(max) = [g EXCEPT !.max = max]
    BY <2>1 DEF Granted
  <2> QED
    BY <2>3, <2>4, GetSet
<1> QED
  BY <1>1, <1>2, <1>3

LEMMA WaitKeepsQ ==
    ASSUME IInv, NEW place, NEW n, QNow(place, n),
           WaitMany \/ StartSpinning \/ EndSpinning \/ WakeUp \/ TakeMore
    PROVE  QueuesNow'
<1>1. UNCHANGED <<queue, tailBlock, index, blocks, pool, put, received, freeListVars>>
  BY DEF WaitMany, StartSpinning, EndSpinning, WakeUp, TakeMore, KeepAllButSemaphore
<1>2. get.at \notin Locating \cup {"claimed"}
  BY DEF WaitMany, StartSpinning, EndSpinning, WakeUp, TakeMore, Getting, Locating
<1>3. m_count \in Int /\ MaxBulk \in Nat \ {0}
  BY QueueAssumption DEF IInv, WakesFit
<1>4. get' \in GetRecords /\ get'.at \notin Locating \cup {"claimed"}
  <2>1. CASE WaitMany
    <3>1. Many(MaxBulk) \in Nat /\ get' = Granted(Many(MaxBulk))
      BY <1>3, <2>1 DEF WaitMany, TryWaitMany, Many, Min2, Positive
    <3>2. get' \in GetRecords /\ get'.at = "turn"
      BY <3>1, NoGets
    <3> QED
      BY <3>2 DEF Locating
  <2>2. CASE StartSpinning \/ EndSpinning \/ WakeUp
    <3>1. PICK at \in {"wait", "spin", "sleep", "more", "drain", "destroyed"} : get' = [NoGet EXCEPT !.at = at]
      BY <2>2 DEF StartSpinning, EndSpinning, WakeUp
    <3>2. get' \in GetRecords /\ get'.at = at
      BY <3>1, NoGets
    <3> QED
      BY <3>2 DEF Locating
  <2>3. CASE TakeMore
    <3>1. PICK max \in Nat : get' = Granted(max)
      <4>1. MaxBulk > 1 /\ Positive => 1 + Many(MaxBulk - 1) \in Nat
        BY <1>3 DEF Many, Min2, Positive
      <4> QED
        BY <2>3, <4>1 DEF TakeMore, TryWaitMany
    <3>2. get' \in GetRecords /\ get'.at = "turn"
      BY <3>1, NoGets
    <3> QED
      BY <3>2 DEF Locating
  <2> QED
    BY <2>1, <2>2, <2>3
<1> QED
  BY <1>1, <1>2, <1>4, NoFetchStep

LEMMA StopKeepsQ ==
    ASSUME NEW place, NEW n, QNow(place, n), Stop
    PROVE  QueuesNow'
<1>1. UNCHANGED <<queue, tailBlock, index, blocks, pool, put, received, freeListVars>>
  BY DEF Stop
<1>2. get.at \notin Locating \cup {"claimed"}
  BY DEF Stop, Getting, Locating
<1>3. get' = [NoGet EXCEPT !.at = "drain"]
  BY DEF Stop
<1>4. get' \in GetRecords /\ get'.at = "drain"
  BY <1>3, NoGets
<1>5. get'.at \notin Locating \cup {"claimed"}
  BY <1>4 DEF Locating
<1> QED
  BY <1>1, <1>2, <1>4, <1>5, NoFetchStep

LEMMA NextTurnIs ==
    ASSUME IInv, get \in GetRecords, get.at \in Fetching, NEW got \in Nat
    PROVE  NextTurn(got) \in GetRecords /\ NextTurn(got).at \in {"wait", "turn"}
<1>1. Len(ProducerList) \in Nat /\ get.turn \in 1 .. Len(ProducerList) /\ get.max \in Nat
  BY ProducersFacts DEF IInv, GetsFit, N
<1>2. (get.turn % Len(ProducerList)) + 1 \in Nat
  <2>1. PICK k \in Nat \ {0}, t \in Int : k = Len(ProducerList) /\ t = get.turn
    BY <1>1
  <2>2. t % k \in 0 .. k - 1
    OBVIOUS
  <2> QED
    BY <2>1, <2>2
<1>3. PICK t \in Nat : t = (get.turn % Len(ProducerList)) + 1
  BY <1>2
<1>4. NextTurn(got) = IF got = get.max THEN NoGet
                      ELSE [NoGet EXCEPT !.at = "turn", !.max = get.max, !.got = got, !.turn = t]
  BY <1>3 DEF NextTurn
<1>5. NoGet \in GetRecords /\ NoGet.at = "wait"
  BY NoGets DEF NoGet
<1>6. /\ [NoGet EXCEPT !.at = "turn", !.max = get.max, !.got = got, !.turn = t] \in GetRecords
      /\ [NoGet EXCEPT !.at = "turn", !.max = get.max, !.got = got, !.turn = t].at = "turn"
  <2>1. PICK max \in Nat : max = get.max
    BY <1>1
  <2>2. PICK g : g = Granted(max)
    OBVIOUS
  <2>3. g \in GetRecords /\ g.at = "turn"
    BY <2>2, NoGets
  <2>4. PICK h : h = [g EXCEPT !.got = got]
    OBVIOUS
  <2>5. h \in GetRecords /\ h.at = "turn"
    BY <2>3, <2>4, GetSet
  <2>6. [NoGet EXCEPT !.at = "turn", !.max = get.max, !.got = got, !.turn = t] = [h EXCEPT !.turn = t]
    BY <2>1, <2>2, <2>4 DEF Granted
  <2> QED
    BY <2>5, <2>6, GetSet
<1> QED
  BY <1>4, <1>5, <1>6

\* The consumer goes on with other fields.
GetGoes(r, g, at) ==
    /\ r \in GetRecords /\ r.at = at /\ r.max = g.max /\ r.got = g.got /\ r.turn = g.turn

GetFieldsAre(r, actual, first, header, tail, position) ==
    /\ r.actual = actual /\ r.first = first /\ r.header = header /\ r.tail = tail /\ r.position = position

LEMMA GetGoesOn ==
    ASSUME NEW g \in GetRecords, NEW at \in Fetching
    PROVE  /\ GetGoes([g EXCEPT !.at = at], g, at)
           /\ GetFieldsAre([g EXCEPT !.at = at], g.actual, g.first, g.header, g.tail, g.position)
BY DEF GetRecords, GetGoes, GetFieldsAre

LEMMA GetFieldSet ==
    ASSUME NEW g \in GetRecords
    PROVE  /\ \A i \in Nat : /\ GetGoes([g EXCEPT !.actual = i], g, g.at)
                             /\ GetFieldsAre([g EXCEPT !.actual = i], i, g.first, g.header, g.tail, g.position)
           /\ \A i \in Int : /\ GetGoes([g EXCEPT !.first = i], g, g.at)
                             /\ GetFieldsAre([g EXCEPT !.first = i], g.actual, i, g.header, g.tail, g.position)
           /\ \A i \in Nat : /\ GetGoes([g EXCEPT !.header = i], g, g.at)
                             /\ GetFieldsAre([g EXCEPT !.header = i], g.actual, g.first, i, g.tail, g.position)
           /\ \A i \in Nat : /\ GetGoes([g EXCEPT !.tail = i], g, g.at)
                             /\ GetFieldsAre([g EXCEPT !.tail = i], g.actual, g.first, g.header, i, g.position)
           /\ \A i \in Nat : /\ GetGoes([g EXCEPT !.position = i], g, g.at)
                             /\ GetFieldsAre([g EXCEPT !.position = i], g.actual, g.first, g.header, g.tail, i)
<1>1. ASSUME NEW i \in Nat
      PROVE  /\ GetGoes([g EXCEPT !.actual = i], g, g.at)
             /\ GetFieldsAre([g EXCEPT !.actual = i], i, g.first, g.header, g.tail, g.position)
  BY DEF GetRecords, GetGoes, GetFieldsAre
<1>2. ASSUME NEW i \in Int
      PROVE  /\ GetGoes([g EXCEPT !.first = i], g, g.at)
             /\ GetFieldsAre([g EXCEPT !.first = i], g.actual, i, g.header, g.tail, g.position)
  BY DEF GetRecords, GetGoes, GetFieldsAre
<1>3. ASSUME NEW i \in Nat
      PROVE  /\ GetGoes([g EXCEPT !.header = i], g, g.at)
             /\ GetFieldsAre([g EXCEPT !.header = i], g.actual, g.first, i, g.tail, g.position)
  BY DEF GetRecords, GetGoes, GetFieldsAre
<1>4. ASSUME NEW i \in Nat
      PROVE  /\ GetGoes([g EXCEPT !.tail = i], g, g.at)
             /\ GetFieldsAre([g EXCEPT !.tail = i], g.actual, g.first, g.header, i, g.position)
  BY DEF GetRecords, GetGoes, GetFieldsAre
<1>5. ASSUME NEW i \in Nat
      PROVE  /\ GetGoes([g EXCEPT !.position = i], g, g.at)
             /\ GetFieldsAre([g EXCEPT !.position = i], g.actual, g.first, g.header, g.tail, i)
  BY DEF GetRecords, GetGoes, GetFieldsAre
<1> QED
  BY <1>1, <1>2, <1>3, <1>4, <1>5

\* How far a position is from another one.
LEMMA Distance ==
    ASSUME NEW i \in Int, NEW j \in Int
    PROVE  /\ Wrap(Wrap(Start + i) - Wrap(Start + j)) = Wrap(i - j)
           /\ Wrap(Wrap(Start + j) + i) = Wrap(Start + (j + i))
<1>1. PICK x \in Int, y \in Int : x = Start + i /\ y = Start + j
  BY Sizes
<1>2. Wrap(x) \in Int
  BY WrapFacts
<1>3. PICK v \in Int : v = Wrap(x)
  BY <1>2
<1>4. Wrap(v - Wrap(y)) = Wrap(v - y)
  BY WrapFacts
<1>5. PICK m \in Int : m = 0 - y
  OBVIOUS
<1>6. Wrap(v + m) = Wrap(x + m)
  BY <1>3, WrapFacts
<1>7. v + m = v - y /\ x + m = i - j
  BY <1>1, <1>5, Sizes
<1>8. Wrap(Wrap(y) + i) = Wrap(y + i)
  BY WrapFacts
<1>9. y + i = Start + (j + i)
  BY <1>1, Sizes
<1> QED
  BY <1>1, <1>3, <1>4, <1>6, <1>7, <1>8, <1>9

LEMMA TurnFact ==
    ASSUME IInv, get.at \in Fetching
    PROVE  Turn \in Producers
<1>1. get.turn \in 1 .. N
  BY DEF IInv, GetsFit
<1> QED
  BY <1>1, ProducersFacts DEF Turn

\* While nobody is looked for.
LEMMA ClaimsElsewhere ==
    ASSUME NEW q, get.at \in Fetching, get'.at \in Fetching, Turn' = Turn, Turn # q, Gone(q)' = Gone(q)
    PROVE  SameClaims(q)
BY DEF SameClaims, Rem, Claimed, Headed

\* Only the numbers of the queue of p, and what the consumer is doing, change.
LEMMA NumbersStep ==
    ASSUME NEW place, NEW n, QNow(place, n), NEW p \in Producers,
           UNCHANGED <<tailIndex, tailBlock, index, blocks, pool, put, received, freeListVars>>,
           \A q \in Producers \ {p} :
             /\ headIndex'[q] = headIndex[q] /\ dequeueOptimisticCount'[q] = dequeueOptimisticCount[q]
             /\ dequeueOvercommit'[q] = dequeueOvercommit[q],
           get.at \in Fetching, get'.at \in Fetching, get.at \notin {"empty", "free"},
           get'.at \notin {"empty", "free"}, Turn' = Turn, p = Turn,
           get' \in GetRecords, NumbersFit(p)', GetKnows(get, Gone(Turn))', ScanNow'
    PROVE  QueuesNow'
<1>1. TypesFit /\ PlacesKnown(place, created) /\ CallsAgree /\ FreeListNow(place, n) /\ ProducerNow(place, p)
  BY DEF QNow
<1>2. /\ tailIndex' = tailIndex
      /\ entries' = entries /\ blockIndex' = blockIndex
      /\ count' = count /\ elements' = elements /\ created' = created /\ poolIndex' = poolIndex
      /\ tailBlock' = tailBlock /\ put' = put /\ received' = received
  BY DEF index, blocks, pool
<1>3. FreeListNow(place, n)'
  BY <1>1, FreeListStays
<1>4. CallsAgree'
  BY <1>1, <1>2 DEF CallsAgree, freeListVars
<1>5. TypesFit'
  BY <1>1, <1>2 DEF TypesFit
<1>6. PlacesKnown(place, created')
  BY <1>1, <1>2
<1>7. \A q \in Producers : Gone(q)' = Gone(q) /\ Sent(q)' = Sent(q) /\ Header(q)' = Header(q)
  BY <1>2 DEF Gone, Sent, Header
<1>8. \A q \in Producers \ {p} :
         Quiet(q) /\ SameClaims(q) /\ SamePlaces(place, place, q) /\ SameFilled(place, q)
  <2>1. \A q \in Producers \ {p} : Quiet(q)
    BY <1>2 DEF Quiet
  <2>2. \A q \in Producers \ {p} : SameClaims(q)
    BY <1>7, ClaimsElsewhere
  <2>3. \A q \in Producers \ {p} : SamePlaces(place, place, q) /\ SameFilled(place, q)
    BY <1>2 DEF SamePlaces, SameFilled
  <2> QED
    BY <2>1, <2>2, <2>3
<1>9. Rem(p)' = Rem(p)
  BY <1>7 DEF Rem
<1>10. SameView(p)
  <2>1. End(p)' = End(p) /\ Ins(p)' = Ins(p)
    BY <1>2, <1>7 DEF End, Ins
  <2>2. Pub(p)' = Pub(p)
    BY <1>2, <2>1 DEF Pub
  <2> QED
    BY <1>2, <1>7, <1>9, <2>1, <2>2 DEF SameView
<1>11. ProducerNow(place, p)'
  BY <1>1, <1>2, <1>10, ProducerStays DEF SamePlaces, SameFilled
<1> QED
  BY <1>3, <1>4, <1>5, <1>6, <1>8, <1>11, ConsumerStep

\* What the consumer may claim.
LEMMA Claimable ==
    ASSUME IInv, NEW place, NEW n, QNow(place, n), get.at \in {"turn", "claimed"}
    PROVE  /\ Turn \in Producers /\ NumbersFit(Turn) /\ Gone(Turn) \in Nat /\ Sent(Turn) \in Nat
           /\ Gone(Turn) <= Sent(Turn) /\ Sent(Turn) - Gone(Turn) < IndexRange
           /\ Wrap(tailIndex[Turn] - ((dequeueOptimisticCount[Turn] - Claimed(Turn)) - dequeueOvercommit[Turn])) =
                Sent(Turn) - Gone(Turn)
           /\ Claimed(Turn) = IF get.at = "claimed" THEN get.actual ELSE 0
           /\ Headed(Turn) = 0
<1>1. Turn \in Producers
  BY TurnFact DEF Fetching
<1>2. PICK p \in Producers : p = Turn
  BY <1>1
<1>3. NumbersFit(p)
  BY DEF QNow
<1>4. PICK gone \in Nat, sent \in Nat, claimed \in Nat : gone = Gone(p) /\ sent = Sent(p) /\ claimed = Claimed(p)
  BY <1>3, GoneFits
<1>5. gone <= sent /\ sent < IndexRange
  BY <1>3, <1>4, GoneFits
<1>6. /\ tailIndex[p] = Wrap(Start + sent) /\ dequeueOptimisticCount[p] = Wrap(Start + (gone + claimed))
      /\ dequeueOvercommit[p] = 0
  BY <1>3, <1>4 DEF NumbersFit
<1>7. PICK o \in Int, x \in Int : o = Wrap(Start + (gone + claimed)) /\ x = Wrap(Start + sent)
  <2>1. PICK i \in Int, j \in Int : i = Start + (gone + claimed) /\ j = Start + sent
    BY Sizes
  <2>2. Wrap(i) \in Int /\ Wrap(j) \in Int
    BY WrapFacts, Sizes
  <2> QED
    BY <2>1, <2>2
<1>8. Wrap(x - ((o - claimed) - 0)) = sent - gone
  <2>1. PICK d \in Int, e \in Int : d = sent - (gone + claimed) /\ e = gone + claimed
    OBVIOUS
  <2>2. Wrap(x - o) = Wrap(d)
    BY <1>7, <2>1, Distance
  <2>3. PICK w \in Int : w = x - o
    OBVIOUS
  <2>4. Wrap(Wrap(w) + claimed) = Wrap(w + claimed)
    BY WrapFacts
  <2>5. Wrap(Wrap(d) + claimed) = Wrap(d + claimed)
    BY WrapFacts
  <2>6. d + claimed = sent - gone /\ w + claimed = x - ((o - claimed) - 0)
    BY <2>1, <2>3
  <2>7. Wrap(d + claimed) = d + claimed
    <3>1. d + claimed \in 0 .. IndexRange - 1
      BY <1>5, <2>6, Sizes
    <3> QED
      BY <3>1, WrapFacts
  <2> QED
    BY <2>2, <2>3, <2>4, <2>5, <2>6, <2>7
<1>9. Claimed(p) = (IF get.at = "claimed" THEN get.actual ELSE 0) /\ Headed(p) = 0
  BY <1>2 DEF Claimed, Headed, Locating
<1>10. Wrap(tailIndex[p] - ((dequeueOptimisticCount[p] - Claimed(p)) - dequeueOvercommit[p])) = sent - gone
  BY <1>4, <1>6, <1>7, <1>8
<1>11. sent - gone < IndexRange
  <2>1. IndexRange \in Nat
    BY Sizes
  <2> QED
    BY ONLY <1>5, <2>1, gone \in Nat, sent \in Nat
<1>12. /\ Sent(p) \in Nat /\ Gone(p) \in Nat /\ Gone(p) <= Sent(p) /\ Sent(p) - Gone(p) < IndexRange
       /\ Wrap(tailIndex[p] - ((dequeueOptimisticCount[p] - Claimed(p)) - dequeueOvercommit[p])) =
            Sent(p) - Gone(p)
  BY <1>4, <1>5, <1>10, <1>11
<1> QED
  BY <1>2, <1>3, <1>9, <1>12

LEMMA ClaimKeepsQ ==
    ASSUME IInv, NEW place, NEW n, QNow(place, n), Claim
    PROVE  QueuesNow'
<1>1. get.at = "turn" /\ UNCHANGED <<tailIndex, headIndex, dequeueOvercommit, tailBlock, index,
                                     blocks, pool, put, received, freeListVars>>
  BY DEF Claim, Getting
<1>2. TypesFit /\ get \in GetRecords
  BY DEF QNow, TypesFit
<1>3. PICK p \in Producers : p = Turn
  BY <1>1, Claimable
<1>4. PICK gone \in Nat, sent \in Nat : gone = Gone(p) /\ sent = Sent(p)
  BY <1>1, <1>3, Claimable
<1>5. Claimed(p) = 0 /\ Headed(p) = 0 /\ gone <= sent /\ NumbersFit(p)
  BY <1>1, <1>3, <1>4, Claimable
<1>6. Wrap(tailIndex[p] - (dequeueOptimisticCount[p] - dequeueOvercommit[p])) = sent - gone
  <2>1. Wrap(tailIndex[p] - ((dequeueOptimisticCount[p] - 0) - dequeueOvercommit[p])) = sent - gone
    BY <1>1, <1>3, <1>4, <1>5, Claimable
  <2>2. dequeueOptimisticCount[p] - 0 = dequeueOptimisticCount[p]
    <3>1. dequeueOptimisticCount[p] \in Int
      BY DEF IInv, IndexesFit
    <3> QED
      BY <3>1
  <2> QED
    BY <2>1, <2>2
<1>7. get.max \in Nat /\ get.got \in Nat /\ get.got <= get.max
  BY DEF IInv, GetsFit
<1>8. PICK desired \in Nat : desired = Min2(get.max - get.got, sent - gone)
  BY <1>4, <1>5, <1>7 DEF Min2
<1>9. desired <= sent - gone
  BY <1>4, <1>5, <1>7, <1>8 DEF Min2
<1>10. CASE ~ circular_less_than(0, desired)
  <2>1. get' = NextTurn(get.got) /\ dequeueOptimisticCount' = dequeueOptimisticCount
    BY <1>3, <1>6, <1>8, <1>10 DEF Claim
  <2>2. get' \in GetRecords /\ get'.at \in {"wait", "turn"}
    BY <1>1, <1>2, <1>7, <2>1, NextTurnIs DEF Fetching
  <2>3. get'.at \notin Locating \cup {"claimed"} /\ get.at \notin Locating \cup {"claimed"}
    BY <1>1, <2>2 DEF Locating
  <2> QED
    BY <1>1, <2>1, <2>2, <2>3, NoFetchStep DEF queue
<1>11. CASE circular_less_than(0, desired)
  <2>1. /\ dequeueOptimisticCount' = [dequeueOptimisticCount EXCEPT ![p] = Wrap(@ + desired)]
        /\ get' = [get EXCEPT !.at = "claimed", !.actual = desired]
    BY <1>3, <1>6, <1>8, <1>11 DEF Claim
  <2>2. desired # 0
    <3>1. Wrap(0) = 0
      BY WrapFacts, Sizes
    <3>2. ~ circular_less_than(0, 0)
      BY <3>1, Sizes DEF circular_less_than
    <3> QED
      BY <1>11, <3>2
  <2>3. PICK g : g = [get EXCEPT !.at = "claimed"]
    OBVIOUS
  <2>4. GetGoes(g, get, "claimed") /\ g.first = get.first
    BY <1>2, <2>3, GetGoesOn DEF GetFieldsAre, Fetching
  <2>5. get' = [g EXCEPT !.actual = desired]
    BY <2>1, <2>3
  <2>6. GetGoes(get', get, "claimed") /\ get'.actual = desired
    <3>1. g \in GetRecords
      BY <2>4 DEF GetGoes
    <3>2. GetGoes([g EXCEPT !.actual = desired], g, g.at) /\ [g EXCEPT !.actual = desired].actual = desired
      BY <3>1, GetFieldSet DEF GetFieldsAre
    <3> QED
      BY <2>4, <2>5, <3>2 DEF GetGoes
  <2>7. Turn' = Turn /\ get'.at = "claimed"
    BY <2>6 DEF Turn, GetGoes
  <2>8. Claimed(p)' = desired /\ Headed(p)' = 0 /\ Gone(p)' = gone /\ Sent(p)' = sent
    BY <1>1, <1>3, <1>4, <2>6, <2>7 DEF Claimed, Headed, Locating, Gone, Sent
  <2>9. dequeueOptimisticCount'[p] = Wrap(Start + (gone + desired))
    <3>1. dequeueOptimisticCount[p] = Wrap(Start + (gone + 0)) /\ gone + 0 = gone
      BY <1>4, <1>5 DEF NumbersFit
    <3>2. Wrap(Wrap(Start + gone) + desired) = Wrap(Start + (gone + desired))
      BY Distance
    <3>3. dequeueOptimisticCount \in [Producers -> Int]
      BY DEF IInv, IndexesFit
    <3> QED
      BY <2>1, <3>1, <3>2, <3>3
  <2>10. NumbersFit(p)'
    <3>1. /\ received[p] = [i \in 1 .. gone |-> i] /\ sent <= MaxItems[p]
          /\ tailIndex[p] = Wrap(Start + sent) /\ headIndex[p] = Wrap(Start + (gone + 0))
          /\ dequeueOvercommit[p] = 0
      BY <1>4, <1>5 DEF NumbersFit
    <3>2. gone + desired <= sent
      BY <1>9
    <3> QED
      BY <1>1, <2>8, <2>9, <3>1, <3>2 DEF NumbersFit
  <2>11. GetKnows(get, Gone(Turn))'
    BY <2>2, <2>6, <2>7 DEF GetKnows, Locating
  <2>12. ScanNow'
    BY <2>7 DEF ScanNow, Scanning
  <2>13. \A q \in Producers \ {p} :
             /\ headIndex'[q] = headIndex[q] /\ dequeueOptimisticCount'[q] = dequeueOptimisticCount[q]
             /\ dequeueOvercommit'[q] = dequeueOvercommit[q]
    <3>1. dequeueOptimisticCount \in [Producers -> Int]
      BY DEF IInv, IndexesFit
    <3> QED
      BY <1>1, <2>1, <3>1
  <2>14. get' \in GetRecords
    BY <2>6 DEF GetGoes
  <2> QED
    BY <1>1, <1>3, <2>7, <2>10, <2>11, <2>12, <2>13, <2>14, NumbersStep DEF Fetching
<1> QED
  BY <1>10, <1>11

LEMMA TakeHeadIndexKeepsQ ==
    ASSUME IInv, NEW place, NEW n, QNow(place, n), TakeHeadIndex
    PROVE  QueuesNow'
<1>1. get.at = "claimed" /\ UNCHANGED <<tailIndex, dequeueOptimisticCount, tailBlock, index,
                                        blocks, pool, put, received, freeListVars>>
  BY DEF TakeHeadIndex, Getting
<1>2. TypesFit /\ get \in GetRecords /\ GetKnows(get, Gone(Turn))
  BY DEF QNow, TypesFit
<1>3. PICK p \in Producers : p = Turn
  BY <1>1, Claimable
<1>4. PICK gone \in Nat, sent \in Nat : gone = Gone(p) /\ sent = Sent(p)
  BY <1>1, <1>3, Claimable
<1>5. Headed(p) = 0 /\ gone <= sent /\ NumbersFit(p) /\ Claimed(p) = get.actual
  BY <1>1, <1>3, <1>4, Claimable
<1>6. PICK actual \in Nat : actual = get.actual
  BY DEF IInv, GetsFit
<1>7. actual # 0 /\ gone + actual <= sent
  BY <1>1, <1>2, <1>4, <1>5, <1>6 DEF GetKnows, NumbersFit
<1>8. Wrap(tailIndex[p] - ((dequeueOptimisticCount[p] - actual) - dequeueOvercommit[p])) = sent - gone
  BY <1>1, <1>3, <1>4, <1>5, <1>6, Claimable
<1>9. Min2(actual, sent - gone) = actual
  BY <1>7 DEF Min2
<1>10. PICK h : h = headIndex[p]
  OBVIOUS
<1>11. h = Wrap(Start + gone) /\ h \in Int /\ dequeueOvercommit[p] = 0
  <2>1. h = Wrap(Start + (gone + 0)) /\ gone + 0 = gone
    BY <1>4, <1>5, <1>10 DEF NumbersFit
  <2> QED
    BY <1>5, <1>10, <2>1 DEF NumbersFit, IInv, IndexesFit
<1>12. /\ dequeueOvercommit' = [dequeueOvercommit EXCEPT ![p] = Wrap(@ + actual - actual)]
       /\ headIndex' = [headIndex EXCEPT ![p] = Wrap(@ + actual)]
       /\ get' = [get EXCEPT !.at = "header", !.actual = actual, !.first = h]
  BY <1>3, <1>6, <1>8, <1>9, <1>10 DEF TakeHeadIndex
<1>13. PICK g : g = [get EXCEPT !.at = "header"]
  OBVIOUS
<1>14. GetGoes(g, get, "header")
  BY <1>2, <1>13, GetGoesOn DEF Fetching
<1>15. PICK f : f = [g EXCEPT !.actual = actual]
  OBVIOUS
<1>16. GetGoes(f, get, "header") /\ f.actual = actual
  <2>1. g \in GetRecords
    BY <1>14 DEF GetGoes
  <2>2. GetGoes([g EXCEPT !.actual = actual], g, g.at) /\ [g EXCEPT !.actual = actual].actual = actual
    BY <2>1, GetFieldSet DEF GetFieldsAre
  <2> QED
    BY <1>14, <1>15, <2>2 DEF GetGoes
<1>17. GetGoes(get', get, "header") /\ get'.actual = actual /\ get'.first = h
  <2>1. f \in GetRecords /\ h \in Int
    BY <1>11, <1>16 DEF GetGoes
  <2>2. /\ GetGoes([f EXCEPT !.first = h], f, f.at) /\ [f EXCEPT !.first = h].first = h
        /\ [f EXCEPT !.first = h].actual = f.actual
    BY <2>1, GetFieldSet DEF GetFieldsAre
  <2>3. get' = [f EXCEPT !.first = h]
    BY <1>12, <1>13, <1>15
  <2> QED
    BY <1>16, <2>2, <2>3 DEF GetGoes
<1>18. Turn' = Turn /\ get'.at = "header"
  BY <1>17 DEF Turn, GetGoes
<1>19. Claimed(p)' = actual /\ Headed(p)' = actual /\ Gone(p)' = gone /\ Sent(p)' = sent
  BY <1>1, <1>3, <1>4, <1>17, <1>18 DEF Claimed, Headed, Locating, Gone, Sent
<1>20. dequeueOvercommit'[p] = 0
  <2>1. dequeueOvercommit \in [Producers -> Int]
    BY DEF IInv, IndexesFit
  <2>2. 0 + actual - actual = 0 /\ Wrap(0) = 0
    BY WrapFacts, Sizes
  <2> QED
    BY <1>11, <1>12, <2>1, <2>2
<1>21. headIndex'[p] = Wrap(Start + (gone + actual))
  <2>1. headIndex \in [Producers -> Int]
    BY DEF IInv, IndexesFit
  <2>2. Wrap(Wrap(Start + gone) + actual) = Wrap(Start + (gone + actual))
    BY Distance
  <2> QED
    BY <1>10, <1>11, <1>12, <2>1, <2>2
<1>22. NumbersFit(p)'
  <2>1. /\ received[p] = [i \in 1 .. gone |-> i] /\ sent <= MaxItems[p]
        /\ tailIndex[p] = Wrap(Start + sent)
        /\ dequeueOptimisticCount[p] = Wrap(Start + (gone + actual))
    BY <1>4, <1>5, <1>6 DEF NumbersFit
  <2> QED
    BY <1>1, <1>7, <1>19, <1>20, <1>21, <2>1 DEF NumbersFit
<1>23. GetKnows(get, Gone(Turn))'
  BY <1>3, <1>7, <1>11, <1>17, <1>18, <1>19 DEF GetKnows, Locating
<1>24. ScanNow'
  BY <1>18 DEF ScanNow, Scanning
<1>25. \A q \in Producers \ {p} :
           /\ headIndex'[q] = headIndex[q] /\ dequeueOptimisticCount'[q] = dequeueOptimisticCount[q]
           /\ dequeueOvercommit'[q] = dequeueOvercommit[q]
  <2>1. headIndex \in [Producers -> Int] /\ dequeueOvercommit \in [Producers -> Int]
    BY DEF IInv, IndexesFit
  <2> QED
    BY <1>1, <1>12, <2>1
<1>26. get' \in GetRecords
  BY <1>17 DEF GetGoes
<1> QED
  BY <1>1, <1>3, <1>18, <1>22, <1>23, <1>24, <1>25, <1>26, NumbersStep DEF Fetching

-----------------------------------------------------------------------------
(* The consumer finds the block                                            *)

\* It stays with the elements it has claimed.
LEMMA LocatingStep ==
    ASSUME NEW place, NEW n, QNow(place, n),
           UNCHANGED <<queue, tailBlock, index, blocks, pool, put, received, freeListVars>>,
           get.at \in {"header", "tail", "key"}, NEW at \in {"tail", "key", "move"}, GetGoes(get', get, at),
           get'.actual = get.actual, get'.first = get.first, ScanNow'
    PROVE  QueuesNow'
<1>1. CallsAgree /\ FreeListNow(place, n) /\ GetKnows(get, Gone(Turn))
  BY DEF QNow
<1>2. get' \in GetRecords /\ Turn' = Turn /\ get'.at = at
  BY DEF GetGoes, Turn
<1>3. FreeListNow(place, n)'
  BY <1>1, FreeListStays
<1>4. CallsAgree'
  BY <1>1, <1>2 DEF CallsAgree, freeListVars
<1>5. \A q \in Producers : Gone(q)' = Gone(q)
  BY DEF Gone
<1>6. get.at \in Locating /\ get'.at \in Locating /\ get.at # "empty" /\ get'.at # "empty"
  BY <1>2 DEF Locating
<1>7. \A q \in Producers : SameClaims(q)
  BY <1>2, <1>5, <1>6 DEF SameClaims, Rem, Claimed, Headed
<1>8. Gone(Turn)' = Gone(Turn)
  BY <1>2 DEF Gone
<1>9. GetKnows(get, Gone(Turn))'
  BY <1>1, <1>2, <1>6, <1>8 DEF GetKnows
<1> QED
  BY <1>2, <1>3, <1>4, <1>7, <1>9, GetStep

\* What the consumer scans, and the ring of the producer.
LEMMA ScanFacts ==
    ASSUME IInv, NEW place, NEW n, QNow(place, n), get.at \in Locating
    PROVE  /\ Turn \in Producers /\ ProducerNow(place, Turn) /\ NumbersFit(Turn)
           /\ RingFits(Header(Turn).index, Header(Turn).tail, entries[Turn], Rem(Turn), Ins(Turn), Pub(Turn))
           /\ Claimed(Turn) = get.actual /\ Headed(Turn) = get.actual
           /\ get.actual \in Nat /\ get \in GetRecords
<1>1. Turn \in Producers
  BY TurnFact DEF Fetching, Locating
<1>2. Claimed(Turn) = get.actual /\ Headed(Turn) = get.actual
  BY DEF Claimed, Headed
<1>3. get.actual \in Nat /\ get \in GetRecords
  BY DEF QNow, TypesFit, IInv, GetsFit
<1> QED
  BY <1>1, <1>2, <1>3, PutFact

\* The elements of a queue are in the blocks of its index.
LEMMA BlocksHold ==
    ASSUME IInv, NEW place, NEW n, QNow(place, n), NEW p \in Producers
    PROVE  /\ Ins(p) \in Nat /\ Pub(p) \in Nat /\ Rem(p) \in Nat /\ Ins(p) <= Pub(p)
           /\ Sent(p) \in Nat /\ Gone(p) \in Nat /\ Gone(p) <= Sent(p)
           /\ Sent(p) <= Ins(p) * BLOCK_SIZE /\ Sent(p) <= Pub(p) * BLOCK_SIZE
           /\ Gone(p) < Sent(p) => Gone(p) \div BLOCK_SIZE < Ins(p)
<1>1. PICK rem \in Nat, ins \in Nat, pub \in Nat : rem = Rem(p) /\ ins = Ins(p) /\ pub = Pub(p) /\ ins <= pub
  BY PutFact, RingTypes
<1>2. PICK sent \in Nat, gone \in Nat : sent = Sent(p) /\ gone = Gone(p) /\ gone <= sent
  BY PutFact, GoneFits
<1>3. PICK B \in Nat \ {0} : B = BLOCK_SIZE
  BY Sizes
<1>4. sent \div B \in Nat /\ sent % B \in 0 .. B - 1 /\ sent = B * (sent \div B) + (sent % B)
  <2>1. sent \in Int /\ sent >= 0
    OBVIOUS
  <2> QED
    BY <2>1, DivMod
<1>5. PICK k \in Nat, r \in 0 .. B - 1 : k = sent \div B /\ r = sent % B /\ sent = B * k + r
  BY <1>4
<1>6. ins = k + (IF r # 0 \/ put[p].at \in ElementSteps THEN 1 ELSE 0)
  BY <1>1, <1>2, <1>3, <1>5 DEF Ins
<1>7. sent <= ins * B
  <2>1. CASE ins = k + 1
    <3>1. ins * B = B * k + B
      BY <2>1
    <3>2. PICK x \in Int, y \in Int : x = B * k /\ y = ins * B
      OBVIOUS
    <3> QED
      BY <1>5, <3>1, <3>2
  <2>2. CASE ins # k + 1
    <3>1. ins = k /\ r = 0
      BY <1>6, <2>2
    <3>2. ins * B = B * k
      BY <3>1
    <3> QED
      BY <1>5, <3>1, <3>2
  <2> QED
    BY <2>1, <2>2
<1>8. ins * B <= pub * B
  BY <1>1
<1>9. PICK x \in Int, y \in Int : x = ins * B /\ y = pub * B
  OBVIOUS
<1>10. sent <= pub * B
  BY <1>7, <1>8, <1>9
<1>11. gone < sent => gone \div B < ins
  <2>1. gone \div B \in Int /\ gone % B \in 0 .. B - 1 /\ gone = B * (gone \div B) + (gone % B)
    <3>1. gone \in Int /\ gone >= 0
      OBVIOUS
    <3> QED
      BY <3>1, DivMod
  <2>2. PICK g \in Int, s \in 0 .. B - 1 : g = gone \div B /\ gone = B * g + s
    BY <2>1
  <2>3. ASSUME gone < sent, g >= ins
        PROVE  FALSE
    <3>1. B * g >= ins * B
      BY <2>3
    <3>2. PICK z \in Int : z = B * g
      OBVIOUS
    <3> QED
      BY <1>7, <1>9, <2>2, <2>3, <3>1, <3>2
  <2> QED
    BY <2>2, <2>3
<1> QED
  BY <1>1, <1>2, <1>3, <1>7, <1>10, <1>11

LEMMA LoadHeaderKeepsQ ==
    ASSUME IInv, NEW place, NEW n, QNow(place, n), LoadHeader
    PROVE  QueuesNow'
<1>1. get.at = "header" /\ UNCHANGED <<queue, tailBlock, index, blocks, pool, put, received, freeListVars>>
  BY DEF LoadHeader, Getting
<1>2. get.at \in Locating
  BY <1>1 DEF Locating
<1>3. PICK p \in Producers : p = Turn
  BY <1>2, ScanFacts
<1>4. PICK m : m = Len(blockIndex[p])
  OBVIOUS
<1>5. m \in Nat /\ m > 0 /\ m \in 1 .. m
  <2>1. m \in Nat /\ m > 0
    BY <1>4 DEF QNow, TypesFit
  <2> QED
    BY <2>1
<1>6. PICK g : g = [get EXCEPT !.at = "tail"]
  OBVIOUS
<1>7. get \in GetRecords
  BY <1>2, ScanFacts
<1>8. GetGoes(g, get, "tail") /\ g.actual = get.actual /\ g.first = get.first
  BY <1>6, <1>7, GetGoesOn DEF GetFieldsAre, Fetching
<1>9. GetGoes(get', get, "tail") /\ get'.actual = get.actual /\ get'.first = get.first /\ get'.header = m
  <2>1. g \in GetRecords
    BY <1>8 DEF GetGoes
  <2>2. /\ GetGoes([g EXCEPT !.header = m], g, g.at) /\ [g EXCEPT !.header = m].header = m
        /\ [g EXCEPT !.header = m].actual = g.actual /\ [g EXCEPT !.header = m].first = g.first
    BY <1>5, <2>1, GetFieldSet DEF GetFieldsAre
  <2>3. get' = [get EXCEPT !.at = "tail", !.header = m]
    BY <1>3, <1>4 DEF LoadHeader
  <2>4. get' = [g EXCEPT !.header = m]
    BY <1>6, <2>3
  <2> QED
    BY <1>8, <2>2, <2>4 DEF GetGoes
<1>10. PICK ix, tail, rem, pub, gone, actual :
          /\ ix = Header(p).index /\ tail = Header(p).tail /\ rem = Rem(p) /\ pub = Pub(p) /\ gone = Gone(p)
          /\ actual = get.actual
  OBVIOUS
<1>11. RingFits(ix, tail, entries[p], rem, Ins(p), pub)
  BY <1>2, <1>3, <1>10, ScanFacts
<1>12. /\ pub - 1 \in Int /\ pub \in Nat /\ ix \in Seq(Nat) /\ Len(ix) # 0 /\ Room % Len(ix) = 0
       /\ tail \in 0 .. Len(ix) - 1
  BY <1>11, RingTypes DEF RingFits, RingShape
<1>13. Scans(ix, tail, pub - 1, pub - 1, ix, tail, pub, rem)
  <2>1. PICK last \in Int : last = pub - 1 /\ last <= pub - 1
    BY <1>12
  <2>2. Scans(ix, tail, last, last, ix, tail, pub, rem)
    BY <1>12, <2>1 DEF Scans
  <2> QED
    BY <2>1, <2>2
<1>14. gone + actual <= ((pub - 1) + 1) * BLOCK_SIZE
  <2>1. gone \in Nat /\ Sent(p) \in Nat /\ Sent(p) <= pub * BLOCK_SIZE
    BY <1>10, BlocksHold
  <2>2. gone + actual <= Sent(p) /\ actual \in Nat
    BY <1>2, <1>3, <1>10, ScanFacts DEF NumbersFit
  <2>3. (pub - 1) + 1 = pub
    BY <1>12
  <2>4. pub * BLOCK_SIZE \in Int
    BY <1>12, Sizes
  <2> QED
    BY <2>1, <2>2, <2>3, <2>4
<1>15. ScanFits(ix, tail, m, m, get', gone, ix, tail, pub, rem)
  <2>1. get'.at = "tail" /\ get'.actual = actual
    BY <1>9, <1>10 DEF GetGoes
  <2>2. PICK last \in Int : last = pub - 1
    BY <1>12
  <2>3. Scans(ix, tail, last, last, ix, tail, pub, rem) /\ gone + actual <= (last + 1) * BLOCK_SIZE
    BY <1>13, <1>14, <2>2
  <2> QED
    BY <2>1, <2>2, <2>3 DEF ScanFits
<1>16. Turn' = p /\ blockIndex' = blockIndex /\ Header(p)' = Header(p)
  BY <1>1, <1>3, <1>9 DEF Turn, GetGoes, index, Header
<1>17. Gone(p)' = gone /\ Rem(p)' = rem
  <2>1. Gone(p)' = Gone(p)
    BY <1>1 DEF Gone
  <2>2. Rem(p)' = Rem(p)
    BY <1>1, <1>9, <2>1 DEF Rem, GetGoes
  <2> QED
    BY <1>10, <2>1, <2>2
<1>18. Pub(p)' = pub
  <2>1. Sent(p)' = Sent(p)
    BY <1>1 DEF Sent, queue
  <2>2. Ins(p)' = Ins(p)
    BY <1>1, <2>1 DEF Ins
  <2> QED
    BY <1>1, <1>10, <2>2 DEF Pub
<1>19. ScanNow'
  <2>1. blockIndex[p][m] = Header(p)
    BY <1>4 DEF Header
  <2>2. /\ get'.header \in 1 .. Len(blockIndex'[p])
        /\ ScanFits(blockIndex'[p][get'.header].index, blockIndex'[p][get'.header].tail,
                    get'.header, Len(blockIndex'[p]), get', Gone(p)', Header(p)'.index, Header(p)'.tail,
                    Pub(p)', Rem(p)')
    BY <1>4, <1>5, <1>9, <1>10, <1>15, <1>16, <1>17, <1>18, <2>1
  <2> QED
    BY <1>16, <2>2 DEF ScanNow
<1> QED
  BY <1>1, <1>9, <1>19, LocatingStep

\* The consumer goes on looking for a block in the same header.
LEMMA ScanGoes ==
    ASSUME NEW place, NEW n, QNow(place, n), UNCHANGED <<queue, index, put, received>>,
           get.at \in {"tail", "key"}, NEW at \in {"key", "move"}, GetGoes(get', get, at),
           get'.header = get.header,
           NEW p, p = Turn, NEW hx, hx = blockIndex[p][get.header].index,
           NEW ht, ht = blockIndex[p][get.header].tail, NEW m, m = Len(blockIndex[p]),
           ScanFits(hx, ht, get.header, m, get, Gone(p), Header(p).index, Header(p).tail, Pub(p), Rem(p)) =>
             ScanFits(hx, ht, get.header, m, get', Gone(p), Header(p).index, Header(p).tail, Pub(p), Rem(p))
    PROVE  ScanNow'
<1>1. /\ get.header \in 1 .. m
      /\ ScanFits(hx, ht, get.header, m, get, Gone(p), Header(p).index, Header(p).tail, Pub(p), Rem(p))
  BY DEF QNow, ScanNow, Scanning
<1>2. Turn' = p /\ blockIndex' = blockIndex /\ Header(p)' = Header(p) /\ get'.at = at
  BY DEF Turn, GetGoes, index, Header
<1>3. Gone(p)' = Gone(p) /\ Rem(p)' = Rem(p)
  <2>1. Gone(p)' = Gone(p)
    BY DEF Gone
  <2>2. Rem(p)' = Rem(p)
    BY <1>2, <2>1 DEF Rem, Turn
  <2> QED
    BY <2>1, <2>2
<1>4. Pub(p)' = Pub(p)
  <2>1. Sent(p)' = Sent(p)
    BY DEF Sent, queue
  <2>2. Ins(p)' = Ins(p)
    BY <2>1 DEF Ins
  <2> QED
    BY <2>2 DEF Pub
<1>5. /\ get'.header \in 1 .. Len(blockIndex'[p])
      /\ ScanFits(blockIndex'[p][get'.header].index, blockIndex'[p][get'.header].tail,
                  get'.header, Len(blockIndex'[p]), get', Gone(p)', Header(p)'.index, Header(p)'.tail,
                  Pub(p)', Rem(p)')
  BY <1>1, <1>2, <1>3, <1>4
<1> QED
  BY <1>2, <1>5 DEF ScanNow

LEMMA LoadTailKeepsQ ==
    ASSUME IInv, NEW place, NEW n, QNow(place, n), LoadTail
    PROVE  QueuesNow'
<1>1. get.at = "tail" /\ UNCHANGED <<queue, tailBlock, index, blocks, pool, put, received, freeListVars>>
  BY DEF LoadTail, Getting
<1>2. get.at \in Locating
  BY <1>1 DEF Locating
<1>3. PICK p \in Producers : p = Turn
  BY <1>2, ScanFacts
<1>4. PICK hx, ht, m, gone, ix, tail, pub, rem :
         /\ hx = blockIndex[p][get.header].index /\ ht = blockIndex[p][get.header].tail
         /\ m = Len(blockIndex[p]) /\ gone = Gone(p) /\ ix = Header(p).index /\ tail = Header(p).tail
         /\ pub = Pub(p) /\ rem = Rem(p)
  OBVIOUS
<1>5. ScanFits(hx, ht, get.header, m, get, gone, ix, tail, pub, rem)
  BY <1>1, <1>3, <1>4 DEF QNow, ScanNow, Scanning
<1>6. PICK last \in Int :
         gone + get.actual <= (last + 1) * BLOCK_SIZE /\ Scans(hx, ht, last, last, ix, tail, pub, rem)
  BY <1>1, <1>5 DEF ScanFits
<1>7. ht \in Nat
  BY <1>6 DEF Scans
<1>8. PICK g : g = [get EXCEPT !.at = "key"]
  OBVIOUS
<1>9. get \in GetRecords
  BY <1>2, ScanFacts
<1>10. GetGoes(g, get, "key") /\ g.actual = get.actual /\ g.first = get.first /\ g.header = get.header
  BY <1>8, <1>9, GetGoesOn DEF GetFieldsAre, Fetching
<1>11. /\ GetGoes(get', get, "key") /\ get'.actual = get.actual /\ get'.first = get.first
       /\ get'.header = get.header /\ get'.tail = ht
  <2>1. g \in GetRecords
    BY <1>10 DEF GetGoes
  <2>2. /\ GetGoes([g EXCEPT !.tail = ht], g, g.at) /\ [g EXCEPT !.tail = ht].tail = ht
        /\ [g EXCEPT !.tail = ht].actual = g.actual /\ [g EXCEPT !.tail = ht].first = g.first
        /\ [g EXCEPT !.tail = ht].header = g.header
    BY <1>7, <2>1, GetFieldSet DEF GetFieldsAre
  <2>3. get' = [get EXCEPT !.at = "key", !.tail = ht]
    BY <1>3, <1>4 DEF LoadTail
  <2>4. get' = [g EXCEPT !.tail = ht]
    BY <1>8, <2>3
  <2> QED
    BY <1>10, <2>2, <2>4 DEF GetGoes
<1>12. ScanFits(hx, ht, get.header, m, get', gone, ix, tail, pub, rem)
  <2>1. get'.at = "key"
    BY <1>11 DEF GetGoes
  <2> QED
    BY <1>6, <1>11, <2>1 DEF ScanFits
<1>13. ScanNow'
  BY <1>1, <1>3, <1>4, <1>11, <1>12, ScanGoes
<1> QED
  BY <1>1, <1>11, <1>13, LocatingStep

\* The entry of the element's block in the ring that is scanned.
LEMMA EntryFound ==
    ASSUME NEW hx, NEW t, NEW last, NEW ix, NEW tail, NEW pub, NEW rem, NEW es, NEW ins,
           Scans(hx, t, last, last, ix, tail, pub, rem), RingFits(ix, tail, es, rem, ins, pub),
           NEW gone \in Nat, rem = gone \div BLOCK_SIZE, rem <= last,
           NEW first, first = Wrap(Start + gone),
           NEW base, base = es[hx[t + 1]].key,
           NEW pos, pos = (t + (Wrap(Base(first) - base) \div BLOCK_SIZE)) % Len(hx)
    PROVE  Scans(hx, pos, rem, last, ix, tail, pub, rem) /\ pos \in Nat
<1>1. /\ hx \in Seq(Nat) /\ Len(hx) # 0 /\ Room % Len(hx) = 0
      /\ t \in 0 .. Len(hx) - 1 /\ last \in Int /\ last <= pub - 1
      /\ \A k \in rem .. last : EntryFrom(hx, t, last, k) = EntryFrom(ix, tail, pub - 1, k)
  BY DEF Scans
<1>2. rem \in Nat /\ pub \in Nat
  BY RingTypes
<1>3. PICK m \in Nat \ {0} : m = Len(hx)
  BY <1>1
<1>4. t \in Int /\ t \in 0 .. m - 1
  BY <1>1, <1>3
<1>5. last \in rem .. last /\ last \in rem .. pub - 1
  BY <1>1, <1>2
<1>6. EntryFrom(hx, t, last, last) = hx[t + 1]
  <2>1. (t + (last - last)) % m = t
    <3>1. t + (last - last) = t
      BY <1>1, <1>4
    <3>2. t % m = t
      BY <1>4, RemainderKeeps
    <3> QED
      BY <3>1, <3>2
  <2> QED
    BY <1>3, <2>1 DEF EntryFrom
<1>7. base = KeyOf(last)
  <2>1. es[EntryFrom(ix, tail, pub - 1, last)].key = KeyOf(last)
    BY <1>5 DEF RingFits
  <2>2. EntryFrom(hx, t, last, last) = EntryFrom(ix, tail, pub - 1, last)
    BY <1>1, <1>5
  <2> QED
    BY <1>6, <2>1, <2>2
<1>8. PICK o \in Int : o = t - last
  BY <1>1, <1>4
<1>9. PICK d \in Int : d = rem - last
  BY <1>1, <1>2
<1>10. pos = (t + d) % m
  <2>1. (((o + last) % m) + (Wrap(Base(Wrap(Start + gone)) - KeyOf(last)) \div BLOCK_SIZE)) % m
           = (o + (gone \div BLOCK_SIZE)) % m
    BY <1>1, <1>3, Located
  <2>2. (o + last) % m = t
    <3>1. o + last = t
      BY <1>1, <1>4, <1>8
    <3>2. t % m = t
      BY <1>4, RemainderKeeps
    <3> QED
      BY <3>1, <3>2
  <2>3. o + (gone \div BLOCK_SIZE) = t + d
    BY <1>1, <1>2, <1>4, <1>8, <1>9
  <2> QED
    BY <1>3, <1>7, <2>1, <2>2, <2>3
<1>11. pos \in 0 .. m - 1
  <2>1. PICK x \in Int : x = t + d
    BY <1>4
  <2>2. x % m \in 0 .. m - 1
    BY DivMod
  <2> QED
    BY <1>10, <2>1, <2>2
<1>12. \A k \in rem .. last : EntryFrom(hx, pos, rem, k) = EntryFrom(hx, t, last, k)
  <2>1. SUFFICES ASSUME NEW k \in rem .. last
                 PROVE  EntryFrom(hx, pos, rem, k) = EntryFrom(hx, t, last, k)
    OBVIOUS
  <2>2. PICK y \in Int, z \in Int, l \in Int, u \in Int : y = pos /\ z = rem /\ l = last /\ u = t
    BY <1>1, <1>2, <1>4, <1>11
  <2>3. k \in Int /\ Len(hx) \in Nat \ {0}
    BY <1>3
  <2>4. y = (u + d) % Len(hx) /\ z = l + d
    BY <1>1, <1>2, <1>3, <1>9, <1>10, <2>2
  <2>5. EntryFrom(hx, y, z, k) = EntryFrom(hx, u, l, k)
    <3>1. y \in Int /\ z \in Int /\ l \in Int /\ u \in Int /\ d \in Int
      OBVIOUS
    <3> QED
      BY ONLY <2>3, <2>4, <3>1, EntrySlides
  <2> QED
    BY <2>2, <2>5
<1> QED
  BY <1>1, <1>2, <1>3, <1>11, <1>12 DEF Scans

\* The last block that is scanned is not before the first one that is in the index.
LEMMA ScanReaches ==
    ASSUME NEW gone \in Nat, NEW actual \in Nat, NEW last \in Int, gone + actual <= (last + 1) * BLOCK_SIZE
    PROVE  /\ actual # 0 => gone \div BLOCK_SIZE <= last
           /\ (gone \div BLOCK_SIZE) - 1 <= last
           /\ gone \div BLOCK_SIZE \in Nat
<1>1. PICK B \in Nat \ {0} : B = BLOCK_SIZE
  BY Sizes
<1>2. gone \div B \in Nat /\ gone % B \in 0 .. B - 1 /\ gone = B * (gone \div B) + (gone % B)
  <2>1. gone \in Int /\ gone >= 0
    OBVIOUS
  <2> QED
    BY <2>1, DivMod
<1>3. PICK g \in Nat, r \in 0 .. B - 1 : g = gone \div B /\ gone = B * g + r
  BY <1>2
<1>4. PICK x \in Int, y \in Int : x = B * g /\ y = (last + 1) * B
  OBVIOUS
<1>5. gone + actual <= y
  BY <1>1, <1>4
<1>6. ASSUME g >= last + 1
      PROVE  actual = 0
  <2>1. B * g >= (last + 1) * B
    BY <1>6
  <2>2. x >= y
    BY <1>4, <2>1
  <2> QED
    BY <1>3, <1>4, <1>5, <2>2
<1>7. ASSUME g >= last + 2
      PROVE  FALSE
  <2>1. B * g >= (last + 2) * B
    BY <1>7
  <2>2. (last + 2) * B = (last + 1) * B + B
    OBVIOUS
  <2>3. PICK z \in Int : z = (last + 2) * B
    OBVIOUS
  <2>4. x >= y + B
    BY <1>4, <2>1, <2>2, <2>3
  <2> QED
    BY <1>3, <1>4, <1>5, <2>4
<1> QED
  BY <1>1, <1>3, <1>6, <1>7

LEMMA FindEntryKeepsQ ==
    ASSUME IInv, NEW place, NEW n, QNow(place, n), FindEntry
    PROVE  QueuesNow'
<1>1. get.at = "key" /\ UNCHANGED <<queue, tailBlock, index, blocks, pool, put, received, freeListVars>>
  BY DEF FindEntry, Getting
<1>2. get.at \in Locating
  BY <1>1 DEF Locating
<1>3. PICK p \in Producers : p = Turn
  BY <1>2, ScanFacts
<1>4. PICK hx, ht, m, ix, tail, pub, rem, ins, es :
         /\ hx = blockIndex[p][get.header].index /\ ht = blockIndex[p][get.header].tail
         /\ m = Len(blockIndex[p]) /\ ix = Header(p).index /\ tail = Header(p).tail
         /\ pub = Pub(p) /\ rem = Rem(p) /\ ins = Ins(p) /\ es = entries[p]
  OBVIOUS
<1>5. PICK gone \in Nat, actual \in Nat : gone = Gone(p) /\ actual = get.actual
  BY <1>2, <1>3, ScanFacts, BlocksHold
<1>6. ScanFits(hx, ht, get.header, m, get, gone, ix, tail, pub, rem)
  BY <1>1, <1>3, <1>4, <1>5 DEF QNow, ScanNow, Scanning
<1>7. PICK last \in Int :
         gone + actual <= (last + 1) * BLOCK_SIZE /\ Scans(hx, get.tail, last, last, ix, tail, pub, rem)
  BY <1>1, <1>5, <1>6 DEF ScanFits
<1>8. RingFits(ix, tail, es, rem, ins, pub)
  BY <1>2, <1>3, <1>4, ScanFacts
<1>9. rem = gone \div BLOCK_SIZE
  <2>1. rem = (gone \div BLOCK_SIZE) - 0
    BY <1>1, <1>4, <1>5 DEF Rem
  <2>2. gone \div BLOCK_SIZE \in Nat
    BY <1>7, ScanReaches
  <2> QED
    BY <2>1, <2>2
<1>10. actual # 0 /\ get.first = Wrap(Start + gone)
  BY <1>1, <1>2, <1>3, <1>5 DEF QNow, GetKnows
<1>11. rem <= last
  BY <1>7, <1>9, <1>10, ScanReaches
<1>12. PICK t, base, pos :
          /\ t = get.tail /\ base = es[hx[t + 1]].key
          /\ pos = (t + (Wrap(Base(get.first) - base) \div BLOCK_SIZE)) % Len(hx)
  OBVIOUS
<1>13. Scans(hx, pos, rem, last, ix, tail, pub, rem) /\ pos \in Nat
  BY <1>7, <1>8, <1>9, <1>10, <1>11, <1>12, EntryFound
<1>14. get' = [get EXCEPT !.at = "move", !.tail = 0, !.position = pos]
  BY <1>3, <1>4, <1>12 DEF FindEntry, Capacity
<1>15. PICK g : g = [get EXCEPT !.at = "move"]
  OBVIOUS
<1>16. get \in GetRecords
  BY <1>2, ScanFacts
<1>17. GetGoes(g, get, "move") /\ g.actual = get.actual /\ g.first = get.first /\ g.header = get.header
  BY <1>15, <1>16, GetGoesOn DEF GetFieldsAre, Fetching
<1>18. PICK f : f = [g EXCEPT !.tail = 0]
  OBVIOUS
<1>19. GetGoes(f, get, "move") /\ f.actual = get.actual /\ f.first = get.first /\ f.header = get.header
  <2>1. g \in GetRecords /\ 0 \in Nat
    BY <1>17 DEF GetGoes
  <2>2. /\ GetGoes([g EXCEPT !.tail = 0], g, g.at) /\ [g EXCEPT !.tail = 0].actual = g.actual
        /\ [g EXCEPT !.tail = 0].first = g.first /\ [g EXCEPT !.tail = 0].header = g.header
    BY <2>1, GetFieldSet DEF GetFieldsAre
  <2> QED
    BY <1>17, <1>18, <2>2 DEF GetGoes
<1>20. /\ GetGoes(get', get, "move") /\ get'.actual = get.actual /\ get'.first = get.first
       /\ get'.header = get.header /\ get'.position = pos
  <2>1. f \in GetRecords
    BY <1>19 DEF GetGoes
  <2>2. /\ GetGoes([f EXCEPT !.position = pos], f, f.at) /\ [f EXCEPT !.position = pos].position = pos
        /\ [f EXCEPT !.position = pos].actual = f.actual /\ [f EXCEPT !.position = pos].first = f.first
        /\ [f EXCEPT !.position = pos].header = f.header
    BY <1>13, <2>1, GetFieldSet DEF GetFieldsAre
  <2>3. get' = [f EXCEPT !.position = pos]
    BY <1>14, <1>15, <1>18
  <2> QED
    BY <1>19, <2>2, <2>3 DEF GetGoes
<1>21. ScanFits(hx, ht, get.header, m, get', gone, ix, tail, pub, rem)
  <2>1. get'.at = "move" /\ get'.actual = actual
    BY <1>5, <1>20 DEF GetGoes
  <2>2. Scans(hx, get'.position, gone \div BLOCK_SIZE, last, ix, tail, pub, rem)
    BY <1>9, <1>13, <1>20
  <2> QED
    BY <1>7, <2>1, <2>2 DEF ScanFits
<1>22. ScanNow'
  BY <1>1, <1>3, <1>4, <1>5, <1>20, <1>21, ScanGoes
<1> QED
  BY <1>1, <1>20, <1>22, LocatingStep

-----------------------------------------------------------------------------
(* The consumer takes elements out of a block                              *)

\* Block b holds what has been put into the queue of p, from the first one that is there.
HoldsFirst(p, b) ==
    \A s \in SlotNumbers : Gone(p) % BLOCK_SIZE <= s /\ (Rem(p) * BLOCK_SIZE) + s < End(p) =>
      elements[b][s] = (Rem(p) * BLOCK_SIZE) + s + 1

\* Block b is the first one of p, and what has come out of it is gone.
IsFirst(place, p, b) ==
    /\ b \in Blocks /\ place[b].at = "index" /\ place[b].by = p /\ place[b].num = Rem(p)
    /\ count[b] = Gone(p) % BLOCK_SIZE

\* The first elements that are there are in the block of the oldest entry.
LEMMA FirstBlock ==
    ASSUME IInv, NEW place, NEW n, QNow(place, n), NEW p \in Producers, Gone(p) < Sent(p),
           Rem(p) = Gone(p) \div BLOCK_SIZE,
           NEW b, b = entries[p][EntryFrom(Header(p).index, Header(p).tail, Pub(p) - 1, Rem(p))].value
    PROVE  IsFirst(place, p, b) /\ HoldsFirst(p, b) /\ Rem(p) < Ins(p)
<1>1. PICK rem \in Nat, ins \in Nat, gone \in Nat : rem = Rem(p) /\ ins = Ins(p) /\ gone = Gone(p)
  BY BlocksHold
<1>2. rem < ins
  BY <1>1, BlocksHold
<1>3. rem \in rem .. ins - 1
  BY <1>2
<1>4. b \in Blocks /\ place[b].at = "index" /\ place[b].by = p /\ place[b].num = rem
  <2>1. IndexPlaces(place, p, Header(p).index, Header(p).tail, entries[p], rem, ins, Pub(p))
    BY <1>1, PutFact
  <2> QED
    BY <1>1, <1>3, <2>1 DEF IndexPlaces
<1>5. PICK end : end = End(p)
  OBVIOUS
<1>6. BlockFilled(b, rem, count, elements, gone, end)
  BY <1>1, <1>4, <1>5, PutFact DEF BlocksFilled
<1>7. PICK B \in Nat \ {0} : B = BLOCK_SIZE
  BY Sizes
<1>8. gone \div B \in Int /\ gone % B \in 0 .. B - 1 /\ gone = B * (gone \div B) + (gone % B)
  <2>1. gone \in Int
    OBVIOUS
  <2> QED
    BY <2>1, DivMod
<1>9. PICK r \in 0 .. B - 1 : r = gone % B /\ gone = B * rem + r
  BY <1>1, <1>7, <1>8
<1>10. PICK x \in Int : x = rem * B /\ x = B * rem
  OBVIOUS
<1>11. gone = x + r
  BY <1>9, <1>10
<1>12. count[b] = r
  <2>1. count[b] = IF gone <= x THEN 0 ELSE gone - x
    BY <1>6, <1>7, <1>10 DEF BlockFilled
  <2> QED
    BY <1>11, <2>1
<1>13. \A s \in SlotNumbers : r <= s /\ x + s < end => elements[b][s] = x + s + 1
  <2>1. \A s \in SlotNumbers : gone <= x + s /\ x + s < end => elements[b][s] = x + s + 1
    BY <1>6, <1>7, <1>10 DEF BlockFilled
  <2>2. \A s \in SlotNumbers : r <= s => gone <= x + s
    BY <1>7, <1>11 DEF SlotNumbers
  <2> QED
    BY <2>1, <2>2
<1>14. HoldsFirst(p, b)
  BY <1>1, <1>5, <1>7, <1>9, <1>10, <1>13 DEF HoldsFirst
<1>15. IsFirst(place, p, b)
  BY <1>1, <1>4, <1>7, <1>9, <1>12 DEF IsFirst
<1> QED
  BY <1>1, <1>2, <1>14, <1>15

UpTo(i) == [j \in 1 .. i |-> j]

GoesOn(e, i, k) == DOMAIN e = 1 .. k /\ Len(e) = k /\ e \in Seq(Nat) /\ \A j \in 1 .. k : e[j] = i + j

Joins(all, old, e) == all = old \o e

\* The elements of a block that come out are the next ones.
LEMMA ElementsCome ==
    ASSUME NEW gone \in Nat, NEW n \in Nat, NEW old, old = UpTo(gone),
           NEW e, GoesOn(e, gone, n), NEW all, Joins(all, old, e)
    PROVE  all = UpTo(gone + n) /\ Len(all) = gone + n /\ all \in Seq(Nat)
<1>1. old \in Seq(Nat) /\ Len(old) = gone
  BY DEF Seq, UpTo
<1> QED
  BY <1>1 DEF UpTo, GoesOn, Joins

\* k elements are taken out of block b, from the r-th on.
TakenOut(b, r, k) ==
    /\ count' = [count EXCEPT ![b] = @ + k]
    /\ elements' \in [Blocks -> [SlotNumbers -> Nat]]
    /\ \A d \in Blocks \ {b} : elements'[d] = elements[d]
    /\ \A i \in SlotNumbers : i < r \/ r + k <= i => elements'[b][i] = elements[b][i]

LEMMA FilledThen ==
    ASSUME IInv, NEW place, NEW n, QNow(place, n), NEW p \in Producers, Gone(p) < Sent(p),
           Rem(p) = Gone(p) \div BLOCK_SIZE,
           NEW b, b = entries[p][EntryFrom(Header(p).index, Header(p).tail, Pub(p) - 1, Rem(p))].value,
           NEW k \in Nat \ {0}, (Gone(p) % BLOCK_SIZE) + k <= BLOCK_SIZE,
           TakenOut(b, Gone(p) % BLOCK_SIZE, k)
    PROVE  /\ BlocksFilled(place, p, count', elements', Gone(p) + k, End(p))
           /\ count' \in [Blocks -> Int]
           /\ \A q \in Producers \ {p} : SameFilled(place, q)
<1>1. IsFirst(place, p, b)
  BY FirstBlock
<1>2. PICK rem \in Nat, gone \in Nat : rem = Rem(p) /\ gone = Gone(p)
  BY BlocksHold
<1>3. PICK end : end = End(p)
  OBVIOUS
<1>4. PICK B \in Nat \ {0} : B = BLOCK_SIZE
  BY Sizes
<1>5. gone \div B \in Int /\ gone % B \in 0 .. B - 1 /\ gone = B * (gone \div B) + (gone % B)
  <2>1. gone \in Int
    OBVIOUS
  <2> QED
    BY <2>1, DivMod
<1>6. PICK r \in 0 .. B - 1 : r = gone % B /\ gone = B * rem + r
  BY <1>2, <1>4, <1>5
<1>7. PICK x \in Int : x = rem * B /\ x = B * rem
  OBVIOUS
<1>8. gone = x + r /\ r + k <= B
  BY <1>2, <1>4, <1>6, <1>7
<1>9. /\ b \in Blocks /\ place[b].at = "index" /\ place[b].by = p /\ place[b].num = rem
      /\ count[b] = r
  BY <1>1, <1>2, <1>4, <1>6 DEF IsFirst
<1>10. TakenOut(b, r, k)
  BY <1>2, <1>4, <1>6
<1>11. count \in [Blocks -> Int]
  BY DEF QNow, TypesFit
<1>12. count' \in [Blocks -> Int] /\ count'[b] = r + k /\ \A d \in Blocks \ {b} : count'[d] = count[d]
  <2>1. count' = [count EXCEPT ![b] = @ + k]
    BY <1>10 DEF TakenOut
  <2>2. r + k \in Int
    OBVIOUS
  <2> QED
    BY <1>9, <1>11, <2>1, <2>2
<1>13. BlocksFilled(place, p, count', elements', gone + k, end)
  <2>1. SUFFICES ASSUME NEW d \in Blocks, place[d].at = "index", place[d].by = p,
                        NEW j, j = place[d].num
                 PROVE  BlockFilled(d, j, count', elements', gone + k, end)
    BY DEF BlocksFilled
  <2>2. BlockFilled(d, j, count, elements, gone, end)
    BY <1>2, <1>3, <2>1, PutFact DEF BlocksFilled
  <2>3. j \in rem .. Ins(p) - 1 /\ (j = rem => d = b)
    <3>1. /\ j \in rem .. Ins(p) - 1
          /\ entries[p][EntryFrom(Header(p).index, Header(p).tail, Pub(p) - 1, j)].value = d
      <4>1. IndexPlaces(place, p, Header(p).index, Header(p).tail, entries[p], rem, Ins(p), Pub(p))
        BY <1>2, PutFact
      <4> QED
        BY <2>1, <4>1 DEF IndexPlaces
    <3> QED
      BY <1>2, <3>1
  <2>4. j \in Int /\ j >= rem
    BY <2>3, BlocksHold
  <2>5. PICK y \in Int : y = j * B
    BY <2>4
  <2>6. CASE d = b
    <3>1. y = x
      BY <1>7, <1>9, <2>1, <2>5, <2>6
    <3>2. count'[d] = IF gone + k <= y THEN 0 ELSE (gone + k) - y
      <4>1. count'[d] = r + k
        BY <1>12, <2>6
      <4>2. r + k = (gone + k) - y /\ r + k > 0 /\ gone + k > y
        BY <1>8, <3>1
      <4> QED
        BY <4>1, <4>2
    <3>3. \A s \in SlotNumbers : gone + k <= y + s /\ y + s < end => elements'[d][s] = y + s + 1
      <4>1. \A s \in SlotNumbers : gone + k <= y + s => gone <= y + s /\ r + k <= s
        BY <1>4, <1>8, <3>1 DEF SlotNumbers
      <4>2. \A s \in SlotNumbers : r + k <= s => elements'[d][s] = elements[d][s]
        BY <1>10, <2>6 DEF TakenOut
      <4>3. \A s \in SlotNumbers : gone <= y + s /\ y + s < end => elements[d][s] = y + s + 1
        BY <1>4, <2>2, <2>5 DEF BlockFilled
      <4> QED
        BY <4>1, <4>2, <4>3
    <3> QED
      BY <1>4, <2>5, <3>2, <3>3 DEF BlockFilled
  <2>7. CASE d # b
    <3>1. y >= x + B
      <4>1. j >= rem + 1
        BY <2>3, <2>4, <2>7
      <4>2. j * B >= (rem + 1) * B
        BY <2>4, <4>1
      <4>3. (rem + 1) * B = rem * B + B
        OBVIOUS
      <4>4. PICK z \in Int : z = (rem + 1) * B
        OBVIOUS
      <4> QED
        BY <1>7, <2>5, <4>2, <4>3, <4>4
    <3>2. gone + k <= y /\ gone <= y
      BY <1>8, <3>1
    <3>3. count'[d] = IF gone + k <= y THEN 0 ELSE (gone + k) - y
      <4>1. count[d] = IF gone <= y THEN 0 ELSE gone - y
        BY <1>4, <2>2, <2>5 DEF BlockFilled
      <4> QED
        BY <1>12, <2>7, <3>2, <4>1
    <3>4. \A s \in SlotNumbers : gone + k <= y + s /\ y + s < end => elements'[d][s] = y + s + 1
      <4>1. \A s \in SlotNumbers : gone <= y + s
        BY <1>4, <3>2 DEF SlotNumbers
      <4>2. elements'[d] = elements[d]
        BY <1>10, <2>7 DEF TakenOut
      <4>3. \A s \in SlotNumbers : gone <= y + s /\ y + s < end => elements[d][s] = y + s + 1
        BY <1>4, <2>2, <2>5 DEF BlockFilled
      <4> QED
        BY <4>1, <4>2, <4>3
    <3> QED
      BY <1>4, <2>5, <3>3, <3>4 DEF BlockFilled
  <2> QED
    BY <2>6, <2>7
<1>14. ASSUME NEW q \in Producers \ {p}
       PROVE  SameFilled(place, q)
  <2>1. \A d \in Blocks : place[d].at = "index" /\ place[d].by = q => d # b
    BY <1>9
  <2> QED
    BY <1>10, <1>12, <2>1 DEF SameFilled, TakenOut
<1> QED
  BY <1>2, <1>3, <1>12, <1>13, <1>14

\* k elements of block b, from the r-th on.
ElementsOf(e, b, r, k) ==
    e \in Seq(Nat) /\ Len(e) = k /\ \A i \in 1 .. k : e[i] = elements[b][r + (i - 1)]

LEMMA ElementsReceived ==
    ASSUME IInv, NEW place, NEW n, QNow(place, n), NEW p \in Producers, Gone(p) < Sent(p),
           Rem(p) = Gone(p) \div BLOCK_SIZE,
           NEW b, b = entries[p][EntryFrom(Header(p).index, Header(p).tail, Pub(p) - 1, Rem(p))].value,
           NEW k \in Nat \ {0}, (Gone(p) % BLOCK_SIZE) + k <= BLOCK_SIZE, Gone(p) + k <= Sent(p),
           NEW e, ElementsOf(e, b, Gone(p) % BLOCK_SIZE, k), received' = [received EXCEPT ![p] = @ \o e]
    PROVE  /\ received'[p] = [i \in 1 .. Gone(p) + k |-> i] /\ Gone(p)' = Gone(p) + k
           /\ received' \in [Producers -> Seq(Nat)]
           /\ \A q \in Producers \ {p} : received'[q] = received[q]
<1>1. PICK rem \in Nat, gone \in Nat, sent \in Nat : rem = Rem(p) /\ gone = Gone(p) /\ sent = Sent(p)
  BY BlocksHold
<1>2. PICK end : end = End(p)
  OBVIOUS
<1>3. PICK B \in Nat \ {0} : B = BLOCK_SIZE
  BY Sizes
<1>4. gone \div B \in Int /\ gone % B \in 0 .. B - 1 /\ gone = B * (gone \div B) + (gone % B)
  <2>1. gone \in Int
    OBVIOUS
  <2> QED
    BY <2>1, DivMod
<1>5. PICK r \in 0 .. B - 1 : r = gone % B /\ gone = B * rem + r
  BY <1>1, <1>3, <1>4
<1>6. PICK x \in Int : x = rem * B /\ x = B * rem
  OBVIOUS
<1>7. gone = x + r /\ r + k <= B /\ gone + k <= sent
  BY <1>1, <1>3, <1>5, <1>6
<1>8. \A s \in SlotNumbers : r <= s /\ x + s < end => elements[b][s] = x + s + 1
  <2>1. HoldsFirst(p, b)
    BY FirstBlock
  <2> QED
    BY <1>1, <1>2, <1>3, <1>5, <1>6, <2>1 DEF HoldsFirst
<1>9. end \in Int /\ sent <= end
  BY <1>1, <1>2 DEF End
<1>10. e \in Seq(Nat) /\ Len(e) = k /\ \A i \in 1 .. k : e[i] = elements[b][r + (i - 1)]
  BY <1>1, <1>3, <1>5 DEF ElementsOf
<1>11. \A i \in 1 .. k : e[i] = gone + i
  <2>1. SUFFICES ASSUME NEW i \in 1 .. k
                 PROVE  e[i] = gone + i
    OBVIOUS
  <2>2. PICK s \in Int : s = r + (i - 1)
    OBVIOUS
  <2>3. s \in SlotNumbers /\ r <= s /\ x + s < end /\ x + s + 1 = gone + i
    BY <1>3, <1>7, <1>9, <2>2 DEF SlotNumbers
  <2> QED
    BY <1>8, <1>10, <2>2, <2>3
<1>12. DOMAIN e = 1 .. k
  <2>1. DOMAIN e = 1 .. Len(e)
    <3>1. e \in Seq(Nat)
      BY <1>10
    <3> QED
      BY ONLY <3>1
  <2>2. 1 .. Len(e) = 1 .. k
    BY <1>10
  <2> QED
    BY ONLY <2>1, <2>2
<1>13. PICK old : old = received[p]
  OBVIOUS
<1>14. old = UpTo(gone)
  BY <1>1, <1>13, PutFact DEF NumbersFit, UpTo
<1> DEFINE all == old \o e
<1>15. all = UpTo(gone + k) /\ Len(all) = gone + k /\ all \in Seq(Nat)
  <2>1. GoesOn(e, gone, k)
    BY <1>10, <1>11, <1>12 DEF GoesOn
  <2> QED
    <3>1. k \in Nat /\ gone \in Nat
      OBVIOUS
    <3>2. PICK a : a = old \o e /\ Joins(a, old, e)
      BY DEF Joins
    <3>3. Joins(a, old, e)
      BY <3>2
    <3>4. a = UpTo(gone + k) /\ Len(a) = gone + k /\ a \in Seq(Nat)
      BY ONLY <1>14, <2>1, <3>1, <3>3, ElementsCome
    <3> QED
      BY <3>2, <3>4
<1>16. received \in [Producers -> Seq(Nat)]
  BY DEF QNow, TypesFit
<1>17. received'[p] = all /\ received' \in [Producers -> Seq(Nat)]
       /\ \A q \in Producers \ {p} : received'[q] = received[q]
  BY <1>13, <1>15, <1>16
<1>18. Gone(p)' = gone + k
  BY <1>15, <1>17 DEF Gone
<1>19. all = [i \in 1 .. gone + k |-> i]
  BY <1>15 DEF UpTo
<1> QED
  BY <1>1, <1>17, <1>18, <1>19

\* Where the consumer looks.
LEMMA ScansAt ==
    ASSUME NEW hx, NEW t, NEW c, NEW last, NEW ix, NEW tail, NEW pub, NEW rem,
           Scans(hx, t, c, last, ix, tail, pub, rem), c \in rem .. last, rem \in Int
    PROVE  hx[t + 1] = EntryFrom(ix, tail, pub - 1, c)
<1>1. /\ hx \in Seq(Nat) /\ Len(hx) # 0 /\ t \in 0 .. Len(hx) - 1 /\ c \in Int
      /\ EntryFrom(hx, t, c, c) = EntryFrom(ix, tail, pub - 1, c)
  BY DEF Scans
<1>2. PICK m \in Nat \ {0} : m = Len(hx)
  BY <1>1
<1>3. t \in 0 .. m - 1 /\ t \in Int
  BY <1>1, <1>2
<1>4. t + (c - c) = t
  BY <1>1, <1>3
<1>5. t % m = t
  BY <1>3, RemainderKeeps
<1>6. EntryFrom(hx, t, c, c) = hx[t + 1]
  BY <1>2, <1>4, <1>5 DEF EntryFrom
<1> QED
  BY <1>1, <1>6

LEMMA GotSet ==
    ASSUME NEW g \in GetRecords, NEW i \in Nat
    PROVE  /\ [g EXCEPT !.got = i] \in GetRecords /\ [g EXCEPT !.got = i].at = g.at
           /\ [g EXCEPT !.got = i].got = i /\ [g EXCEPT !.got = i].max = g.max
           /\ [g EXCEPT !.got = i].turn = g.turn
           /\ GetFieldsAre([g EXCEPT !.got = i], g.actual, g.first, g.header, g.tail, g.position)
BY DEF GetRecords, GetFieldsAre

\* The consumer has taken elements of a block.
LEMMA TookSome ==
    ASSUME get \in GetRecords, NEW f \in Int, NEW a \in Nat, NEW i \in Nat
    PROVE  \E g \in GetRecords :
             /\ g = [get EXCEPT !.first = f, !.actual = a, !.got = i]
             /\ g.at = get.at /\ g.max = get.max /\ g.turn = get.turn /\ g.got = i
             /\ GetFieldsAre(g, a, f, get.header, get.tail, get.position)
<1>1. PICK u : u = [get EXCEPT !.first = f]
  OBVIOUS
<1>2. /\ u \in GetRecords /\ u.at = get.at /\ u.max = get.max /\ u.turn = get.turn
      /\ u.first = f /\ u.header = get.header /\ u.tail = get.tail /\ u.position = get.position
  BY <1>1, GetFieldSet DEF GetGoes, GetFieldsAre
<1>3. PICK v : v = [u EXCEPT !.actual = a]
  OBVIOUS
<1>4. /\ v \in GetRecords /\ v.at = get.at /\ v.max = get.max /\ v.turn = get.turn
      /\ GetFieldsAre(v, a, f, get.header, get.tail, get.position)
  <2>1. /\ GetGoes(v, u, u.at) /\ GetFieldsAre(v, a, u.first, u.header, u.tail, u.position)
    BY <1>2, <1>3, GetFieldSet
  <2> QED
    BY <1>2, <2>1 DEF GetGoes
<1>5. PICK g : g = [v EXCEPT !.got = i]
  OBVIOUS
<1>6. /\ g \in GetRecords /\ g.at = v.at /\ g.got = i /\ g.max = v.max /\ g.turn = v.turn
      /\ GetFieldsAre(g, v.actual, v.first, v.header, v.tail, v.position)
  BY <1>4, <1>5, GotSet
<1>7. GetFieldsAre(g, a, f, get.header, get.tail, get.position)
  BY <1>4, <1>6 DEF GetFieldsAre
<1>8. g = [get EXCEPT !.first = f, !.actual = a, !.got = i]
  BY <1>1, <1>3, <1>5
<1> QED
  BY <1>4, <1>6, <1>7, <1>8

\* What the consumer sees when it takes elements out of a block.
LEMMA MoveFacts ==
    ASSUME IInv, NEW place, NEW n, QNow(place, n), get.at = "move"
    PROVE  /\ Turn \in Producers /\ Gone(Turn) < Sent(Turn) /\ Rem(Turn) = Gone(Turn) \div BLOCK_SIZE
           /\ get.actual # 0 /\ Gone(Turn) + get.actual <= Sent(Turn)
           /\ Slot(get.first) = Gone(Turn) % BLOCK_SIZE
           /\ get.first = Wrap(Start + Gone(Turn))
           /\ Entry = EntryFrom(Header(Turn).index, Header(Turn).tail, Pub(Turn) - 1, Rem(Turn))
<1>1. get.at \in Locating
  BY DEF Locating
<1>2. PICK p \in Producers : p = Turn
  BY <1>1, ScanFacts
<1>3. PICK gone \in Nat, actual \in Nat, sent \in Nat : gone = Gone(p) /\ actual = get.actual /\ sent = Sent(p)
  BY <1>1, <1>2, ScanFacts, BlocksHold
<1>4. actual # 0 /\ get.first = Wrap(Start + gone)
  BY <1>1, <1>2, <1>3 DEF QNow, GetKnows
<1>5. gone + actual <= sent /\ gone < sent
  <2>1. gone + actual <= sent
    BY <1>1, <1>2, <1>3, ScanFacts DEF NumbersFit
  <2> QED
    BY <1>4, <2>1
<1>6. Slot(get.first) = gone % BLOCK_SIZE
  BY <1>4, SlotIs
<1>7. PICK hx, ht, m, ix, tail, pub, rem :
         /\ hx = blockIndex[p][get.header].index /\ ht = blockIndex[p][get.header].tail
         /\ m = Len(blockIndex[p]) /\ ix = Header(p).index /\ tail = Header(p).tail
         /\ pub = Pub(p) /\ rem = Rem(p)
  OBVIOUS
<1>8. ScanFits(hx, ht, get.header, m, get, gone, ix, tail, pub, rem)
  BY <1>2, <1>3, <1>7 DEF QNow, ScanNow, Scanning
<1>9. PICK last \in Int :
         /\ gone + actual <= (last + 1) * BLOCK_SIZE
         /\ Scans(hx, get.position, gone \div BLOCK_SIZE, last, ix, tail, pub, rem)
  BY <1>3, <1>8 DEF ScanFits
<1>10. rem = gone \div BLOCK_SIZE /\ rem \in Nat
  <2>1. rem = (gone \div BLOCK_SIZE) - 0
    BY <1>3, <1>7 DEF Rem
  <2>2. gone \div BLOCK_SIZE \in Nat
    BY <1>9, ScanReaches
  <2> QED
    BY <2>1, <2>2
<1>11. rem \in rem .. last
  <2>1. rem <= last
    BY <1>4, <1>9, <1>10, ScanReaches
  <2> QED
    BY <1>10, <2>1
<1>12. hx[get.position + 1] = EntryFrom(ix, tail, pub - 1, rem)
  BY <1>9, <1>10, <1>11, ScansAt
<1> QED
  BY <1>2, <1>3, <1>4, <1>5, <1>6, <1>7, <1>10, <1>12 DEF Entry

\* The elements in a step of the consumer's, and what is left of its claim.
LEMMA MoveTakes ==
    ASSUME IInv, NEW place, NEW n, QNow(place, n), MoveElements, NEW p, p = Turn,
           NEW b, b = entries[p][EntryFrom(Header(p).index, Header(p).tail, Pub(p) - 1, Rem(p))].value
    PROVE  \E k \in Nat \ {0}, e \in Seq(Nat) :
             /\ k <= get.actual /\ (Gone(p) % BLOCK_SIZE) + k <= BLOCK_SIZE
             /\ (Gone(p) % BLOCK_SIZE) + k # BLOCK_SIZE => k = get.actual
             /\ ElementsOf(e, b, Gone(p) % BLOCK_SIZE, k) /\ received' = [received EXCEPT ![p] = @ \o e]
             /\ TakenOut(b, Gone(p) % BLOCK_SIZE, k)
             /\ \E g \in GetRecords :
                  /\ g.at = "move" /\ g.max = get.max /\ g.turn = get.turn /\ g.got = get.got + k
                  /\ GetFieldsAre(g, get.actual - k, Wrap(get.first + k), get.header, get.tail, get.position)
                  /\ get' = IF (Gone(p) % BLOCK_SIZE) + k = BLOCK_SIZE
                            THEN [g EXCEPT !.at = "empty"] ELSE NextBlock(g)
<1>1. get.at = "move" /\ get \in GetRecords
  BY DEF MoveElements, Getting, QNow, TypesFit
<1>2. p \in Producers /\ Gone(p) < Sent(p) /\ Rem(p) = Gone(p) \div BLOCK_SIZE
  BY <1>1, MoveFacts
<1>3. PICK gone \in Nat, actual \in Nat \ {0} : gone = Gone(p) /\ actual = get.actual
  <2>1. get.actual \in Nat
    BY DEF IInv, GetsFit
  <2> QED
    BY <1>1, <1>2, <2>1, MoveFacts, BlocksHold
<1>4. PICK B \in Nat \ {0} : B = BLOCK_SIZE
  BY Sizes
<1>5. PICK r \in 0 .. B - 1 : r = gone % B
  <2>1. gone \in Int
    OBVIOUS
  <2> QED
    BY <2>1, DivMod
<1>6. Slot(get.first) = r
  BY <1>1, <1>3, <1>4, <1>5, MoveFacts
<1>7. PICK k \in Nat \ {0} : k = InBlock /\ k <= actual /\ r + k <= B /\ (r + k # B => k = actual)
  <2>1. InBlock = Min2(actual, B - r)
    BY <1>3, <1>4, <1>6 DEF InBlock
  <2>2. Min2(actual, B - r) \in Nat \ {0} /\ Min2(actual, B - r) <= actual /\ r + Min2(actual, B - r) <= B
        /\ (r + Min2(actual, B - r) # B => Min2(actual, B - r) = actual)
    BY DEF Min2
  <2> QED
    BY <2>1, <2>2
<1>8. /\ b \in Blocks /\ count[b] = r
  <2>1. IsFirst(place, p, b)
    BY <1>2, FirstBlock
  <2> QED
    BY <1>3, <1>4, <1>5, <2>1 DEF IsFirst
<1>9. b = entries[p][Entry].value
  BY <1>1, MoveFacts
<1>10. PICK a \in Nat, f \in Int, i \in Nat : a = actual - k /\ f = Wrap(get.first + k) /\ i = get.got + k
  <2>1. actual - k \in Nat
    BY <1>7
  <2>2. Wrap(get.first + k) \in Int
    <3>1. PICK y \in Int : y = get.first + k
      BY <1>1 DEF GetRecords
    <3>2. Wrap(y) \in Int
      BY WrapFacts, Sizes
    <3> QED
      BY <3>1, <3>2
  <2>3. get.got + k \in Nat
    BY <1>1 DEF GetRecords
  <2> QED
    BY <2>1, <2>2, <2>3
<1>11. PICK g \in GetRecords :
          /\ g = [get EXCEPT !.first = f, !.actual = a, !.got = i]
          /\ g.at = get.at /\ g.max = get.max /\ g.turn = get.turn /\ g.got = i
          /\ GetFieldsAre(g, a, f, get.header, get.tail, get.position)
  BY <1>1, TookSome
<1>12. /\ received' = [received EXCEPT ![p] = @ \o [j \in 1 .. k |-> elements[b][r + j - 1]]]
       /\ elements' = [elements EXCEPT ![b] = [j \in DOMAIN @ |-> IF j \in r .. r + k - 1 THEN 0 ELSE @[j]]]
       /\ count' = [count EXCEPT ![b] = @ + k]
       /\ get' = IF r + k = B THEN [g EXCEPT !.at = "empty"] ELSE NextBlock(g)
  <2>1. g = [get EXCEPT !.first = Wrap(@ + k), !.actual = @ - k, !.got = @ + k]
    BY <1>3, <1>10, <1>11
  <2> QED
    BY <1>4, <1>6, <1>7, <1>8, <1>9, <2>1 DEF MoveElements, SetManyEmpty, IsEmptied
<1>13. elements \in [Blocks -> [SlotNumbers -> Nat]]
  BY DEF QNow, TypesFit
<1>14. TakenOut(b, r, k)
  <2>1. DOMAIN elements[b] = SlotNumbers /\ elements[b] \in [SlotNumbers -> Nat]
    BY <1>8, <1>13
  <2>2. PICK els : els = [j \in SlotNumbers |-> IF j \in r .. r + k - 1 THEN 0 ELSE elements[b][j]]
    OBVIOUS
  <2>3. els \in [SlotNumbers -> Nat]
    BY <2>1, <2>2
  <2>4. elements' = [elements EXCEPT ![b] = els]
    BY <1>8, <1>12, <1>13, <2>1, <2>2
  <2>5. elements' \in [Blocks -> [SlotNumbers -> Nat]] /\ \A d \in Blocks \ {b} : elements'[d] = elements[d]
    BY <1>8, <1>13, <2>3, <2>4
  <2>6. \A j \in SlotNumbers : j < r \/ r + k <= j => elements'[b][j] = elements[b][j]
    <3>1. elements'[b] = els
      BY <1>8, <1>13, <2>4
    <3>2. \A j \in SlotNumbers : j < r \/ r + k <= j => els[j] = elements[b][j]
      BY <2>2 DEF SlotNumbers
    <3> QED
      BY <3>1, <3>2
  <2> QED
    BY <1>12, <2>5, <2>6 DEF TakenOut
<1>15. PICK e : e = [j \in 1 .. k |-> elements[b][r + j - 1]]
  OBVIOUS
<1>16. ElementsOf(e, b, r, k)
  <2>1. \A j \in 1 .. k : elements[b][r + j - 1] \in Nat /\ r + j - 1 = r + (j - 1)
    <3>1. \A j \in 1 .. k : r + j - 1 \in SlotNumbers
      BY <1>4, <1>7 DEF SlotNumbers
    <3>2. elements[b] \in [SlotNumbers -> Nat]
      BY <1>8, <1>13
    <3>3. \A j \in 1 .. k : r + j - 1 = r + (j - 1)
      OBVIOUS
    <3> QED
      BY <3>1, <3>2, <3>3
  <2>2. e \in [1 .. k -> Nat]
    BY <1>15, <2>1
  <2>3. e \in Seq(Nat) /\ Len(e) = k
    <3>1. k \in Nat
      OBVIOUS
    <3>2. e \in Seq(Nat)
      BY ONLY <2>2, <3>1 DEF Seq
    <3>3. DOMAIN e = 1 .. k
      BY ONLY <2>2
    <3> QED
      BY ONLY <3>1, <3>2, <3>3
  <2>4. \A j \in 1 .. k : e[j] = elements[b][r + (j - 1)]
    BY <1>15, <2>1
  <2> QED
    BY <2>3, <2>4 DEF ElementsOf
<1>17. received' = [received EXCEPT ![p] = @ \o e]
  BY <1>12, <1>15
<1>18. GetFieldsAre(g, get.actual - k, Wrap(get.first + k), get.header, get.tail, get.position)
       /\ g.at = "move" /\ g.got = get.got + k
  BY <1>1, <1>3, <1>10, <1>11
<1>19. gone % BLOCK_SIZE = r
  BY <1>4, <1>5
<1>20. /\ ElementsOf(e, b, Gone(p) % BLOCK_SIZE, k) /\ TakenOut(b, Gone(p) % BLOCK_SIZE, k)
       /\ k <= get.actual /\ (Gone(p) % BLOCK_SIZE) + k <= BLOCK_SIZE
       /\ (Gone(p) % BLOCK_SIZE) + k # BLOCK_SIZE => k = get.actual
       /\ get' = IF (Gone(p) % BLOCK_SIZE) + k = BLOCK_SIZE THEN [g EXCEPT !.at = "empty"] ELSE NextBlock(g)
  BY <1>3, <1>4, <1>7, <1>12, <1>14, <1>16, <1>19
<1>21. e \in Seq(Nat)
  BY <1>16 DEF ElementsOf
<1> QED
  BY <1>11, <1>17, <1>18, <1>20, <1>21

\* k elements of p have come out of the block with its first ones, and the index is as it was.
LEMMA TakenStep ==
    ASSUME IInv, NEW place, NEW n, QNow(place, n), NEW p \in Producers, Gone(p) < Sent(p),
           Rem(p) = Gone(p) \div BLOCK_SIZE,
           NEW b, b = entries[p][EntryFrom(Header(p).index, Header(p).tail, Pub(p) - 1, Rem(p))].value,
           NEW k \in Nat \ {0}, (Gone(p) % BLOCK_SIZE) + k <= BLOCK_SIZE, Gone(p) + k <= Sent(p),
           NEW e, ElementsOf(e, b, Gone(p) % BLOCK_SIZE, k), received' = [received EXCEPT ![p] = @ \o e],
           TakenOut(b, Gone(p) % BLOCK_SIZE, k),
           UNCHANGED <<tailIndex, tailBlock, index, pool, put, freeListVars>>,
           get.at # "free", get'.at # "free", get' \in GetRecords, Rem(p)' = Rem(p),
           \A q \in Producers \ {p} :
             /\ headIndex'[q] = headIndex[q] /\ dequeueOptimisticCount'[q] = dequeueOptimisticCount[q]
             /\ dequeueOvercommit'[q] = dequeueOvercommit[q] /\ SameClaims(q),
           NumbersFit(p)', GetKnows(get, Gone(Turn))', ScanNow'
    PROVE  QueuesNow'
<1>1. TypesFit /\ PlacesKnown(place, created) /\ CallsAgree /\ FreeListNow(place, n)
  BY DEF QNow
<1>2. PICK ix, tail, es, rem, ins, pub, sent, gone, end, tb, c :
        /\ ix = Header(p).index /\ tail = Header(p).tail /\ es = entries[p] /\ rem = Rem(p) /\ ins = Ins(p)
        /\ pub = Pub(p) /\ sent = Sent(p) /\ gone = Gone(p) /\ end = End(p) /\ tb = tailBlock[p] /\ c = put[p]
  OBVIOUS
<1>3. /\ RingFits(ix, tail, es, rem, ins, pub) /\ IndexPlaces(place, p, ix, tail, es, rem, ins, pub)
      /\ HandPlaces(place, p, c) /\ PutFits(c, ix, tail, es, rem, ins, pub, sent, tb)
  BY <1>2, PutFact
<1>4. /\ received'[p] = [i \in 1 .. Gone(p) + k |-> i] /\ Gone(p)' = Gone(p) + k
      /\ received' \in [Producers -> Seq(Nat)]
      /\ \A q \in Producers \ {p} : received'[q] = received[q]
  BY ElementsReceived
<1>5. /\ BlocksFilled(place, p, count', elements', Gone(p) + k, End(p))
      /\ count' \in [Blocks -> Int]
      /\ \A q \in Producers \ {p} : SameFilled(place, q)
  BY FilledThen
<1>6. /\ Sent(p)' = sent /\ Header(p)' = Header(p)
      /\ entries' = entries /\ blockIndex' = blockIndex
  BY <1>2 DEF Sent, Header, index
<1>7. Ins(p)' = ins /\ End(p)' = end
  BY <1>2, <1>6 DEF Ins, End
<1>8. Pub(p)' = pub
  BY <1>2, <1>7 DEF Pub
<1>9. ProducerNow(place, p)'
  <2>1. PICK gone2 : gone2 = gone + k /\ gone2 = Gone(p)'
    BY <1>2, <1>4
  <2>2. BlocksFilled(place, p, count', elements', gone2, end)
    BY <1>2, <1>5, <2>1
  <2>3. /\ Header(p)'.index = ix /\ Header(p)'.tail = tail /\ Rem(p)' = rem /\ entries'[p] = es
        /\ tailBlock'[p] = tb /\ put'[p] = c
    BY <1>2, <1>6
  <2> QED
    BY <1>3, <1>6, <1>7, <1>8, <2>1, <2>2, <2>3, ProducerThen
<1>10. FreeListNow(place, n)'
  BY <1>1, FreeListStays
<1>11. CallsAgree'
  BY <1>1 DEF CallsAgree, freeListVars
<1>12. TypesFit'
  <2>1. elements' \in [Blocks -> [SlotNumbers -> Nat]]
    BY DEF TakenOut
  <2> QED
    BY <1>1, <1>4, <1>5, <1>6, <2>1 DEF TypesFit, pool
<1>13. PlacesKnown(place, created')
  BY <1>1 DEF pool
<1>14. \A q \in Producers \ {p} :
          Quiet(q) /\ SameClaims(q) /\ SamePlaces(place, place, q) /\ SameFilled(place, q)
  <2>1. \A q \in Producers \ {p} : Quiet(q)
    BY <1>4, <1>6 DEF Quiet
  <2>2. \A q \in Producers \ {p} : SamePlaces(place, place, q)
    BY DEF SamePlaces
  <2> QED
    BY <1>5, <2>1, <2>2
<1> QED
  BY <1>9, <1>10, <1>11, <1>12, <1>13, <1>14, ConsumerStep

\* The blocks that are empty when k more elements are gone.
LEMMA GoneInBlock ==
    ASSUME NEW gone \in Nat, NEW k \in Nat, (gone % BLOCK_SIZE) + k <= BLOCK_SIZE
    PROVE  /\ (gone % BLOCK_SIZE) + k # BLOCK_SIZE => (gone + k) \div BLOCK_SIZE = gone \div BLOCK_SIZE
           /\ (gone % BLOCK_SIZE) + k = BLOCK_SIZE =>
                /\ (gone + k) \div BLOCK_SIZE = (gone \div BLOCK_SIZE) + 1 /\ (gone + k) % BLOCK_SIZE = 0
                /\ gone + k # 0
           /\ gone \div BLOCK_SIZE \in Nat
<1>1. PICK B \in Nat \ {0} : B = BLOCK_SIZE
  BY Sizes
<1>2. gone \div B \in Nat /\ gone % B \in 0 .. B - 1 /\ gone = B * (gone \div B) + (gone % B)
  <2>1. gone \in Int /\ gone >= 0
    OBVIOUS
  <2> QED
    BY <2>1, DivMod
<1>3. PICK g \in Nat, r \in 0 .. B - 1 : g = gone \div B /\ r = gone % B /\ gone = B * g + r
  BY <1>2
<1>4. ASSUME r + k # B
      PROVE  (gone + k) \div B = g
  <2>1. PICK s \in 0 .. B - 1 : s = r + k
    BY <1>1, <1>3, <1>4
  <2>2. g \in Int /\ (B * g + s) \div B = g
    BY Quotient
  <2>3. gone + k = B * g + s
    <3>1. PICK x \in Int : x = B * g
      OBVIOUS
    <3> QED
      BY <1>3, <2>1, <3>1
  <2> QED
    BY <2>2, <2>3
<1>5. ASSUME r + k = B
      PROVE  (gone + k) \div B = g + 1 /\ (gone + k) % B = 0 /\ gone + k # 0
  <2>1. PICK h \in Int : h = g + 1
    OBVIOUS
  <2>2. PICK z \in 0 .. B - 1 : z = 0
    OBVIOUS
  <2>3. (B * h + z) \div B = h /\ (B * h + z) % B = z
    BY Quotient
  <2>4. gone + k = B * h + z
    <3>1. PICK x \in Int : x = B * g
      OBVIOUS
    <3>2. B * h = B * g + B
      BY <2>1
    <3>3. PICK y \in Int : y = B * h
      BY <2>1
    <3> QED
      BY <1>3, <1>5, <2>2, <3>1, <3>2, <3>3
  <2>5. gone + k # 0
    BY <1>3, <1>5
  <2> QED
    BY <2>1, <2>2, <2>3, <2>4, <2>5
<1> QED
  BY <1>1, <1>3, <1>4, <1>5

\* The numbers of p when k of its elements that were claimed have come out.
LEMMA NumbersTaken ==
    ASSUME NEW p \in Producers, NumbersFit(p), UNCHANGED queue, NEW k \in Nat, NEW gone \in Nat,
           NEW actual \in Nat, gone = Gone(p), Claimed(p) = actual, Headed(p) = actual, k <= actual,
           received'[p] = [i \in 1 .. gone + k |-> i], Gone(p)' = gone + k,
           Claimed(p)' = actual - k, Headed(p)' = actual - k
    PROVE  NumbersFit(p)'
<1>1. PICK a \in Nat, g \in Nat : a = actual - k /\ g = gone + k /\ g + a = gone + actual
  <2>1. actual - k \in Nat /\ gone + k \in Nat /\ (gone + k) + (actual - k) = gone + actual
    OBVIOUS
  <2> QED
    BY <2>1
<1>2. Sent(p)' = Sent(p)
  BY DEF Sent, queue
<1> QED
  BY <1>1, <1>2 DEF NumbersFit, queue

LEMMA MoveElementsKeepsQ ==
    ASSUME IInv, NEW place, NEW n, QNow(place, n), MoveElements
    PROVE  QueuesNow'
<1>1. /\ get.at = "move" /\ get \in GetRecords
      /\ UNCHANGED <<queue, tailBlock, index, pool, put, freeListVars>>
  BY DEF MoveElements, Getting, QNow, TypesFit
<1>2. PICK p \in Producers : p = Turn
  BY <1>1, MoveFacts
<1>3. PICK b : b = entries[p][EntryFrom(Header(p).index, Header(p).tail, Pub(p) - 1, Rem(p))].value
  OBVIOUS
<1>4. PICK k \in Nat \ {0}, e \in Seq(Nat) :
         /\ k <= get.actual /\ (Gone(p) % BLOCK_SIZE) + k <= BLOCK_SIZE
         /\ (Gone(p) % BLOCK_SIZE) + k # BLOCK_SIZE => k = get.actual
         /\ ElementsOf(e, b, Gone(p) % BLOCK_SIZE, k) /\ received' = [received EXCEPT ![p] = @ \o e]
         /\ TakenOut(b, Gone(p) % BLOCK_SIZE, k)
         /\ \E g \in GetRecords :
              /\ g.at = "move" /\ g.max = get.max /\ g.turn = get.turn /\ g.got = get.got + k
              /\ GetFieldsAre(g, get.actual - k, Wrap(get.first + k), get.header, get.tail, get.position)
              /\ get' = IF (Gone(p) % BLOCK_SIZE) + k = BLOCK_SIZE
                        THEN [g EXCEPT !.at = "empty"] ELSE NextBlock(g)
  BY <1>2, <1>3, MoveTakes
<1>5. PICK g \in GetRecords :
         /\ g.at = "move" /\ g.max = get.max /\ g.turn = get.turn /\ g.got = get.got + k
         /\ GetFieldsAre(g, get.actual - k, Wrap(get.first + k), get.header, get.tail, get.position)
         /\ get' = IF (Gone(p) % BLOCK_SIZE) + k = BLOCK_SIZE
                   THEN [g EXCEPT !.at = "empty"] ELSE NextBlock(g)
  BY <1>4
<1>6. PICK gone \in Nat, sent \in Nat, rem \in Nat, actual \in Nat :
         gone = Gone(p) /\ sent = Sent(p) /\ rem = Rem(p) /\ actual = get.actual
  <2>1. get.actual \in Nat
    BY DEF IInv, GetsFit
  <2> QED
    BY <2>1, BlocksHold
<1>7. gone < sent /\ rem = gone \div BLOCK_SIZE /\ gone + actual <= sent /\ get.first = Wrap(Start + gone)
  BY <1>1, <1>2, <1>6, MoveFacts
<1>8. /\ (gone % BLOCK_SIZE) + k <= BLOCK_SIZE /\ k <= actual /\ gone + k <= sent
      /\ (gone % BLOCK_SIZE) + k # BLOCK_SIZE => k = actual
  BY <1>4, <1>6, <1>7
<1>9. received'[p] = [i \in 1 .. gone + k |-> i] /\ Gone(p)' = gone + k
  <2>1. Gone(p) < Sent(p) /\ Rem(p) = Gone(p) \div BLOCK_SIZE /\ Gone(p) + k <= Sent(p)
    BY <1>6, <1>7, <1>8
  <2>2. /\ (Gone(p) % BLOCK_SIZE) + k <= BLOCK_SIZE
        /\ ElementsOf(e, b, Gone(p) % BLOCK_SIZE, k) /\ received' = [received EXCEPT ![p] = @ \o e]
    BY <1>4
  <2>3. received'[p] = [i \in 1 .. Gone(p) + k |-> i] /\ Gone(p)' = Gone(p) + k
    BY <1>3, <2>1, <2>2, ElementsReceived
  <2> QED
    BY <1>6, <2>3
<1>10. Claimed(p) = actual /\ Headed(p) = actual /\ NumbersFit(p)
  <2>1. get.at \in Locating
    BY <1>1 DEF Locating
  <2> QED
    BY <1>2, <1>6, <2>1, ScanFacts
<1>11. get' \in GetRecords /\ Rem(p)' = rem /\ get'.at # "free"
       /\ NumbersFit(p)' /\ GetKnows(get, Gone(Turn))' /\ ScanNow'
       /\ \A q \in Producers \ {p} : SameClaims(q)
  <2>0. \A q \in Producers \ {p} : Gone(q)' = Gone(q)
    <3>1. DOMAIN received = Producers
      BY DEF QNow, TypesFit
    <3> QED
      BY <1>4, <3>1 DEF Gone
  <2>1. CASE (gone % BLOCK_SIZE) + k = BLOCK_SIZE
    <3>1. get' = [g EXCEPT !.at = "empty"]
      BY <1>5, <1>6, <2>1
    <3>2. GetGoes(get', g, "empty")
          /\ GetFieldsAre(get', g.actual, g.first, g.header, g.tail, g.position)
      BY <3>1, GetGoesOn DEF Fetching
    <3>3. /\ get' \in GetRecords /\ get'.at = "empty" /\ Turn' = Turn
          /\ get'.actual = actual - k /\ get'.first = Wrap(get.first + k) /\ get'.header = get.header
          /\ get'.position = get.position
      BY <1>5, <1>6, <3>2 DEF GetGoes, GetFieldsAre, Turn
    <3>4. /\ (gone + k) \div BLOCK_SIZE = (gone \div BLOCK_SIZE) + 1 /\ (gone + k) % BLOCK_SIZE = 0
          /\ gone + k # 0
      BY <1>8, <2>1, GoneInBlock
    <3>5. Rem(p)' = rem
      <4>1. Rem(p)' = ((gone + k) \div BLOCK_SIZE) - 1
        BY <1>2, <1>9, <3>3 DEF Rem
      <4> QED
        BY <1>7, <3>4, <4>1
    <3>6. NumbersFit(p)'
      <4>1. Claimed(p)' = actual - k /\ Headed(p)' = actual - k
        BY <1>2, <3>3 DEF Claimed, Headed, Locating
      <4>2. UNCHANGED queue
        BY <1>1
      <4> QED
        BY <1>6, <1>8, <1>9, <1>10, <4>1, <4>2, NumbersTaken
    <3>7. GetKnows(get, Gone(Turn))'
      <4>1. get'.first = Wrap(Start + (gone + k))
        BY <1>7, <3>3, Distance
      <4> QED
        BY <1>2, <1>9, <3>3, <3>4, <4>1 DEF GetKnows, Locating
    <3>8. ScanNow'
      <4>1. PICK hx, ht, m, ix, tail, pub :
              /\ hx = blockIndex[p][get.header].index /\ ht = blockIndex[p][get.header].tail
              /\ m = Len(blockIndex[p]) /\ ix = Header(p).index /\ tail = Header(p).tail
              /\ pub = Pub(p)
        OBVIOUS
      <4>2. get.header \in 1 .. m /\ ScanFits(hx, ht, get.header, m, get, gone, ix, tail, pub, rem)
        BY <1>1, <1>2, <1>6, <4>1 DEF QNow, ScanNow, Scanning
      <4>3. PICK last \in Int :
              /\ gone + actual <= (last + 1) * BLOCK_SIZE
              /\ Scans(hx, get.position, gone \div BLOCK_SIZE, last, ix, tail, pub, rem)
        BY <1>1, <1>6, <4>2 DEF ScanFits
      <4>4. ((gone + k) \div BLOCK_SIZE) - 1 = gone \div BLOCK_SIZE
        BY <1>6, <1>7, <3>4
      <4>5. (gone + k) + (actual - k) = gone + actual
        OBVIOUS
      <4>6. PICK gone2, actual2 : gone2 = gone + k /\ actual2 = actual - k
        OBVIOUS
      <4>7. ScanFits(hx, ht, get'.header, m, get', gone2, ix, tail, pub, rem)
        BY <3>3, <4>3, <4>4, <4>5, <4>6 DEF ScanFits
      <4>8. Turn' = p /\ blockIndex' = blockIndex /\ Header(p)' = Header(p) /\ Gone(p)' = gone2
        BY <1>1, <1>2, <1>9, <3>3, <4>6 DEF index, Header
      <4>9. Pub(p)' = pub
        <5>1. Sent(p)' = Sent(p)
          BY <1>1 DEF Sent, queue
        <5>2. Ins(p)' = Ins(p)
          BY <1>1, <5>1 DEF Ins
        <5> QED
          BY <1>1, <4>1, <5>2 DEF Pub
      <4>10. /\ get'.header \in 1 .. Len(blockIndex'[p])
             /\ ScanFits(blockIndex'[p][get'.header].index, blockIndex'[p][get'.header].tail,
                         get'.header, Len(blockIndex'[p]), get', Gone(p)', Header(p)'.index, Header(p)'.tail,
                         Pub(p)', Rem(p)')
        BY <3>3, <3>5, <4>1, <4>2, <4>7, <4>8, <4>9
      <4> QED
        BY <4>8, <4>10 DEF ScanNow
    <3>9. \A q \in Producers \ {p} : SameClaims(q)
      BY <1>1, <1>2, <2>0, <3>3, ClaimsElsewhere DEF Fetching
    <3> QED
      BY <3>3, <3>5, <3>6, <3>7, <3>8, <3>9
  <2>2. CASE (gone % BLOCK_SIZE) + k # BLOCK_SIZE
    <3>1. get' = NextBlock(g) /\ k = actual
      BY <1>5, <1>6, <1>8, <2>2
    <3>2. g.actual = 0
      BY <1>5, <1>6, <3>1 DEF GetFieldsAre
    <3>3. get' = NextTurn(g.got)
      BY <3>1, <3>2 DEF NextBlock
    <3>4. g.got \in Nat
      BY DEF GetRecords
    <3>5. get' \in GetRecords /\ get'.at \in {"wait", "turn"}
      BY <1>1, <3>3, <3>4, NextTurnIs DEF Fetching
    <3>6. Rem(p)' = rem
      <4>1. Rem(p)' = ((gone + k) \div BLOCK_SIZE) - 0
        BY <1>9, <3>5 DEF Rem
      <4>2. (gone + k) \div BLOCK_SIZE = gone \div BLOCK_SIZE
        BY <1>8, <2>2, GoneInBlock
      <4> QED
        BY <1>7, <4>1, <4>2
    <3>7. NumbersFit(p)'
      <4>1. Claimed(p)' = 0 /\ Headed(p)' = 0
        BY <3>5 DEF Claimed, Headed, Locating
      <4>2. UNCHANGED queue
        BY <1>1
      <4>3. actual - k = 0
        BY <3>1
      <4>4. k \in Nat
        OBVIOUS
      <4> QED
        BY <1>6, <1>8, <1>9, <1>10, <4>1, <4>2, <4>3, <4>4, NumbersTaken
    <3>8. GetKnows(get, Gone(Turn))' /\ ScanNow'
      BY <3>5 DEF GetKnows, ScanNow, Scanning, Locating
    <3>9. \A q \in Producers \ {p} : SameClaims(q)
      BY <1>1, <1>2, <2>0, <3>5 DEF SameClaims, Rem, Claimed, Headed, Locating
    <3> QED
      BY <3>5, <3>6, <3>7, <3>8, <3>9
  <2> QED
    BY <2>1, <2>2
<1>12. \A q \in Producers \ {p} :
         /\ headIndex'[q] = headIndex[q] /\ dequeueOptimisticCount'[q] = dequeueOptimisticCount[q]
         /\ dequeueOvercommit'[q] = dequeueOvercommit[q] /\ SameClaims(q)
  BY <1>1, <1>11 DEF queue
<1>13. UNCHANGED <<tailIndex, tailBlock, index, pool, put, freeListVars>> /\ get.at # "free"
  BY <1>1 DEF queue
<1>14. Gone(p) < Sent(p) /\ Rem(p) = Gone(p) \div BLOCK_SIZE /\ Gone(p) + k <= Sent(p) /\ Rem(p)' = Rem(p)
  BY <1>6, <1>7, <1>8, <1>11
<1> QED
  BY <1>3, <1>4, <1>11, <1>12, <1>13, <1>14, TakenStep

-----------------------------------------------------------------------------
(* The consumer takes an empty block out of the index                      *)

\* Full blocks that have been enqueued are not the one that the producer fills.
LEMMA FullBlocks ==
    ASSUME IInv, NEW place, NEW n, QNow(place, n), NEW p \in Producers,
           NEW h \in Nat, h * BLOCK_SIZE <= Sent(p)
    PROVE  /\ h <= Ins(p)
           /\ Sent(p) % BLOCK_SIZE # 0 \/ put[p].at \in ElementSteps => h <= Ins(p) - 1
<1>1. PICK sent \in Nat : sent = Sent(p)
  BY BlocksHold
<1>2. PICK B \in Nat \ {0} : B = BLOCK_SIZE
  BY Sizes
<1>3. sent \div B \in Nat /\ sent % B \in 0 .. B - 1 /\ sent = B * (sent \div B) + (sent % B)
  <2>1. sent \in Int /\ sent >= 0
    OBVIOUS
  <2> QED
    BY <2>1, DivMod
<1>4. PICK k \in Nat, r \in 0 .. B - 1 : k = sent \div B /\ r = sent % B /\ sent = B * k + r
  BY <1>3
<1>5. PICK ins \in Nat : ins = Ins(p)
  BY BlocksHold
<1>6. ins = k + (IF r # 0 \/ put[p].at \in ElementSteps THEN 1 ELSE 0)
  BY <1>1, <1>2, <1>4, <1>5 DEF Ins
<1>7. h <= k
  <2>1. SUFFICES ASSUME h >= k + 1
                 PROVE  FALSE
    OBVIOUS
  <2>2. h * B >= (k + 1) * B
    BY <2>1
  <2>3. (k + 1) * B = B * k + B
    OBVIOUS
  <2>4. PICK x \in Int, y \in Int : x = h * B /\ y = B * k
    OBVIOUS
  <2>5. x >= y + B /\ sent = y + r
    BY <1>4, <2>2, <2>3, <2>4
  <2>6. x <= sent
    BY <1>1, <1>2, <2>4
  <2> QED
    BY <2>5, <2>6
<1>8. h <= ins /\ (r # 0 \/ put[p].at \in ElementSteps => h <= ins - 1)
  BY <1>6, <1>7
<1> QED
  BY <1>1, <1>2, <1>4, <1>5, <1>8

\* The oldest block of an index goes.
LEMMA BlockLeaves ==
    ASSUME NEW place, NEW p, NEW ix, NEW tail, NEW es, NEW rem, NEW ins, NEW pub, NEW c, NEW sent, NEW tb,
           RingFits(ix, tail, es, rem, ins, pub), IndexPlaces(place, p, ix, tail, es, rem, ins, pub),
           HandPlaces(place, p, c), PutFits(c, ix, tail, es, rem, ins, pub, sent, tb), rem < ins,
           sent % BLOCK_SIZE # 0 \/ c.at \in ElementSteps => rem + 1 <= ins - 1,
           NEW e, e = EntryFrom(ix, tail, pub - 1, rem), NEW b, b = es[e].value,
           NEW es2, ValueSet(es2, es, e, 0), NEW rem2, rem2 = rem + 1,
           NEW w, w.at \notin {"index", "hand"}, NEW place2, Moves(place2, place, b, w)
    PROVE  /\ RingFits(ix, tail, es2, rem2, ins, pub) /\ IndexPlaces(place2, p, ix, tail, es2, rem2, ins, pub)
           /\ HandPlaces(place2, p, c) /\ PutFits(c, ix, tail, es2, rem2, ins, pub, sent, tb)
           /\ b \in Blocks /\ place[b].at = "index" /\ place[b].by = p
<1>1. /\ rem \in Nat /\ ins \in Nat /\ pub \in Nat /\ Len(ix) \in Nat /\ DOMAIN es = 1 .. Len(ix)
      /\ \A d \in 1 .. Len(ix) : es[d] \in EntryRecords
  BY RingTypes
<1>2. rem \in rem .. ins - 1 /\ rem2 \in Nat
  BY <1>1
<1>3. b \in Blocks /\ place[b].at = "index" /\ place[b].by = p /\ place[b].num = rem
  BY <1>2 DEF IndexPlaces
<1>4. place2[b] = w /\ \A d \in Blocks \ {b} : place2[d] = place[d]
  BY <1>3 DEF Moves
<1>5. /\ RingFits(ix, tail, es2, rem2, ins, pub)
      /\ \A j \in rem2 .. ins - 1 : es2[EntryFrom(ix, tail, pub - 1, j)] = es[EntryFrom(ix, tail, pub - 1, j)]
  BY EntryRemoved
<1>6. IndexPlaces(place2, p, ix, tail, es2, rem2, ins, pub)
  <2>1. ASSUME NEW j \in rem2 .. ins - 1, NEW d, d = es2[EntryFrom(ix, tail, pub - 1, j)].value
        PROVE  d \in Blocks /\ place2[d].at = "index" /\ place2[d].by = p /\ place2[d].num = j
    <3>1. j \in rem .. ins - 1 /\ j # rem
      BY <1>1
    <3>2. d = es[EntryFrom(ix, tail, pub - 1, j)].value
      BY <1>5, <2>1
    <3>3. d \in Blocks /\ place[d].at = "index" /\ place[d].by = p /\ place[d].num = j
      BY <3>1, <3>2 DEF IndexPlaces
    <3>4. d # b
      BY <1>3, <3>1, <3>3
    <3> QED
      BY <1>4, <3>3, <3>4
  <2>2. ASSUME NEW d \in Blocks, place2[d].at = "index", place2[d].by = p
        PROVE  place2[d].num \in rem2 .. ins - 1
               /\ es2[EntryFrom(ix, tail, pub - 1, place2[d].num)].value = d
    <3>1. d # b /\ place2[d] = place[d]
      BY <1>4, <2>2
    <3>2. /\ place[d].num \in rem .. ins - 1
          /\ es[EntryFrom(ix, tail, pub - 1, place[d].num)].value = d
      BY <2>2, <3>1 DEF IndexPlaces
    <3>3. place[d].num # rem
      BY <3>1, <3>2
    <3>4. place[d].num \in rem2 .. ins - 1
      BY <1>1, <3>2, <3>3
    <3> QED
      BY <1>5, <3>1, <3>2, <3>4
  <2> QED
    BY <2>1, <2>2 DEF IndexPlaces
<1>7. HandPlaces(place2, p, c)
  BY <1>3, <1>4 DEF HandPlaces
<1>8. PutFits(c, ix, tail, es2, rem2, ins, pub, sent, tb)
  <2>1. c.at = "tail" => pub - rem2 < Len(ix) /\ es2[c.entry].key = KeyOf(pub)
    <3>1. SUFFICES ASSUME c.at = "tail"
                   PROVE  pub - rem2 < Len(ix) /\ es2[c.entry].key = KeyOf(pub)
      OBVIOUS
    <3>2. c.entry = EntryFrom(ix, tail, pub - 1, pub) /\ pub - rem < Len(ix) /\ es[c.entry].key = KeyOf(pub)
      BY <3>1 DEF PutFits
    <3>3. c.entry \in 1 .. Len(ix)
      <4>1. pub \in Int
        BY <1>1
      <4> QED
        BY <3>2, <4>1, EntryOfRing
    <3>4. es2[c.entry].key = es[c.entry].key
      BY <1>1, <3>3 DEF ValueSet, EntryRecords
    <3> QED
      BY <1>1, <3>2, <3>4
  <2>2. sent % BLOCK_SIZE # 0 \/ c.at \in ElementSteps =>
          tb = es2[EntryFrom(ix, tail, pub - 1, ins - 1)].value
    <3>1. SUFFICES ASSUME sent % BLOCK_SIZE # 0 \/ c.at \in ElementSteps
                   PROVE  tb = es2[EntryFrom(ix, tail, pub - 1, ins - 1)].value
      OBVIOUS
    <3>2. ins - 1 \in rem2 .. ins - 1
      BY <1>1, <3>1
    <3> QED
      BY <1>5, <3>1, <3>2 DEF PutFits
  <2> QED
    BY <2>1, <2>2 DEF PutFits
<1> QED
  BY <1>3, <1>5, <1>6, <1>7, <1>8

\* What the consumer sees when it has emptied a block.
LEMMA EmptyFacts ==
    ASSUME IInv, NEW place, NEW n, QNow(place, n), get.at = "empty"
    PROVE  /\ Turn \in Producers /\ Gone(Turn) \in Nat /\ Rem(Turn) = (Gone(Turn) \div BLOCK_SIZE) - 1
           /\ Rem(Turn) \in Nat /\ Gone(Turn) \div BLOCK_SIZE = Rem(Turn) + 1
           /\ Rem(Turn) < Ins(Turn)
           /\ Sent(Turn) % BLOCK_SIZE # 0 \/ put[Turn].at \in ElementSteps => Rem(Turn) + 1 <= Ins(Turn) - 1
           /\ Entry = EntryFrom(Header(Turn).index, Header(Turn).tail, Pub(Turn) - 1, Rem(Turn))
<1>1. get.at \in Locating
  BY DEF Locating
<1>2. PICK p \in Producers : p = Turn
  BY <1>1, ScanFacts
<1>3. PICK gone \in Nat, actual \in Nat, sent \in Nat, rem \in Nat, ins \in Nat :
        gone = Gone(p) /\ actual = get.actual /\ sent = Sent(p) /\ rem = Rem(p) /\ ins = Ins(p) /\ gone <= sent
  BY <1>1, <1>2, ScanFacts, BlocksHold
<1>4. gone % BLOCK_SIZE = 0 /\ gone # 0
  BY <1>2, <1>3 DEF QNow, GetKnows
<1>5. PICK B \in Nat \ {0} : B = BLOCK_SIZE
  BY Sizes
<1>6. gone \div B \in Nat /\ gone = B * (gone \div B) + (gone % B)
  <2>1. gone \in Int /\ gone >= 0
    OBVIOUS
  <2> QED
    BY <2>1, DivMod
<1>7. PICK h \in Nat : h = gone \div B /\ gone = h * B
  <2>1. PICK h \in Nat : h = gone \div B
    BY <1>6
  <2>2. gone = B * h + 0
    BY <1>4, <1>5, <1>6, <2>1
  <2>3. B * h = h * B
    OBVIOUS
  <2> QED
    BY <2>1, <2>2, <2>3
<1>8. rem = h - 1 /\ h = rem + 1
  <2>1. rem = h - 1
    BY <1>2, <1>3, <1>5, <1>7 DEF Rem
  <2> QED
    BY <2>1
<1>9. h <= ins /\ (Sent(p) % BLOCK_SIZE # 0 \/ put[p].at \in ElementSteps => h <= ins - 1)
  <2>1. h * BLOCK_SIZE <= Sent(p)
    BY <1>3, <1>5, <1>7
  <2> QED
    BY <1>3, <2>1, FullBlocks
<1>10. PICK hx, ht, m, ix, tail, pub :
         /\ hx = blockIndex[p][get.header].index /\ ht = blockIndex[p][get.header].tail
         /\ m = Len(blockIndex[p]) /\ ix = Header(p).index /\ tail = Header(p).tail
         /\ pub = Pub(p)
  OBVIOUS
<1>11. ScanFits(hx, ht, get.header, m, get, gone, ix, tail, pub, rem)
  BY <1>2, <1>3, <1>10 DEF QNow, ScanNow, Scanning
<1>12. PICK last \in Int :
         /\ gone + actual <= (last + 1) * BLOCK_SIZE
         /\ Scans(hx, get.position, (gone \div BLOCK_SIZE) - 1, last, ix, tail, pub, rem)
  BY <1>3, <1>11 DEF ScanFits
<1>13. (gone \div BLOCK_SIZE) - 1 = rem /\ rem <= last
  <2>1. (gone \div BLOCK_SIZE) - 1 <= last
    BY <1>12, ScanReaches
  <2> QED
    BY <1>5, <1>7, <1>8, <2>1
<1>14. rem \in rem .. last
  BY <1>13
<1>15. hx[get.position + 1] = EntryFrom(ix, tail, pub - 1, rem)
  BY <1>12, <1>13, <1>14, ScansAt
<1>16. Entry = EntryFrom(ix, tail, pub - 1, rem)
  BY <1>2, <1>10, <1>15 DEF Entry
<1>17. gone \div BLOCK_SIZE = rem + 1 /\ rem < ins /\ Rem(p) = (gone \div BLOCK_SIZE) - 1
  BY <1>3, <1>5, <1>7, <1>8, <1>9
<1>18. Sent(p) % BLOCK_SIZE # 0 \/ put[p].at \in ElementSteps => rem + 1 <= ins - 1
  BY <1>8, <1>9
<1> QED
  BY <1>2, <1>3, <1>10, <1>16, <1>17, <1>18

\* The consumer's call to give a block back begins.
LEMMA AddBegins ==
    ASSUME NEW place, NEW n, FreeListNow(place, n), NEW t \in Threads, call[t].at = "out",
           NEW b \in Blocks, place[b].at = "index", Add(t, b),
           freeListHead' = freeListHead, freeListRefs' = freeListRefs, freeListNext' = freeListNext,
           NEW w, w = Spot("add", t, 0), NEW place2, Moves(place2, place, b, w)
    PROVE  /\ FreeListNow(place2, n)' /\ call'[t].at = "add" /\ ~ call'[t].gets
           /\ \A s \in Threads \ {t} : call'[s] = call[s]
<1>1. /\ freeListHead \in 0 .. MaxBlocks /\ freeListRefs \in [Blocks -> Nat]
      /\ call \in [Threads -> CallRecords]
  BY FreeListFacts
<1> DEFINE c == [NoCall EXCEPT !.at = "add", !.node = b]
<1>2. NoCall \in CallRecords /\ NoCall.gets = FALSE
  BY NoCallFacts DEF NoCall
<1>3. c \in CallRecords /\ c.at = "add" /\ c.node = b /\ c.gets = FALSE
  <2>1. b \in 0 .. MaxBlocks
    BY FreeListAssumption DEF Blocks
  <2>2. "add" \in AddCallSteps
    BY DEF AddCallSteps
  <2> QED
    BY <1>2, <2>1, <2>2 DEF CallRecords
<1>4. CallIs(t, c)
  BY DEF Add, CallIs
<1> HIDE DEF c
<1>5. CallFits(c, freeListNext)
  BY <1>3, FreeListAssumption DEF CallFits, AddSteps, Blocks
<1>6. \A d \in Blocks, at \in CallPlaces : ~ Has(call[t], d, at)
  BY DEF Has, CallPlaces
<1>7. w.at = "add" /\ w.by = t
  BY DEF Spot
<1>8. \A d \in Blocks, at \in CallPlaces : Has(c, d, at) <=> d = b /\ w.at = at
  BY <1>3, <1>7 DEF Has, CallPlaces
<1>9. place[b].at \notin CallPlaces
  BY DEF CallPlaces
<1>10. \A e \in Blocks : ~ LooksAt(c, e) /\ ~ LooksAt(call[t], e)
  BY <1>3 DEF LooksAt
<1>11. RefsGo(freeListRefs', freeListRefs, b, call[t], c, place[b], w)
  <2>1. Change(b, call[t], c, place[b], w) = 0
    BY <1>7, <1>10, Counts DEF Change
  <2> QED
    BY <1>1, <2>1 DEF RefsGo
<1>12. ChainFits(freeListHead', freeListNext, place2, n)
  <2>1. ChainFits(freeListHead, freeListNext, place, n)
    BY DEF FreeListNow, FreeListFits
  <2>2. ChainFits(freeListHead, freeListNext, place2, n)
    BY <1>7, <2>1, ChainSame
  <2> QED
    BY <2>2
<1>13. FreeListNow(place2, n)'
  <2>1. \A d \in Blocks, at \in CallPlaces : Has(call[t], d, at) => d = b
    BY <1>6
  <2>2. w.at # "owed" /\ w.at # "link" /\ w.by = t
    BY <1>7
  <2> QED
    BY <1>3, <1>4, <1>5, <1>8, <1>9, <1>10, <1>11, <1>12, <2>1, <2>2, CallMoves
<1>14. call'[t] = c /\ \A s \in Threads \ {t} : call'[s] = call[s]
  BY <1>1, <1>4 DEF CallIs
<1> QED
  BY <1>3, <1>13, <1>14

\* A block has left the index of p: what it held does not matter any more.
LEMMA LeavesProducer ==
    ASSUME NEW place, NEW p \in Producers, ProducerNow(place, p), Rem(p) < Ins(p),
           Sent(p) % BLOCK_SIZE # 0 \/ put[p].at \in ElementSteps => Rem(p) + 1 <= Ins(p) - 1,
           NEW e, e = EntryFrom(Header(p).index, Header(p).tail, Pub(p) - 1, Rem(p)),
           NEW b, b = entries[p][e].value,
           NEW w, w.at \notin {"index", "hand"}, NEW place2, Moves(place2, place, b, w),
           ValueSet(entries'[p], entries[p], e, 0), UNCHANGED <<tailIndex, tailBlock, blockIndex, put>>,
           Rem(p)' = Rem(p) + 1, NEW gone2, Gone(p)' = gone2,
           BlocksFilled(place, p, count', elements', gone2, End(p))
    PROVE  ProducerNow(place2, p)' /\ b \in Blocks /\ place[b].at = "index" /\ place[b].by = p
<1>1. PICK ix, tail, es, rem, ins, pub, sent, end, tb, c :
        /\ ix = Header(p).index /\ tail = Header(p).tail /\ es = entries[p] /\ rem = Rem(p) /\ ins = Ins(p)
        /\ pub = Pub(p) /\ sent = Sent(p) /\ end = End(p) /\ tb = tailBlock[p] /\ c = put[p]
  OBVIOUS
<1>2. /\ RingFits(ix, tail, es, rem, ins, pub) /\ IndexPlaces(place, p, ix, tail, es, rem, ins, pub)
      /\ HandPlaces(place, p, c) /\ PutFits(c, ix, tail, es, rem, ins, pub, sent, tb)
  BY <1>1 DEF ProducerNow, ProducerFits
<1>3. PICK es2, rem2 : es2 = entries'[p] /\ rem2 = rem + 1
  OBVIOUS
<1>4. /\ RingFits(ix, tail, es2, rem2, ins, pub) /\ IndexPlaces(place2, p, ix, tail, es2, rem2, ins, pub)
      /\ HandPlaces(place2, p, c) /\ PutFits(c, ix, tail, es2, rem2, ins, pub, sent, tb)
      /\ b \in Blocks /\ place[b].at = "index" /\ place[b].by = p
  <2>1. rem < ins /\ (sent % BLOCK_SIZE # 0 \/ c.at \in ElementSteps => rem + 1 <= ins - 1)
    BY <1>1
  <2>2. e = EntryFrom(ix, tail, pub - 1, rem) /\ b = es[e].value /\ ValueSet(es2, es, e, 0)
    BY <1>1, <1>3
  <2>3. rem2 = rem + 1 /\ w.at \notin {"index", "hand"} /\ Moves(place2, place, b, w)
    BY <1>3
  <2>4. RingFits(ix, tail, es2, rem2, ins, pub) /\ IndexPlaces(place2, p, ix, tail, es2, rem2, ins, pub)
    BY ONLY <1>2, <2>1, <2>2, <2>3, BlockLeaves
  <2>5. HandPlaces(place2, p, c) /\ PutFits(c, ix, tail, es2, rem2, ins, pub, sent, tb)
    BY ONLY <1>2, <2>1, <2>2, <2>3, BlockLeaves
  <2>6. b \in Blocks /\ place[b].at = "index" /\ place[b].by = p
    <3>1. rem \in rem .. ins - 1
      BY <1>2, <2>1, RingTypes
    <3> QED
      BY <1>2, <2>2, <3>1 DEF IndexPlaces
  <2> QED
    BY <2>4, <2>5, <2>6
<1>5. BlocksFilled(place2, p, count', elements', gone2, end)
  <2>1. place2[b] = w /\ \A d \in Blocks \ {b} : place2[d] = place[d]
    BY <1>4 DEF Moves
  <2> QED
    BY <1>1, <2>1 DEF BlocksFilled
<1>6. Sent(p)' = sent /\ Header(p)' = Header(p)
  BY <1>1 DEF Sent, Header
<1>7. Ins(p)' = ins /\ End(p)' = end
  BY <1>1, <1>6 DEF Ins, End
<1>8. Pub(p)' = pub
  BY <1>1, <1>7 DEF Pub
<1>9. /\ Header(p)'.index = ix /\ Header(p)'.tail = tail /\ Rem(p)' = rem2 /\ entries'[p] = es2
      /\ tailBlock'[p] = tb /\ put'[p] = c
  BY <1>1, <1>3, <1>6
<1>10. ProducerNow(place2, p)'
  BY <1>4, <1>5, <1>6, <1>7, <1>8, <1>9, ProducerThen
<1> QED
  BY <1>4, <1>10

\* What a block of p is used for is of no interest to others.
LEMMA OthersStay ==
    ASSUME NEW place, NEW p \in Producers, NEW b \in Blocks, place[b].at = "index", place[b].by = p,
           NEW w, w.at \notin {"index", "hand"}, NEW place2, Moves(place2, place, b, w),
           NEW q \in Producers \ {p}
    PROVE  SamePlaces(place, place2, q)
BY DEF SamePlaces, Moves

LEMMA RemoveEntryKeepsQ ==
    ASSUME IInv, NEW place, NEW n, QNow(place, n), RemoveEntry
    PROVE  QueuesNow'
<1>1. /\ get.at = "empty" /\ get \in GetRecords /\ TypesFit /\ PlacesKnown(place, created)
      /\ CallsAgree /\ FreeListNow(place, n) /\ get' = [get EXCEPT !.at = "free"]
      /\ UNCHANGED <<queue, tailBlock, blockIndex, blocks, pool, put, received, freeListHead, freeListRefs,
                     freeListNext>>
  BY DEF RemoveEntry, Getting, QNow, TypesFit
<1>2. PICK p \in Producers : p = Turn
  BY <1>1, EmptyFacts
<1>3. PICK e : e = EntryFrom(Header(p).index, Header(p).tail, Pub(p) - 1, Rem(p))
  OBVIOUS
<1>4. e = Entry /\ Rem(p) \in Nat /\ Rem(p) < Ins(p)
      /\ (Sent(p) % BLOCK_SIZE # 0 \/ put[p].at \in ElementSteps => Rem(p) + 1 <= Ins(p) - 1)
      /\ Gone(p) \div BLOCK_SIZE = Rem(p) + 1 /\ Gone(p) \in Nat
  BY <1>1, <1>2, <1>3, EmptyFacts
<1>5. PICK b : b = entries[p][e].value
  OBVIOUS
<1>6. entries' = [entries EXCEPT ![p][e].value = 0] /\ Add(Consumer, b)
  BY <1>2, <1>4, <1>5 DEF RemoveEntry
<1>7. /\ ValueSet(entries'[p], entries[p], e, 0) /\ DOMAIN entries' = Producers
      /\ \A q \in Producers \ {p} : entries'[q] = entries[q]
  BY <1>1, <1>6 DEF TypesFit, ValueSet
<1>8. GetGoes(get', get, "free") /\ GetFieldsAre(get', get.actual, get.first, get.header, get.tail, get.position)
  BY <1>1, GetGoesOn DEF Fetching
<1>9. get' \in GetRecords /\ get'.at = "free" /\ Turn' = Turn /\ get'.actual = get.actual /\ get'.first = get.first
      /\ get'.header = get.header /\ get'.position = get.position
  BY <1>8 DEF GetGoes, GetFieldsAre, Turn
<1>10. \A q \in Producers : Gone(q)' = Gone(q)
  BY <1>1 DEF Gone
<1>11. Rem(p)' = Rem(p) + 1
  <2>1. Rem(p)' = (Gone(p) \div BLOCK_SIZE) - 0
    BY <1>9, <1>10 DEF Rem
  <2> QED
    BY <1>4, <2>1
<1>12. PICK w : w = Spot("add", Consumer, 0)
  OBVIOUS
<1>13. w.at = "add"
  BY <1>12 DEF Spot
<1>14. b \in Blocks /\ DOMAIN place = Blocks
  <2>1. Rem(p) \in Rem(p) .. Ins(p) - 1
    BY <1>4, BlocksHold
  <2>2. IndexPlaces(place, p, Header(p).index, Header(p).tail, entries[p], Rem(p), Ins(p), Pub(p))
    BY PutFact
  <2>3. DOMAIN place = Blocks
    BY <1>1 DEF FreeListNow, FreeListFits, RefsFit
  <2> QED
    BY <1>3, <1>5, <2>1, <2>2, <2>3 DEF IndexPlaces
<1>15. PICK place2 : Moves(place2, place, b, w)
  BY <1>14, MovesExist
<1>16. ProducerNow(place2, p)' /\ place[b].at = "index" /\ place[b].by = p
  <2>1. ProducerNow(place, p)
    BY PutFact
  <2>2. BlocksFilled(place, p, count', elements', Gone(p), End(p))
    BY <1>1, PutFact DEF blocks
  <2>3. w.at \notin {"index", "hand"}
    BY <1>13
  <2>4. UNCHANGED <<tailIndex, tailBlock, blockIndex, put>>
    BY <1>1 DEF queue
  <2> QED
    BY <1>3, <1>4, <1>5, <1>7, <1>10, <1>11, <1>15, <2>1, <2>2, <2>3, <2>4, LeavesProducer
<1>17. call[Consumer].at = "out" /\ Consumer \in Threads
  BY <1>1, ThreadsAre DEF CallsAgree
<1>18. /\ FreeListNow(place2, n)' /\ call'[Consumer].at = "add" /\ ~ call'[Consumer].gets
       /\ \A s \in Threads \ {Consumer} : call'[s] = call[s]
  BY <1>1, <1>6, <1>12, <1>14, <1>15, <1>16, <1>17, AddBegins
<1>19. CallsAgree'
  <2>1. \A q \in Producers : call'[q] = call[q] /\ put'[q] = put[q]
    BY <1>1, <1>18, ThreadsAre
  <2> QED
    BY <1>1, <1>9, <1>18, <2>1 DEF CallsAgree, AddCallSteps
<1>20. PlacesKnown(place2, created')
  <2>1. place2[b] = w /\ \A d \in Blocks \ {b} : place2[d] = place[d]
    BY <1>14, <1>15 DEF Moves
  <2>2. w.at \in Places /\ ~ (b > created)
    BY <1>1, <1>13, <1>14, <1>16 DEF PlacesKnown, Places, CallPlaces
  <2>3. created' = created
    BY <1>1 DEF pool
  <2> QED
    BY <1>1, <1>13, <2>1, <2>2, <2>3 DEF PlacesKnown
<1>21. TypesFit'
  BY <1>1, <1>7, <1>9 DEF TypesFit, pool, blocks
<1>22. \A q \in Producers \ {p} :
          Quiet(q) /\ SameClaims(q) /\ SamePlaces(place, place2, q) /\ SameFilled(place, q)
  <2>1. ASSUME NEW q \in Producers \ {p}
        PROVE  Quiet(q) /\ SameClaims(q) /\ SamePlaces(place, place2, q) /\ SameFilled(place, q)
    <3>1. Quiet(q)
      BY <1>1, <1>7 DEF Quiet, queue
    <3>2. SameClaims(q)
      BY <1>1, <1>2, <1>9, <1>10, ClaimsElsewhere DEF Fetching
    <3>3. SamePlaces(place, place2, q)
      BY <1>13, <1>14, <1>15, <1>16, OthersStay
    <3>4. SameFilled(place, q)
      BY <1>1 DEF SameFilled, blocks
    <3> QED
      BY <3>1, <3>2, <3>3, <3>4
  <2> QED
    BY <2>1
<1>23. NumbersFit(p)'
  <2>1. Claimed(p)' = Claimed(p) /\ Headed(p)' = Headed(p)
    BY <1>1, <1>9 DEF Claimed, Headed, Locating
  <2>2. NumbersFit(p)
    BY PutFact
  <2>3. Sent(p)' = Sent(p)
    BY <1>1 DEF Sent, queue
  <2> QED
    BY <1>1, <1>10, <2>1, <2>2, <2>3 DEF NumbersFit, queue
<1>24. GetKnows(get, Gone(Turn))'
  <2>1. GetKnows(get, Gone(p))
    BY <1>2 DEF QNow
  <2>2. Gone(Turn)' = Gone(p)
    BY <1>2, <1>9, <1>10
  <2> QED
    BY <1>1, <1>9, <2>1, <2>2 DEF GetKnows, Locating
<1>25. ScanNow'
  <2>1. PICK hx, ht, m, ix, tail, pub, rem, gone :
          /\ hx = blockIndex[p][get.header].index /\ ht = blockIndex[p][get.header].tail
          /\ m = Len(blockIndex[p]) /\ ix = Header(p).index /\ tail = Header(p).tail
          /\ pub = Pub(p) /\ rem = Rem(p) /\ gone = Gone(p)
    OBVIOUS
  <2>2. get.header \in 1 .. m /\ ScanFits(hx, ht, get.header, m, get, gone, ix, tail, pub, rem)
    BY <1>1, <1>2, <2>1 DEF QNow, ScanNow, Scanning
  <2>3. PICK last \in Int :
          /\ gone + get.actual <= (last + 1) * BLOCK_SIZE
          /\ Scans(hx, get.position, (gone \div BLOCK_SIZE) - 1, last, ix, tail, pub, rem)
    BY <1>1, <2>2 DEF ScanFits
  <2>4. PICK rem2 : rem2 = rem + 1
    OBVIOUS
  <2>5. Scans(hx, get.position, (gone \div BLOCK_SIZE) - 1, last, ix, tail, pub, rem2)
    <3>1. \A k \in rem2 .. last : k \in rem .. last
      BY <1>4, <2>1, <2>4
    <3> QED
      BY <2>3, <3>1 DEF Scans
  <2>6. ScanFits(hx, ht, get'.header, m, get', gone, ix, tail, pub, rem2)
    BY <1>9, <2>3, <2>5 DEF ScanFits
  <2>7. Turn' = p /\ blockIndex' = blockIndex /\ Header(p)' = Header(p) /\ Gone(p)' = gone
    BY <1>1, <1>2, <1>9, <1>10, <2>1 DEF Header
  <2>8. Pub(p)' = pub
    <3>1. Sent(p)' = Sent(p)
      BY <1>1 DEF Sent, queue
    <3>2. Ins(p)' = Ins(p)
      BY <1>1, <3>1 DEF Ins
    <3> QED
      BY <1>1, <2>1, <3>2 DEF Pub
  <2>9. /\ get'.header \in 1 .. Len(blockIndex'[p])
        /\ ScanFits(blockIndex'[p][get'.header].index, blockIndex'[p][get'.header].tail,
                    get'.header, Len(blockIndex'[p]), get', Gone(p)', Header(p)'.index, Header(p)'.tail,
                    Pub(p)', Rem(p)')
    BY <1>9, <1>11, <2>1, <2>2, <2>4, <2>6, <2>7, <2>8
  <2> QED
    BY <2>7, <2>9 DEF ScanNow
<1> QED
  BY <1>16, <1>18, <1>19, <1>20, <1>21, <1>22, <1>23, <1>24, <1>25, ConsumerStep

\* The consumer's call to give a block back returns.
LEMMA AddReturns ==
    ASSUME NEW place, NEW n, FreeListNow(place, n), NEW t \in Threads, call[t].at = "added", CallIs(t, NoCall),
           freeListHead' = freeListHead, freeListRefs' = freeListRefs, freeListNext' = freeListNext
    PROVE  /\ FreeListNow(place, n)' /\ call'[t].at = "out"
           /\ \A s \in Threads \ {t} : call'[s] = call[s]
<1>1. PICK c \in CallRecords : c = NoCall /\ c.at = "out"
  BY NoCallFacts
<1>2. CallIs(t, c) /\ CallFits(c, freeListNext)
  BY <1>1, NoCallFacts
<1> HIDE DEF NoCall
<1>3. \A b \in Blocks : LooksAt(c, b) <=> LooksAt(call[t], b)
  BY <1>1 DEF LooksAt
<1>4. \A b \in Blocks, at \in CallPlaces : Has(c, b, at) <=> Has(call[t], b, at)
  BY <1>1 DEF Has, CallPlaces
<1>5. FreeListNow(place, n)'
  BY <1>2, <1>3, <1>4, QuietCall
<1>6. call \in [Threads -> CallRecords]
  BY FreeListFacts
<1> QED
  BY <1>1, <1>2, <1>5, <1>6 DEF CallIs

\* The next block is at the next position of the ring.
LEMMA ScansNext ==
    ASSUME NEW hx, NEW t, NEW c, NEW last, NEW ix, NEW tail, NEW pub, NEW rem,
           Scans(hx, t, c, last, ix, tail, pub, rem), NEW t2, t2 = (t + 1) % Len(hx), NEW c2, c2 = c + 1,
           rem \in Int
    PROVE  Scans(hx, t2, c2, last, ix, tail, pub, rem) /\ t2 \in Nat
<1>1. /\ hx \in Seq(Nat) /\ Len(hx) # 0 /\ t \in 0 .. Len(hx) - 1 /\ c \in Int /\ last \in Int
      /\ \A k \in rem .. last : EntryFrom(hx, t, c, k) = EntryFrom(ix, tail, pub - 1, k)
  BY DEF Scans
<1>2. PICK m \in Nat \ {0} : m = Len(hx)
  BY <1>1
<1>3. PICK x \in Int : x = t + 1
  BY <1>1, <1>2
<1>4. t2 \in 0 .. m - 1
  <2>1. x % m \in 0 .. m - 1
    BY DivMod
  <2> QED
    BY <1>2, <1>3, <2>1
<1>5. \A k \in rem .. last : EntryFrom(hx, t2, c2, k) = EntryFrom(hx, t, c, k)
  <2>1. SUFFICES ASSUME NEW k \in rem .. last
                 PROVE  EntryFrom(hx, t2, c2, k) = EntryFrom(hx, t, c, k)
    OBVIOUS
  <2>2. k \in Int /\ Len(hx) \in Nat \ {0} /\ t \in Int /\ c \in Int /\ 1 \in Int /\ t2 \in Int /\ c2 \in Int
    BY <1>1, <1>2, <1>4
  <2>3. t2 = (t + 1) % Len(hx) /\ c2 = c + 1
    OBVIOUS
  <2> QED
    BY ONLY <2>2, <2>3, EntrySlides
<1> QED
  BY <1>1, <1>2, <1>4, <1>5 DEF Scans

LEMMA BlockFreedKeepsQ ==
    ASSUME IInv, NEW place, NEW n, QNow(place, n), BlockFreed
    PROVE  QueuesNow'
<1>1. /\ get.at = "free" /\ get \in GetRecords /\ CallsAgree /\ FreeListNow(place, n)
      /\ call[Consumer].at = "added" /\ CallIs(Consumer, NoCall) /\ get' = NextBlock(get)
      /\ UNCHANGED <<queue, tailBlock, index, blocks, pool, put, received, freeListHead, freeListRefs,
                     freeListNext>>
  BY DEF BlockFreed, Getting, QNow, TypesFit, CallIs
<1>2. get.at \in Locating
  BY <1>1 DEF Locating
<1>3. PICK p \in Producers : p = Turn
  BY <1>2, ScanFacts
<1>4. PICK gone \in Nat, actual \in Nat, rem \in Nat :
        gone = Gone(p) /\ actual = get.actual /\ rem = Rem(p)
  BY <1>2, <1>3, ScanFacts, BlocksHold
<1>5. /\ FreeListNow(place, n)' /\ call'[Consumer].at = "out"
      /\ \A s \in Threads \ {Consumer} : call'[s] = call[s]
  BY <1>1, ThreadsAre, AddReturns
<1>6. \A q \in Producers : Gone(q)' = Gone(q)
  BY <1>1 DEF Gone
<1>7. CASE actual = 0
  <2>1. get' = NextTurn(get.got) /\ get.got \in Nat
    BY <1>1, <1>4, <1>7 DEF NextBlock, GetRecords
  <2>2. get' \in GetRecords /\ get'.at \in {"wait", "turn"}
    BY <1>1, <2>1, NextTurnIs DEF Fetching
  <2>3. CallsAgree'
    <3>1. \A q \in Producers : call'[q] = call[q] /\ put'[q] = put[q]
      BY <1>1, <1>5, ThreadsAre
    <3> QED
      BY <1>1, <1>5, <2>2, <3>1 DEF CallsAgree
  <2>4. \A q \in Producers : SameClaims(q)
    <3>1. \A q \in Producers : Claimed(q) = 0 /\ Headed(q) = 0
      BY <1>4, <1>7 DEF Claimed, Headed
    <3>2. \A q \in Producers : Claimed(q)' = 0 /\ Headed(q)' = 0
      BY <2>2 DEF Claimed, Headed, Locating
    <3>3. \A q \in Producers : Rem(q)' = Rem(q)
      BY <1>1, <1>6, <2>2 DEF Rem
    <3> QED
      BY <3>1, <3>2, <3>3 DEF SameClaims
  <2>5. GetKnows(get, Gone(Turn))' /\ ScanNow'
    BY <2>2 DEF GetKnows, ScanNow, Scanning, Locating
  <2> QED
    BY <1>1, <1>5, <2>2, <2>3, <2>4, <2>5, GetStep
<1>8. CASE actual # 0
  <2>1. PICK hx, ht, m, ix, tail, pub :
          /\ hx = blockIndex[p][get.header].index /\ ht = blockIndex[p][get.header].tail
          /\ m = Len(blockIndex[p]) /\ ix = Header(p).index /\ tail = Header(p).tail
          /\ pub = Pub(p)
    OBVIOUS
  <2>2. get.header \in 1 .. m /\ ScanFits(hx, ht, get.header, m, get, gone, ix, tail, pub, rem)
    BY <1>1, <1>3, <1>4, <2>1 DEF QNow, ScanNow, Scanning
  <2>3. PICK last \in Int :
          /\ gone + actual <= (last + 1) * BLOCK_SIZE
          /\ Scans(hx, get.position, (gone \div BLOCK_SIZE) - 1, last, ix, tail, pub, rem)
    BY <1>1, <1>4, <2>2 DEF ScanFits
  <2>4. PICK pos : pos = (get.position + 1) % Len(hx)
    OBVIOUS
  <2>5. Scans(hx, pos, gone \div BLOCK_SIZE, last, ix, tail, pub, rem) /\ pos \in Nat
    <3>1. ((gone \div BLOCK_SIZE) - 1) + 1 = gone \div BLOCK_SIZE
      <4>1. gone \div BLOCK_SIZE \in Nat
        BY <2>3, ScanReaches
      <4> QED
        BY <4>1
    <3>2. PICK c, c2 : c = (gone \div BLOCK_SIZE) - 1 /\ c2 = gone \div BLOCK_SIZE /\ c2 = c + 1
      BY <3>1
    <3>3. Scans(hx, get.position, c, last, ix, tail, pub, rem) /\ rem \in Int
      BY <2>3, <3>2
    <3>4. Scans(hx, pos, c2, last, ix, tail, pub, rem) /\ pos \in Nat
      BY <2>4, <3>2, <3>3, ScansNext
    <3> QED
      BY <3>2, <3>4
  <2>6. get' = [get EXCEPT !.at = "move", !.position = pos]
    BY <1>1, <1>3, <1>4, <1>8, <2>1, <2>4 DEF NextBlock, Capacity
  <2>7. PICK g : g = [get EXCEPT !.at = "move"]
    OBVIOUS
  <2>8. GetGoes(g, get, "move") /\ GetFieldsAre(g, get.actual, get.first, get.header, get.tail, get.position)
    BY <1>1, <2>7, GetGoesOn DEF Fetching
  <2>9. /\ GetGoes(get', get, "move") /\ get'.actual = get.actual /\ get'.first = get.first
        /\ get'.header = get.header /\ get'.position = pos
    <3>1. g \in GetRecords
      BY <2>8 DEF GetGoes
    <3>2. /\ GetGoes([g EXCEPT !.position = pos], g, g.at)
          /\ GetFieldsAre([g EXCEPT !.position = pos], g.actual, g.first, g.header, g.tail, pos)
      BY <2>5, <3>1, GetFieldSet
    <3>3. get' = [g EXCEPT !.position = pos]
      BY <2>6, <2>7
    <3> QED
      BY <2>8, <3>2, <3>3 DEF GetGoes, GetFieldsAre
  <2>10. get' \in GetRecords /\ get'.at = "move" /\ Turn' = Turn
    BY <2>9 DEF GetGoes, Turn
  <2>11. CallsAgree'
    <3>1. \A q \in Producers : call'[q] = call[q] /\ put'[q] = put[q]
      BY <1>1, <1>5, ThreadsAre
    <3> QED
      BY <1>1, <1>5, <2>10, <3>1 DEF CallsAgree
  <2>12. \A q \in Producers : SameClaims(q)
    <3>1. get'.at \in Locating /\ get'.at # "empty"
      BY <2>10 DEF Locating
    <3>2. \A q \in Producers : Claimed(q)' = Claimed(q) /\ Headed(q)' = Headed(q)
      BY <1>2, <2>9, <2>10, <3>1 DEF Claimed, Headed
    <3>3. \A q \in Producers : Rem(q)' = Rem(q)
      BY <1>1, <1>6, <2>10 DEF Rem
    <3> QED
      BY <3>2, <3>3 DEF SameClaims
  <2>13. GetKnows(get, Gone(Turn))'
    <3>1. GetKnows(get, Gone(p)) /\ Gone(Turn)' = Gone(p)
      BY <1>3, <1>6, <2>10 DEF QNow
    <3> QED
      BY <1>2, <1>4, <1>8, <2>9, <2>10, <3>1 DEF GetKnows
  <2>14. ScanNow'
    <3>1. ScanFits(hx, ht, get'.header, m, get', gone, ix, tail, pub, rem)
      BY <1>4, <2>3, <2>5, <2>9, <2>10 DEF ScanFits
    <3>2. Turn' = p /\ blockIndex' = blockIndex /\ Header(p)' = Header(p) /\ Gone(p)' = gone
      BY <1>1, <1>3, <1>4, <1>6, <2>10 DEF Header, index
    <3>3. Pub(p)' = pub /\ Rem(p)' = rem
      <4>1. Sent(p)' = Sent(p)
        BY <1>1 DEF Sent, queue
      <4>2. Ins(p)' = Ins(p)
        BY <1>1, <4>1 DEF Ins
      <4>3. Pub(p)' = Pub(p)
        BY <1>1, <4>2 DEF Pub
      <4>4. Rem(p)' = Rem(p)
        BY <2>12 DEF SameClaims
      <4> QED
        BY <1>4, <2>1, <4>3, <4>4
    <3>4. /\ get'.header \in 1 .. Len(blockIndex'[p])
          /\ ScanFits(blockIndex'[p][get'.header].index, blockIndex'[p][get'.header].tail,
                      get'.header, Len(blockIndex'[p]), get', Gone(p)', Header(p)'.index, Header(p)'.tail,
                      Pub(p)', Rem(p)')
      BY <2>1, <2>2, <2>9, <3>1, <3>2, <3>3
    <3> QED
      BY <3>2, <3>4 DEF ScanNow
  <2> QED
    BY <1>1, <1>5, <2>10, <2>11, <2>12, <2>13, <2>14, GetStep
<1> QED
  BY <1>7, <1>8

-----------------------------------------------------------------------------
(* The end                                                                 *)

LEMMA SizeIs ==
    ASSUME IInv, NEW place, NEW n, QNow(place, n), NEW p \in Producers, get.at \notin Locating
    PROVE  /\ Sent(p) \in Nat /\ Gone(p) \in Nat /\ Gone(p) <= Sent(p)
           /\ Size(p) = Sent(p) - Gone(p)
<1>1. NumbersFit(p)
  BY DEF QNow
<1>2. PICK sent \in Nat, gone \in Nat : sent = Sent(p) /\ gone = Gone(p) /\ gone <= sent /\ sent < IndexRange
  BY <1>1, GoneFits
<1>3. Headed(p) = 0 /\ gone + 0 = gone
  BY DEF Headed
<1>4. tailIndex[p] = Wrap(Start + sent) /\ headIndex[p] = Wrap(Start + gone)
  BY <1>1, <1>2, <1>3 DEF NumbersFit
<1>5. Size(p) = Wrap(sent - gone)
  <2>1. Wrap(Wrap(Start + sent) - Wrap(Start + gone)) = Wrap(sent - gone)
    BY Distance
  <2> QED
    BY <1>4, <2>1 DEF Size
<1>6. PICK d \in Int : d = sent - gone /\ d \in 0 .. IndexRange - 1
  <2>1. sent - gone \in 0 .. IndexRange - 1
    BY <1>2, Sizes
  <2> QED
    BY <2>1
<1>7. Wrap(d) = d
  BY <1>6, WrapFacts
<1> QED
  BY <1>2, <1>5, <1>6, <1>7

\* What the semaphore has is in the queue that try_dequeue takes.
LEMMA SomeLeft ==
    ASSUME IInv, NEW place, NEW n, QNow(place, n), get.at = "drain", m_count > 0
    PROVE  ProducerList[Best] \in Producers /\ Gone(ProducerList[Best]) < Sent(ProducerList[Best])
<1>1. get.at \notin Locating /\ get.at \notin Fetching
  BY DEF Locating, Fetching
<1>2. Held = 0 /\ m_count \in Int
  <2>1. get.max = 0 /\ get.got = 0 /\ m_count \in Int
    BY <1>1 DEF IInv, GetsFit, WakesFit
  <2> QED
    BY <2>1 DEF Held
<1>3. N \in Nat /\ N >= 1 /\ IsSum(Backlogs, N, m_count)
  <2>1. m_count + Held # 0 /\ m_count + Held = m_count
    BY <1>2
  <2> QED
    BY <2>1, SomeProducer, ProducersFacts DEF IInv, Balanced
<1>4. Best \in 1 .. N /\ \A i \in 1 .. N : Size(ProducerList[i]) <= Size(ProducerList[Best])
  BY <1>3, BestIsThere DEF IInv
<1>5. PICK p \in Producers : p = ProducerList[Best]
  BY <1>4, ProducersFacts
<1>6. Gone(p) < Sent(p)
  <2>1. SUFFICES ASSUME ~ (Gone(p) < Sent(p))
                 PROVE  FALSE
    OBVIOUS
  <2>2. Size(p) <= 0
    BY <1>1, <2>1, SizeIs
  <2>3. \A i \in 1 .. N : Backlogs[i] \in Int /\ Backlogs[i] <= 0
    <3>1. ASSUME NEW i \in 1 .. N
          PROVE  Backlogs[i] \in Int /\ Backlogs[i] <= 0
      <4>1. PICK q \in Producers : q = ProducerList[i]
        BY ProducersFacts
      <4>2. Size(q) <= Size(p) /\ Size(p) \in Int /\ Size(q) \in Int
        BY <1>1, <1>4, <1>5, <4>1, SizeIs
      <4>3. Sent(q) - Gone(q) <= 0
        BY <1>1, <2>2, <4>2, SizeIs
      <4>4. InQueue(q) = Sent(q) - Gone(q)
        BY DEF InQueue, Gone
      <4>5. Backlogs[i] = Backlog(q) /\ Backlog(q) \in Int /\ Backlog(q) <= InQueue(q)
        BY <4>1, BacklogType DEF IInv, IndexesFit
      <4>6. Sent(q) - Gone(q) \in Int
        BY <1>1, SizeIs
      <4> QED
        BY <4>3, <4>4, <4>5, <4>6
    <3> QED
      BY <3>1
  <2>4. PICK zeros : \A i \in 1 .. N : zeros[i] = 0 /\ IsSum(zeros, N, 0)
    <3>1. AreSums([i \in 0 .. N |-> 0], [i \in 1 .. N |-> 0], N)
      BY <1>3 DEF AreSums
    <3>2. IsSum([i \in 1 .. N |-> 0], N, 0)
      BY <1>3, <3>1 DEF IsSum
    <3> QED
      BY <3>2
  <2>5. IsSum(zeros, N, 0)
    BY <1>4, <2>4
  <2>6. m_count <= 0
    BY <1>3, <2>3, <2>4, <2>5, SumsGrow
  <2> QED
    BY <2>6, <1>2
<1> QED
  BY <1>5, <1>6

\* When the semaphore has nothing any more, everything has come out.
LEMMA NothingLeft ==
    ASSUME IInv, NEW place, NEW n, QNow(place, n), get.at = "drain", ~ Positive, Idle, NEW p \in Producers
    PROVE  Gone(p) = Sent(p)
<1>1. get.at \notin Locating /\ get.at \notin Fetching
  BY DEF Locating, Fetching
<1>2. m_count = 0 /\ Held = 0
  <2>1. get.max = 0 /\ get.got = 0 /\ m_count \in Int /\ m_count >= -1 /\ m_count # -1
    BY <1>1 DEF IInv, GetsFit, WakesFit, Getting
  <2> QED
    BY <2>1 DEF Held, Positive
<1>3. N \in Nat /\ IsSum(Backlogs, N, 0)
  BY <1>2, ProducersFacts DEF IInv, Balanced
<1>4. ASSUME NEW q \in Producers
      PROVE  Backlog(q) = Sent(q) - Gone(q) /\ Backlog(q) \in Nat
  <2>1. PICK sent \in Nat, gone \in Nat : sent = Sent(q) /\ gone = Gone(q) /\ gone <= sent
    BY <1>1, SizeIs
  <2>2. InQueue(q) = sent - gone
    BY <2>1 DEF InQueue, Gone
  <2>3. ~ At(q, "signal")
    BY DEF Idle, At
  <2> QED
    BY <2>1, <2>2, <2>3 DEF Backlog
<1>5. PICK k \in 1 .. N : ProducerList[k] = p
  BY ProducersFacts
<1>6. PICK d \in Nat : d = Backlog(p)
  BY <1>4
<1>7. \A i \in 1 .. N : Backlogs[i] \in Nat
  BY <1>4, ProducersFacts DEF Backlogs
<1>8. PICK h : h = [i \in 1 .. N |-> IF i = k THEN Backlogs[i] + (0 - d) ELSE Backlogs[i]]
  OBVIOUS
<1>9. Backlogs[k] = d
  BY <1>5, <1>6 DEF Backlogs
<1>10. IsSum(h, N, 0 + (0 - d))
  <2>1. \A i \in 1 .. N : h[i] = IF i = k THEN Backlogs[i] + (0 - d) ELSE Backlogs[i]
    BY <1>8
  <2>2. 0 - d \in Int /\ \A i \in 1 .. N : Backlogs[i] \in Int
    BY <1>7
  <2> QED
    BY <1>3, <2>1, <2>2, SumChanges
<1>11. \A i \in 1 .. N : h[i] \in Int /\ h[i] >= 0
  BY <1>7, <1>8, <1>9
<1>12. PICK zeros : (\A i \in 1 .. N : zeros[i] = 0) /\ IsSum(zeros, N, 0)
  <2>1. AreSums([i \in 0 .. N |-> 0], [i \in 1 .. N |-> 0], N)
    BY <1>3 DEF AreSums
  <2>2. IsSum([i \in 1 .. N |-> 0], N, 0)
    BY <1>3, <2>1 DEF IsSum
  <2> QED
    BY <2>2
<1>13. 0 <= 0 + (0 - d)
  BY <1>3, <1>10, <1>11, <1>12, SumsGrow
<1>14. d = 0
  BY <1>13
<1>15. PICK sent \in Nat, gone \in Nat : sent = Sent(p) /\ gone = Gone(p)
  BY <1>1, SizeIs
<1>16. sent - gone = 0
  BY <1>4, <1>6, <1>14, <1>15
<1> QED
  BY <1>15, <1>16

\* A list as a record, while nobody calls it.
ListFits(list, place, n) ==
    /\ FreeListFits(list.head, list.refs, list.next, call, place, n)
    /\ \A t \in Threads : call[t].at = "out"

LEMMA AddsAlone ==
    ASSUME NEW list, NEW place, NEW n, ListFits(list, place, n), NEW b \in Blocks, place[b].at = "index",
           NEW list2, list2 = AddedAlone(list, b),
           NEW w, w.at = "list", w.num = n + 1, NEW place2, Moves(place2, place, b, w)
    PROVE  /\ \E m : ListFits(list2, place2, m)
           /\ list.refs[b] = 0
<1>1. PICK head, refs, next : head = list.head /\ refs = list.refs /\ next = list.next
  OBVIOUS
<1>2. /\ CallsFit(call, next) /\ RefsFit(refs, call, place) /\ InCalls(call, place)
      /\ ChainFits(head, next, place, n) /\ \A t \in Threads : call[t].at = "out"
  BY <1>1 DEF ListFits, FreeListFits
<1>3. \A d \in Blocks : Cardinality(Lookers(call, d)) = 0
  <2>1. ASSUME NEW d \in Blocks
        PROVE  Lookers(call, d) = {}
    BY <1>2 DEF Lookers, LooksAt
  <2> QED
    BY <2>1, FS_EmptySet
<1>4. refs \in [Blocks -> Nat] /\ refs[b] = 0
  <2>1. refs[b] = Cardinality(Lookers(call, b)) + Extra("index") /\ Extra("index") = 0
    BY <1>2 DEF RefsFit, Extra
  <2> QED
    BY <1>2, <1>3, <2>1 DEF RefsFit
<1>5. PICK refs2, next2 : refs2 = [refs EXCEPT ![b] = 1] /\ next2 = [next EXCEPT ![b] = head]
  OBVIOUS
<1>6. list2.head = b /\ list2.refs = refs2 /\ list2.next = next2
  BY <1>1, <1>4, <1>5 DEF AddedAlone
<1>7. head \in 0 .. MaxBlocks /\ next \in [Blocks -> 0 .. MaxBlocks]
  BY <1>2 DEF ChainFits
<1>8. ChainFits(head, next2, place, n)
  BY <1>2, <1>5, <1>7, ChainLinks
<1>9. next2[b] = head
  BY <1>5, <1>7
<1>10. PICK m : ChainFits(b, next2, place2, m)
  BY <1>8, <1>9, ChainPushes
<1>11. place2[b] = w /\ DOMAIN place2 = Blocks /\ \A d \in Blocks \ {b} : place2[d] = place[d]
  BY DEF Moves
<1>12. RefsFit(refs2, call, place2)
  <2>1. refs2 \in [Blocks -> Nat] /\ refs2[b] = 1 /\ \A d \in Blocks \ {b} : refs2[d] = refs[d]
    BY <1>4, <1>5
  <2>2. refs2[b] = Cardinality(Lookers(call, b)) + Extra(place2[b].at) /\ place2[b].at = "list"
    BY <1>3, <1>11, <2>1 DEF Extra
  <2>3. \A d \in Blocks \ {b} :
          /\ refs2[d] = Cardinality(Lookers(call, d)) + Extra(place2[d].at)
          /\ place2[d].at = "owed" => Cardinality(Lookers(call, d)) > 0
          /\ place2[d].at = "link" => Cardinality(Lookers(call, d)) = 0
    BY <1>2, <1>11, <2>1 DEF RefsFit
  <2> QED
    BY <1>11, <2>1, <2>2, <2>3 DEF RefsFit
<1>13. InCalls(call, place2)
  <2>1. ASSUME NEW d \in Blocks, NEW at \in CallPlaces
        PROVE  /\ place2[d].at = at => place2[d].by \in Threads
               /\ \A t \in Threads : Has(call[t], d, at) <=> place2[d].at = at /\ place2[d].by = t
    <3>1. CASE d = b
      <4>1. \A t \in Threads : ~ Has(call[t], d, at)
        BY <1>2 DEF Has, CallPlaces
      <4>2. place2[d].at # at
        BY <1>11, <3>1 DEF CallPlaces
      <4> QED
        BY <4>1, <4>2
    <3>2. CASE d # b
      BY <1>2, <1>11, <3>2 DEF InCalls
    <3> QED
      BY <3>1, <3>2
  <2> QED
    BY <2>1 DEF InCalls
<1>14. CallsFit(call, next2)
  <2>1. \A t \in Threads : CallFits(call[t], next2)
    BY <1>2 DEF CallFits, AddSteps
  <2> QED
    BY <1>2, <2>1 DEF CallsFit
<1>15. ListFits(list2, place2, m)
  BY <1>2, <1>6, <1>10, <1>12, <1>13, <1>14 DEF ListFits, FreeListFits
<1> QED
  BY <1>1, <1>4, <1>15

-----------------------------------------------------------------------------
(* The list as it is read                                                  *)

\* The list has a node of every number.
LEMMA ChainIsFull ==
    ASSUME NEW head, NEW next, NEW place, NEW n, ChainFits(head, next, place, n), NEW i \in 1 .. n
    PROVE  \E b \in Blocks : place[b].at = "list" /\ place[b].num = i
<1>1. n \in Nat /\ next \in [Blocks -> 0 .. MaxBlocks]
  BY DEF ChainFits
<1> DEFINE absent == {k \in 0 .. n - 1 : ~ \E b \in Blocks : place[b].at = "list" /\ place[b].num = n - k}
<1>2. SUFFICES absent = {}
  <2>1. n - i \in 0 .. n - 1 /\ n - (n - i) = i
    BY <1>1
  <2> QED
    BY <2>1
<1>3. SUFFICES ASSUME absent # {}
               PROVE  FALSE
  OBVIOUS
<1>4. PICK k \in absent : \A j \in absent : k <= j
  <2>1. absent \in SUBSET Nat
    BY <1>1
  <2> HIDE DEF absent
  <2> QED
    BY <1>3, <2>1, Smallest
<1>5. k # 0
  <2>1. head \in Blocks /\ place[head].at = "list" /\ place[head].num = n
    BY <1>1, BlockNumbers DEF ChainFits
  <2>2. n - 0 = n
    BY <1>1
  <2> QED
    BY <1>4, <2>1, <2>2
<1>6. k - 1 \in 0 .. n - 1 /\ k - 1 \notin absent /\ n - (k - 1) # 1 /\ (n - (k - 1)) - 1 = n - k
  BY <1>1, <1>4, <1>5
<1>7. PICK b \in Blocks : place[b].at = "list" /\ place[b].num = n - (k - 1)
  BY <1>6
<1>8. next[b] # 0 /\ place[next[b]].at = "list" /\ place[next[b]].num = n - k
  BY <1>6, <1>7 DEF ChainFits
<1>9. next[b] \in Blocks
  BY <1>1, <1>7, <1>8, BlockNumbers
<1> QED
  BY <1>4, <1>8, <1>9

\* There are no more nodes than blocks.
LEMMA ChainIsShort ==
    ASSUME NEW head, NEW next, NEW place, NEW n, ChainFits(head, next, place, n)
    PROVE  n \in Nat /\ n <= MaxBlocks
<1>1. n \in Nat /\ MaxBlocks \in Nat /\ next \in [Blocks -> 0 .. MaxBlocks]
  BY FreeListAssumption DEF ChainFits
<1>2. \A i \in 1 .. n : \E b \in Blocks : place[b].at = "list" /\ place[b].num = i
  BY ChainIsFull
<1>3. SUFFICES ASSUME n > MaxBlocks
               PROVE  FALSE
  BY <1>1
<1> DEFINE f == [i \in 1 .. n |-> CHOOSE b \in Blocks : place[b].at = "list" /\ place[b].num = i]
<1>4. f \in [1 .. n -> Blocks] /\ \A i \in 1 .. n : place[f[i]].num = i
  BY <1>2
<1>5. /\ IsFiniteSet(1 .. n) /\ IsFiniteSet(Blocks) /\ Cardinality(1 .. n) = n
      /\ Cardinality(Blocks) = MaxBlocks
  <2>1. IsFiniteSet(1 .. n) /\ Cardinality(1 .. n) = n
    <3>1. n \in Int /\ 1 \in Int
      BY <1>1
    <3>2. IsFiniteSet(1 .. n) /\ Cardinality(1 .. n) = IF 1 > n THEN 0 ELSE n - 1 + 1
      BY <3>1, FS_Interval
    <3> QED
      BY <1>1, <3>2
  <2>2. IsFiniteSet(Blocks) /\ Cardinality(Blocks) = MaxBlocks
    <3>1. MaxBlocks \in Int /\ 1 \in Int
      BY <1>1
    <3>2. IsFiniteSet(1 .. MaxBlocks)
          /\ Cardinality(1 .. MaxBlocks) = IF 1 > MaxBlocks THEN 0 ELSE MaxBlocks - 1 + 1
      BY <3>1, FS_Interval
    <3> QED
      BY <1>1, <3>2 DEF Blocks
  <2> QED
    BY <2>1, <2>2
<1> HIDE DEF f
<1>6. \E i, j \in 1 .. n : i # j /\ f[i] = f[j]
  <2>1. Cardinality(Blocks) < Cardinality(1 .. n)
    BY <1>1, <1>3, <1>5
  <2> QED
    BY <1>4, <1>5, <2>1, FS_PigeonHole
<1> QED
  BY <1>4, <1>6

\* Who follows the list finds its nodes, and those alone.
LEMMA ListIsRead ==
    ASSUME NEW place, NEW n, ChainFits(freeListHead, freeListNext, place, n)
    PROVE  OnFreeList = {b \in Blocks : place[b].at = "list"}
<1> DEFINE step(f) == [k \in 0 .. MaxBlocks |->
                         IF k = 0 THEN {freeListHead}
                         ELSE f[k - 1] \cup {freeListNext[b] : b \in f[k - 1] \ {0}}]
           chain == CHOOSE f : f = step(f)
           reached == [k \in 0 .. MaxBlocks |->
                         {b \in Blocks : place[b].at = "list" /\ place[b].num >= n - k}
                           \cup (IF k >= n THEN {0} ELSE {})]
<1>1. OnFreeList = chain[MaxBlocks] \ {0}
  BY DEF OnFreeList
<1>2. /\ n \in Nat /\ n <= MaxBlocks /\ MaxBlocks \in Nat
      /\ freeListHead \in 0 .. MaxBlocks /\ freeListNext \in [Blocks -> 0 .. MaxBlocks]
      /\ \A b \in Blocks : place[b].at = "list" => place[b].num \in 1 .. n
  <2>1. n \in Nat /\ n <= MaxBlocks
    BY ChainIsShort
  <2>2. /\ MaxBlocks \in Nat
        /\ freeListHead \in 0 .. MaxBlocks /\ freeListNext \in [Blocks -> 0 .. MaxBlocks]
        /\ \A b \in Blocks : place[b].at = "list" => place[b].num \in 1 .. n
    BY FreeListAssumption DEF ChainFits
  <2> HIDE DEF step, chain, reached
  <2> QED
    BY <2>1, <2>2
<1>3. reached[0] = {freeListHead}
  <2>0. reached[0] = {b \in Blocks : place[b].at = "list" /\ place[b].num >= n - 0}
                       \cup (IF 0 >= n THEN {0} ELSE {})
    BY <1>2
  <2> HIDE DEF reached
  <2>1. CASE n = 0
    <3>1. freeListHead = 0 /\ \A b \in Blocks : place[b].at # "list"
      BY <1>2, <2>1 DEF ChainFits
    <3>2. reached[0] = {} \cup {0}
      BY <2>0, <2>1, <3>1
    <3> QED
      BY <3>1, <3>2
  <2>2. CASE n # 0
    <3>1. freeListHead \in Blocks /\ place[freeListHead].at = "list" /\ place[freeListHead].num = n
      BY <1>2, <2>2, BlockNumbers DEF ChainFits
    <3>2. \A b \in Blocks : place[b].at = "list" /\ place[b].num >= n - 0 => b = freeListHead
      BY <1>2, <3>1 DEF ChainFits
    <3>3. n - 0 = n /\ ~ (0 >= n)
      BY <1>2, <2>2
    <3>4. reached[0] = {b \in Blocks : place[b].at = "list" /\ place[b].num >= n - 0}
      BY <2>0, <3>3
    <3>5. place[freeListHead].num >= n - 0
      BY <1>2, <3>1, <3>3
    <3> QED
      BY <3>1, <3>2, <3>4, <3>5
  <2> QED
    BY <2>1, <2>2
<1>4. ASSUME NEW k \in 1 .. MaxBlocks
      PROVE  reached[k] = reached[k - 1] \cup {freeListNext[b] : b \in reached[k - 1] \ {0}}
  <2>1. k - 1 \in 0 .. MaxBlocks /\ k \in 0 .. MaxBlocks
    BY <1>2
  <2>2. PICK r, s : r = reached[k] /\ s = reached[k - 1]
    OBVIOUS
  <2>3. /\ \A b \in Blocks : b \in r <=> place[b].at = "list" /\ place[b].num >= n - k
        /\ \A b \in Blocks : b \in s <=> place[b].at = "list" /\ place[b].num >= n - (k - 1)
        /\ r \subseteq Blocks \cup {0} /\ s \subseteq Blocks \cup {0}
        /\ 0 \in r <=> k >= n
        /\ 0 \in s <=> k - 1 >= n
    BY <2>1, <2>2, BlockNumbers
  <2> HIDE DEF reached
  <2>4. ASSUME NEW b \in r
        PROVE  b \in s \/ \E d \in s \ {0} : b = freeListNext[d]
    <3>1. CASE b # 0
      <4>1. b \in Blocks /\ place[b].at = "list" /\ place[b].num >= n - k /\ place[b].num \in 1 .. n
        BY <1>2, <2>3, <3>1
      <4>2. CASE place[b].num >= n - (k - 1)
        BY <2>3, <4>1, <4>2
      <4>3. CASE place[b].num < n - (k - 1)
        <5>1. place[b].num = n - k /\ (n - (k - 1)) - 1 = n - k /\ n - (k - 1) \in 1 .. n
          BY <1>2, <4>1, <4>3
        <5>2. PICK d \in Blocks : place[d].at = "list" /\ place[d].num = n - (k - 1)
          BY <5>1, ChainIsFull
        <5>3. n - (k - 1) # 1 /\ d \in s /\ d # 0
          BY <1>2, <2>3, <4>1, <5>1, <5>2, BlockNumbers
        <5>4. freeListNext[d] # 0 /\ place[freeListNext[d]].at = "list" /\ place[freeListNext[d]].num = n - k
          BY <5>1, <5>2, <5>3 DEF ChainFits
        <5>5. freeListNext[d] \in Blocks
          BY <1>2, <5>2, <5>4, BlockNumbers
        <5>6. freeListNext[d] = b
          BY <4>1, <5>1, <5>4, <5>5 DEF ChainFits
        <5> QED
          BY <5>3, <5>6
      <4> QED
        BY <1>2, <4>1, <4>2, <4>3
    <3>2. CASE b = 0
      <4>1. k >= n
        BY <2>3, <3>2
      <4>2. CASE k - 1 >= n
        BY <2>3, <3>2, <4>2
      <4>3. CASE k - 1 < n
        <5>1. k = n /\ n - (k - 1) = 1 /\ 1 \in 1 .. n
          BY <1>2, <4>1, <4>3
        <5>2. PICK d \in Blocks : place[d].at = "list" /\ place[d].num = 1
          BY <5>1, ChainIsFull
        <5>3. freeListNext[d] = 0 /\ d \in s /\ d # 0
          BY <2>3, <5>1, <5>2, BlockNumbers DEF ChainFits
        <5> QED
          BY <3>2, <5>3
      <4> QED
        BY <1>2, <4>2, <4>3
    <3> QED
      BY <3>1, <3>2
  <2>5. s \subseteq r
    <3>1. n - (k - 1) >= n - k
      BY <1>2
    <3> QED
      BY <1>2, <2>3, <3>1
  <2>6. ASSUME NEW d \in s \ {0}
        PROVE  freeListNext[d] \in r
    <3>1. d \in Blocks /\ place[d].at = "list" /\ place[d].num >= n - (k - 1) /\ place[d].num \in 1 .. n
      BY <1>2, <2>3
    <3>2. CASE place[d].num = 1
      <4>1. freeListNext[d] = 0 /\ k >= n
        BY <1>2, <3>1, <3>2 DEF ChainFits
      <4> QED
        BY <2>3, <4>1
    <3>3. CASE place[d].num # 1
      <4>1. freeListNext[d] # 0 /\ place[freeListNext[d]].at = "list"
            /\ place[freeListNext[d]].num = place[d].num - 1
        BY <3>1, <3>3 DEF ChainFits
      <4>2. freeListNext[d] \in Blocks /\ place[d].num - 1 >= n - k
        BY <1>2, <3>1, <4>1, BlockNumbers
      <4> QED
        BY <2>3, <4>1, <4>2
    <3> QED
      BY <3>2, <3>3
  <2>7. r = s \cup {freeListNext[d] : d \in s \ {0}}
    BY <2>4, <2>5, <2>6
  <2> QED
    BY <2>2, <2>7
<1>5. reached = step(reached)
  <2>1. \A k \in 0 .. MaxBlocks : reached[k] = step(reached)[k]
    <3>1. ASSUME NEW k \in 0 .. MaxBlocks
          PROVE  reached[k] = step(reached)[k]
      <4>1. CASE k = 0
        BY <1>3, <4>1
      <4>2. CASE k # 0
        <5>1. k \in 1 .. MaxBlocks
          BY <1>2, <4>2
        <5> HIDE DEF reached
        <5> QED
          BY <1>4, <4>2, <5>1
      <4> QED
        BY <4>1, <4>2
    <3> QED
      BY <3>1
  <2> QED
    BY <2>1
<1>6. chain = step(chain)
  <2> HIDE DEF step, reached
  <2> QED
    BY <1>5
<1> HIDE DEF chain
<1>7. /\ DOMAIN chain = 0 .. MaxBlocks
      /\ chain[0] = {freeListHead}
      /\ \A k \in 1 .. MaxBlocks : chain[k] = chain[k - 1] \cup {freeListNext[b] : b \in chain[k - 1] \ {0}}
  <2>1. ASSUME NEW f, f = step(f)
        PROVE  /\ DOMAIN f = 0 .. MaxBlocks
               /\ \A k \in 0 .. MaxBlocks :
                    f[k] = IF k = 0 THEN {freeListHead}
                           ELSE f[k - 1] \cup {freeListNext[b] : b \in f[k - 1] \ {0}}
    <3>1. PICK g : g = step(f)
      OBVIOUS
    <3>2. /\ DOMAIN g = 0 .. MaxBlocks
          /\ \A k \in 0 .. MaxBlocks :
               g[k] = IF k = 0 THEN {freeListHead}
                      ELSE f[k - 1] \cup {freeListNext[b] : b \in f[k - 1] \ {0}}
      BY ONLY <3>1
    <3>3. f = g
      BY <2>1, <3>1
    <3> HIDE DEF step
    <3> QED
      BY ONLY <3>2, <3>3
  <2>2. /\ DOMAIN chain = 0 .. MaxBlocks
        /\ \A k \in 0 .. MaxBlocks :
             chain[k] = IF k = 0 THEN {freeListHead}
                        ELSE chain[k - 1] \cup {freeListNext[b] : b \in chain[k - 1] \ {0}}
    <3> HIDE DEF step
    <3> QED
      BY <1>6, <2>1
  <2> HIDE DEF step
  <2>3. ASSUME NEW k \in 1 .. MaxBlocks
        PROVE  k \in 0 .. MaxBlocks /\ k # 0
    BY <1>2
  <2>4. 0 \in 0 .. MaxBlocks
    BY <1>2
  <2> QED
    BY <2>2, <2>3, <2>4
<1>8. chain[MaxBlocks] = reached[MaxBlocks]
  <2> DEFINE wrong == {k \in 0 .. MaxBlocks : chain[k] # reached[k]}
  <2> HIDE DEF reached
  <2>1. SUFFICES ASSUME wrong # {}
                 PROVE  FALSE
    BY <1>2
  <2>2. PICK k \in wrong : \A j \in wrong : k <= j
    <3>1. wrong \in SUBSET Nat
      BY <1>2
    <3> HIDE DEF wrong
    <3> QED
      BY <2>1, <3>1, Smallest
  <2>3. k # 0
    BY <1>3, <1>7, <2>2
  <2>4. k - 1 \in 0 .. MaxBlocks /\ k - 1 \notin wrong /\ k \in 1 .. MaxBlocks
    BY <1>2, <2>2, <2>3
  <2>5. chain[k - 1] = reached[k - 1] /\ chain[k] # reached[k]
    BY <2>2, <2>4
  <2> HIDE DEF wrong
  <2> QED
    BY <1>4, <1>7, <2>4, <2>5
<1>9. MaxBlocks \in 0 .. MaxBlocks /\ \A b \in Blocks : place[b].at = "list" => place[b].num >= n - MaxBlocks
  BY <1>2
<1>10. reached[MaxBlocks] \ {0} = {b \in Blocks : place[b].at = "list"}
  BY <1>9, BlockNumbers
<1> QED
  BY <1>1, <1>8, <1>10

-----------------------------------------------------------------------------
(* What is left is dequeued                                                *)

\* One entry of the index of p is emptied.
EntryEmptied(p, e) == entries' = [entries EXCEPT ![p][e].value = 0]

LEMMA DrainFacts ==
    ASSUME IInv, NEW place, NEW n, QNow(place, n), TryDequeue
    PROVE  \E p \in Producers :
             /\ p = ProducerList[Best] /\ Gone(p) < Sent(p) /\ Rem(p) = Gone(p) \div BLOCK_SIZE
             /\ NumbersFit(p) /\ headIndex[p] = Wrap(Start + Gone(p))
             /\ dequeueOptimisticCount[p] = Wrap(Start + Gone(p))
             /\ Slot(headIndex[p]) = Gone(p) % BLOCK_SIZE
<1>1. get.at = "drain" /\ m_count > 0
  BY DEF TryDequeue, DequeueGranted, TryWaitMany, Getting, Positive
<1>2. PICK p \in Producers : p = ProducerList[Best]
  BY <1>1, SomeLeft
<1>3. Gone(p) < Sent(p)
  BY <1>1, <1>2, SomeLeft
<1>4. PICK gone \in Nat : gone = Gone(p)
  BY BlocksHold
<1>5. Rem(p) = gone \div BLOCK_SIZE
  <2>1. Rem(p) = (gone \div BLOCK_SIZE) - 0
    BY <1>1, <1>4 DEF Rem
  <2>2. gone \div BLOCK_SIZE \in Nat
    <3>1. 0 \in Nat /\ (gone % BLOCK_SIZE) + 0 <= BLOCK_SIZE
      BY Sizes
    <3> QED
      BY <3>1, GoneInBlock
  <2> QED
    BY <2>1, <2>2
<1>6. NumbersFit(p)
  BY PutFact
<1>7. Claimed(p) = 0 /\ Headed(p) = 0 /\ gone + 0 = gone
  BY <1>1 DEF Claimed, Headed, Locating
<1>8. headIndex[p] = Wrap(Start + gone) /\ dequeueOptimisticCount[p] = Wrap(Start + gone)
  BY <1>4, <1>6, <1>7 DEF NumbersFit
<1>9. Slot(headIndex[p]) = gone % BLOCK_SIZE
  BY <1>8, SlotIs
<1> QED
  BY <1>2, <1>3, <1>4, <1>5, <1>6, <1>8, <1>9

\* The entry that try_dequeue finds.
DrainEntry(p) ==
    LET header == Header(p)
        tailBase == entries[p][header.index[header.tail + 1]].key
        offset == Wrap(Base(headIndex[p]) - tailBase) \div BLOCK_SIZE
    IN  header.index[((header.tail + offset) % Capacity(header)) + 1]

LEMMA DrainFinds ==
    ASSUME IInv, NEW place, NEW n, QNow(place, n), NEW p \in Producers, Gone(p) < Sent(p),
           Rem(p) = Gone(p) \div BLOCK_SIZE, headIndex[p] = Wrap(Start + Gone(p))
    PROVE  DrainEntry(p) = EntryFrom(Header(p).index, Header(p).tail, Pub(p) - 1, Rem(p))
<1>1. PICK ix, tail, es, ins, base, offset :
        /\ ix = Header(p).index /\ tail = Header(p).tail /\ es = entries[p] /\ ins = Ins(p)
        /\ base = es[ix[tail + 1]].key /\ offset = Wrap(Base(headIndex[p]) - base) \div BLOCK_SIZE
  OBVIOUS
<1>2. PICK gone \in Nat, rem \in Nat, pub \in Nat : gone = Gone(p) /\ rem = Rem(p) /\ pub = Pub(p)
  BY BlocksHold
<1>3. rem < ins /\ ins <= pub /\ ins \in Nat
  <2>1. Gone(p) \div BLOCK_SIZE < Ins(p) /\ Ins(p) <= Pub(p) /\ Ins(p) \in Nat
    BY BlocksHold
  <2> QED
    BY <1>1, <1>2, <2>1
<1>4. RingFits(ix, tail, es, rem, ins, pub)
  BY <1>1, <1>2, PutFact
<1>5. PICK last \in Int : last = pub - 1 /\ rem <= last
  BY <1>2, <1>3
<1>6. Scans(ix, tail, last, last, ix, tail, pub, rem)
  <2>1. ix \in Seq(Nat) /\ Len(ix) # 0 /\ Room % Len(ix) = 0 /\ tail \in 0 .. Len(ix) - 1
    BY <1>4 DEF RingFits, RingShape
  <2>2. last <= pub - 1 /\ pub - 1 = last
    BY <1>2, <1>5
  <2> QED
    BY <2>1, <2>2 DEF Scans
<1>7. PICK first, pos : first = headIndex[p] /\ pos = (tail + offset) % Len(ix)
  OBVIOUS
<1>8. Scans(ix, pos, rem, last, ix, tail, pub, rem) /\ pos \in Nat
  <2>1. rem = gone \div BLOCK_SIZE /\ rem <= last /\ first = Wrap(Start + gone)
    BY <1>2, <1>5, <1>7
  <2>2. base = es[ix[tail + 1]].key
    BY <1>1
  <2>3. pos = (tail + (Wrap(Base(first) - base) \div BLOCK_SIZE)) % Len(ix)
    BY <1>1, <1>7
  <2> QED
    BY <1>4, <1>6, <2>1, <2>2, <2>3, EntryFound
<1>9. ix[pos + 1] = EntryFrom(ix, tail, pub - 1, rem)
  <2>1. rem \in rem .. last /\ rem \in Int
    BY <1>5
  <2> QED
    BY <1>8, <2>1, ScansAt
<1> QED
  BY <1>1, <1>2, <1>7, <1>9 DEF Capacity, DrainEntry

\* What try_dequeue does with the element of block b, which entry e is for.
DrainEffect(p, e, b) ==
    /\ headIndex' = [headIndex EXCEPT ![p] = Wrap(@ + 1)]
    /\ dequeueOptimisticCount' = [dequeueOptimisticCount EXCEPT ![p] = Wrap(@ + 1)]
    /\ \E x : ElementsOf(x, b, Gone(p) % BLOCK_SIZE, 1) /\ received' = [received EXCEPT ![p] = @ \o x]
    /\ TakenOut(b, Gone(p) % BLOCK_SIZE, 1)
    /\ (Gone(p) % BLOCK_SIZE) + 1 <= BLOCK_SIZE
    /\ IF (Gone(p) % BLOCK_SIZE) + 1 = BLOCK_SIZE
       THEN EntryEmptied(p, e) /\ ListBecomes(AddedAlone(TheList, b))
       ELSE entries' = entries /\ ListBecomes(TheList)

LEMMA DrainTakes ==
    ASSUME IInv, NEW place, NEW n, QNow(place, n), TryDequeue, NEW p \in Producers, p = ProducerList[Best],
           Gone(p) < Sent(p), Rem(p) = Gone(p) \div BLOCK_SIZE,
           headIndex[p] = Wrap(Start + Gone(p)), Slot(headIndex[p]) = Gone(p) % BLOCK_SIZE,
           NEW e, e = EntryFrom(Header(p).index, Header(p).tail, Pub(p) - 1, Rem(p)),
           NEW b, b = entries[p][e].value
    PROVE  DrainEffect(p, e, b)
<1>1. PICK r : r = Gone(p) % BLOCK_SIZE
  OBVIOUS
<1>2. e = DrainEntry(p)
  BY DrainFinds
<1>3. b \in Blocks /\ count[b] = r
  <2>1. IsFirst(place, p, b)
    BY <1>1, FirstBlock
  <2> QED
    BY <1>1, <2>1 DEF IsFirst
<1>4. r \in SlotNumbers
  <2>1. PICK B \in Nat \ {0} : B = BLOCK_SIZE
    BY Sizes
  <2>2. PICK g \in Int : g = Gone(p)
    BY BlocksHold
  <2>3. g % B \in 0 .. B - 1
    BY DivMod
  <2> QED
    BY <1>1, <2>1, <2>2, <2>3 DEF SlotNumbers
<1>5. /\ received' = [received EXCEPT ![p] = Append(@, elements[b][r])]
      /\ elements' = [elements EXCEPT ![b][r] = 0]
      /\ count' = [count EXCEPT ![b] = @ + 1]
      /\ entries' = IF r + 1 = BLOCK_SIZE THEN [entries EXCEPT ![p][e].value = 0] ELSE entries
      /\ ListBecomes(IF r + 1 = BLOCK_SIZE THEN AddedAlone(TheList, b) ELSE TheList)
  <2>1. /\ received' = [received EXCEPT ![p] = Append(@, elements[b][Slot(headIndex[p])])]
        /\ elements' = [elements EXCEPT ![b][Slot(headIndex[p])] = 0]
        /\ count' = [count EXCEPT ![b] = @ + 1]
        /\ entries' = IF count[b] + 1 = BLOCK_SIZE THEN [entries EXCEPT ![p][e].value = 0] ELSE entries
        /\ ListBecomes(IF count[b] + 1 = BLOCK_SIZE THEN AddedAlone(TheList, b) ELSE TheList)
    BY <1>2 DEF TryDequeue, SetEmpty, SetManyEmpty, IsEmptied, DrainEntry
  <2> QED
    BY <1>1, <1>3, <2>1
<1>6. elements \in [Blocks -> [SlotNumbers -> Nat]] /\ count \in [Blocks -> Int] /\ received \in [Producers -> Seq(Nat)]
  BY DEF QNow, TypesFit
<1>7. TakenOut(b, r, 1)
  <2>1. PICK f, g : f = elements[b] /\ g = elements'[b]
    OBVIOUS
  <2>2. f \in [SlotNumbers -> Nat] /\ g = [f EXCEPT ![r] = 0]
    BY <1>3, <1>5, <1>6, <2>1
  <2>3. g \in [SlotNumbers -> Nat] /\ \A i \in SlotNumbers \ {r} : g[i] = f[i]
    BY <2>2
  <2>4. elements' = [elements EXCEPT ![b] = g]
    BY <1>5, <2>1, <2>2
  <2>5. elements' \in [Blocks -> [SlotNumbers -> Nat]] /\ \A d \in Blocks \ {b} : elements'[d] = elements[d]
    BY <1>3, <1>6, <2>3, <2>4
  <2>6. \A i \in SlotNumbers : i < r \/ r + 1 <= i => i # r
    BY <1>4 DEF SlotNumbers
  <2>7. \A i \in SlotNumbers : i < r \/ r + 1 <= i => elements'[b][i] = elements[b][i]
    BY <2>1, <2>3, <2>6
  <2>8. count' = [count EXCEPT ![b] = @ + 1]
    BY <1>5
  <2> QED
    BY ONLY <2>5, <2>7, <2>8 DEF TakenOut
<1>8. PICK y \in Nat : y = elements[b][r]
  BY <1>3, <1>4, <1>6
<1>9. PICK x : x = <<y>>
  OBVIOUS
<1>10. ElementsOf(x, b, r, 1)
  <2>1. y \in Nat
    OBVIOUS
  <2>2. \A i \in 1 .. 1 : i = 1 /\ r + (i - 1) = r
    BY <1>4 DEF SlotNumbers
  <2>3. x \in Seq(Nat) /\ Len(x) = 1 /\ x[1] = y
    BY ONLY <1>9, <2>1
  <2>4. \A i \in 1 .. 1 : x[i] = elements[b][r + (i - 1)]
    BY <1>8, <2>2, <2>3
  <2> QED
    BY <2>3, <2>4 DEF ElementsOf
<1>11. received' = [received EXCEPT ![p] = @ \o x]
  <2>1. PICK s \in Seq(Nat) : s = received[p]
    BY <1>6
  <2>2. Append(s, y) = s \o x
    <3>1. s \in Seq(Nat) /\ y \in Nat
      OBVIOUS
    <3> QED
      BY ONLY <1>9, <3>1
  <2> QED
    BY <1>5, <1>8, <2>1, <2>2
<1>12. r + 1 <= BLOCK_SIZE
  BY <1>4, Sizes DEF SlotNumbers
<1>13. /\ headIndex' = [headIndex EXCEPT ![p] = Wrap(@ + 1)]
       /\ dequeueOptimisticCount' = [dequeueOptimisticCount EXCEPT ![p] = Wrap(@ + 1)]
  BY DEF TryDequeue
<1> QED
  BY <1>1, <1>5, <1>7, <1>10, <1>11, <1>12, <1>13 DEF EntryEmptied, DrainEffect

LEMMA DrainNumbers ==
    ASSUME NEW p \in Producers, NumbersFit(p), TypesFit, get.at = "drain",
           UNCHANGED <<tailIndex, dequeueOvercommit, get>>, NEW gone \in Nat, gone = Gone(p),
           gone < Sent(p), Sent(p) \in Nat,
           headIndex[p] = Wrap(Start + gone), dequeueOptimisticCount[p] = Wrap(Start + gone),
           headIndex'[p] = Wrap(headIndex[p] + 1),
           dequeueOptimisticCount'[p] = Wrap(dequeueOptimisticCount[p] + 1),
           received'[p] = [i \in 1 .. gone + 1 |-> i], Gone(p)' = gone + 1
    PROVE  NumbersFit(p)'
<1>1. Claimed(p)' = 0 /\ Headed(p)' = 0
  BY DEF Claimed, Headed, Locating
<1>2. Sent(p)' = Sent(p) /\ gone + 1 <= Sent(p)
  BY DEF Sent
<1>3. Wrap(Wrap(Start + gone) + 1) = Wrap(Start + (gone + 1))
  BY Distance
<1>4. PICK g \in Nat : g = gone + 1 /\ g + 0 = g
  OBVIOUS
<1> QED
  BY <1>1, <1>2, <1>3, <1>4 DEF NumbersFit

\* When all is quiet nobody calls the list.
LEMMA NoCalls ==
    ASSUME CallsAgree, Idle, get.at \in {"drain", "destroyed"}, NEW t \in Threads
    PROVE  call[t].at = "out"
BY ThreadsAre DEF CallsAgree, Idle

\* The other producers see nothing of it.
LEMMA DrainOthers ==
    ASSUME IInv, NEW place, NEW n, QNow(place, n), TryDequeue, NEW p \in Producers, p = ProducerList[Best],
           NEW q \in Producers \ {p}
    PROVE  SameClaims(q) /\ headIndex'[q] = headIndex[q] /\ tailIndex'[q] = tailIndex[q]
           /\ dequeueOptimisticCount'[q] = dequeueOptimisticCount[q]
           /\ dequeueOvercommit'[q] = dequeueOvercommit[q] /\ received'[q] = received[q]
<1>1. DOMAIN headIndex = Producers /\ DOMAIN dequeueOptimisticCount = Producers /\ DOMAIN received = Producers
  BY DEF IInv, IndexesFit, QNow, TypesFit
<1>2. /\ headIndex'[q] = headIndex[q] /\ tailIndex'[q] = tailIndex[q]
      /\ dequeueOptimisticCount'[q] = dequeueOptimisticCount[q]
      /\ dequeueOvercommit'[q] = dequeueOvercommit[q] /\ received'[q] = received[q] /\ get' = get
  BY <1>1 DEF TryDequeue
<1>3. Gone(q)' = Gone(q)
  BY <1>2 DEF Gone
<1> QED
  BY <1>2, <1>3 DEF SameClaims, Rem, Claimed, Headed, Turn

LEMMA TryDequeueKeepsQ ==
    ASSUME IInv, NEW place, NEW n, QNow(place, n), Idle, TryDequeue
    PROVE  QueuesNow'
<1>1. /\ get.at = "drain" /\ get' = get /\ TypesFit /\ get \in GetRecords /\ CallsAgree
      /\ FreeListNow(place, n) /\ PlacesKnown(place, created)
      /\ UNCHANGED <<tailIndex, dequeueOvercommit, tailBlock, blockIndex, pool, put>>
  BY DEF TryDequeue, DequeueGranted, Getting, QNow, TypesFit
<1>2. PICK p \in Producers :
         /\ p = ProducerList[Best] /\ Gone(p) < Sent(p) /\ Rem(p) = Gone(p) \div BLOCK_SIZE
         /\ NumbersFit(p) /\ headIndex[p] = Wrap(Start + Gone(p))
         /\ dequeueOptimisticCount[p] = Wrap(Start + Gone(p))
         /\ Slot(headIndex[p]) = Gone(p) % BLOCK_SIZE
  BY DrainFacts
<1>3. PICK e, b : e = EntryFrom(Header(p).index, Header(p).tail, Pub(p) - 1, Rem(p)) /\ b = entries[p][e].value
  OBVIOUS
<1>4. /\ headIndex' = [headIndex EXCEPT ![p] = Wrap(@ + 1)]
      /\ dequeueOptimisticCount' = [dequeueOptimisticCount EXCEPT ![p] = Wrap(@ + 1)]
      /\ \E x : ElementsOf(x, b, Gone(p) % BLOCK_SIZE, 1) /\ received' = [received EXCEPT ![p] = @ \o x]
      /\ TakenOut(b, Gone(p) % BLOCK_SIZE, 1)
      /\ (Gone(p) % BLOCK_SIZE) + 1 <= BLOCK_SIZE
      /\ IF (Gone(p) % BLOCK_SIZE) + 1 = BLOCK_SIZE
         THEN EntryEmptied(p, e) /\ ListBecomes(AddedAlone(TheList, b))
         ELSE entries' = entries /\ ListBecomes(TheList)
  <2>1. DrainEffect(p, e, b)
    BY <1>2, <1>3, DrainTakes
  <2> QED
    BY ONLY <2>1 DEF DrainEffect
<1>5. PICK x : ElementsOf(x, b, Gone(p) % BLOCK_SIZE, 1) /\ received' = [received EXCEPT ![p] = @ \o x]
  BY <1>4
<1>6. PICK k \in Nat \ {0} : k = 1
  OBVIOUS
<1>7. PICK gone \in Nat, sent \in Nat, rem \in Nat, ins \in Nat :
        gone = Gone(p) /\ sent = Sent(p) /\ rem = Rem(p) /\ ins = Ins(p)
  BY BlocksHold
<1>8. b = entries[p][EntryFrom(Header(p).index, Header(p).tail, Pub(p) - 1, Rem(p))].value
  BY <1>3
<1>9. Gone(p) + k <= Sent(p) /\ (Gone(p) % BLOCK_SIZE) + k <= BLOCK_SIZE
      /\ ElementsOf(x, b, Gone(p) % BLOCK_SIZE, k) /\ TakenOut(b, Gone(p) % BLOCK_SIZE, k)
  BY <1>2, <1>4, <1>5, <1>6, <1>7
<1>10. /\ received'[p] = [i \in 1 .. Gone(p) + k |-> i] /\ Gone(p)' = Gone(p) + k
       /\ received' \in [Producers -> Seq(Nat)]
  <2>1. Gone(p) < Sent(p) /\ Rem(p) = Gone(p) \div BLOCK_SIZE /\ Gone(p) + k <= Sent(p)
    BY <1>2, <1>9
  <2>2. /\ (Gone(p) % BLOCK_SIZE) + k <= BLOCK_SIZE
        /\ ElementsOf(x, b, Gone(p) % BLOCK_SIZE, k) /\ received' = [received EXCEPT ![p] = @ \o x]
    BY <1>5, <1>9
  <2>3. received'[p] = [i \in 1 .. Gone(p) + k |-> i] /\ Gone(p)' = Gone(p) + k
    BY <1>8, <2>1, <2>2, ElementsReceived
  <2>4. received' \in [Producers -> Seq(Nat)]
    BY <1>8, <2>1, <2>2, ElementsReceived
  <2> QED
    BY <2>3, <2>4
<1>11. /\ BlocksFilled(place, p, count', elements', Gone(p) + k, End(p)) /\ count' \in [Blocks -> Int]
       /\ \A q \in Producers \ {p} : SameFilled(place, q)
  <2>1. Gone(p) < Sent(p) /\ Rem(p) = Gone(p) \div BLOCK_SIZE
    BY <1>2
  <2>2. (Gone(p) % BLOCK_SIZE) + k <= BLOCK_SIZE /\ TakenOut(b, Gone(p) % BLOCK_SIZE, k)
    BY <1>9
  <2>3. BlocksFilled(place, p, count', elements', Gone(p) + k, End(p)) /\ count' \in [Blocks -> Int]
    BY <1>8, <2>1, <2>2, FilledThen
  <2>4. \A q \in Producers \ {p} : SameFilled(place, q)
    BY <1>8, <2>1, <2>2, FilledThen
  <2> QED
    BY <2>3, <2>4
<1>12. NumbersFit(p)'
  <2>1. received'[p] = [i \in 1 .. gone + 1 |-> i] /\ Gone(p)' = gone + 1
    BY <1>6, <1>7, <1>10
  <2>2. headIndex'[p] = Wrap(headIndex[p] + 1)
        /\ dequeueOptimisticCount'[p] = Wrap(dequeueOptimisticCount[p] + 1)
    <3>1. DOMAIN headIndex = Producers /\ DOMAIN dequeueOptimisticCount = Producers
      BY DEF IInv, IndexesFit
    <3> QED
      BY <1>4, <3>1
  <2>3. headIndex[p] = Wrap(Start + gone) /\ dequeueOptimisticCount[p] = Wrap(Start + gone)
        /\ gone < Sent(p) /\ Sent(p) \in Nat
    BY <1>2, <1>7
  <2> QED
    BY <1>1, <1>2, <1>7, <2>1, <2>2, <2>3, DrainNumbers
<1>13. GetKnows(get, Gone(Turn))' /\ ScanNow'
  BY <1>1 DEF GetKnows, ScanNow, Scanning, Locating
<1>14. \A q \in Producers \ {p} :
         /\ headIndex'[q] = headIndex[q] /\ dequeueOptimisticCount'[q] = dequeueOptimisticCount[q]
         /\ dequeueOvercommit'[q] = dequeueOvercommit[q] /\ SameClaims(q)
  BY <1>2, DrainOthers
<1>15. CASE (gone % BLOCK_SIZE) + k # BLOCK_SIZE
  <2>1. entries' = entries /\ UNCHANGED freeListVars
    BY <1>4, <1>6, <1>7, <1>15 DEF ListBecomes, TheList, freeListVars
  <2>2. UNCHANGED <<tailIndex, tailBlock, index, pool, put, freeListVars>>
    BY <1>1, <2>1 DEF index
  <2>3. Rem(p)' = Rem(p)
    <3>1. Rem(p)' = ((gone + k) \div BLOCK_SIZE) - 0
      BY <1>1, <1>7, <1>10 DEF Rem
    <3>2. (gone + k) \div BLOCK_SIZE = gone \div BLOCK_SIZE
      BY <1>7, <1>9, <1>15, GoneInBlock
    <3> QED
      BY <1>2, <1>7, <3>1, <3>2
  <2>4. get.at # "free" /\ get'.at # "free" /\ get' \in GetRecords
    BY <1>1
  <2> QED
    BY <1>2, <1>5, <1>8, <1>9, <1>12, <1>13, <1>14, <2>2, <2>3, <2>4, TakenStep
<1>16. CASE (gone % BLOCK_SIZE) + k = BLOCK_SIZE
  <2>1. EntryEmptied(p, e) /\ ListBecomes(AddedAlone(TheList, b))
    BY <1>4, <1>6, <1>7, <1>16
  <2>2. /\ ValueSet(entries'[p], entries[p], e, 0) /\ DOMAIN entries' = Producers
        /\ \A q \in Producers \ {p} : entries'[q] = entries[q]
    BY <1>1, <2>1 DEF TypesFit, ValueSet, EntryEmptied
  <2>3. (gone + k) \div BLOCK_SIZE = rem + 1 /\ Rem(p)' = Rem(p) + 1
    <3>1. Rem(p)' = ((gone + k) \div BLOCK_SIZE) - 0
      BY <1>1, <1>7, <1>10 DEF Rem
    <3>2. (gone + k) \div BLOCK_SIZE = (gone \div BLOCK_SIZE) + 1
      BY <1>7, <1>9, <1>16, GoneInBlock
    <3> QED
      BY <1>2, <1>7, <3>1, <3>2
  <2>4. Rem(p) < Ins(p) /\ b \in Blocks /\ place[b].at = "index" /\ place[b].by = p
    <3>1. Gone(p) < Sent(p) /\ Rem(p) = Gone(p) \div BLOCK_SIZE
      BY <1>2
    <3> QED
      BY <1>8, <3>1, FirstBlock DEF IsFirst
  <2>5. Sent(p) % BLOCK_SIZE # 0 \/ put[p].at \in ElementSteps => Rem(p) + 1 <= Ins(p) - 1
    <3>1. PICK B \in Nat \ {0}, h \in Nat : B = BLOCK_SIZE /\ h = rem + 1
      BY Sizes
    <3>2. gone = B * (gone \div B) + (gone % B)
      <4>1. gone \in Int /\ gone >= 0
        OBVIOUS
      <4> QED
        BY <4>1, DivMod
    <3>3. gone = B * rem + (gone % B)
      BY <1>2, <1>7, <3>1, <3>2
    <3>4. h * B = B * rem + B
      BY <3>1
    <3>5. PICK y \in Int : y = B * rem
      OBVIOUS
    <3>6. (gone % B) + k = B /\ gone % B \in Int
      <4>1. gone % B \in 0 .. B - 1
        BY DivMod
      <4> QED
        BY <1>16, <3>1, <4>1
    <3>7. h * B = gone + k
      BY <3>3, <3>4, <3>5, <3>6
    <3>8. h * BLOCK_SIZE <= Sent(p)
      BY <1>7, <1>9, <3>1, <3>7
    <3>9. Sent(p) % BLOCK_SIZE # 0 \/ put[p].at \in ElementSteps => h <= Ins(p) - 1
      BY <3>8, FullBlocks
    <3> QED
      BY <1>7, <3>1, <3>9
  <2>6. n \in Nat
    BY <1>1 DEF FreeListNow, FreeListFits, ChainFits
  <2>7. PICK w : w = Spot("list", Consumer, n + 1)
    OBVIOUS
  <2>8. w.at = "list" /\ w.num = n + 1
    BY <2>7 DEF Spot
  <2>9. PICK place2 : Moves(place2, place, b, w)
    <3>1. DOMAIN place = Blocks
      BY <1>1 DEF FreeListNow, FreeListFits, RefsFit
    <3> QED
      BY <2>4, <3>1, MovesExist
  <2>10. ProducerNow(place2, p)'
    <3>1. ProducerNow(place, p)
      BY PutFact
    <3>2. w.at \notin {"index", "hand"}
      BY <2>8
    <3>3. UNCHANGED <<tailIndex, tailBlock, blockIndex, put>>
      BY <1>1
    <3>4. PICK gone2 : gone2 = Gone(p) + k
      OBVIOUS
    <3>5. Gone(p)' = gone2 /\ BlocksFilled(place, p, count', elements', gone2, End(p))
      BY <1>10, <1>11, <3>4
    <3> QED
      BY <1>3, <2>2, <2>3, <2>4, <2>5, <2>9, <3>1, <3>2, <3>3, <3>5, LeavesProducer
  <2>11. PICK list2 : list2 = AddedAlone(TheList, b)
    OBVIOUS
  <2>12. ListFits(TheList, place, n)
    BY <1>1, NoCalls DEF ListFits, TheList, FreeListNow
  <2>13. PICK m : ListFits(list2, place2, m)
    BY <2>4, <2>8, <2>9, <2>11, <2>12, AddsAlone
  <2>14. FreeListNow(place2, m)' /\ call' = call
    BY <2>1, <2>11, <2>13 DEF ListFits, FreeListNow, ListBecomes
  <2>15. PlacesKnown(place2, created')
    <3>1. DOMAIN place = Blocks
      BY <1>1 DEF FreeListNow, FreeListFits, RefsFit
    <3>2. place2[b] = w /\ \A d \in Blocks \ {b} : place2[d] = place[d]
      BY <2>4, <2>9, <3>1 DEF Moves
    <3>3. w.at \in Places /\ ~ (b > created)
      BY <1>1, <2>4, <2>8 DEF PlacesKnown, Places, CallPlaces
    <3>4. created' = created
      BY <1>1 DEF pool
    <3> QED
      BY <1>1, <2>8, <3>2, <3>3, <3>4 DEF PlacesKnown
  <2>16. CallsAgree'
    BY <1>1, <2>14 DEF CallsAgree
  <2>17. TypesFit'
    BY <1>1, <1>9, <1>10, <1>11, <2>2 DEF TypesFit, pool, TakenOut
  <2>18. \A q \in Producers \ {p} :
           Quiet(q) /\ SameClaims(q) /\ SamePlaces(place, place2, q) /\ SameFilled(place, q)
    <3>1. ASSUME NEW q \in Producers \ {p}
          PROVE  Quiet(q) /\ SameClaims(q) /\ SamePlaces(place, place2, q) /\ SameFilled(place, q)
      <4>1. Quiet(q)
        <5>1. tailIndex' = tailIndex /\ tailBlock' = tailBlock /\ blockIndex' = blockIndex /\ put' = put
          BY <1>1
        <5>2. received'[q] = received[q] /\ entries'[q] = entries[q]
          BY <1>2, <2>2, DrainOthers
        <5> QED
          BY <1>14, <5>1, <5>2 DEF Quiet
      <4>2. SamePlaces(place, place2, q)
        BY <2>4, <2>8, <2>9, OthersStay
      <4> QED
        BY <1>11, <1>14, <4>1, <4>2
    <3> QED
      BY <3>1
  <2> QED
    BY <1>12, <1>13, <2>10, <2>14, <2>15, <2>16, <2>17, <2>18, ConsumerStep
<1> QED
  BY <1>15, <1>16

-----------------------------------------------------------------------------
(* The queue is destroyed                                                  *)

\* The list when a producer's queue has given its last block back.
NextList(list, p) == IF LastBlock(p) THEN AddedAlone(list, tailBlock[p]) ELSE list

Frees(f, k) ==
    /\ f = [i \in 0 .. k |-> f[i]] /\ f[0] = TheList
    /\ \A i \in 1 .. k : f[i] = NextList(f[i - 1], ProducerList[i])

LEMMA FreesExist ==
    ASSUME NEW n \in Nat
    PROVE  \E f : Frees(f, n)
<1> DEFINE missing == {k \in 0 .. n : ~ \E f : Frees(f, k)}
<1>1. SUFFICES ASSUME missing # {}
               PROVE  FALSE
  <2>1. n \in 0 .. n
    OBVIOUS
  <2> QED
    BY <2>1
<1>2. PICK k \in missing : \A j \in missing : k <= j
  <2>1. missing \in SUBSET Nat
    OBVIOUS
  <2> HIDE DEF missing
  <2> QED
    BY <1>1, <2>1, Smallest
<1>3. k # 0
  <2>1. Frees([i \in 0 .. 0 |-> TheList], 0)
    BY DEF Frees
  <2> QED
    BY <2>1
<1>4. k - 1 \in 0 .. n /\ k - 1 \notin missing /\ k \in 1 .. n
  BY <1>2, <1>3
<1>5. PICK f : Frees(f, k - 1)
  BY <1>4
<1>6. PICK last : last = NextList(f[k - 1], ProducerList[k])
  OBVIOUS
<1>7. PICK g : g = [i \in 0 .. k |-> IF i = k THEN last ELSE f[i]]
  OBVIOUS
<1>8. g = [i \in 0 .. k |-> g[i]] /\ \A i \in 0 .. k : g[i] = IF i = k THEN last ELSE f[i]
  BY <1>7
<1>9. Frees(g, k)
  <2>1. g[0] = TheList
    <3>1. 0 \in 0 .. k /\ 0 # k /\ f[0] = TheList
      BY <1>3, <1>4, <1>5 DEF Frees
    <3> QED
      BY <1>8, <3>1
  <2>2. ASSUME NEW i \in 1 .. k
        PROVE  g[i] = NextList(g[i - 1], ProducerList[i])
    <3>1. i - 1 \in 0 .. k /\ i - 1 # k /\ i \in 0 .. k
      BY <1>4
    <3>2. g[i - 1] = f[i - 1]
      BY <1>8, <3>1
    <3>3. CASE i = k
      BY <1>6, <1>8, <3>1, <3>2, <3>3
    <3>4. CASE i # k
      <4>1. i \in 1 .. k - 1
        BY <1>4, <3>4
      <4>2. f[i] = NextList(f[i - 1], ProducerList[i])
        BY <1>5, <4>1 DEF Frees
      <4> QED
        BY <1>8, <3>1, <3>2, <3>4, <4>2
    <3> QED
      BY <3>3, <3>4
  <2> QED
    BY <1>8, <2>1, <2>2 DEF Frees
<1> QED
  BY <1>9

LEMMA DestroyFrees ==
    ASSUME Destroy
    PROVE  \E f : Frees(f, N) /\ ListBecomes(f[N])
<1> DEFINE step(f) == [n \in 0 .. N |-> IF n = 0 THEN TheList
                                       ELSE IF LastBlock(ProducerList[n])
                                       THEN AddedAlone(f[n - 1], tailBlock[ProducerList[n]])
                                       ELSE f[n - 1]]
           list == CHOOSE f : f = step(f)
<1>1. ListBecomes(list[N])
  BY DEF Destroy, N
<1>2. N \in Nat
  BY ProducersFacts
<1>3. \A f : f = step(f) <=> Frees(f, N)
  <2>1. ASSUME NEW f, Frees(f, N)
        PROVE  f = step(f)
    <3>1. f[0] = TheList
      BY <2>1 DEF Frees
    <3>2. PICK g : g = step(f)
      OBVIOUS
    <3>3. \A i \in 0 .. N : f[i] = g[i]
      <4>1. ASSUME NEW i \in 0 .. N
            PROVE  f[i] = g[i]
        <5>1. CASE i = 0
          BY <3>1, <3>2, <5>1
        <5>2. CASE i # 0
          <6>1. i \in 1 .. N
            BY <1>2, <5>2
          <6>2. f[i] = NextList(f[i - 1], ProducerList[i])
            BY <2>1, <6>1 DEF Frees
          <6> QED
            BY <3>2, <5>2, <6>2 DEF NextList
        <5> QED
          BY <5>1, <5>2
      <4> QED
        BY <4>1
    <3>5. f = [i \in 0 .. N |-> f[i]]
      BY <2>1 DEF Frees
    <3>6. g = [i \in 0 .. N |-> g[i]]
      BY <3>2
    <3> HIDE DEF step
    <3> QED
      BY <3>2, <3>3, <3>5, <3>6
  <2>2. ASSUME NEW f, f = step(f)
        PROVE  Frees(f, N)
    <3>1. PICK g : g = step(f)
      OBVIOUS
    <3>2. g = [i \in 0 .. N |-> g[i]] /\ g[0] = TheList
      BY <1>2, <3>1
    <3>3. ASSUME NEW i \in 1 .. N
          PROVE  g[i] = NextList(f[i - 1], ProducerList[i])
      <4>1. i \in 0 .. N /\ i # 0
        BY <1>2
      <4> QED
        BY <3>1, <4>1 DEF NextList
    <3>4. f = g
      BY <2>2, <3>1
    <3> HIDE DEF step
    <3> QED
      BY <3>2, <3>3, <3>4 DEF Frees
  <2> QED
    BY <2>1, <2>2
<1>4. \E f : f = step(f)
  BY <1>2, <1>3, FreesExist
<1>5. list = step(list)
  BY <1>4
<1>6. Frees(list, N)
  BY <1>3, <1>5
<1> QED
  BY <1>1, <1>6

\* In the end the index of a producer has its last block, unless that is empty.
LEMMA LastBlocks ==
    ASSUME IInv, NEW place, NEW n, QNow(place, n), get.at = "drain", ~ Positive, Idle, NEW p \in Producers
    PROVE  /\ LastBlock(p) => /\ tailBlock[p] \in Blocks /\ place[tailBlock[p]].at = "index"
                              /\ place[tailBlock[p]].by = p
           /\ \A b \in Blocks : place[b].at = "index" /\ place[b].by = p => LastBlock(p) /\ b = tailBlock[p]
<1>1. PICK ix, tail, es, pub, c, tb :
        /\ ix = Header(p).index /\ tail = Header(p).tail /\ es = entries[p] /\ pub = Pub(p)
        /\ c = put[p] /\ tb = tailBlock[p]
  OBVIOUS
<1>2. PICK sent \in Nat, rem \in Nat, ins \in Nat : sent = Sent(p) /\ rem = Rem(p) /\ ins = Ins(p)
  BY BlocksHold
<1>3. c.at = "idle"
  BY <1>1 DEF Idle
<1>4. PutFits(c, ix, tail, es, rem, ins, pub, sent, tb) /\ IndexPlaces(place, p, ix, tail, es, rem, ins, pub)
  BY <1>1, <1>2, PutFact
<1>5. rem = sent \div BLOCK_SIZE
  <2>1. Gone(p) = sent
    BY <1>2, NothingLeft
  <2>2. Rem(p) = (sent \div BLOCK_SIZE) - 0
    BY <2>1 DEF Rem
  <2>3. sent \div BLOCK_SIZE \in Nat
    <3>1. 0 \in Nat /\ (sent % BLOCK_SIZE) + 0 <= BLOCK_SIZE
      BY Sizes
    <3> QED
      BY <3>1, GoneInBlock
  <2> QED
    BY <1>2, <2>2, <2>3
<1>6. ins = rem + (IF sent % BLOCK_SIZE # 0 THEN 1 ELSE 0)
  BY <1>1, <1>2, <1>3, <1>5 DEF Ins, ElementSteps
<1>7. Slot(tailIndex[p]) = sent % BLOCK_SIZE
  <2>1. NumbersFit(p)
    BY PutFact
  <2> QED
    BY <1>2, <2>1, SlotIs DEF NumbersFit
<1>8. CASE sent % BLOCK_SIZE # 0
  <2>1. rem \in rem .. ins - 1 /\ rem = ins - 1 /\ \A i \in rem .. ins - 1 : i = rem
    BY <1>6, <1>8
  <2>2. tb = es[EntryFrom(ix, tail, pub - 1, rem)].value
    BY <1>4, <1>8, <2>1 DEF PutFits
  <2>3. tb \in Blocks /\ place[tb].at = "index" /\ place[tb].by = p
    BY <1>4, <2>1, <2>2 DEF IndexPlaces
  <2>4. LastBlock(p)
    BY <1>1, <1>7, <1>8, <2>3, BlockNumbers DEF LastBlock
  <2>5. \A b \in Blocks : place[b].at = "index" /\ place[b].by = p => b = tb
    BY <1>4, <2>1, <2>2 DEF IndexPlaces
  <2> QED
    BY <1>1, <2>3, <2>4, <2>5
<1>9. CASE sent % BLOCK_SIZE = 0
  <2>1. ~ LastBlock(p)
    BY <1>7, <1>9 DEF LastBlock
  <2>2. \A i : i \notin rem .. ins - 1
    BY <1>6, <1>9
  <2>3. \A b \in Blocks : ~ (place[b].at = "index" /\ place[b].by = p)
    BY <1>4, <2>2 DEF IndexPlaces
  <2> QED
    BY <2>1, <2>3
<1> QED
  BY <1>8, <1>9

\* The blocks of the first k producers have been given back.
Given(place2, place, k) ==
    \A b \in Blocks :
      place2[b].at = IF place[b].at = "index" /\ \E i \in 1 .. k : ProducerList[i] = place[b].by
                     THEN "list" ELSE place[b].at

LEMMA NextGiven ==
    ASSUME IInv, NEW place, NEW n, QNow(place, n), get.at = "drain", ~ Positive, Idle, NEW k \in 1 .. N,
           NEW list, NEW place2, NEW m, ListFits(list, place2, m), Given(place2, place, k - 1)
    PROVE  \E place3, l : ListFits(NextList(list, ProducerList[k]), place3, l) /\ Given(place3, place, k)
<1>1. PICK p \in Producers : p = ProducerList[k]
  BY ProducersFacts
<1>2. N \in Nat /\ k - 1 \in Nat
  BY ProducersFacts
<1>3. /\ ~ \E i \in 1 .. k - 1 : ProducerList[i] = p
      /\ \A q : (\E i \in 1 .. k : ProducerList[i] = q) <=> q = p \/ \E i \in 1 .. k - 1 : ProducerList[i] = q
  <2>1. \A i \in 1 .. k - 1 : i \in 1 .. N /\ i # k
    BY <1>2
  <2>2. \A i : i \in 1 .. k <=> i = k \/ i \in 1 .. k - 1
    BY <1>2
  <2>3. \A i \in 1 .. N : ProducerList[i] = p => i = k
    BY <1>1, ProducersFacts
  <2> QED
    BY <1>1, <2>1, <2>2, <2>3
<1>4. CASE LastBlock(p)
  <2>1. PICK b \in Blocks : b = tailBlock[p] /\ place[b].at = "index" /\ place[b].by = p
    BY <1>4, LastBlocks
  <2>2. \A d \in Blocks : place[d].at = "index" /\ place[d].by = p => d = b
    BY <2>1, LastBlocks
  <2>3. place2[b].at = "index"
    BY <1>3, <2>1 DEF Given
  <2>4. m \in Nat /\ DOMAIN place2 = Blocks
    BY DEF ListFits, FreeListFits, ChainFits, RefsFit
  <2>5. PICK w : w = Spot("list", Consumer, m + 1)
    OBVIOUS
  <2>6. w.at = "list" /\ w.num = m + 1
    BY <2>5 DEF Spot
  <2>7. PICK place3 : Moves(place3, place2, b, w)
    BY <2>4, MovesExist
  <2>8. PICK list2 : list2 = AddedAlone(list, b)
    OBVIOUS
  <2>9. PICK l : ListFits(list2, place3, l)
    BY <2>3, <2>6, <2>7, <2>8, AddsAlone
  <2>10. NextList(list, ProducerList[k]) = list2
    BY <1>1, <1>4, <2>1, <2>8 DEF NextList
  <2>11. Given(place3, place, k)
    <3>1. place3[b] = w /\ \A d \in Blocks \ {b} : place3[d] = place2[d]
      BY <2>4, <2>7 DEF Moves
    <3>2. ASSUME NEW d \in Blocks
          PROVE  place3[d].at = IF place[d].at = "index" /\ \E i \in 1 .. k : ProducerList[i] = place[d].by
                                THEN "list" ELSE place[d].at
      <4>1. CASE d = b
        BY <1>3, <2>1, <2>6, <3>1, <4>1
      <4>2. CASE d # b
        <5>1. place3[d] = place2[d]
          BY <3>1, <4>2
        <5>2. ~ (place[d].at = "index" /\ place[d].by = p)
          BY <2>2, <4>2
        <5> QED
          BY <1>3, <5>1, <5>2 DEF Given
      <4> QED
        BY <4>1, <4>2
    <3> QED
      BY <3>2 DEF Given
  <2> QED
    BY <2>9, <2>10, <2>11
<1>5. CASE ~ LastBlock(p)
  <2>1. NextList(list, ProducerList[k]) = list
    BY <1>1, <1>5 DEF NextList
  <2>2. \A b \in Blocks : ~ (place[b].at = "index" /\ place[b].by = p)
    BY <1>5, LastBlocks
  <2>3. Given(place2, place, k)
    BY <1>3, <2>2 DEF Given
  <2> QED
    BY <2>1, <2>3
<1> QED
  BY <1>4, <1>5

LEMMA AllGiven ==
    ASSUME IInv, NEW place, NEW n, QNow(place, n), get.at = "drain", ~ Positive, Idle, NEW f, Frees(f, N)
    PROVE  \E place2, m : ListFits(f[N], place2, m) /\ Given(place2, place, N)
<1>1. N \in Nat
  BY ProducersFacts
<1> DEFINE missing == {k \in 0 .. N : ~ \E place2, m : ListFits(f[k], place2, m) /\ Given(place2, place, k)}
<1>2. SUFFICES ASSUME missing # {}
               PROVE  FALSE
  <2>1. N \in 0 .. N
    BY <1>1
  <2> QED
    BY <2>1
<1>3. PICK k \in missing : \A j \in missing : k <= j
  <2>1. missing \in SUBSET Nat
    BY <1>1
  <2> HIDE DEF missing
  <2> QED
    BY <1>2, <2>1, Smallest
<1>4. k # 0
  <2>1. ListFits(TheList, place, n)
    <3>1. FreeListNow(place, n) /\ CallsAgree
      BY DEF QNow
    <3> QED
      BY <3>1, NoCalls DEF ListFits, TheList, FreeListNow
  <2>2. Given(place, place, 0)
    BY DEF Given
  <2>3. f[0] = TheList
    BY DEF Frees
  <2> QED
    BY <2>1, <2>2, <2>3
<1>5. k - 1 \in 0 .. N /\ k - 1 \notin missing /\ k \in 1 .. N
  BY <1>1, <1>3, <1>4
<1>6. PICK place2, m : ListFits(f[k - 1], place2, m) /\ Given(place2, place, k - 1)
  BY <1>5
<1>7. PICK list : list = f[k - 1]
  OBVIOUS
<1>8. f[k] = NextList(list, ProducerList[k])
  BY <1>5, <1>7 DEF Frees
<1>9. \E place3, l : ListFits(NextList(list, ProducerList[k]), place3, l) /\ Given(place3, place, k)
  <2>1. ListFits(list, place2, m)
    BY <1>6, <1>7
  <2> QED
    BY <1>5, <1>6, <2>1, NextGiven
<1> QED
  BY <1>3, <1>8, <1>9

\* While nobody does anything, a block is in an index or in the list, or it is not in use.
LEMMA QuietPlaces ==
    ASSUME IInv, NEW place, NEW n, QNow(place, n), get.at = "drain", Idle, NEW b \in Blocks
    PROVE  place[b].at \in {"unused", "index", "list"}
<1>1. /\ PlacesKnown(place, created) /\ CallsAgree /\ InCalls(call, place)
      /\ RefsFit(freeListRefs, call, place)
  BY DEF QNow, FreeListNow, FreeListFits
<1>2. \A t \in Threads : call[t].at = "out"
  BY <1>1, NoCalls
<1>3. place[b].at # "hand"
  <2>1. \A p \in Producers : HandPlaces(place, p, put[p]) /\ put[p].at = "idle"
    BY PutFact DEF Idle
  <2> QED
    BY <1>1, <2>1 DEF HandPlaces, PlacesKnown
<1>4. ASSUME NEW at \in CallPlaces
      PROVE  place[b].at # at
  <2>1. \A t \in Threads : ~ Has(call[t], b, at)
    BY <1>2 DEF Has, CallPlaces
  <2> QED
    BY <1>1, <2>1 DEF InCalls
<1>5. place[b].at # "owed"
  <2>1. Lookers(call, b) = {}
    BY <1>2 DEF Lookers, LooksAt
  <2>2. Cardinality(Lookers(call, b)) = 0
    BY <2>1, FS_EmptySet
  <2> QED
    BY <1>1, <2>2 DEF RefsFit
<1> QED
  BY <1>1, <1>3, <1>4, <1>5 DEF PlacesKnown, Places, Elsewhere

\* What the last list has, and owes.
LEMMA ListEnds ==
    ASSUME NEW place, NEW n, ListFits(TheList, place, n), NEW S,
           S = {b \in Blocks : place[b].at = "list"},
           \A b \in Blocks : place[b].at \in {"unused", "list"}
    PROVE  OnFreeList = S /\ Owed = {}
<1>1. /\ ChainFits(freeListHead, freeListNext, place, n) /\ RefsFit(freeListRefs, call, place)
      /\ \A t \in Threads : call[t].at = "out"
  BY DEF ListFits, TheList, FreeListFits
<1>2. OnFreeList = S
  BY <1>1, ListIsRead
<1>3. ASSUME NEW b \in Blocks
      PROVE  freeListRefs[b] \in 0 .. 1
  <2>1. Lookers(call, b) = {}
    BY <1>1 DEF Lookers, LooksAt
  <2>2. Cardinality(Lookers(call, b)) = 0
    BY <2>1, FS_EmptySet
  <2>3. freeListRefs[b] = 0 + Extra(place[b].at)
    BY <1>1, <2>2 DEF RefsFit
  <2> QED
    BY <2>3, Counts
<1>4. Owed = {}
  <2>1. SHOULD_BE_ON_FREELIST \in Nat /\ SHOULD_BE_ON_FREELIST > 1
    BY FlagIsHigh
  <2> QED
    BY <1>3, <2>1 DEF Owed
<1> QED
  BY <1>2, <1>4

\* All blocks in use are in the list.
Ended ==
    /\ CallsAgree /\ created \in 0 .. MaxBlocks
    /\ \E place, n :
         /\ ListFits(TheList, place, n)
         /\ \A b \in Blocks : place[b].at = IF b > created THEN "unused" ELSE "list"

LEMMA EndedWell ==
    ASSUME Ended, get.at = "destroyed"
    PROVE  BlocksInOnePlace
<1>1. created \in Nat /\ created <= MaxBlocks /\ MaxBlocks \in Nat
  BY FreeListAssumption DEF Ended
<1>2. PICK place, n :
        /\ ListFits(TheList, place, n)
        /\ \A b \in Blocks : place[b].at = IF b > created THEN "unused" ELSE "list"
  BY DEF Ended
<1>3. PICK S : S = 1 .. created
  OBVIOUS
<1>4. S = {b \in Blocks : place[b].at = "list"}
  BY <1>1, <1>2, <1>3 DEF Blocks
<1>5. \A b \in Blocks : place[b].at \in {"unused", "list"}
  BY <1>2
<1>6. OnFreeList = S /\ Owed = {}
  BY <1>2, <1>4, <1>5, ListEnds
<1> QED
  BY <1>3, <1>6 DEF BlocksInOnePlace

LEMMA ListThen ==
    ASSUME NEW list, NEW place, NEW n, ListFits(list, place, n), ListBecomes(list)
    PROVE  ListFits(TheList, place, n)'
<1>1. TheList'.head = list.head /\ TheList'.refs = list.refs /\ TheList'.next = list.next /\ call' = call
  BY DEF ListBecomes, TheList
<1> QED
  BY <1>1 DEF ListFits

LEMMA DestroyEnds ==
    ASSUME IInv, NEW place, NEW n, QNow(place, n), Idle, Destroy
    PROVE  Ended' /\ Idle' /\ get'.at = "destroyed"
<1>1. get.at = "drain" /\ ~ Positive /\ UNCHANGED <<pool, put>> /\ call' = call
      /\ PlacesKnown(place, created) /\ CallsAgree
  BY DEF Destroy, Getting, ListBecomes, QNow
<1>2. get'.at = "destroyed"
  BY DEF Destroy, NoGet
<1>3. PICK f : Frees(f, N) /\ ListBecomes(f[N])
  BY DestroyFrees
<1>4. PICK place2, m : ListFits(f[N], place2, m) /\ Given(place2, place, N)
  BY <1>1, <1>3, AllGiven
<1>5. \A b \in Blocks : place2[b].at = IF b > created THEN "unused" ELSE "list"
  <2>1. ASSUME NEW b \in Blocks
        PROVE  place2[b].at = IF b > created THEN "unused" ELSE "list"
    <3>1. place[b].at \in {"unused", "index", "list"} /\ (place[b].at = "unused" <=> b > created)
      BY <1>1, QuietPlaces DEF PlacesKnown
    <3>2. place[b].at = "index" => \E i \in 1 .. N : ProducerList[i] = place[b].by
      BY <1>1, ProducersFacts DEF PlacesKnown
    <3> QED
      BY <1>4, <3>1, <3>2 DEF Given
  <2> QED
    BY <2>1
<1>6. created' = created /\ created \in 0 .. MaxBlocks
  BY <1>1 DEF QNow, TypesFit, pool
<1>7. ListFits(TheList, place2, m)'
  BY <1>3, <1>4, ListThen
<1>8. CallsAgree'
  BY <1>1, <1>2 DEF CallsAgree
<1>9. Idle'
  BY <1>1 DEF Idle
<1> QED
  BY <1>2, <1>5, <1>6, <1>7, <1>8, <1>9 DEF Ended

-----------------------------------------------------------------------------
(* A step of the free list                                                 *)

\* A call that gets goes on getting, one that adds goes on adding.
CallGoesOn(c, d) ==
    /\ c.gets <=> d.gets
    /\ d.gets => c.at \in GetCallSteps
    /\ ~ d.gets => c.at \in AddCallSteps

LEMMA ListCallGoesOn ==
    ASSUME NEW place, NEW n, FreeListNow(place, n), NEW t \in Threads, FreeListStep(t),
           IF call[t].gets THEN call[t].at \in GetCallSteps ELSE call[t].at \in AddCallSteps
    PROVE  \E c \in CallRecords : CallIs(t, c) /\ CallGoesOn(c, call[t])
<1>1. /\ call \in [Threads -> CallRecords] /\ call[t] \in CallRecords /\ freeListHead \in 0 .. MaxBlocks
      /\ freeListNext \in [Blocks -> 0 .. MaxBlocks] /\ CallFits(call[t], freeListNext)
      /\ call[t].head \in 0 .. MaxBlocks /\ call[t].gets \in BOOLEAN
  BY FreeListFacts DEF CallRecords
<1>2. ASSUME NEW at \in AddSteps \cup {"load", "next", "got"}, Goto(t, at),
             at \notin AddSteps => call[t].gets
      PROVE  \E c \in CallRecords : CallIs(t, c) /\ CallGoesOn(c, call[t])
  <2>1. at \in CallSteps
    BY <1>2 DEF CallSteps, GetCallSteps
  <2>2. PICK c \in CallRecords : CallIs(t, c) /\ c.at = at /\ c.gets = call[t].gets
    BY <1>1, <1>2, <2>1, GotoCall
  <2>3. CallGoesOn(c, call[t])
    BY <1>2, <2>2 DEF CallGoesOn, GetCallSteps, AddCallSteps
  <2> QED
    BY <2>2, <2>3
<1>3. ASSUME NEW h \in 0 .. MaxBlocks, TryHead(t, h), call[t].gets
      PROVE  \E c \in CallRecords : CallIs(t, c) /\ CallGoesOn(c, call[t])
  <2>1. PICK c \in CallRecords : CallIs(t, c) /\ HeadCall(c, h)
    BY <1>1, <1>3, TryHeadCall
  <2>2. CallGoesOn(c, call[t])
    BY <1>3, <2>1 DEF CallGoesOn, HeadCall, GetCallSteps
  <2> QED
    BY <2>1, <2>2
<1>4. ASSUME Added(t)
      PROVE  \E c \in CallRecords : CallIs(t, c) /\ CallGoesOn(c, call[t])
  <2>1. PICK c \in CallRecords :
          /\ CallIs(t, c) /\ c.at \in {"empty", "refs", "added"} /\ c.gets = call[t].gets
          /\ (c.at = "added") = (c.gets = FALSE)
    BY <1>1, <1>4, AddedCall
  <2>2. CallGoesOn(c, call[t])
    <3>1. CASE call[t].gets = TRUE
      BY <2>1, <3>1 DEF CallGoesOn, GetCallSteps
    <3>2. CASE call[t].gets = FALSE
      BY <2>1, <3>2 DEF CallGoesOn, AddCallSteps
    <3> QED
      BY <1>1, <3>1, <3>2
  <2> QED
    BY <2>1, <2>2
<1>5. ASSUME NEW at, NEW x \in 0 .. MaxBlocks, call' = [call EXCEPT ![t].at = at, ![t].next = x],
             at \in AddSteps \cup {"take", "took"}, at \notin AddSteps => call[t].gets
      PROVE  \E c \in CallRecords : CallIs(t, c) /\ CallGoesOn(c, call[t])
  <2> DEFINE c == [call[t] EXCEPT !.at = at, !.next = x]
  <2>1. c \in CallRecords /\ c.at = at /\ c.gets = call[t].gets
    BY <1>1, <1>5 DEF CallRecords, GetCallSteps
  <2>2. CallIs(t, c)
    BY <1>5 DEF CallIs
  <2> HIDE DEF c
  <2>3. CallGoesOn(c, call[t])
    BY <1>5, <2>1 DEF CallGoesOn, GetCallSteps, AddCallSteps
  <2> QED
    BY <2>1, <2>2, <2>3
<1>6. 0 \in 0 .. MaxBlocks
  BY FreeListAssumption
<1>7. call[t].at \in {"load", "refs", "next", "take", "took", "release"} => call[t].gets
  BY DEF AddCallSteps, AddSteps
<1>8. CASE LoadHead(t)
  BY <1>1, <1>3, <1>7, <1>8 DEF LoadHead
<1>9. CASE Reference(t)
  BY <1>2, <1>7, <1>9 DEF Reference
<1>10. CASE LoadNext(t)
  <2>1. call[t].at = "next" /\ call[t].head \in Blocks
    BY <1>1, <1>10, BlockNumbers DEF LoadNext, CallFits
  <2>2. PICK x \in 0 .. MaxBlocks : x = freeListNext[call[t].head]
    BY <1>1, <2>1
  <2>3. call' = [call EXCEPT ![t].at = "take", ![t].next = x]
    BY <1>10, <2>2 DEF LoadNext
  <2> QED
    BY <1>5, <1>7, <2>1, <2>3
<1>11. CASE TakeHead(t)
  <2>1. CASE freeListHead = call[t].head
    BY <1>5, <1>6, <1>7, <1>11, <2>1 DEF TakeHead
  <2>2. CASE freeListHead # call[t].head
    <3> DEFINE c == [call[t] EXCEPT !.at = "release", !.next = 0, !.node = call[t].head, !.head = freeListHead]
    <3>1. c \in CallRecords /\ c.at = "release" /\ c.gets = call[t].gets
      BY <1>1, <1>6 DEF CallRecords, GetCallSteps
    <3>2. CallIs(t, c)
      BY <1>11, <2>2 DEF TakeHead, CallIs
    <3> HIDE DEF c
    <3>3. CallGoesOn(c, call[t])
      BY <1>7, <1>11, <3>1 DEF CallGoesOn, TakeHead, GetCallSteps
    <3> QED
      BY <3>1, <3>2, <3>3
  <2> QED
    BY <2>1, <2>2
<1>12. CASE Took(t)
  BY <1>2, <1>7, <1>12 DEF Took
<1>13. CASE Release(t)
  <2>1. call[t].gets
    BY <1>7, <1>13 DEF Release
  <2>2. Goto(t, "addLoad") \/ TryHead(t, call[t].head)
    BY <1>13 DEF Release
  <2>3. CASE Goto(t, "addLoad")
    BY <1>2, <2>3 DEF AddSteps
  <2>4. CASE TryHead(t, call[t].head)
    BY <1>1, <1>3, <2>1, <2>4
  <2> QED
    BY <2>2, <2>3, <2>4
<1>14. CASE FlagNode(t)
  BY <1>2, <1>4, <1>14 DEF FlagNode, AddSteps
<1>15. CASE AddLoad(t)
  BY <1>1, <1>5, <1>15 DEF AddLoad, AddSteps
<1>16. CASE AddLink(t)
  BY <1>2, <1>16 DEF AddLink, AddSteps
<1>17. CASE AddCount(t)
  BY <1>2, <1>17 DEF AddCount, AddSteps
<1>18. CASE AddPush(t)
  BY <1>1, <1>4, <1>5, <1>18 DEF AddPush, AddSteps
<1>19. CASE AddRetry(t)
  BY <1>2, <1>4, <1>19 DEF AddRetry, AddSteps
<1> QED
  BY <1>8, <1>9, <1>10, <1>11, <1>12, <1>13, <1>14, <1>15, <1>16, <1>17, <1>18, <1>19 DEF FreeListStep

\* A block is as it was for its queue.
LEMMA ElsewhereSame ==
    ASSUME NEW place, NEW place2, NEW m, SameElsewhere(place, place2), PlacesKnown(place, m)
    PROVE  /\ PlacesKnown(place2, m)
           /\ \A q \in Producers : SamePlaces(place, place2, q)
<1>1. PlacesKnown(place2, m)
  <2>1. ASSUME NEW b \in Blocks
        PROVE  /\ place2[b].at \in Places
               /\ place2[b].at = "unused" <=> b > m
               /\ place2[b].at \in {"index", "hand"} => place2[b].by \in Producers
    <3>1. /\ place[b].at \in Elsewhere \/ place2[b].at \in Elsewhere => place2[b] = place[b]
          /\ place[b].at \in Places => place2[b].at \in Places
      BY DEF SameElsewhere
    <3>2. /\ place[b].at \in Places /\ (place[b].at = "unused" <=> b > m)
          /\ place[b].at \in {"index", "hand"} => place[b].by \in Producers
      BY DEF PlacesKnown
    <3> QED
      BY <3>1, <3>2 DEF Elsewhere
  <2> QED
    BY <2>1 DEF PlacesKnown
<1>2. \A q \in Producers : SamePlaces(place, place2, q)
  BY DEF SamePlaces, SameElsewhere, Elsewhere
<1> QED
  BY <1>1, <1>2

\* Only the free list changes.
LEMMA ListChanges ==
    ASSUME NEW place, NEW n, QNow(place, n), NEW place2, NEW m, SameElsewhere(place, place2),
           UNCHANGED <<queue, tailBlock, index, blocks, pool, put, get, received>>,
           FreeListNow(place2, m)', CallsAgree'
    PROVE  QueuesNow'
<1>1. TypesFit /\ PlacesKnown(place, created)
  BY DEF QNow
<1>2. /\ tailIndex' = tailIndex /\ headIndex' = headIndex /\ dequeueOptimisticCount' = dequeueOptimisticCount
      /\ dequeueOvercommit' = dequeueOvercommit /\ entries' = entries /\ blockIndex' = blockIndex
      /\ count' = count /\ elements' = elements /\ created' = created /\ poolIndex' = poolIndex
      /\ tailBlock' = tailBlock /\ put' = put /\ received' = received /\ get' = get
  BY DEF queue, index, blocks, pool
<1>3. PlacesKnown(place2, created) /\ \A q \in Producers : SamePlaces(place, place2, q)
  BY <1>1, ElsewhereSame
<1>4. ASSUME NEW q
      PROVE  SameClaims(q) /\ Turn' = Turn /\ Gone(q)' = Gone(q) /\ Quiet(q)
  <2>1. SameClaims(q) /\ Turn' = Turn /\ Gone(q)' = Gone(q)
    BY <1>2, GetSame
  <2>2. Quiet(q)
    BY <1>2 DEF Quiet
  <2> QED
    BY <2>1, <2>2
<1>5. \A q : SameView(q)
  BY <1>4, QuietView DEF SameClaims
<1>6. ASSUME NEW q \in Producers
      PROVE  ProducerNow(place2, q)' /\ NumbersFit(q)'
  <2>1. ProducerNow(place, q) /\ NumbersFit(q)
    BY DEF QNow
  <2>2. SameFilled(place, q)
    BY <1>2 DEF SameFilled
  <2>3. NumbersFit(q)'
    BY <1>4, <2>1, QuietNumbers
  <2>4. SamePlaces(place, place2, q)
    BY <1>3
  <2> QED
    BY <1>5, <2>1, <2>2, <2>3, <2>4, ProducerStays
<1>7. TypesFit'
  BY <1>1, <1>2 DEF TypesFit
<1>8. PlacesKnown(place2, created)'
  BY <1>2, <1>3
<1>9. PICK p : p = Turn
  OBVIOUS
<1>10. Turn' = p /\ Gone(p)' = Gone(p) /\ Pub(p)' = Pub(p)
  BY <1>4, <1>5, <1>9 DEF SameView
<1>11. GetKnows(get, Gone(Turn))'
  <2>1. GetKnows(get, Gone(p))
    BY <1>9 DEF QNow
  <2>2. GetKnows(get', Gone(p)')
    BY <1>2, <1>10, <2>1
  <2> QED
    BY <1>10, <2>2 DEF Gone
<1>12. ScanNow'
  <2>1. ScanNow
    BY DEF QNow
  <2>2. Pub(Turn)' = Pub(Turn)
    <3>1. Turn' = Turn
      BY <1>9, <1>10
    <3> QED
      BY <1>9, <1>10, <3>1, <1>2 DEF Pub, Ins, Sent
  <2> QED
    BY <1>2, <2>1, <2>2, SameScan
<1>13. QNow(place2, m)'
  BY <1>6, <1>7, <1>8, <1>11, <1>12 DEF QNow
<1> QED
  BY <1>13 DEF QueuesNow

LEMMA ListStepKeepsQ ==
    ASSUME NEW place, NEW n, QNow(place, n), NEW t \in Threads, ListStep(t)
    PROVE  QueuesNow'
<1>1. /\ FreeListStep(t) /\ FreeListNow(place, n) /\ CallsAgree
      /\ UNCHANGED <<queue, tailBlock, index, blocks, pool, put, get, received>>
  BY DEF ListStep, QNow
<1>2. PICK place2, m : FreeListNow(place2, m)' /\ SameElsewhere(place, place2)
  BY <1>1, ListStepKeeps
<1>3. call[t].at # "out"
  BY <1>1 DEF FreeListStep, LoadHead, Reference, LoadNext, TakeHead, Took, Release, FlagNode, AddLoad,
              AddLink, AddCount, AddPush, AddRetry
<1>4. Threads = Producers \cup {Consumer} /\ Consumer \notin Producers
  BY QueueAssumption
<1>5. IF call[t].gets THEN call[t].at \in GetCallSteps ELSE call[t].at \in AddCallSteps
  BY <1>1, <1>3, <1>4 DEF CallsAgree
<1>6. PICK c \in CallRecords : CallIs(t, c) /\ CallGoesOn(c, call[t])
  BY <1>1, <1>5, ListCallGoesOn
<1>7. call'[t] = c /\ \A s \in Threads \ {t} : call'[s] = call[s]
  <2>1. call \in [Threads -> CallRecords]
    BY <1>1, FreeListFacts
  <2> QED
    BY <1>6, <2>1 DEF CallIs
<1>8. CallsAgree'
  <2>1. \A p \in Producers :
          IF put[p].at = "list" THEN call'[p].gets /\ call'[p].at \in GetCallSteps ELSE call'[p].at = "out"
    BY <1>1, <1>3, <1>4, <1>6, <1>7 DEF CallsAgree, CallGoesOn
  <2>2. IF get.at = "free" THEN ~ call'[Consumer].gets /\ call'[Consumer].at \in AddCallSteps
                           ELSE call'[Consumer].at = "out"
    BY <1>1, <1>3, <1>4, <1>6, <1>7 DEF CallsAgree, CallGoesOn
  <2> QED
    BY <1>1, <2>1, <2>2 DEF CallsAgree
<1> QED
  BY <1>1, <1>2, <1>8, ListChanges

LEMMA NothingKeepsQ ==
    ASSUME NEW place, NEW n, QNow(place, n), UNCHANGED vars
    PROVE  QueuesNow'
<1>1. /\ UNCHANGED <<queue, tailBlock, index, blocks, pool, put, get, received>>
      /\ UNCHANGED freeListVars /\ call' = call
  BY DEF vars, freeListVars
<1>2. CallsAgree /\ FreeListNow(place, n)
  BY DEF QNow
<1>3. FreeListNow(place, n)'
  BY <1>1, <1>2, FreeListStays
<1>4. CallsAgree'
  BY <1>1, <1>2 DEF CallsAgree
<1>5. SameElsewhere(place, place)
  BY DEF SameElsewhere
<1> QED
  BY <1>1, <1>3, <1>4, <1>5, ListChanges

-----------------------------------------------------------------------------
(* When the consumer drains, and after it, nobody enqueues                 *)

Final == {"drain", "destroyed"}

LEMMA NextBlockGoes ==
    ASSUME IInv, get \in GetRecords, get.at \in Fetching, NEW g \in GetRecords
    PROVE  NextBlock(g).at \notin Final
<1>1. CASE g.actual = 0
  <2>1. g.got \in Nat /\ NextBlock(g) = NextTurn(g.got)
    BY <1>1 DEF GetRecords, NextBlock
  <2>2. NextTurn(g.got).at \in {"wait", "turn"}
    BY <2>1, NextTurnIs
  <2> QED
    BY <2>1, <2>2 DEF Final
<1>2. CASE g.actual # 0
  <2>1. PICK x : x = (g.position + 1) % Capacity(blockIndex[Turn][get.header])
    OBVIOUS
  <2>2. NextBlock(g) = [g EXCEPT !.at = "move", !.position = x]
    BY <1>2, <2>1 DEF NextBlock
  <2>3. [g EXCEPT !.at = "move", !.position = x].at = "move"
    BY DEF GetRecords
  <2> QED
    BY <2>2, <2>3 DEF Final
<1> QED
  BY <1>1, <1>2

LEMMA ConsumerGoes ==
    ASSUME IInv, NEW place, NEW n, QNow(place, n),
           \/ WaitMany \/ StartSpinning \/ EndSpinning \/ WakeUp \/ TakeMore
           \/ Claim \/ TakeHeadIndex \/ LoadHeader \/ LoadTail \/ FindEntry
           \/ MoveElements \/ RemoveEntry \/ BlockFreed
    PROVE  get'.at \notin Final
<1>1. get \in GetRecords
  BY DEF QNow, TypesFit
<1>2. get.got \in Nat
  BY <1>1 DEF GetRecords
<1>3. CASE WaitMany \/ StartSpinning \/ EndSpinning \/ WakeUp \/ TakeMore
  <2>1. CASE StartSpinning
    BY <2>1 DEF StartSpinning, NoGet, Final
  <2>2. CASE EndSpinning
    BY <2>2 DEF EndSpinning, NoGet, Final
  <2>3. CASE WakeUp
    BY <2>3 DEF WakeUp, NoGet, Final
  <2>4. CASE WaitMany \/ TakeMore
    <3>1. PICK k : get' = Granted(k)
      BY <2>4 DEF WaitMany, TakeMore
    <3> QED
      BY <3>1 DEF Granted, NoGet, Final
  <2> QED
    BY <1>3, <2>1, <2>2, <2>3, <2>4
<1>4. CASE Claim
  <2>1. get.at = "turn" /\ get.at \in Fetching
    BY <1>4 DEF Claim, Getting, Fetching
  <2>2. \/ \E x : get' = [get EXCEPT !.at = "claimed", !.actual = x]
        \/ get' = NextTurn(get.got)
    BY <1>4 DEF Claim
  <2>3. NextTurn(get.got).at \in {"wait", "turn"}
    BY <1>1, <1>2, <2>1, NextTurnIs
  <2> QED
    BY <1>1, <2>2, <2>3 DEF GetRecords, Final
<1>5. CASE TakeHeadIndex
  <2>1. \E x, y : get' = [get EXCEPT !.at = "header", !.actual = x, !.first = y]
    BY <1>5 DEF TakeHeadIndex
  <2> QED
    BY <1>1, <2>1 DEF GetRecords, Final
<1>6. CASE LoadHeader
  <2>1. \E x : get' = [get EXCEPT !.at = "tail", !.header = x]
    BY <1>6 DEF LoadHeader
  <2> QED
    BY <1>1, <2>1 DEF GetRecords, Final
<1>7. CASE LoadTail
  <2>1. \E x : get' = [get EXCEPT !.at = "key", !.tail = x]
    BY <1>7 DEF LoadTail
  <2> QED
    BY <1>1, <2>1 DEF GetRecords, Final
<1>8. CASE FindEntry
  <2>1. \E x : get' = [get EXCEPT !.at = "move", !.tail = 0, !.position = x]
    BY <1>8 DEF FindEntry
  <2> QED
    BY <1>1, <2>1 DEF GetRecords, Final
<1>9. CASE MoveElements
  <2>1. get.at \in Fetching /\ get.at = "move"
    BY <1>9 DEF MoveElements, Getting, Fetching
  <2>2. PICK p \in Producers : p = Turn
    BY <2>1, MoveFacts
  <2>3. PICK b : b = entries[p][EntryFrom(Header(p).index, Header(p).tail, Pub(p) - 1, Rem(p))].value
    OBVIOUS
  <2>4. \E g \in GetRecords : get' = [g EXCEPT !.at = "empty"] \/ get' = NextBlock(g)
    BY <1>9, <2>2, <2>3, MoveTakes
  <2>5. PICK g \in GetRecords : get' = [g EXCEPT !.at = "empty"] \/ get' = NextBlock(g)
    BY <2>4
  <2>6. [g EXCEPT !.at = "empty"].at = "empty"
    BY DEF GetRecords
  <2>7. NextBlock(g).at \notin Final
    BY <1>1, <2>1, NextBlockGoes
  <2> QED
    BY <2>5, <2>6, <2>7 DEF Final
<1>10. CASE RemoveEntry
  <2>1. get' = [get EXCEPT !.at = "free"]
    BY <1>10 DEF RemoveEntry
  <2> QED
    BY <1>1, <2>1 DEF GetRecords, Final
<1>11. CASE BlockFreed
  <2>1. get.at \in Fetching /\ get' = NextBlock(get)
    BY <1>11 DEF BlockFreed, Getting, Fetching
  <2> QED
    BY <1>1, <2>1, NextBlockGoes
<1> QED
  BY <1>3, <1>4, <1>5, <1>6, <1>7, <1>8, <1>9, <1>10, <1>11

-----------------------------------------------------------------------------
(* The invariant is kept                                                   *)

QInv == Idle /\ IF get.at = "destroyed" THEN Ended ELSE QueuesNow

\* After the end nothing happens.
LEMMA EndedStays ==
    ASSUME Idle, get.at = "destroyed", Ended, [Next]_vars
    PROVE  UNCHANGED vars
<1>1. \A t \in Threads : call[t].at = "out"
  BY NoCalls DEF Ended
<1>2. ASSUME NEW t \in Threads, ListStep(t)
      PROVE  FALSE
  BY <1>1, <1>2 DEF ListStep, FreeListStep, LoadHead, Reference, LoadNext, TakeHead, Took, Release, FlagNode,
                    AddLoad, AddLink, AddCount, AddPush, AddRetry
<1>3. ASSUME NEW p \in Producers, Produce(p)
      PROVE  FALSE
  BY <1>3 DEF Idle, InUse, At, Produce, StartBlock, InsertEntry, PublishEntry, TryPool, TakeFromPool,
              TakeFromList, InsertBlock, PutElement, Publish, Signal, WakeConsumer
<1>4. ~ Consume
  BY DEF Consume, Getting, WaitMany, StartSpinning, EndSpinning, WakeUp, TakeMore, Claim, TakeHeadIndex,
         LoadHeader, LoadTail, FindEntry, MoveElements, RemoveEntry, BlockFreed, Stop, TryDequeue,
         DequeueGranted, Destroy
<1> QED
  BY <1>2, <1>3, <1>4 DEF Next

LEMMA ProduceInUse ==
    ASSUME Idle, NEW p \in Producers, Produce(p)
    PROVE  get' = get /\ get.at \notin Final
<1>1. get' = get
  BY DEF Produce, StartBlock, InsertEntry, PublishEntry, TryPool, TakeFromPool,
         TakeFromList, InsertBlock, PutElement, Publish, Signal, WakeConsumer
<1>2. CASE put[p].at # "idle"
  BY <1>1, <1>2 DEF Idle, Final
<1>3. CASE put[p].at = "idle"
  <2>1. InUse
    BY <1>3 DEF At, Produce, StartBlock, InsertEntry, PublishEntry, TryPool, TakeFromPool,
                TakeFromList, InsertBlock, PutElement, Publish, Signal, WakeConsumer
  <2> QED
    BY <1>1, <2>1 DEF InUse, Final
<1> QED
  BY <1>1, <1>2, <1>3

LEMMA ConsumeKeepsQInv ==
    ASSUME IInv, Idle, get.at # "destroyed", NEW place, NEW n, QNow(place, n), Consume
    PROVE  QInv'
<1>1. CASE Destroy
  <2>1. Ended' /\ Idle' /\ get'.at = "destroyed"
    BY <1>1, DestroyEnds
  <2> QED
    BY <2>1 DEF QInv
<1>2. CASE TryDequeue
  <2>1. QueuesNow'
    BY <1>2, TryDequeueKeepsQ
  <2>2. get' = get /\ put' = put
    BY <1>2 DEF TryDequeue
  <2>3. Idle' /\ get'.at # "destroyed"
    BY <2>2 DEF Idle
  <2> QED
    BY <2>1, <2>3 DEF QInv
<1>3. CASE Stop
  <2>1. QueuesNow'
    BY <1>3, StopKeepsQ
  <2>2. get' = [NoGet EXCEPT !.at = "drain"] /\ put' = put /\ \A p \in Producers : put[p].at = "idle"
    BY <1>3 DEF Stop, At
  <2>3. Idle' /\ get'.at # "destroyed"
    BY <2>2 DEF Idle, NoGet
  <2> QED
    BY <2>1, <2>3 DEF QInv
<1>4. CASE \/ WaitMany \/ StartSpinning \/ EndSpinning \/ WakeUp \/ TakeMore
           \/ Claim \/ TakeHeadIndex \/ LoadHeader \/ LoadTail \/ FindEntry
           \/ MoveElements \/ RemoveEntry \/ BlockFreed
  <2>1. get'.at \notin Final
    BY <1>4, ConsumerGoes
  <2>2. QueuesNow'
    BY <1>4, WaitKeepsQ, ClaimKeepsQ, TakeHeadIndexKeepsQ, LoadHeaderKeepsQ, LoadTailKeepsQ, FindEntryKeepsQ,
       MoveElementsKeepsQ, RemoveEntryKeepsQ, BlockFreedKeepsQ
  <2> QED
    BY <2>1, <2>2 DEF QInv, Idle, Final
<1> QED
  BY <1>1, <1>2, <1>3, <1>4 DEF Consume

LEMMA NextQInv ==
    ASSUME IInv, QInv, [Next]_vars
    PROVE  QInv'
<1>1. CASE get.at = "destroyed"
  <2>1. Ended /\ Idle
    BY <1>1 DEF QInv
  <2>2. UNCHANGED vars
    BY <1>1, <2>1, EndedStays
  <2>3. /\ created' = created /\ put' = put /\ get' = get /\ call' = call
        /\ freeListHead' = freeListHead /\ freeListRefs' = freeListRefs /\ freeListNext' = freeListNext
    BY <2>2 DEF vars, pool, freeListVars
  <2>4. TheList' = TheList
    BY <2>3 DEF TheList
  <2>5. PICK place, n :
          /\ ListFits(TheList, place, n)
          /\ \A b \in Blocks : place[b].at = IF b > created THEN "unused" ELSE "list"
    BY <2>1 DEF Ended
  <2>6. ListFits(TheList, place, n)'
    BY <2>3, <2>4, <2>5 DEF ListFits
  <2>7. CallsAgree' /\ created' \in 0 .. MaxBlocks
    BY <2>1, <2>3 DEF Ended, CallsAgree
  <2>8. Ended'
    BY <2>3, <2>5, <2>6, <2>7 DEF Ended
  <2>9. Idle'
    BY <2>1, <2>3 DEF Idle
  <2> QED
    BY <1>1, <2>3, <2>8, <2>9 DEF QInv
<1>2. CASE get.at # "destroyed"
  <2>1. QueuesNow /\ Idle
    BY <1>2 DEF QInv
  <2>2. PICK place, n : QNow(place, n)
    BY <2>1 DEF QueuesNow
  <2>3. CASE \E p \in Producers : Produce(p)
    <3>1. PICK p \in Producers : Produce(p)
      BY <2>3
    <3>2. get' = get /\ get.at \notin Final
      BY <2>1, <3>1, ProduceInUse
    <3>3. QueuesNow'
      BY <2>1, <3>1, ProduceKeepsQ
    <3> QED
      BY <1>2, <3>2, <3>3 DEF QInv, Idle, Final
  <2>4. CASE Consume
    BY <1>2, <2>1, <2>2, <2>4, ConsumeKeepsQInv
  <2>5. CASE \E t \in Threads : ListStep(t)
    <3>1. PICK t \in Threads : ListStep(t)
      BY <2>5
    <3>2. QueuesNow'
      BY <2>2, <3>1, ListStepKeepsQ
    <3>3. get' = get /\ put' = put
      BY <3>1 DEF ListStep
    <3>4. Idle'
      BY <2>1, <3>3 DEF Idle
    <3> QED
      BY <1>2, <3>2, <3>3, <3>4 DEF QInv
  <2>6. CASE UNCHANGED vars
    <3>1. QueuesNow'
      BY <2>2, <2>6, NothingKeepsQ
    <3>2. get' = get /\ put' = put
      BY <2>6 DEF vars
    <3>3. Idle'
      BY <2>1, <3>2 DEF Idle
    <3> QED
      BY <1>2, <3>1, <3>2, <3>3 DEF QInv
  <2> QED
    BY <2>3, <2>4, <2>5, <2>6 DEF Next
<1> QED
  BY <1>1, <1>2

-----------------------------------------------------------------------------
(* A block is in one place                                                 *)

LEMMA InIndexIs ==
    ASSUME NEW place, NEW n, QNow(place, n), NEW b \in Blocks
    PROVE  /\ place[b].at = "index" => \E x : InIndex(b) = {x}
           /\ place[b].at # "index" => InIndex(b) = {}
<1>1. ASSUME NEW p \in Producers, NEW e \in DOMAIN entries[p], entries[p][e].value = b
      PROVE  /\ place[b].at = "index" /\ place[b].by = p
             /\ e = EntryFrom(Header(p).index, Header(p).tail, Pub(p) - 1, place[b].num)
  <2>1. /\ RingFits(Header(p).index, Header(p).tail, entries[p], Rem(p), Ins(p), Pub(p))
        /\ IndexPlaces(place, p, Header(p).index, Header(p).tail, entries[p], Rem(p), Ins(p), Pub(p))
    BY PutFact
  <2>2. DOMAIN entries[p] = 1 .. Len(Header(p).index)
    BY <2>1, RingTypes
  <2>3. b # 0
    BY BlockNumbers
  <2>4. PICK j \in Rem(p) .. Ins(p) - 1 : e = EntryFrom(Header(p).index, Header(p).tail, Pub(p) - 1, j)
    BY <1>1, <2>1, <2>2, <2>3 DEF RingFits
  <2>5. place[b].at = "index" /\ place[b].by = p /\ place[b].num = j
    BY <1>1, <2>1, <2>4 DEF IndexPlaces
  <2> QED
    BY <2>4, <2>5
<1>2. ASSUME NEW x \in InIndex(b)
      PROVE  \E p \in Producers : \E e \in DOMAIN entries[p] : x = <<p, e>> /\ entries[p][e].value = b
  BY DEF InIndex
<1>3. ASSUME place[b].at = "index"
      PROVE  \E x : InIndex(b) = {x}
  <2>1. PlacesKnown(place, created)
    BY DEF QNow
  <2>2. PICK p \in Producers : p = place[b].by
    BY <1>3, <2>1 DEF PlacesKnown
  <2>3. /\ RingFits(Header(p).index, Header(p).tail, entries[p], Rem(p), Ins(p), Pub(p))
        /\ IndexPlaces(place, p, Header(p).index, Header(p).tail, entries[p], Rem(p), Ins(p), Pub(p))
    BY PutFact
  <2>4. PICK j : j = place[b].num
    OBVIOUS
  <2>5. PICK e : e = EntryFrom(Header(p).index, Header(p).tail, Pub(p) - 1, j)
    OBVIOUS
  <2>6. j \in Rem(p) .. Ins(p) - 1 /\ entries[p][e].value = b
    BY <1>3, <2>2, <2>3, <2>4, <2>5 DEF IndexPlaces
  <2>7. j \in Int
    BY <2>6
  <2>8. e \in DOMAIN entries[p]
    BY <2>3, <2>5, <2>7, EntryOfRing, RingTypes
  <2>9. <<p, e>> \in InIndex(b)
    BY <2>6, <2>8 DEF InIndex
  <2>10. \A x \in InIndex(b) : x = <<p, e>>
    BY <1>1, <1>2, <2>2, <2>4, <2>5
  <2> QED
    BY <2>9, <2>10
<1>4. ASSUME place[b].at # "index"
      PROVE  InIndex(b) = {}
  BY <1>1, <1>2, <1>4
<1> QED
  BY <1>3, <1>4

LEMMA HoldingIs ==
    ASSUME NEW place, NEW n, QNow(place, n), NEW b \in Blocks
    PROVE  /\ place[b].at \in {"hand", "took", "got"} => \E x : Holding(b) = {x}
           /\ place[b].at \notin {"hand", "took", "got"} => Holding(b) = {}
<1>1. FreeListNow(place, n) /\ CallsAgree /\ PlacesKnown(place, created) /\ InCalls(call, place)
  BY DEF QNow, FreeListNow, FreeListFits
<1>2. ASSUME NEW p \in Holding(b)
      PROVE  p \in Producers /\ place[b].by = p /\ place[b].at \in {"hand", "took", "got"}
  <2>1. p \in Producers /\ p \in Threads
    BY ThreadsAre DEF Holding
  <2>2. CASE put[p].at = "block" /\ put[p].block = b
    <3>1. HandPlaces(place, p, put[p])
      BY <2>1, PutFact
    <3> QED
      BY <2>1, <2>2, <3>1 DEF HandPlaces
  <2>3. CASE call[p].at \in {"took", "got"} /\ call[p].head = b
    <3>1. PICK at \in CallPlaces : at = call[p].at
      BY <2>3 DEF CallPlaces
    <3>2. Has(call[p], b, at)
      BY <2>3, <3>1 DEF Has
    <3>3. place[b].at = at /\ place[b].by = p
      BY <1>1, <2>1, <3>2, InHand
    <3> QED
      BY <2>1, <2>3, <3>1, <3>3
  <2> QED
    BY <2>2, <2>3 DEF Holding, At
<1>3. ASSUME place[b].at = "hand"
      PROVE  place[b].by \in Holding(b)
  <2>1. PICK p \in Producers : p = place[b].by
    BY <1>1, <1>3 DEF PlacesKnown
  <2>2. HandPlaces(place, p, put[p])
    BY PutFact
  <2> QED
    BY <1>3, <2>1, <2>2 DEF HandPlaces, Holding, At
<1>4. ASSUME NEW at \in {"took", "got"}, place[b].at = at
      PROVE  place[b].by \in Holding(b)
  <2>1. at \in CallPlaces
    BY DEF CallPlaces
  <2>2. PICK t \in Threads : t = place[b].by
    BY <1>1, <1>4, <2>1 DEF InCalls
  <2>3. Has(call[t], b, at)
    BY <1>1, <1>4, <2>1, <2>2 DEF InCalls
  <2>4. call[t].at = at /\ call[t].head = b
    BY <2>3 DEF Has
  <2>5. t # Consumer
    BY <1>1, <2>4 DEF CallsAgree, AddCallSteps, AddSteps
  <2> QED
    BY <2>2, <2>4, <2>5, ThreadsAre DEF Holding
<1>5. ASSUME place[b].at \in {"hand", "took", "got"}
      PROVE  \E x : Holding(b) = {x}
  <2>1. place[b].by \in Holding(b)
    BY <1>3, <1>4, <1>5
  <2>2. \A x \in Holding(b) : x = place[b].by
    BY <1>2
  <2> QED
    BY <2>1, <2>2
<1>6. ASSUME place[b].at \notin {"hand", "took", "got"}
      PROVE  Holding(b) = {}
  BY <1>2, <1>6
<1> QED
  BY <1>5, <1>6

LEMMA AddingIs ==
    ASSUME NEW place, NEW n, QNow(place, n), NEW b \in Blocks
    PROVE  /\ place[b].at \in {"add", "link", "push"} => \E x : Adding(b) = {x}
           /\ place[b].at \notin {"add", "link", "push"} => Adding(b) = {}
<1>1. FreeListNow(place, n) /\ InCalls(call, place)
  BY DEF QNow, FreeListNow, FreeListFits
<1>2. ASSUME NEW t \in Adding(b)
      PROVE  place[b].by = t /\ place[b].at \in {"add", "link", "push"}
  <2>1. t \in Threads
    BY DEF Adding
  <2>2. PICK at \in {"add", "link", "push"} : Has(call[t], b, at)
    BY DEF Adding, Has
  <2>3. at \in CallPlaces
    BY DEF CallPlaces
  <2> QED
    BY <1>1, <2>1, <2>2, <2>3, InHand
<1>3. ASSUME NEW at \in {"add", "link", "push"}, place[b].at = at
      PROVE  place[b].by \in Adding(b)
  <2>1. at \in CallPlaces
    BY DEF CallPlaces
  <2>2. PICK t \in Threads : t = place[b].by
    BY <1>1, <1>3, <2>1 DEF InCalls
  <2>3. Has(call[t], b, at)
    BY <1>1, <1>3, <2>1, <2>2 DEF InCalls
  <2> QED
    BY <2>2, <2>3 DEF Has, Adding
<1>4. ASSUME place[b].at \in {"add", "link", "push"}
      PROVE  \E x : Adding(b) = {x}
  <2>1. place[b].by \in Adding(b)
    BY <1>3, <1>4
  <2>2. \A x \in Adding(b) : x = place[b].by
    BY <1>2
  <2> QED
    BY <2>1, <2>2
<1>5. ASSUME place[b].at \notin {"add", "link", "push"}
      PROVE  Adding(b) = {}
  BY <1>2, <1>5
<1> QED
  BY <1>4, <1>5

LEMMA OwedIs ==
    ASSUME NEW place, NEW n, FreeListNow(place, n), NEW b \in Blocks, place[b].at \in Places
    PROVE  /\ b \in Owed <=> place[b].at \in {"link", "owed"}
           /\ place[b].at = "owed" => Refs(b) > 0
<1>1. PICK k \in Nat : k = Cardinality(Lookers(call, b)) /\ k <= Cardinality(Threads)
  BY Counted
<1>2. freeListRefs[b] = k + Extra(place[b].at) /\ (place[b].at = "owed" => k > 0)
  BY <1>1, Counted
<1>3. PICK flag \in Nat :
        /\ flag = SHOULD_BE_ON_FREELIST /\ k + 2 < flag
        /\ (k + flag) % flag = k
  <2>1. /\ SHOULD_BE_ON_FREELIST \in Nat /\ SHOULD_BE_ON_FREELIST > Cardinality(Threads) + 2
        /\ Cardinality(Threads) \in Nat
    BY FlagIsHigh
  <2>2. k + 2 < SHOULD_BE_ON_FREELIST /\ k < SHOULD_BE_ON_FREELIST
    BY <1>1, <2>1
  <2>3. (k + SHOULD_BE_ON_FREELIST) % SHOULD_BE_ON_FREELIST = k
    BY <2>2, FlagIsHigh
  <2> QED
    BY <2>1, <2>2, <2>3
<1>4. CASE place[b].at \in {"link", "owed"}
  <2>1. freeListRefs[b] = k + flag
    BY <1>2, <1>3, <1>4, Counts
  <2>2. freeListRefs[b] >= flag
    BY <2>1
  <2>3. Refs(b) = k
    BY <1>3, <2>1 DEF Refs
  <2> QED
    BY <1>2, <1>3, <1>4, <2>2, <2>3 DEF Owed
<1>5. CASE place[b].at \notin {"link", "owed"}
  <2>1. Extra(place[b].at) \in 0 .. 2
    BY <1>5, Counts DEF Places, Elsewhere, CallPlaces
  <2>2. ~ (freeListRefs[b] >= flag)
    BY <1>2, <1>3, <2>1
  <2> QED
    BY <1>3, <1>5, <2>2 DEF Owed
<1> QED
  BY <1>4, <1>5

LEMMA OneOf ==
    ASSUME NEW S, \E x : S = {x}
    PROVE  Cardinality(S) = 1 /\ S # {}
<1>1. PICK x : S = {x}
  OBVIOUS
<1>2. Cardinality({x}) = 1
  BY FS_Singleton
<1> QED
  BY <1>1, <1>2

LEMMA NoneOf == Cardinality({}) = 0
BY FS_EmptySet

LEMMA OnePlace ==
    ASSUME NEW place, NEW n, QNow(place, n), get.at # "destroyed"
    PROVE  BlocksInOnePlace
<1>1. SUFFICES ASSUME NEW b \in 1 .. created
               PROVE  /\ Cardinality(InIndex(b)) + Cardinality(Holding(b))
                           + (IF b \in OnFreeList THEN 1 ELSE 0)
                           + (IF b \in Owed \/ Adding(b) # {} THEN 1 ELSE 0)
                         = 1
                      /\ Cardinality(Adding(b)) <= 1
                      /\ b \in Owed => Refs(b) > 0 \/ Adding(b) # {}
  BY DEF BlocksInOnePlace
<1>2. FreeListNow(place, n) /\ PlacesKnown(place, created) /\ created \in 0 .. MaxBlocks
      /\ ChainFits(freeListHead, freeListNext, place, n)
  BY DEF QNow, TypesFit, FreeListNow, FreeListFits
<1>3. b \in Blocks /\ ~ (b > created)
  BY <1>2, FreeListAssumption DEF Blocks
<1>4. PICK at \in Places \ {"unused"} : at = place[b].at
  BY <1>2, <1>3 DEF PlacesKnown
<1>5. b \in OnFreeList <=> at = "list"
  <2>1. OnFreeList = {e \in Blocks : place[e].at = "list"}
    BY <1>2, ListIsRead
  <2> QED
    BY <1>3, <1>4, <2>1
<1>6. (b \in Owed <=> at \in {"link", "owed"}) /\ (at = "owed" => Refs(b) > 0)
  BY <1>2, <1>3, <1>4, OwedIs
<1>7. Cardinality(InIndex(b)) = IF at = "index" THEN 1 ELSE 0
  <2>1. CASE at = "index"
    <3>1. \E x : InIndex(b) = {x}
      BY <1>3, <1>4, <2>1, InIndexIs
    <3> QED
      BY <2>1, <3>1, OneOf
  <2>2. CASE at # "index"
    <3>1. InIndex(b) = {}
      BY <1>3, <1>4, <2>2, InIndexIs
    <3> QED
      BY <2>2, <3>1, NoneOf
  <2> QED
    BY <2>1, <2>2
<1>8. Cardinality(Holding(b)) = IF at \in {"hand", "took", "got"} THEN 1 ELSE 0
  <2>1. CASE at \in {"hand", "took", "got"}
    <3>1. \E x : Holding(b) = {x}
      BY <1>3, <1>4, <2>1, HoldingIs
    <3> QED
      BY <2>1, <3>1, OneOf
  <2>2. CASE at \notin {"hand", "took", "got"}
    <3>1. Holding(b) = {}
      BY <1>3, <1>4, <2>2, HoldingIs
    <3> QED
      BY <2>2, <3>1, NoneOf
  <2> QED
    BY <2>1, <2>2
<1>9. /\ Cardinality(Adding(b)) = IF at \in {"add", "link", "push"} THEN 1 ELSE 0
      /\ Adding(b) # {} <=> at \in {"add", "link", "push"}
  <2>1. CASE at \in {"add", "link", "push"}
    <3>1. \E x : Adding(b) = {x}
      BY <1>3, <1>4, <2>1, AddingIs
    <3> QED
      BY <2>1, <3>1, OneOf
  <2>2. CASE at \notin {"add", "link", "push"}
    <3>1. Adding(b) = {}
      BY <1>3, <1>4, <2>2, AddingIs
    <3> QED
      BY <2>2, <3>1, NoneOf
  <2> QED
    BY <2>1, <2>2
<1>10. at \in {"index", "hand", "took", "got", "add", "link", "push", "list", "owed"}
  BY DEF Places, Elsewhere, CallPlaces
<1>11. /\ (b \in Owed \/ Adding(b) # {}) <=> at \in {"link", "owed", "add", "push"}
       /\ b \in Owed => Refs(b) > 0 \/ Adding(b) # {}
  BY <1>6, <1>9
<1>12. Cardinality(InIndex(b)) + Cardinality(Holding(b))
         + (IF b \in OnFreeList THEN 1 ELSE 0)
         + (IF b \in Owed \/ Adding(b) # {} THEN 1 ELSE 0)
       = 1
  BY <1>5, <1>7, <1>8, <1>10, <1>11
<1> QED
  BY <1>9, <1>11, <1>12

LEMMA PlacesWell ==
    ASSUME QInv
    PROVE  BlocksInOnePlace
<1>1. CASE get.at = "destroyed"
  BY <1>1, EndedWell DEF QInv
<1>2. CASE get.at # "destroyed"
  BY <1>2, OnePlace DEF QInv, QueuesNow
<1> QED
  BY <1>1, <1>2

-----------------------------------------------------------------------------
(* The beginning                                                           *)

LEMMA ListBegins ==
    ASSUME NEW n \in 0 .. 1, FreeListInit(n), NEW place,
           place = [b \in Blocks |-> IF b <= n THEN Spot("list", 0, b) ELSE Spot("unused", 0, 0)]
    PROVE  FreeListNow(place, n)
<1>1. /\ freeListHead = n
      /\ freeListRefs = [b \in Blocks |-> IF b <= n THEN 1 ELSE 0]
      /\ freeListNext = [b \in Blocks |-> IF b <= n THEN b - 1 ELSE 0]
      /\ call = [t \in Threads |-> NoCall]
  BY DEF FreeListInit
<1>2. PICK c \in CallRecords : c = NoCall /\ c.at = "out"
  BY NoCallFacts
<1>3. \A t \in Threads : call[t] = c
  BY <1>1, <1>2
<1>4. MaxBlocks \in Nat /\ MaxBlocks > 0 /\ Blocks = 1 .. MaxBlocks
  BY FreeListAssumption, QueueAssumption DEF Blocks
<1>5. \A b \in Blocks :
        /\ b <= n <=> b = 1 /\ n = 1
        /\ b <= n => place[b].at = "list" /\ place[b].num = b
        /\ ~ (b <= n) => place[b].at = "unused"
  BY <1>4 DEF Spot
<1>6. CallsFit(call, freeListNext)
  <2>1. call \in [Threads -> CallRecords]
    BY <1>1, <1>2
  <2>2. CallFits(c, freeListNext)
    BY <1>2 DEF CallFits, AddSteps
  <2> QED
    BY <1>3, <2>1, <2>2 DEF CallsFit
<1>7. RefsFit(freeListRefs, call, place)
  <2>1. ASSUME NEW b \in Blocks
        PROVE  /\ freeListRefs[b] = Cardinality(Lookers(call, b)) + Extra(place[b].at)
               /\ place[b].at \notin {"owed", "link"}
    <3>1. Lookers(call, b) = {}
      BY <1>2, <1>3 DEF Lookers, LooksAt
    <3>2. Cardinality(Lookers(call, b)) = 0
      BY <3>1, FS_EmptySet
    <3>3. CASE b <= n
      <4>1. Extra(place[b].at) = 1 /\ freeListRefs[b] = 1 /\ place[b].at = "list"
        BY <1>1, <1>5, <3>3, Counts
      <4> QED
        BY <3>2, <4>1
    <3>4. CASE ~ (b <= n)
      <4>1. Extra(place[b].at) = 0 /\ freeListRefs[b] = 0 /\ place[b].at = "unused"
        BY <1>1, <1>5, <3>4, Counts
      <4> QED
        BY <3>2, <4>1
    <3> QED
      BY <3>3, <3>4
  <2>2. freeListRefs \in [Blocks -> Nat] /\ DOMAIN place = Blocks
    BY <1>1
  <2> QED
    BY <2>1, <2>2 DEF RefsFit
<1>8. InCalls(call, place)
  <2>1. ASSUME NEW b \in Blocks, NEW at \in CallPlaces
        PROVE  place[b].at # at /\ \A t \in Threads : ~ Has(call[t], b, at)
    <3>1. place[b].at # at
      BY <1>5 DEF CallPlaces
    <3>2. \A t \in Threads : ~ Has(call[t], b, at)
      BY <1>2, <1>3 DEF Has, CallPlaces
    <3> QED
      BY <3>1, <3>2
  <2> QED
    BY <2>1 DEF InCalls
<1>9. ChainFits(freeListHead, freeListNext, place, n)
  <2>1. freeListHead \in 0 .. MaxBlocks /\ freeListNext \in [Blocks -> 0 .. MaxBlocks] /\ n \in Nat
    BY <1>1, <1>4
  <2>2. IF n = 0 THEN freeListHead = 0
        ELSE freeListHead # 0 /\ place[freeListHead].at = "list" /\ place[freeListHead].num = n
    <3>1. n = 0 \/ (n = 1 /\ 1 \in Blocks)
      BY <1>4
    <3>2. CASE n = 1 /\ 1 \in Blocks
      BY <1>1, <1>5, <3>2
    <3> QED
      BY <1>1, <3>1, <3>2
  <2>3. \A b \in Blocks : place[b].at = "list" => b = 1 /\ n = 1 /\ place[b].num = 1 /\ freeListNext[b] = 0
    BY <1>1, <1>5
  <2> QED
    BY <2>1, <2>2, <2>3 DEF ChainFits
<1> QED
  BY <1>6, <1>7, <1>8, <1>9 DEF FreeListNow, FreeListFits

\* For each entry there is one block among the last ones that had it.
LEMMA LastOfEntry ==
    ASSUME NEW m \in Nat \ {0}, NEW i \in 1 .. m, NEW used \in Nat
    PROVE  \E k \in used - m .. used - 1 : k % m = i - 1
<1>1. PICK a \in Int : a = used - m
  OBVIOUS
<1>2. PICK j \in 0 .. m - 1 : j = i - 1
  OBVIOUS
<1>3. PICK d \in Int : d = j - a
  OBVIOUS
<1>4. PICK r \in 0 .. m - 1 : r = d % m
  BY DivMod
<1>5. (r + a) % m = (d + a) % m
  BY <1>1, <1>4, RemainderSum
<1>6. d + a = j /\ j % m = j
  BY <1>1, <1>3, RemainderKeeps
<1>7. a + r \in used - m .. used - 1 /\ (r + a) % m = i - 1 /\ a + r = r + a
  BY <1>1, <1>2, <1>4, <1>5, <1>6
<1> QED
  BY <1>7

Used == Start \div BLOCK_SIZE
LastOf(i) == CHOOSE n \in Used - InitialCapacity .. Used - 1 : n % InitialCapacity = i - 1
FirstKey(i) == IF LastOf(i) < 0 THEN INVALID_BLOCK_BASE ELSE LastOf(i) * BLOCK_SIZE
FirstEntries == [i \in 1 .. InitialCapacity |-> FreeEntry(FirstKey(i))]
FirstIndex == [i \in 1 .. InitialCapacity |-> i]
FirstTail == (Used - 1) % InitialCapacity

LEMMA FirstIs ==
    ASSUME Init
    PROVE  /\ entries = [p \in Producers |-> FirstEntries]
           /\ blockIndex = [p \in Producers |-> <<[tail |-> FirstTail, index |-> FirstIndex]>>]
BY DEF Init, FirstEntries, FirstKey, LastOf, Used, FirstIndex, FirstTail

LEMMA FirstRing ==
    /\ RingFits(FirstIndex, FirstTail, FirstEntries, 0, 0, 0)
    /\ FirstTail \in Nat /\ FirstIndex \in Seq(Nat)
<1>1. PICK m \in Nat \ {0} : m = InitialCapacity /\ Room % m = 0
  BY QueueAssumption, RingAssumption DEF Room
<1>2. Used \in Nat /\ BLOCK_SIZE \in Nat \ {0}
  BY Sizes, DivMod DEF Used
<1>3. PICK x \in Int : x = Used - 1
  BY <1>2
<1>4. FirstTail \in 0 .. m - 1
  BY <1>1, <1>3, DivMod DEF FirstTail
<1>5. ASSUME NEW i \in 1 .. m
      PROVE  FirstKey(i) \in Nat
  <2>1. \E k \in Used - m .. Used - 1 : k % m = i - 1
    BY <1>2, LastOfEntry
  <2>2. LastOf(i) \in Used - m .. Used - 1
    BY <1>1, <2>1 DEF LastOf
  <2>3. PICK k \in Int : k = LastOf(i)
    BY <1>2, <2>2
  <2>4. k >= 0 => k * BLOCK_SIZE \in Nat
    BY <1>2
  <2> QED
    BY <2>3, <2>4 DEF FirstKey, INVALID_BLOCK_BASE
<1>6. FirstIndex \in Seq(Nat) /\ Len(FirstIndex) = m /\ \A i \in 1 .. m : FirstIndex[i] = i
  BY <1>1 DEF FirstIndex
<1>7. ASSUME NEW i \in 1 .. m
      PROVE  FreeEntry(FirstKey(i)) \in EntryRecords /\ FreeEntry(FirstKey(i)).value = 0
  <2>1. PICK k \in Nat : k = FirstKey(i)
    BY <1>5
  <2>2. 0 \in 0 .. MaxBlocks
    BY FreeListAssumption
  <2> QED
    BY <2>1, <2>2 DEF FreeEntry, EntryRecords
<1>8. FirstEntries = [i \in 1 .. m |-> FreeEntry(FirstKey(i))]
  BY <1>1 DEF FirstEntries
<1>9. FirstEntries \in Seq(EntryRecords) /\ Len(FirstEntries) = m /\ \A i \in 1 .. m : FirstEntries[i].value = 0
  <2>1. PICK es : es = FirstEntries
    OBVIOUS
  <2>2. es \in [1 .. m -> EntryRecords] /\ \A i \in 1 .. m : es[i].value = 0
    BY <1>7, <1>8, <2>1
  <2>3. es \in Seq(EntryRecords) /\ Len(es) = m
    BY ONLY <2>2, m \in Nat
  <2> QED
    BY <2>1, <2>2, <2>3
<1>10. RingShape(FirstIndex, FirstEntries)
  BY <1>1, <1>6, <1>9 DEF RingShape
<1>11. RingFits(FirstIndex, FirstTail, FirstEntries, 0, 0, 0)
  BY <1>4, <1>6, <1>9, <1>10 DEF RingFits
<1> QED
  BY <1>4, <1>6, <1>11

LEMMA InitQInv ==
    ASSUME Init
    PROVE  QInv
<1>1. /\ tailIndex = [p \in Producers |-> Wrap(Start)] /\ headIndex = tailIndex
      /\ dequeueOptimisticCount = tailIndex /\ dequeueOvercommit = [p \in Producers |-> 0]
      /\ tailBlock = [p \in Producers |-> IF Start = 0 THEN 0 ELSE 1]
      /\ put = [p \in Producers |-> NoPut] /\ get = NoGet
      /\ received = [p \in Producers |-> << >>]
      /\ elements = [b \in Blocks |-> [i \in 0 .. BLOCK_SIZE - 1 |-> 0]]
      /\ count = [b \in Blocks |-> IF b <= created THEN BLOCK_SIZE ELSE 0]
  BY DEF Init
<1>2. PICK n \in 0 .. 1 : n = (IF Start = 0 THEN 0 ELSE 1)
  OBVIOUS
<1>3. poolIndex = n /\ created = n /\ FreeListInit(n)
  BY <1>2 DEF Init
<1>4. PICK place : place = [b \in Blocks |-> IF b <= n THEN Spot("list", 0, b) ELSE Spot("unused", 0, 0)]
  OBVIOUS
<1>5. FreeListNow(place, n)
  BY <1>3, <1>4, ListBegins
<1>6. MaxBlocks \in Nat /\ MaxBlocks > 0 /\ Blocks = 1 .. MaxBlocks
  BY FreeListAssumption, QueueAssumption DEF Blocks
<1>7. \A b \in Blocks :
        /\ place[b].at \in {"list", "unused"}
        /\ place[b].at = "unused" <=> b > n
  BY <1>4, <1>6 DEF Spot
<1>8. PlacesKnown(place, created)
  BY <1>3, <1>7 DEF PlacesKnown, Places, Elsewhere
<1>9. /\ entries = [p \in Producers |-> FirstEntries]
      /\ blockIndex = [p \in Producers |-> <<[tail |-> FirstTail, index |-> FirstIndex]>>]
  BY FirstIs
<1>10. CallsAgree
  <2>1. \A t \in Threads : call[t].at = "out"
    BY <1>3 DEF FreeListInit, NoCall
  <2> QED
    BY <1>1, <2>1, ThreadsAre DEF CallsAgree, NoPut, NoGet
<1>11. PICK h \in HeaderRecords : h = [tail |-> FirstTail, index |-> FirstIndex]
  BY FirstRing DEF HeaderRecords
<1>12. /\ blockIndex \in [Producers -> Seq(HeaderRecords)]
       /\ \A p \in Producers : Len(blockIndex[p]) = 1 /\ Header(p) = h
  <2>1. blockIndex = [p \in Producers |-> <<h>>]
    BY <1>9, <1>11
  <2>2. <<h>> \in Seq(HeaderRecords) /\ Len(<<h>>) = 1 /\ <<h>>[1] = h
    BY ONLY h \in HeaderRecords
  <2> QED
    BY <2>1, <2>2 DEF Header
<1>13. TypesFit
  <2>1. tailBlock \in [Producers -> 0 .. MaxBlocks] /\ created \in 0 .. MaxBlocks /\ poolIndex \in Nat
    BY <1>1, <1>3, <1>6
  <2>2. NoPut \in PutRecords
    BY <1>6 DEF NoPut, PutRecords, PutSteps
  <2>3. put \in [Producers -> PutRecords] /\ get \in GetRecords
    BY <1>1, <2>2, NoGets
  <2>4. received \in [Producers -> Seq(Nat)]
    BY <1>1
  <2>5. BLOCK_SIZE \in Nat
    BY Sizes
  <2>6. count \in [Blocks -> Int]
    BY <1>1, <2>5
  <2>7. elements \in [Blocks -> [SlotNumbers -> Nat]]
    BY <1>1 DEF SlotNumbers
  <2> QED
    BY <1>9, <1>12, <2>1, <2>3, <2>4, <2>6, <2>7 DEF TypesFit
<1>14. ASSUME NEW p \in Producers
       PROVE  /\ Sent(p) = 0 /\ Gone(p) = 0 /\ Ins(p) = 0 /\ Pub(p) = 0 /\ Rem(p) = 0
              /\ put[p].at = "idle" /\ NumbersFit(p)
  <2>1. Start \in Int /\ Wrap(Start) \in Int
    BY Sizes, WrapFacts
  <2>2. Sent(p) = 0
    BY <1>1, <2>1, WrapStart DEF Sent
  <2>3. Gone(p) = 0 /\ received[p] = << >>
    BY <1>1 DEF Gone
  <2>4. PICK B \in Nat \ {0} : B = BLOCK_SIZE /\ 0 \div B = 0 /\ 0 % B = 0
    <3>1. BLOCK_SIZE \in Nat \ {0}
      BY Sizes
    <3>2. 0 \in 0 .. BLOCK_SIZE - 1
      BY <3>1
    <3> QED
      BY <3>1, <3>2, RemainderKeeps
  <2>5. put[p].at = "idle" /\ get.at = "wait"
    BY <1>1 DEF NoPut, NoGet
  <2>6. Ins(p) = 0
    BY <2>2, <2>4, <2>5 DEF Ins, ElementSteps
  <2>7. Pub(p) = 0
    BY <2>5, <2>6 DEF Pub, BlockSteps
  <2>8. Rem(p) = 0
    BY <2>3, <2>4, <2>5 DEF Rem
  <2>9. Claimed(p) = 0 /\ Headed(p) = 0
    BY <2>5 DEF Claimed, Headed, Locating
  <2>10. tailIndex[p] = Wrap(Start) /\ headIndex[p] = Wrap(Start) /\ dequeueOptimisticCount[p] = Wrap(Start)
         /\ dequeueOvercommit[p] = 0 /\ Start + 0 = Start /\ Start + (0 + 0) = Start /\ MaxItems[p] >= 0
    BY <1>1, <2>1, QueueAssumption
  <2>11. << >> = [i \in 1 .. 0 |-> i]
    OBVIOUS
  <2>12. NumbersFit(p)
    BY <2>2, <2>3, <2>9, <2>10, <2>11 DEF NumbersFit
  <2> QED
    BY <2>2, <2>3, <2>5, <2>6, <2>7, <2>8, <2>12
<1>15. ASSUME NEW p \in Producers
       PROVE  ProducerNow(place, p)
  <2>1. Header(p).index = FirstIndex /\ Header(p).tail = FirstTail /\ entries[p] = FirstEntries
    BY <1>9, <1>11, <1>12
  <2>2. RingFits(FirstIndex, FirstTail, FirstEntries, 0, 0, 0)
    BY FirstRing
  <2>3. PutFits(put[p], FirstIndex, FirstTail, FirstEntries, 0, 0, 0, 0, tailBlock[p])
    <3>1. BLOCK_SIZE \in Nat \ {0} /\ 0 \in 0 .. BLOCK_SIZE - 1
      BY Sizes
    <3>2. 0 % BLOCK_SIZE = 0
      BY <3>1, RemainderKeeps
    <3> QED
      BY <1>14, <3>2 DEF PutFits, EntrySteps, BlockSteps, ElementSteps
  <2>4. IndexPlaces(place, p, FirstIndex, FirstTail, FirstEntries, 0, 0, 0)
    BY <1>7 DEF IndexPlaces
  <2>5. HandPlaces(place, p, put[p])
    BY <1>7, <1>14 DEF HandPlaces
  <2>6. BlocksFilled(place, p, count, elements, 0, End(p))
    BY <1>7 DEF BlocksFilled
  <2>7. ProducerFits(place, p, FirstIndex, FirstTail, FirstEntries, 0, 0, 0, 0, 0, End(p), put[p],
                     tailBlock[p], count, elements)
    BY <2>2, <2>3, <2>4, <2>5, <2>6 DEF ProducerFits
  <2> QED
    BY <1>14, <2>1, <2>7 DEF ProducerNow
<1>16. get.at = "wait"
  BY <1>1 DEF NoGet
<1>17. GetKnows(get, Gone(Turn)) /\ ScanNow
  BY <1>16 DEF GetKnows, Locating, ScanNow, Scanning
<1>18. QNow(place, n)
  BY <1>5, <1>8, <1>10, <1>13, <1>14, <1>15, <1>17 DEF QNow
<1> QED
  BY <1>16, <1>18 DEF QInv, QueuesNow, Idle

-----------------------------------------------------------------------------
(* What comes out                                                          *)

\* Of p there come k elements more, the next ones.
LEMMA ComeOut ==
    ASSUME NEW p \in Producers, NEW gone \in Nat, NEW k \in Nat \ {0}, DOMAIN received = Producers,
           received[p] = [i \in 1 .. gone |-> i], NEW e, received' = [received EXCEPT ![p] = @ \o e],
           received'[p] = [i \in 1 .. gone + k |-> i], tailIndex' = tailIndex,
           gone + k <= Sent(p), Sent(p) \in Nat
    PROVE  Fifo!Next
<1>1. received' = [received EXCEPT ![p] = [i \in 1 .. gone + k |-> i]]
  OBVIOUS
<1>2. PICK x : x = [i \in 1 .. k |-> gone + i]
  OBVIOUS
<1>3. received[p] \o x = [i \in 1 .. gone + k |-> i]
  <2>1. k \in Nat /\ gone \in Nat
    OBVIOUS
  <2>2. PICK old, a : old = received[p] /\ a = old \o x
    OBVIOUS
  <2>3. Joins(a, old, x) /\ old = UpTo(gone)
    BY <2>2 DEF Joins, UpTo
  <2>4. GoesOn(x, gone, k)
    <3>1. x = [i \in 1 .. k |-> gone + i]
      BY <1>2
    <3> QED
      BY ONLY <2>1, <3>1 DEF GoesOn
  <2>5. a = UpTo(gone + k)
    BY ONLY <2>1, <2>3, <2>4, ElementsCome
  <2> QED
    BY <2>2, <2>5 DEF UpTo
<1>4. Len(received[p]) = gone
  OBVIOUS
<1>5. received' = [received EXCEPT ![p] = @ \o [i \in 1 .. k |-> Len(@) + i]]
  BY <1>1, <1>2, <1>3, <1>4
<1>6. [q \in Producers |-> Sent(q)]' = [q \in Producers |-> Sent(q)]
  BY DEF Sent
<1>7. Fifo!Dequeue(p, k)
  BY <1>5, <1>6 DEF Fifo!Dequeue
<1>8. k \in 1 .. [q \in Producers |-> Sent(q)][p] - Len(received[p])
  BY <1>4
<1> QED
  BY <1>7, <1>8 DEF Fifo!Next

LEMMA PublishEnqueues ==
    ASSUME NEW p \in Producers, received' = received, Sent(p)' = Sent(p) + 1,
           \A q \in Producers \ {p} : Sent(q)' = Sent(q)
    PROVE  Fifo!Next
<1>1. [q \in Producers |-> Sent(q)]' = [[q \in Producers |-> Sent(q)] EXCEPT ![p] = @ + 1]
  OBVIOUS
<1>2. Fifo!Enqueue(p)
  BY <1>1 DEF Fifo!Enqueue
<1> QED
  BY <1>2 DEF Fifo!Next

LEMMA MoveDequeues ==
    ASSUME IInv, NEW place, NEW n, QNow(place, n), MoveElements
    PROVE  Fifo!Next
<1>1. get.at = "move" /\ tailIndex' = tailIndex
  BY DEF MoveElements, Getting, queue
<1>2. PICK p \in Producers : p = Turn
  BY <1>1, MoveFacts
<1>3. PICK b : b = entries[p][EntryFrom(Header(p).index, Header(p).tail, Pub(p) - 1, Rem(p))].value
  OBVIOUS
<1>4. PICK k \in Nat \ {0}, e \in Seq(Nat) :
         /\ k <= get.actual /\ (Gone(p) % BLOCK_SIZE) + k <= BLOCK_SIZE
         /\ (Gone(p) % BLOCK_SIZE) + k # BLOCK_SIZE => k = get.actual
         /\ ElementsOf(e, b, Gone(p) % BLOCK_SIZE, k) /\ received' = [received EXCEPT ![p] = @ \o e]
         /\ TakenOut(b, Gone(p) % BLOCK_SIZE, k)
         /\ \E g \in GetRecords :
              /\ g.at = "move" /\ g.max = get.max /\ g.turn = get.turn /\ g.got = get.got + k
              /\ GetFieldsAre(g, get.actual - k, Wrap(get.first + k), get.header, get.tail, get.position)
              /\ get' = IF (Gone(p) % BLOCK_SIZE) + k = BLOCK_SIZE
                        THEN [g EXCEPT !.at = "empty"] ELSE NextBlock(g)
  BY <1>2, <1>3, MoveTakes
<1>5. /\ Gone(p) < Sent(p) /\ Rem(p) = Gone(p) \div BLOCK_SIZE
      /\ Gone(p) + get.actual <= Sent(p)
  BY <1>1, <1>2, MoveFacts
<1>6. PICK gone \in Nat, sent \in Nat, actual \in Nat : gone = Gone(p) /\ sent = Sent(p) /\ actual = get.actual
  <2>1. get.actual \in Nat
    BY DEF IInv, GetsFit
  <2> QED
    BY <2>1, BlocksHold
<1>7. gone + k <= sent
  BY <1>4, <1>5, <1>6
<1>8. received'[p] = [i \in 1 .. Gone(p) + k |-> i]
  <2>1. Gone(p) + k <= Sent(p)
    BY <1>6, <1>7
  <2>2. /\ (Gone(p) % BLOCK_SIZE) + k <= BLOCK_SIZE
        /\ ElementsOf(e, b, Gone(p) % BLOCK_SIZE, k) /\ received' = [received EXCEPT ![p] = @ \o e]
    BY <1>4
  <2> QED
    BY <1>3, <1>5, <2>1, <2>2, ElementsReceived
<1>9. received[p] = [i \in 1 .. gone |-> i] /\ DOMAIN received = Producers
  BY <1>6, PutFact DEF NumbersFit, QNow, TypesFit
<1>10. received'[p] = [i \in 1 .. gone + k |-> i] /\ gone + k <= Sent(p) /\ Sent(p) \in Nat
  BY <1>6, <1>7, <1>8
<1>11. received' = [received EXCEPT ![p] = @ \o e]
  BY <1>4
<1> QED
  BY <1>1, <1>9, <1>10, <1>11, ComeOut

LEMMA TryDequeueDequeues ==
    ASSUME IInv, NEW place, NEW n, QNow(place, n), TryDequeue
    PROVE  Fifo!Next
<1>1. tailIndex' = tailIndex
  BY DEF TryDequeue
<1>2. PICK p \in Producers :
         /\ p = ProducerList[Best] /\ Gone(p) < Sent(p) /\ Rem(p) = Gone(p) \div BLOCK_SIZE
         /\ headIndex[p] = Wrap(Start + Gone(p)) /\ Slot(headIndex[p]) = Gone(p) % BLOCK_SIZE
  BY DrainFacts
<1>3. PICK e, b : e = EntryFrom(Header(p).index, Header(p).tail, Pub(p) - 1, Rem(p)) /\ b = entries[p][e].value
  OBVIOUS
<1>4. /\ \E x : ElementsOf(x, b, Gone(p) % BLOCK_SIZE, 1) /\ received' = [received EXCEPT ![p] = @ \o x]
      /\ (Gone(p) % BLOCK_SIZE) + 1 <= BLOCK_SIZE
  <2>1. DrainEffect(p, e, b)
    BY <1>2, <1>3, DrainTakes
  <2> QED
    BY ONLY <2>1 DEF DrainEffect
<1>5. PICK x : ElementsOf(x, b, Gone(p) % BLOCK_SIZE, 1) /\ received' = [received EXCEPT ![p] = @ \o x]
  BY <1>4
<1>6. PICK k \in Nat \ {0} : k = 1
  OBVIOUS
<1>7. PICK gone \in Nat, sent \in Nat : gone = Gone(p) /\ sent = Sent(p)
  BY BlocksHold
<1>8. b = entries[p][EntryFrom(Header(p).index, Header(p).tail, Pub(p) - 1, Rem(p))].value
  BY <1>3
<1>9. received'[p] = [i \in 1 .. Gone(p) + k |-> i] /\ Gone(p) + k <= Sent(p)
  <2>1. Gone(p) < Sent(p) /\ Rem(p) = Gone(p) \div BLOCK_SIZE /\ Gone(p) + k <= Sent(p)
    BY <1>2, <1>6, <1>7
  <2>2. /\ (Gone(p) % BLOCK_SIZE) + k <= BLOCK_SIZE
        /\ ElementsOf(x, b, Gone(p) % BLOCK_SIZE, k) /\ received' = [received EXCEPT ![p] = @ \o x]
    BY <1>4, <1>5, <1>6
  <2>3. received'[p] = [i \in 1 .. Gone(p) + k |-> i]
    BY <1>8, <2>1, <2>2, ElementsReceived
  <2> QED
    BY <2>1, <2>3
<1>10. received[p] = [i \in 1 .. gone |-> i] /\ DOMAIN received = Producers
  BY <1>7, PutFact DEF NumbersFit, QNow, TypesFit
<1>11. received'[p] = [i \in 1 .. gone + k |-> i] /\ gone + k <= Sent(p) /\ Sent(p) \in Nat
  BY <1>7, <1>9
<1>12. received' = [received EXCEPT ![p] = @ \o x]
  BY <1>5
<1> QED
  BY <1>1, <1>10, <1>11, <1>12, ComeOut

Enqueued == [p \in Producers |-> Sent(p)]

\* Nothing goes in or out.
LEMMA NothingMoves ==
    ASSUME tailIndex' = tailIndex, received' = received
    PROVE  UNCHANGED <<Enqueued, received>>
BY DEF Enqueued, Sent

LEMMA StepIsFifo ==
    ASSUME IInv, QInv, [Next]_vars
    PROVE  [Fifo!Next]_<<Enqueued, received>>
<1>1. CASE get.at = "destroyed"
  <2>1. UNCHANGED vars
    BY <1>1, EndedStays DEF QInv
  <2>2. tailIndex' = tailIndex /\ received' = received
    BY <2>1 DEF vars, queue
  <2> QED
    BY <2>2, NothingMoves
<1>2. CASE get.at # "destroyed"
  <2>1. PICK place, n : QNow(place, n)
    BY <1>2 DEF QInv, QueuesNow
  <2>2. ASSUME NEW p \in Producers, Publish(p)
        PROVE  Fifo!Next
    <3>1. received' = received
      BY <2>2 DEF Publish
    <3>2. Sent(p)' = Sent(p) + 1 /\ \A q \in Producers \ {p} : Sent(q)' = Sent(q)
      BY <2>2, SentGrows
    <3> QED
      BY <3>1, <3>2, PublishEnqueues
  <2>3. CASE MoveElements
    BY <2>1, <2>3, MoveDequeues
  <2>4. CASE TryDequeue
    BY <2>1, <2>4, TryDequeueDequeues
  <2>5. CASE /\ \A p \in Producers : ~ Publish(p)
             /\ ~ MoveElements /\ ~ TryDequeue
    <3>1. tailIndex' = tailIndex /\ received' = received
      <4>1. ASSUME NEW p \in Producers, Produce(p)
            PROVE  tailIndex' = tailIndex /\ received' = received
        BY <2>5, <4>1 DEF Produce, StartBlock, InsertEntry, PublishEntry, TryPool, TakeFromPool,
           TakeFromList, InsertBlock, PutElement, Signal, WakeConsumer, queue
      <4>2. ASSUME \/ WaitMany \/ StartSpinning \/ EndSpinning \/ WakeUp \/ TakeMore \/ Stop \/ Destroy
            PROVE  tailIndex' = tailIndex /\ received' = received
        BY <4>2 DEF WaitMany, StartSpinning, EndSpinning, WakeUp, TakeMore, KeepAllButSemaphore, Stop, Destroy,
           queue
      <4>3. ASSUME \/ Claim \/ TakeHeadIndex \/ LoadHeader \/ LoadTail \/ FindEntry \/ RemoveEntry
                   \/ BlockFreed
            PROVE  tailIndex' = tailIndex /\ received' = received
        BY <4>3 DEF Claim, TakeHeadIndex, LoadHeader, LoadTail, FindEntry, RemoveEntry, BlockFreed, queue
      <4>4. ASSUME NEW t \in Threads, ListStep(t)
            PROVE  tailIndex' = tailIndex /\ received' = received
        BY <4>4 DEF ListStep, queue
      <4>5. ASSUME UNCHANGED vars
            PROVE  tailIndex' = tailIndex /\ received' = received
        BY <4>5 DEF vars, queue
      <4> QED
        BY <2>5, <4>1, <4>2, <4>3, <4>4, <4>5 DEF Next, Consume
    <3> QED
      BY <3>1, NothingMoves
  <2> QED
    BY <2>2, <2>3, <2>4, <2>5
<1> QED
  BY <1>1, <1>2

-----------------------------------------------------------------------------
(* The specification                                                       *)

\* Each block has a place, with which all that names it agrees, until the queue is destroyed.
LEMMA QInvKept == Spec => []QInv
<1>1. Init => QInv
  BY InitQInv
<1>2. IInv /\ QInv /\ [Next]_vars => QInv'
  BY NextQInv
<1> QED
  BY <1>1, <1>2, InvariantKept, PTL DEF Spec

(* A block that requisition_block has given out is in one place at a time: *)
(* in one index, in the hand of one thread, or free.  When the queue is    *)
(* destroyed all of them are free.                                         *)
THEOREM BlocksStayInOnePlace == Spec => []BlocksInOnePlace
<1>1. QInv => BlocksInOnePlace
  BY PlacesWell
<1> QED
  BY <1>1, QInvKept, PTL

(* What try_dequeue_bulk and try_dequeue give out of a producer's queue is *)
(* what it has enqueued before, each element once and in order.            *)
THEOREM QueueIsFifo == Spec => FifoSpec
<1>1. Init => Fifo!Init
  <2>1. SUFFICES ASSUME Init
                 PROVE  Fifo!Init
    OBVIOUS
  <2>2. received = [p \in Producers |-> << >>] /\ tailIndex = [p \in Producers |-> Wrap(Start)]
    BY <2>1 DEF Init
  <2>3. Start \in Int
    BY Sizes
  <2>4. \A p \in Producers : Sent(p) = 0
    BY <2>2, <2>3, WrapStart DEF Sent
  <2> QED
    BY <2>2, <2>4 DEF Fifo!Init
<1>2. IInv /\ QInv /\ [Next]_vars => [Fifo!Next]_<<Enqueued, received>>
  BY StepIsFifo
<1> QED
  BY <1>1, <1>2, QInvKept, InvariantKept, PTL DEF Spec, FifoSpec, Fifo!Spec, Enqueued
=============================================================================
