------------------------ MODULE ProducerTableProofs ------------------------
(***************************************************************************)
(* Proofs about ProducerTable: a thread is given the same producer by each *)
(* call, one that is no other thread's and that the consumer will find     *)
(* (OwnProducer), whatever tables are made, replaced and filled meanwhile. *)
(***************************************************************************)
EXTENDS ProducerTable, FiniteSetTheorems, WellFoundedInduction, TLAPS

-----------------------------------------------------------------------------
(* The inductive invariant                                                 *)

Entries == [key : Threads \cup {Nobody}, value : Nat]

Sizes == Nat \ {0}

IsTable(table) ==
    \E capacity \in Sizes : table \in [0 .. capacity - 1 -> Entries]

Steps == {"idle", "count", "room", "resize", "unlock", "full", "create", "push", "place"}

\* Thread t has no producer yet, and knows that.
Searched(t) ==
    thread[t].at \in {"count", "room", "resize", "unlock", "full", "create", "push"}

\* The threads that hashCount stands for.
Counted == {t \in Threads : thread[t].at \notin {"idle", "count"} \/ given[t] # {}}

Doing == [at : Steps, main : Nat, count : Nat, producer : Nat, tail : Seq(Nat)]

ThreadsFit ==
    /\ thread \in [Threads -> Doing]
    /\ \A t \in Threads : ~ At(t, "idle") => Main(t) \in 1 .. Len(tables)

\* hashCount never falls below zero, and so a new table has a size.
CountFits == hashCount = Cardinality(Counted)

TablesFit == /\ \E S : tables \in Seq(S)
             /\ Len(tables) # 0
             /\ \A n \in 1 .. Len(tables) : IsTable(tables[n])

ProbeIn(t, table, i) == (Hash[t] + i) % Cardinality(DOMAIN table)

Indexes(table) == 0 .. Cardinality(DOMAIN table) - 1

\* Entry e of a table is the first one that thread t comes to which is free or its own.
First(t, table, e) ==
    \E i \in Indexes(table) :
        /\ ProbeIn(t, table, i) = e
        /\ \A j \in 0 .. i - 1 : table[ProbeIn(t, table, j)].key \notin {t, Nobody}

\* What a table says of thread t is true, and t will find it.
Says(table, t, producersOfT) ==
    \A e \in DOMAIN table :
        table[e].key = t => producersOfT = {table[e].value} /\ First(t, table, e)

EntriesFit ==
    \A n \in 1 .. Len(tables), t \in Threads : Says(tables[n], t, given[t])

Mentions(table, t) == \E e \in DOMAIN table : table[e].key = t

\* A thread that was given a producer is in some table, and one that looks for the first
\* time has been given none.
GivenFit ==
    /\ given \in [Threads -> SUBSET (1 .. producers)]
    /\ \A t \in Threads :
          /\ given[t] # {} => \E n \in 1 .. Len(tables) : Mentions(tables[n], t)
          /\ Searched(t) => given[t] = {}

InList(producer) == \E i \in 1 .. Len(list) : list[i] = producer

\* A producer that a thread was given, or is about to be given.
Owns(t, producer) ==
    \/ producer \in given[t]
    \/ At(t, "push") /\ producer = thread[t].producer
    \/ At(t, "place") /\ producer = thread[t].producer

ProducersFit ==
    /\ producers \in Nat /\ list \in Seq(Nat)
    /\ \A i \in 1 .. Len(list) : list[i] \in 1 .. producers
    /\ \A i, j \in 1 .. Len(list) : list[i] = list[j] => i = j
    /\ \A t \in Threads :
          /\ \A producer \in given[t] : InList(producer)
          /\ \A producer : Owns(t, producer) =>
                /\ producer \in 1 .. producers
                /\ \A u \in Threads \ {t} : ~ Owns(u, producer)
          /\ At(t, "push") => ~ InList(thread[t].producer)
          /\ At(t, "place") => /\ InList(thread[t].producer)
                               /\ given[t] \in {{}, {thread[t].producer}}

IInv == ThreadsFit /\ CountFits /\ TablesFit /\ EntriesFit /\ GivenFit /\ ProducersFit

-----------------------------------------------------------------------------
(* Tables                                                                  *)

LEMMA Smallest ==
    ASSUME NEW S \in SUBSET Nat, S # {}
    PROVE  \E i \in S : \A j \in S : i <= j
<1> DEFINE R == {ss \in Nat \X Nat : ss[1] < ss[2]}
<1>1. IsWellFoundedOn(R, Nat)
  BY NatLessThanWellFounded, Zenon DEF OpToRel
<1>2. PICK i \in S : \A j \in S : << j, i >> \notin R
  <2> HIDE DEF R
  <2> QED
    BY <1>1, WFMin
<1>3. \A j \in S : ~ (j < i)
  BY <1>2
<1> QED
  BY <1>3

LEMMA Largest ==
    ASSUME NEW n \in Nat, NEW S \in SUBSET (1 .. n), S # {}
    PROVE  \E i \in S : \A j \in S : j <= i
<1> DEFINE T == {n - j : j \in S}
<1>1. T \in SUBSET Nat /\ T # {}
  <2>1. \A j \in S : n - j \in Nat
    OBVIOUS
  <2>2. PICK j \in S : TRUE
    OBVIOUS
  <2> QED
    BY <2>1, <2>2
<1>2. PICK d \in T : \A e \in T : d <= e
  <2> HIDE DEF T
  <2> QED
    BY <1>1, Smallest
<1>3. PICK i \in S : d = n - i
  BY <1>2
<1>4. \A j \in S : d <= n - j
  BY <1>2
<1> QED
  BY <1>3, <1>4

LEMMA TableFacts ==
    ASSUME NEW table, IsTable(table)
    PROVE  /\ Cardinality(DOMAIN table) \in Sizes /\ DOMAIN table = Indexes(table)
           /\ \A e \in DOMAIN table : table[e] \in Entries
           /\ \A t \in Threads, i \in Nat : ProbeIn(t, table, i) \in DOMAIN table
<1>1. PICK capacity \in Sizes : table \in [0 .. capacity - 1 -> Entries]
  BY DEF IsTable
<1>2. Cardinality(0 .. capacity - 1) = capacity
  BY <1>1, FS_Interval DEF Sizes
<1>3. Cardinality(DOMAIN table) = capacity
  BY <1>1, <1>2
<1>4. \A t \in Threads : Hash[t] \in Nat
  BY TableAssumption
<1>5. \A h \in Nat, i \in Nat : (h + i) % capacity \in 0 .. capacity - 1
  BY <1>1 DEF Sizes
<1> QED
  BY <1>1, <1>3, <1>4, <1>5 DEF ProbeIn, Indexes

\* Found is the first entry that is free or the thread's own, if there is one.
LEMMA FoundFacts ==
    ASSUME NEW t \in Threads, NEW n, IsTable(tables[n]), NEW e \in Found(t, n)
    PROVE  /\ Found(t, n) = {e} /\ e \in DOMAIN tables[n]
           /\ tables[n][e].key \in {t, Nobody} /\ First(t, tables[n], e)
<1> DEFINE probed == {i \in 0 .. CapacityOf(n) - 1 : tables[n][Probe(t, n, i)].key \in {t, Nobody}}
           m == CHOOSE i \in probed : \A j \in probed : i <= j
<1>1. Found(t, n) = {Probe(t, n, m)} /\ probed # {}
  BY DEF Found
<1>2. CapacityOf(n) \in Nat /\ 0 .. CapacityOf(n) - 1 = Indexes(tables[n])
  BY TableFacts DEF CapacityOf, Sizes, Indexes
<1>3. \E i \in probed : \A j \in probed : i <= j
  <2>1. probed \in SUBSET Nat
    BY <1>2
  <2> HIDE DEF probed
  <2> QED
    BY <1>1, <2>1, Smallest
<1>4. m \in probed /\ \A j \in probed : m <= j
  <2> HIDE DEF probed
  <2> QED
    BY <1>3
<1>5. \A i : Probe(t, n, i) = ProbeIn(t, tables[n], i)
  BY DEF Probe, ProbeIn, CapacityOf
<1> HIDE DEF m
<1>6. e = Probe(t, n, m) /\ m \in Indexes(tables[n]) /\ m \in Nat
  BY <1>1, <1>2, <1>4
<1>7. \A j \in 0 .. m - 1 : tables[n][Probe(t, n, j)].key \notin {t, Nobody}
  BY <1>2, <1>4, <1>6
<1> QED
  BY <1>1, <1>4, <1>5, <1>6, <1>7, TableFacts DEF First

\* A thread that a table mentions finds itself.
LEMMA MentionedFound ==
    ASSUME NEW t \in Threads, NEW n, IsTable(tables[n]), NEW e \in DOMAIN tables[n],
           tables[n][e].key = t, First(t, tables[n], e)
    PROVE  Found(t, n) = {e}
<1> DEFINE table == tables[n]
<1>1. PICK i \in Indexes(table) :
          /\ ProbeIn(t, table, i) = e
          /\ \A j \in 0 .. i - 1 : table[ProbeIn(t, table, j)].key \notin {t, Nobody}
  BY DEF First
<1>2. CapacityOf(n) \in Nat /\ 0 .. CapacityOf(n) - 1 = Indexes(table)
  BY TableFacts DEF CapacityOf, Sizes, Indexes
<1>3. \A k : Probe(t, n, k) = ProbeIn(t, table, k)
  BY DEF Probe, ProbeIn, CapacityOf
<1>4. Found(t, n) # {}
  BY <1>1, <1>2, <1>3 DEF Found
<1>5. PICK f : f \in Found(t, n)
  BY <1>4
<1>6. /\ Found(t, n) = {f} /\ tables[n][f].key \in {t, Nobody} /\ First(t, tables[n], f)
  BY <1>5, FoundFacts
<1>7. PICK k \in Indexes(table) :
          /\ ProbeIn(t, table, k) = f
          /\ \A j \in 0 .. k - 1 : table[ProbeIn(t, table, j)].key \notin {t, Nobody}
  BY <1>6 DEF First
<1>8. i \in Nat /\ k \in Nat
  BY <1>2
<1>9. ~ (k < i)
  BY <1>1, <1>6, <1>7, <1>8
<1>10. ~ (i < k)
  BY <1>1, <1>7, <1>8
<1> QED
  BY <1>1, <1>6, <1>7, <1>8, <1>9, <1>10

\* What a thread reads in a table about itself.
LEMMA KnowsFacts ==
    ASSUME NEW t \in Threads, NEW n, IsTable(tables[n]), Says(tables[n], t, given[t])
    PROVE  /\ Knows(t, n) <=> Mentions(tables[n], t)
           /\ Knows(t, n) => given[t] = {ValueIn(t, n)}
<1>1. ASSUME Mentions(tables[n], t)
      PROVE  Knows(t, n)
  <2>1. PICK e \in DOMAIN tables[n] : tables[n][e].key = t
    BY <1>1 DEF Mentions
  <2>2. First(t, tables[n], e)
    BY <2>1 DEF Says
  <2> QED
    BY <2>1, <2>2, MentionedFound DEF Knows
<1>2. ASSUME Knows(t, n)
      PROVE  Mentions(tables[n], t) /\ given[t] = {ValueIn(t, n)}
  <2>1. PICK e \in Found(t, n) : tables[n][e].key = t
    BY <1>2 DEF Knows
  <2>2. Found(t, n) = {e} /\ e \in DOMAIN tables[n]
    BY <2>1, FoundFacts
  <2>3. ValueIn(t, n) = tables[n][e].value
    BY <2>2 DEF ValueIn
  <2> QED
    BY <2>1, <2>2, <2>3 DEF Mentions, Says
<1> QED
  BY <1>1, <1>2

-----------------------------------------------------------------------------
(* What a step keeps                                                       *)

LEMMA FirstKept ==
    ASSUME NEW t \in Threads, NEW u \in Threads, NEW old, NEW e \in DOMAIN old,
           old[e].key \in {t, Nobody}, NEW q, NEW f, First(u, old, f)
    PROVE  First(u, [old EXCEPT ![e] = [key |-> t, value |-> q]], f)
<1> DEFINE new == [old EXCEPT ![e] = [key |-> t, value |-> q]]
<1>1. PICK i \in Indexes(old) :
          /\ ProbeIn(u, old, i) = f
          /\ \A j \in 0 .. i - 1 : old[ProbeIn(u, old, j)].key \notin {u, Nobody}
  BY DEF First
<1>2. DOMAIN new = DOMAIN old /\ new[e].key = t /\ \A d : d # e => new[d] = old[d]
  OBVIOUS
<1>3. Indexes(new) = Indexes(old) /\ \A j : ProbeIn(u, new, j) = ProbeIn(u, old, j)
  BY <1>2 DEF Indexes, ProbeIn
<1>4. t # Nobody
  BY TableAssumption
<1> HIDE DEF new
<1>5. \A j \in 0 .. i - 1 : new[ProbeIn(u, new, j)].key \notin {u, Nobody}
  <2> TAKE j \in 0 .. i - 1
  <2>1. old[ProbeIn(u, old, j)].key \notin {u, Nobody}
    BY <1>1
  <2>2. CASE ProbeIn(u, old, j) = e
    BY <1>2, <1>3, <1>4, <2>1, <2>2
  <2>3. CASE ProbeIn(u, old, j) # e
    BY <1>2, <1>3, <2>1, <2>3
  <2> QED
    BY <2>2, <2>3
<1>6. First(u, new, f)
  BY <1>1, <1>3, <1>5 DEF First
<1> QED
  BY <1>6 DEF new

LEMMA PlaceSays ==
    ASSUME TablesFit, EntriesFit, NEW n \in 1 .. Len(tables),
           NEW t \in Threads, NEW e \in Found(t, n), NEW q \in Nat, given[t] \in {{}, {q}}
    PROVE  LET new == [tables[n] EXCEPT ![e] = [key |-> t, value |-> q]]
           IN  /\ IsTable(new) /\ Mentions(new, t) /\ Says(new, t, {q})
               /\ \A u \in Threads \ {t} : /\ Says(new, u, given[u])
                                           /\ Mentions(tables[n], u) => Mentions(new, u)
<1>0. PICK new : new = [tables[n] EXCEPT ![e] = [key |-> t, value |-> q]]
  OBVIOUS
<1>1. /\ e \in DOMAIN tables[n] /\ tables[n][e].key \in {t, Nobody}
      /\ First(t, tables[n], e) /\ IsTable(tables[n])
      /\ \A u \in Threads : Says(tables[n], u, given[u])
  BY FoundFacts DEF TablesFit, EntriesFit
<1>2. /\ DOMAIN new = DOMAIN tables[n] /\ new[e].key = t /\ new[e].value = q
      /\ \A d \in DOMAIN new : d # e => new[d] = tables[n][d]
  BY <1>0, <1>1
<1>3. IsTable(new)
  BY <1>0, <1>1 DEF IsTable, Entries
<1>4. \A u \in Threads : \A f : First(u, tables[n], f) => First(u, new, f)
  BY <1>0, <1>1, FirstKept
<1>5. Says(new, t, {q})
  <2> SUFFICES ASSUME NEW f \in DOMAIN new, new[f].key = t
               PROVE  {q} = {new[f].value} /\ First(t, new, f)
    BY DEF Says
  <2>1. CASE f = e
    BY <1>1, <1>2, <1>4, <2>1
  <2>2. CASE f # e
    <3>1. given[t] = {new[f].value} /\ First(t, tables[n], f)
      BY <1>1, <1>2, <2>2 DEF Says
    <3> QED
      BY <1>4, <3>1
  <2> QED
    BY <2>1, <2>2
<1>6. ASSUME NEW u \in Threads \ {t}
      PROVE  /\ Says(new, u, given[u])
             /\ Mentions(tables[n], u) => Mentions(new, u)
  <2>1. \A f \in DOMAIN new : new[f].key = u => f # e /\ new[f] = tables[n][f]
    BY <1>2
  <2>2. Says(new, u, given[u])
    BY <1>1, <1>2, <1>4, <2>1 DEF Says
  <2>3. u # Nobody
    BY TableAssumption
  <2>4. \A f \in DOMAIN new : tables[n][f].key = u => f # e
    BY <1>1, <2>3
  <2> QED
    BY <1>2, <2>2, <2>4 DEF Mentions
<1> QED
  BY <1>0, <1>2, <1>1, <1>3, <1>5, <1>6 DEF Mentions

\* The producers fit if no thread that holds one does anything.
LEMMA ProducersKept ==
    ASSUME ProducersFit, list' = list, producers' = producers, given' = given,
           \A u \in Threads :
               thread'[u].at \in {"push", "place"} \/ thread[u].at \in {"push", "place"} =>
                   thread'[u].at = thread[u].at /\ thread'[u].producer = thread[u].producer
    PROVE  ProducersFit'
<1>1. \A u \in Threads : \A q : Owns(u, q)' <=> Owns(u, q)
  BY DEF Owns, At
<1>2. \A q : InList(q)' <=> InList(q)
  BY DEF InList
<1>3. \A u \in Threads :
          /\ (At(u, "push"))' => At(u, "push") /\ thread'[u].producer = thread[u].producer
          /\ (At(u, "place"))' => At(u, "place") /\ thread'[u].producer = thread[u].producer
  BY DEF At
<1> QED
  BY <1>1, <1>2, <1>3 DEF ProducersFit

LEMMA IdleDoing ==
    Idle \in Doing /\ Idle.at = "idle"
  BY DEF Idle, Doing, Steps

LEMMA CountedFinite ==
    IsFiniteSet(Counted) /\ Cardinality(Counted) \in Nat
  BY TableAssumption, FS_Subset, FS_CardinalityType DEF Counted

-----------------------------------------------------------------------------
(* The actions                                                             *)

\* The tables that were there stay as they were, and a new one says nothing.
LEMMA TablesGrow ==
    ASSUME IInv, given' = given,
           \/ tables' = tables
           \/ \E capacity \in Sizes : tables' = Append(tables, NewTable(capacity))
    PROVE  /\ TablesFit' /\ EntriesFit' /\ Len(tables') \in Nat /\ Len(tables) <= Len(tables')
           /\ \A n \in 1 .. Len(tables) : tables'[n] = tables[n]
<1>1. TablesFit /\ EntriesFit
  BY DEF IInv
<1>2. CASE tables' = tables
  BY <1>1, <1>2 DEF TablesFit, EntriesFit
<1>3. CASE \E capacity \in Sizes : tables' = Append(tables, NewTable(capacity))
  <2>1. PICK capacity \in Sizes : tables' = Append(tables, NewTable(capacity))
    BY <1>3
  <2>2. PICK S : tables \in Seq(S)
    BY <1>1 DEF TablesFit
  <2> DEFINE new == NewTable(capacity)
             T == S \cup {new}
  <2>3. /\ IsTable(new)
        /\ \A t \in Threads : Says(new, t, given[t])
    <3>1. new = [i \in 0 .. capacity - 1 |-> FreeEntry] /\ FreeEntry \in Entries
      BY DEF NewTable, FreeEntry, Entries
    <3>2. \A t \in Threads, e \in DOMAIN new : new[e].key # t
      BY <3>1, TableAssumption DEF FreeEntry
    <3> HIDE DEF new
    <3> QED
      BY <3>1, <3>2 DEF IsTable, Says
  <2> HIDE DEF new
  <2>4. tables' = Append(tables, new) /\ tables \in Seq(T) /\ new \in T
    <3>1. tables \in Seq(S) /\ tables' = Append(tables, new)
      BY <2>1, <2>2 DEF new
    <3> QED
      BY <3>1
  <2> HIDE DEF T
  <2>5. /\ tables' \in Seq(T) /\ Len(tables') = Len(tables) + 1 /\ Len(tables) \in Nat
        /\ \A n \in 1 .. Len(tables) : tables'[n] = tables[n]
        /\ tables'[Len(tables) + 1] = new
    BY <2>4
  <2>6. \A n \in 1 .. Len(tables') : n \in 1 .. Len(tables) \/ n = Len(tables) + 1
    BY <2>5
  <2>7. TablesFit'
    BY <1>1, <2>3, <2>5, <2>6 DEF TablesFit
  <2>8. EntriesFit'
    BY <1>1, <2>3, <2>5, <2>6 DEF EntriesFit
  <2> QED
    BY <2>5, <2>7, <2>8
<1> QED
  BY <1>2, <1>3

\* The steps between the count and the new producer.
Going == {"room", "resize", "unlock", "full", "create"}

LEMMA GoesOn ==
    ASSUME IInv, NEW t \in Threads, thread[t].at \in Going,
           NEW r \in Doing, r.at \in Going, r.main \in 1 .. Len(tables'),
           thread' = [thread EXCEPT ![t] = r],
           hashCount' = hashCount, list' = list, producers' = producers, given' = given,
           \/ tables' = tables
           \/ \E capacity \in Sizes : tables' = Append(tables, NewTable(capacity))
    PROVE  IInv'
<1>1. ThreadsFit /\ CountFits /\ TablesFit /\ GivenFit /\ ProducersFit
  BY DEF IInv
<1>2. /\ thread' \in [Threads -> Doing] /\ thread'[t] = r
      /\ \A u \in Threads \ {t} : thread'[u] = thread[u]
  BY <1>1 DEF ThreadsFit
<1>3. /\ TablesFit' /\ EntriesFit' /\ Len(tables') \in Nat /\ Len(tables) <= Len(tables')
      /\ \A n \in 1 .. Len(tables) : tables'[n] = tables[n]
  BY TablesGrow
<1>4. Len(tables) \in Nat
  BY <1>1 DEF TablesFit
<1>5. ThreadsFit'
  <2>1. \A u \in Threads : ~ At(u, "idle")' => Main(u)' \in 1 .. Len(tables)'
    <3> TAKE u \in Threads
    <3>1. CASE u = t
      BY <1>2, <3>1 DEF Main
    <3>2. CASE u # t
      BY <1>1, <1>2, <1>3, <1>4, <3>2 DEF ThreadsFit, At, Main
    <3> QED
      BY <3>1, <3>2
  <2> QED
    BY <1>2, <2>1 DEF ThreadsFit
<1>6. CountFits'
  <2>1. \A u \in Threads : thread'[u].at \in {"idle", "count"} <=> thread[u].at \in {"idle", "count"}
    BY <1>2 DEF Going
  <2>2. Counted' = Counted
    BY <2>1 DEF Counted
  <2> QED
    BY <1>1, <2>2 DEF CountFits
<1>7. GivenFit'
  <2>1. \A u \in Threads : (Searched(u))' => Searched(u)
    BY <1>2 DEF Searched, Going
  <2>2. \A u \in Threads, n \in 1 .. Len(tables) :
            n \in 1 .. Len(tables') /\ (Mentions(tables[n], u) => Mentions(tables'[n], u))
    BY <1>3, <1>4
  <2> QED
    BY <1>1, <2>1, <2>2 DEF GivenFit
<1>8. ProducersFit'
  BY <1>1, <1>2, ProducersKept DEF Going
<1> QED
  BY <1>3, <1>5, <1>6, <1>7, <1>8 DEF IInv

LEMMA CountKeeps ==
    ASSUME IInv, NEW t \in Threads, Count(t)
    PROVE  IInv'
<1>1. /\ ThreadsFit /\ CountFits /\ TablesFit /\ EntriesFit /\ GivenFit /\ ProducersFit
      /\ thread[t].at = "count" /\ hashCount' = hashCount + 1
      /\ thread' = [thread EXCEPT ![t].at = "room", ![t].count = hashCount']
      /\ tables' = tables /\ list' = list /\ producers' = producers /\ given' = given
  BY DEF IInv, Count, At
<1>2. hashCount \in Nat
  BY <1>1, CountedFinite DEF CountFits
<1>3. /\ thread' \in [Threads -> Doing] /\ thread'[t].at = "room"
      /\ \A u \in Threads : thread'[u].main = thread[u].main
      /\ \A u \in Threads \ {t} : thread'[u] = thread[u]
  <2> DEFINE r == [thread[t] EXCEPT !.at = "room", !.count = hashCount']
  <2>1. thread \in [Threads -> Doing] /\ thread' = [thread EXCEPT ![t] = r]
    BY <1>1 DEF ThreadsFit
  <2>2. r \in Doing /\ r.at = "room" /\ r.main = thread[t].main
    <3>1. hashCount' \in Nat /\ thread[t] \in Doing
      BY <1>1, <1>2, <2>1
    <3> QED
      BY <3>1 DEF Doing, Steps
  <2> HIDE DEF r
  <2> QED
    BY <2>1, <2>2
<1>4. ThreadsFit'
  BY <1>1, <1>3 DEF ThreadsFit, At, Main
<1>5. CountFits'
  <2>1. given[t] = {}
    BY <1>1 DEF GivenFit, Searched
  <2>2. Counted' = Counted \cup {t} /\ t \notin Counted
    BY <1>1, <1>3, <2>1 DEF Counted
  <2> QED
    BY <1>1, <2>2, CountedFinite, FS_AddElement DEF CountFits
<1>6. EntriesFit' /\ TablesFit'
  BY <1>1 DEF EntriesFit, TablesFit
<1>7. GivenFit'
  <2>1. \A u \in Threads : (Searched(u))' => Searched(u)
    BY <1>1, <1>3 DEF Searched
  <2> QED
    BY <1>1, <2>1 DEF GivenFit
<1>8. ProducersFit'
  BY <1>1, <1>3, ProducersKept
<1> QED
  BY <1>4, <1>5, <1>6, <1>7, <1>8 DEF IInv

LEMMA CannotAllocateKeeps ==
    ASSUME IInv, NEW t \in Threads, CannotAllocate(t)
    PROVE  IInv'
<1>1. /\ ThreadsFit /\ CountFits /\ TablesFit /\ EntriesFit /\ GivenFit /\ ProducersFit
      /\ thread[t].at = "resize" /\ hashCount' = hashCount - 1
      /\ thread' = [thread EXCEPT ![t] = Idle]
      /\ tables' = tables /\ list' = list /\ producers' = producers /\ given' = given
  BY DEF IInv, CannotAllocate, At
<1>3. /\ thread' \in [Threads -> Doing] /\ thread'[t].at = "idle"
      /\ \A u \in Threads \ {t} : thread'[u] = thread[u]
  BY <1>1, IdleDoing DEF ThreadsFit
<1>4. ThreadsFit'
  BY <1>1, <1>3 DEF ThreadsFit, At, Main
<1>5. CountFits'
  <2>1. given[t] = {}
    BY <1>1 DEF GivenFit, Searched
  <2>2. Counted' = Counted \ {t} /\ t \in Counted
    BY <1>1, <1>3, <2>1 DEF Counted
  <2> QED
    BY <1>1, <2>2, CountedFinite, FS_RemoveElement DEF CountFits
<1>6. EntriesFit' /\ TablesFit'
  BY <1>1 DEF EntriesFit, TablesFit
<1>7. GivenFit'
  <2>1. \A u \in Threads : (Searched(u))' => Searched(u)
    BY <1>1, <1>3 DEF Searched
  <2> QED
    BY <1>1, <2>1 DEF GivenFit
<1>8. ProducersFit'
  BY <1>1, <1>3, ProducersKept
<1> QED
  BY <1>4, <1>5, <1>6, <1>7, <1>8 DEF IInv

LEMMA RoomKeeps ==
    ASSUME IInv, NEW t \in Threads,
           TestAndSet(t) \/ Unlock(t) \/ SkipResize(t) \/ TryAdd(t)
    PROVE  IInv'
<1>1. /\ thread[t].at \in {"room", "unlock", "full"}
      /\ tables' = tables /\ hashCount' = hashCount /\ list' = list
      /\ producers' = producers /\ given' = given
  BY DEF TestAndSet, Unlock, SkipResize, TryAdd, At
<1>2. /\ thread \in [Threads -> Doing] /\ thread[t].main \in 1 .. Len(tables)
      /\ Len(tables) \in Nat \ {0}
  BY <1>1 DEF IInv, ThreadsFit, TablesFit, At, Main
<1>3. PICK at \in Going, main \in {thread[t].main, Len(tables)} :
          thread' = [thread EXCEPT ![t].at = at, ![t].main = main]
  <2>1. CASE TestAndSet(t)
    BY <2>1, Zenon DEF TestAndSet, Going
  <2>2. CASE Unlock(t)
    <3>1. thread' = [thread EXCEPT ![t].at = "full"]
      BY <2>2 DEF Unlock, Goto
    <3>2. thread' = [thread EXCEPT ![t].at = "full", ![t].main = thread[t].main]
      BY <1>2, <3>1 DEF Doing
    <3> QED
      BY <3>2 DEF Going
  <2>3. CASE SkipResize(t)
    <3>1. thread' = [thread EXCEPT ![t].at = "full"]
      BY <2>3 DEF SkipResize, Goto
    <3>2. thread' = [thread EXCEPT ![t].at = "full", ![t].main = thread[t].main]
      BY <1>2, <3>1 DEF Doing
    <3> QED
      BY <3>2 DEF Going
  <2>4. CASE TryAdd(t)
    <3>1. \/ thread' = [thread EXCEPT ![t].at = "create"]
          \/ thread' = [thread EXCEPT ![t].at = "room", ![t].main = Len(tables)]
      BY <2>4 DEF TryAdd, Goto
    <3>2. CASE thread' = [thread EXCEPT ![t].at = "create"]
      <4>1. thread' = [thread EXCEPT ![t].at = "create", ![t].main = thread[t].main]
        BY <1>2, <3>2 DEF Doing
      <4> QED
        BY <4>1 DEF Going
    <3>3. CASE thread' = [thread EXCEPT ![t].at = "room", ![t].main = Len(tables)]
      BY <3>3 DEF Going
    <3> QED
      BY <3>1, <3>2, <3>3
  <2> QED
    BY <2>1, <2>2, <2>3, <2>4
<1> DEFINE r == [thread[t] EXCEPT !.at = at, !.main = main]
<1>4. /\ thread' = [thread EXCEPT ![t] = r] /\ r \in Doing /\ r.at \in Going
      /\ r.main \in 1 .. Len(tables')
  <2>1. thread[t] \in Doing /\ at \in Steps /\ main \in Nat /\ main \in 1 .. Len(tables)
    BY <1>2 DEF Going, Steps
  <2>2. r \in Doing /\ r.at = at /\ r.main = main
    BY <2>1 DEF Doing
  <2> QED
    BY <1>1, <1>2, <1>3, <2>1, <2>2
<1> HIDE DEF r
<1>5. thread[t].at \in Going
  BY <1>1 DEF Going
<1> QED
  BY <1>1, <1>4, <1>5, GoesOn

LEMMA ResizeKeeps ==
    ASSUME IInv, NEW t \in Threads, Resize(t)
    PROVE  IInv'
<1>1. /\ thread[t].at = "resize" /\ hashCount' = hashCount /\ list' = list
      /\ producers' = producers /\ given' = given
      /\ thread' = [thread EXCEPT ![t].at = "unlock", ![t].main = Len(tables')]
  BY DEF Resize, At
<1>2. PICK capacity \in NewCapacities(t) : tables' = Append(tables, NewTable(capacity))
  BY DEF Resize
<1>3. /\ thread \in [Threads -> Doing] /\ thread[t].main \in 1 .. Len(tables)
      /\ \E S : tables \in Seq(S)
  BY <1>1 DEF IInv, ThreadsFit, TablesFit, At, Main
<1>4. capacity \in Sizes
  <2>1. CapacityOf(Main(t)) \in Int
    BY <1>3, TableFacts DEF IInv, TablesFit, CapacityOf, Main, Sizes
  <2>2. Cardinality(Threads) \in Nat
    BY TableAssumption, FS_CardinalityType
  <2>3. PICK n \in 1 .. Cardinality(Threads) + 1 : capacity = CapacityOf(Main(t)) * 2^n
    BY DEF NewCapacities
  <2>4. 2^n \in Int
    BY <2>2
  <2>5. capacity \in Int
    BY <2>1, <2>3, <2>4
  <2>6. thread[t].count \in Nat /\ thread[t].count < capacity \div 2
    BY <1>3 DEF NewCapacities, Doing
  <2> QED
    BY <2>5, <2>6 DEF Sizes
<1>5. Len(tables') \in Nat \ {0}
  BY <1>2, <1>3
<1> DEFINE r == [thread[t] EXCEPT !.at = "unlock", !.main = Len(tables')]
<1>6. /\ thread' = [thread EXCEPT ![t] = r] /\ r \in Doing /\ r.at \in Going
      /\ r.main \in 1 .. Len(tables')
  <2>1. thread[t] \in Doing
    BY <1>3
  <2>2. r \in Doing /\ r.at = "unlock" /\ r.main = Len(tables')
    BY <1>5, <2>1 DEF Doing, Steps
  <2>3. thread' = [thread EXCEPT ![t] = r]
    BY <1>1, <1>3
  <2> HIDE DEF r
  <2> QED
    BY <1>5, <2>2, <2>3 DEF Going
<1> HIDE DEF r
<1>7. thread[t].at \in Going
  BY <1>1 DEF Going
<1>8. \E size \in Sizes : tables' = Append(tables, NewTable(size))
  BY <1>2, <1>4
<1> QED
  BY <1>1, <1>6, <1>7, <1>8, GoesOn

\* A thread with a producer finds it, and one without finds none.
LEMMA KnownFacts ==
    ASSUME IInv, NEW t \in Threads
    PROVE  LET known == {n \in 1 .. Len(tables) : Knows(t, n)}
               n == CHOOSE n \in known : \A m \in known : m <= n
           IN  /\ known = {} => given[t] = {}
               /\ known # {} => /\ n \in 1 .. Len(tables)
                                /\ given[t] = {ValueIn(t, n)}
<1> DEFINE known == {n \in 1 .. Len(tables) : Knows(t, n)}
           n == CHOOSE n \in known : \A m \in known : m <= n
<1>1. /\ Len(tables) \in Nat
      /\ \A k \in 1 .. Len(tables) :
            /\ Knows(t, k) <=> Mentions(tables[k], t)
            /\ Knows(t, k) => given[t] = {ValueIn(t, k)}
  BY KnowsFacts DEF IInv, TablesFit, EntriesFit
<1>2. known = {} => given[t] = {}
  BY <1>1 DEF IInv, GivenFit
<1>3. ASSUME known # {}
      PROVE  n \in known
  <2> HIDE DEF known
  <2>1. \E k \in known : \A m \in known : m <= k
    <3>1. known \in SUBSET (1 .. Len(tables))
      BY DEF known
    <3> QED
      BY <1>1, <1>3, <3>1, Largest
  <2> QED
    BY <2>1
<1> HIDE DEF n
<1>4. known # {} => n \in 1 .. Len(tables) /\ given[t] = {ValueIn(t, n)}
  BY <1>1, <1>3
<1> QED
  BY <1>2, <1>4 DEF n

LEMMA LookUpKeeps ==
    ASSUME IInv, NEW t \in Threads, LookUp(t)
    PROVE  IInv'
<1> DEFINE known == {n \in 1 .. Len(tables) : Knows(t, n)}
           n == CHOOSE n \in known : \A m \in known : m <= n
<1>1. /\ ThreadsFit /\ CountFits /\ TablesFit /\ EntriesFit /\ GivenFit /\ ProducersFit
      /\ thread[t].at = "idle" /\ thread \in [Threads -> Doing]
      /\ tables' = tables /\ hashCount' = hashCount /\ list' = list /\ producers' = producers
  BY DEF IInv, LookUp, At, ThreadsFit
<1>2. /\ known = {} => given[t] = {}
      /\ known # {} => n \in 1 .. Len(tables) /\ given[t] = {ValueIn(t, n)}
  BY KnownFacts
<1>3. given \in [Threads -> SUBSET (1 .. producers)] /\ Len(tables) \in Nat \ {0}
  BY <1>1 DEF GivenFit, TablesFit
<1>4. EntriesFit' /\ TablesFit' /\ GivenFit' /\ given' = given /\ thread'[t] \in Doing
      /\ thread' = [thread EXCEPT ![t] = thread'[t]]
      /\ \/ thread'[t].at = "idle"
         \/ thread'[t].at = "count" /\ given[t] = {} /\ thread'[t].main = Len(tables)
         \/ /\ thread'[t].at = "place" /\ given[t] = {thread'[t].producer}
            /\ thread'[t].main = Len(tables)
  <2>1. given' = given /\ thread'[t] \in Doing
        /\ thread' = [thread EXCEPT ![t] = thread'[t]]
        /\ \/ thread'[t].at = "idle"
           \/ thread'[t].at = "count" /\ given[t] = {} /\ thread'[t].main = Len(tables)
           \/ /\ thread'[t].at = "place" /\ given[t] = {thread'[t].producer}
              /\ thread'[t].main = Len(tables)
    <3>1. CASE known = {}
      <4> DEFINE r == [Idle EXCEPT !.at = "count", !.main = Len(tables)]
      <4>1. given' = given /\ thread' = [thread EXCEPT ![t] = r]
        BY <3>1 DEF LookUp
      <4>2. r \in Doing /\ r.at = "count" /\ r.main = Len(tables)
        BY <1>3, IdleDoing DEF Doing, Steps
      <4> HIDE DEF r
      <4> QED
        BY <1>1, <1>2, <3>1, <4>1, <4>2
    <3>2. CASE known # {} /\ n = Len(tables)
      <4>1. Return(t, ValueIn(t, n))
        BY <3>2 DEF LookUp
      <4> HIDE DEF n, known
      <4>2. /\ given' = [given EXCEPT ![t] = @ \cup {ValueIn(t, n)}]
            /\ thread' = [thread EXCEPT ![t] = Idle]
        BY <4>1 DEF Return
      <4>3. given' = given
        BY <1>2, <1>3, <3>2, <4>2
      <4> QED
        BY <1>1, <4>2, <4>3, IdleDoing
    <3>3. CASE known # {} /\ n # Len(tables)
      <4> DEFINE r == [Idle EXCEPT !.at = "place", !.main = Len(tables),
                                   !.producer = ValueIn(t, n)]
      <4>1. given' = given /\ thread' = [thread EXCEPT ![t] = r]
        BY <3>3 DEF LookUp
      <4> HIDE DEF n, known
      <4>2. given[t] = {ValueIn(t, n)} /\ ValueIn(t, n) \in 1 .. producers
        BY <1>2, <1>3, <3>3
      <4>3. ValueIn(t, n) \in Nat
        BY <1>1, <4>2 DEF ProducersFit
      <4>4. r \in Doing /\ r.at = "place" /\ r.main = Len(tables) /\ r.producer = ValueIn(t, n)
        BY <1>3, <4>3, IdleDoing DEF Doing, Steps
      <4> HIDE DEF r
      <4> QED
        BY <1>1, <4>1, <4>2, <4>4
    <3> QED
      BY <3>1, <3>2, <3>3
  <2>2. EntriesFit' /\ TablesFit'
    BY <1>1, <2>1 DEF EntriesFit, TablesFit
  <2>3. GivenFit'
    <3>1. \A u \in Threads : (Searched(u))' => Searched(u) \/ given[u] = {}
      BY <1>1, <2>1 DEF Searched
    <3> QED
      BY <1>1, <2>1, <3>1 DEF GivenFit
  <2> QED
    BY <2>1, <2>2, <2>3
<1> HIDE DEF n, known
<1>5. \A u \in Threads \ {t} : thread'[u] = thread[u]
  BY <1>1, <1>4
<1>6. ThreadsFit'
  <2>1. thread' \in [Threads -> Doing]
    BY <1>1, <1>4
  <2>2. \A u \in Threads : ~ At(u, "idle")' => Main(u)' \in 1 .. Len(tables)'
    BY <1>1, <1>3, <1>4, <1>5 DEF ThreadsFit, At, Main
  <2> QED
    BY <2>1, <2>2 DEF ThreadsFit
<1>7. CountFits'
  <2>1. Counted' = Counted
    BY <1>1, <1>4, <1>5 DEF Counted
  <2> QED
    BY <1>1, <2>1 DEF CountFits
<1>8. ProducersFit'
  <2>1. CASE thread'[t].at # "place"
    BY <1>1, <1>4, <1>5, <2>1, ProducersKept
  <2>2. CASE thread'[t].at = "place" /\ given[t] = {thread'[t].producer}
    <3>1. \A u \in Threads : \A q : Owns(u, q)' <=> Owns(u, q)
      BY <1>1, <1>4, <1>5, <2>2 DEF Owns, At
    <3>2. \A q : InList(q)' <=> InList(q)
      BY <1>1 DEF InList
    <3>3. \A u \in Threads \ {t} :
              /\ (At(u, "push"))' => At(u, "push") /\ thread'[u].producer = thread[u].producer
              /\ (At(u, "place"))' => At(u, "place") /\ thread'[u].producer = thread[u].producer
      BY <1>5 DEF At
    <3>4. ~ At(t, "push")' /\ InList(thread'[t].producer)
      BY <1>1, <2>2 DEF At, ProducersFit
    <3> QED
      BY <1>1, <1>4, <2>2, <3>1, <3>2, <3>3, <3>4 DEF ProducersFit
  <2> QED
    BY <1>4, <2>1, <2>2
<1> QED
  BY <1>4, <1>6, <1>7, <1>8 DEF IInv

LEMMA CreateKeeps ==
    ASSUME IInv, NEW t \in Threads, Create(t)
    PROVE  IInv'
<1>1. /\ ThreadsFit /\ CountFits /\ TablesFit /\ EntriesFit /\ GivenFit /\ ProducersFit
      /\ thread[t].at = "create" /\ producers' = producers + 1
      /\ thread' = [thread EXCEPT ![t].at = "push", ![t].tail = list,
                                  ![t].producer = producers']
      /\ tables' = tables /\ hashCount' = hashCount /\ list' = list /\ given' = given
  BY DEF IInv, Create, At
<1>2. /\ producers \in Nat /\ producers' \in Nat /\ list \in Seq(Nat)
      /\ thread \in [Threads -> Doing]
  BY <1>1 DEF ProducersFit, ThreadsFit
<1> DEFINE r == [thread[t] EXCEPT !.at = "push", !.tail = list, !.producer = producers']
<1>3. /\ thread' = [thread EXCEPT ![t] = r]
      /\ r \in Doing /\ r.at = "push" /\ r.producer = producers' /\ r.main = thread[t].main
  <2>1. thread[t] \in Doing
    BY <1>2
  <2>2. r \in Doing /\ r.at = "push" /\ r.producer = producers' /\ r.main = thread[t].main
    BY <1>2, <2>1 DEF Doing, Steps
  <2> QED
    BY <1>1, <1>2, <2>2
<1> HIDE DEF r
<1>4. /\ thread' \in [Threads -> Doing] /\ thread'[t] = r
      /\ \A u \in Threads \ {t} : thread'[u] = thread[u]
  BY <1>2, <1>3
<1>5. ThreadsFit'
  BY <1>1, <1>3, <1>4 DEF ThreadsFit, At, Main
<1>6. CountFits'
  <2>1. Counted' = Counted
    BY <1>1, <1>3, <1>4 DEF Counted
  <2> QED
    BY <1>1, <2>1 DEF CountFits
<1>7. EntriesFit' /\ TablesFit'
  BY <1>1 DEF EntriesFit, TablesFit
<1>8. GivenFit' /\ given[t] = {}
  <2>1. \A u \in Threads : (Searched(u))' => Searched(u)
    BY <1>1, <1>3, <1>4 DEF Searched
  <2>2. 1 .. producers \subseteq 1 .. producers'
    BY <1>1, <1>2
  <2>3. given[t] = {}
    BY <1>1 DEF GivenFit, Searched
  <2> QED
    BY <1>1, <2>1, <2>2, <2>3 DEF GivenFit
<1>9. ProducersFit'
  <2>1. \A q : InList(q)' <=> InList(q)
    BY <1>1 DEF InList
  <2>2. /\ \A u \in Threads \ {t} : \A q : Owns(u, q)' <=> Owns(u, q)
        /\ \A q : Owns(t, q)' <=> q = producers'
        /\ \A q : ~ Owns(t, q)
    BY <1>1, <1>3, <1>4, <1>8 DEF Owns, At
  <2>3. /\ producers' \notin 1 .. producers /\ producers' \in 1 .. producers'
        /\ 1 .. producers \subseteq 1 .. producers'
    BY <1>1, <1>2
  <2>4. ~ InList(producers')
    BY <1>1, <2>3 DEF InList, ProducersFit
  <2>5. \A u \in Threads \ {t} : \A q : Owns(u, q) => q \in 1 .. producers
    BY <1>1 DEF ProducersFit
  <2>6. \A u \in Threads : \A q : Owns(u, q)' =>
            /\ q \in 1 .. producers'
            /\ \A v \in Threads \ {u} : ~ Owns(v, q)'
    <3> TAKE u \in Threads
    <3> TAKE q
    <3>1. CASE u = t
      BY <2>2, <2>3, <2>5, <3>1
    <3>2. CASE u # t
      <4>1. ASSUME Owns(u, q), NEW v \in Threads \ {u, t}
            PROVE  ~ Owns(v, q)
        BY <1>1, <4>1 DEF ProducersFit
      <4> QED
        BY <2>2, <2>3, <2>5, <3>2, <4>1
    <3> QED
      BY <3>1, <3>2
  <2>7. \A u \in Threads \ {t} :
            /\ (At(u, "push"))' => At(u, "push") /\ thread'[u].producer = thread[u].producer
            /\ (At(u, "place"))' => At(u, "place") /\ thread'[u].producer = thread[u].producer
    BY <1>4 DEF At
  <2>8. ~ At(t, "place")' /\ ~ InList(thread'[t].producer)
    BY <1>3, <1>4, <2>4 DEF At
  <2>9. \A i \in 1 .. Len(list) : list[i] \in 1 .. producers'
    BY <1>1, <2>3 DEF ProducersFit
  <2>10. \A u \in Threads : \A q \in given[u] : InList(q)
    BY <1>1 DEF ProducersFit
  <2>11. /\ producers' \in Nat /\ list' \in Seq(Nat)
         /\ \A i \in 1 .. Len(list') : list'[i] \in 1 .. producers'
         /\ \A i, j \in 1 .. Len(list') : list'[i] = list'[j] => i = j
    BY <1>1, <1>2, <2>9 DEF ProducersFit
  <2>12. \A u \in Threads :
            /\ \A q \in given'[u] : InList(q)'
            /\ At(u, "push")' => ~ InList(thread[u].producer)'
            /\ At(u, "place")' => /\ InList(thread[u].producer)'
                                  /\ given'[u] \in {{}, {thread'[u].producer}}
    <3> TAKE u \in Threads
    <3>1. CASE u = t
      BY <1>1, <1>8, <2>1, <2>8, <3>1
    <3>2. CASE u # t
      BY <1>1, <2>1, <2>7, <2>10, <3>2 DEF ProducersFit
    <3> QED
      BY <3>1, <3>2
  <2> QED
    BY <2>6, <2>11, <2>12 DEF ProducersFit
<1> QED
  BY <1>5, <1>6, <1>7, <1>8, <1>9 DEF IInv

LEMMA PushKeeps ==
    ASSUME IInv, NEW t \in Threads, Push(t)
    PROVE  IInv'
<1>0. PICK q : q = thread[t].producer
  OBVIOUS
<1>1. /\ ThreadsFit /\ CountFits /\ TablesFit /\ EntriesFit /\ GivenFit /\ ProducersFit
      /\ thread[t].at = "push" /\ producers' = producers /\ tables' = tables
      /\ hashCount' = hashCount /\ given' = given
      /\ \/ /\ list' = << q >> \o list
            /\ thread' = [thread EXCEPT ![t].at = "place"]
         \/ list' = list /\ thread' = [thread EXCEPT ![t].tail = list]
  BY <1>0 DEF IInv, Push, At, Goto
<1>2. /\ producers \in Nat /\ list \in Seq(Nat) /\ thread \in [Threads -> Doing]
      /\ q \in 1 .. producers /\ ~ InList(q) /\ given[t] = {}
  BY <1>0, <1>1 DEF ProducersFit, ThreadsFit, GivenFit, Searched, Owns, At
<1>3. /\ EntriesFit' /\ TablesFit'
  BY <1>1 DEF EntriesFit, TablesFit
<1>4. CASE list' = list /\ thread' = [thread EXCEPT ![t].tail = list]
  <2> DEFINE r == [thread[t] EXCEPT !.tail = list]
  <2>1. /\ thread' = [thread EXCEPT ![t] = r]
        /\ r \in Doing /\ r.at = "push" /\ r.producer = q /\ r.main = thread[t].main
    BY <1>0, <1>1, <1>2, <1>4 DEF Doing, Steps
  <2> HIDE DEF r
  <2>2. /\ thread' \in [Threads -> Doing] /\ thread'[t] = r
        /\ \A u \in Threads \ {t} : thread'[u] = thread[u]
    BY <1>2, <2>1
  <2>3. ThreadsFit'
    BY <1>1, <2>1, <2>2 DEF ThreadsFit, At, Main
  <2>4. Counted' = Counted
    BY <1>1, <2>1, <2>2 DEF Counted
  <2>5. GivenFit'
    <3>1. \A u \in Threads : (Searched(u))' => Searched(u)
      BY <1>1, <2>1, <2>2 DEF Searched
    <3> QED
      BY <1>1, <3>1 DEF GivenFit
  <2>6. ProducersFit'
    BY <1>0, <1>1, <1>4, <2>1, <2>2, ProducersKept
  <2> QED
    BY <1>1, <1>3, <2>3, <2>4, <2>5, <2>6 DEF IInv, CountFits
<1>5. CASE list' = << q >> \o list /\ thread' = [thread EXCEPT ![t].at = "place"]
  <2> DEFINE r == [thread[t] EXCEPT !.at = "place"]
  <2>1. /\ thread' = [thread EXCEPT ![t] = r]
        /\ r \in Doing /\ r.at = "place" /\ r.producer = q /\ r.main = thread[t].main
    BY <1>0, <1>1, <1>2, <1>5 DEF Doing, Steps
  <2> HIDE DEF r
  <2>2. /\ thread' \in [Threads -> Doing] /\ thread'[t] = r
        /\ \A u \in Threads \ {t} : thread'[u] = thread[u]
    BY <1>2, <2>1
  <2>3. ThreadsFit'
    BY <1>1, <2>1, <2>2 DEF ThreadsFit, At, Main
  <2>4. Counted' = Counted
    BY <1>1, <2>1, <2>2 DEF Counted
  <2>5. GivenFit'
    <3>1. \A u \in Threads : (Searched(u))' => Searched(u)
      BY <1>1, <2>1, <2>2 DEF Searched
    <3> QED
      BY <1>1, <3>1 DEF GivenFit
  <2>6. /\ list' \in Seq(Nat) /\ Len(list') = Len(list) + 1 /\ Len(list) \in Nat
        /\ list'[1] = q /\ \A i \in 2 .. Len(list') : list'[i] = list[i - 1]
    <3>1. q \in Nat
      BY <1>2
    <3> QED
      BY <1>2, <1>5, <3>1
  <2>7. \A i \in 2 .. Len(list') : /\ i - 1 \in 1 .. Len(list) /\ list'[i] = list[i - 1]
                                   /\ list'[i] # q
    BY <1>2, <2>6 DEF InList
  <2>8. InList(q)' /\ \A p : InList(p) => InList(p)'
    <3>1. InList(q)'
      <4>1. 1 \in 1 .. Len(list') /\ list'[1] = q
        BY <2>6
      <4> QED
        BY <4>1, <1>1 DEF InList
    <3>2. ASSUME NEW p, InList(p)
          PROVE  InList(p)'
      <4>1. PICK i \in 1 .. Len(list) : list[i] = p
        BY <3>2 DEF InList
      <4>2. i + 1 \in 1 .. Len(list') /\ list'[i + 1] = p
        BY <2>6, <4>1
      <4> QED
        BY <4>2 DEF InList
    <3> QED
      BY <3>1, <3>2
  <2>9. ProducersFit'
    <3>1. \A i \in 1 .. Len(list') : list'[i] \in 1 .. producers'
      <4> TAKE i \in 1 .. Len(list')
      <4>1. CASE i = 1
        BY <1>1, <1>2, <2>6, <4>1
      <4>2. CASE i # 1
        <5>1. i \in 2 .. Len(list')
          BY <2>6, <4>2
        <5> QED
          BY <1>1, <2>7, <5>1 DEF ProducersFit
      <4> QED
        BY <4>1, <4>2
    <3>2. \A i, j \in 1 .. Len(list') : list'[i] = list'[j] => i = j
      <4> TAKE i, j \in 1 .. Len(list')
      <4>1. CASE i # 1 /\ j # 1
        <5>1. i \in 2 .. Len(list') /\ j \in 2 .. Len(list')
          BY <2>6, <4>1
        <5>2. list[i - 1] = list[j - 1] => i - 1 = j - 1
          BY <1>1, <2>7, <5>1 DEF ProducersFit
        <5> QED
          BY <2>6, <2>7, <5>1, <5>2
      <4>2. CASE i = 1 \/ j = 1
        <5>1. \A k \in 1 .. Len(list') : k # 1 => k \in 2 .. Len(list')
          BY <2>6
        <5> QED
          BY <2>6, <2>7, <4>2, <5>1
      <4> QED
        BY <4>1, <4>2
    <3>3. \A u \in Threads : \A p : Owns(u, p)' <=> Owns(u, p)
      BY <1>0, <1>1, <2>1, <2>2 DEF Owns, At
    <3>4. \A u \in Threads \ {t} :
              /\ (At(u, "push"))' => At(u, "push") /\ thread'[u].producer = thread[u].producer
              /\ (At(u, "place"))' => At(u, "place") /\ thread'[u].producer = thread[u].producer
      BY <2>2 DEF At
    <3>5. \A u \in Threads \ {t} : At(u, "push") => thread[u].producer # q
      <4>1. Owns(t, q)
        BY <1>0, <1>1 DEF Owns, At
      <4> QED
        BY <1>1, <4>1 DEF ProducersFit, Owns
    <3>6. \A p : InList(p)' => InList(p) \/ p = q
      <4> SUFFICES ASSUME NEW p, InList(p)'
                   PROVE  InList(p) \/ p = q
        OBVIOUS
      <4>1. PICK i \in 1 .. Len(list') : list'[i] = p
        BY DEF InList
      <4>2. CASE i = 1
        BY <2>6, <4>1, <4>2
      <4>3. CASE i # 1
        <5>1. i \in 2 .. Len(list')
          BY <2>6, <4>3
        <5> QED
          BY <2>7, <4>1, <5>1 DEF InList
      <4> QED
        BY <4>2, <4>3
    <3>7. \A u \in Threads :
              /\ \A p \in given'[u] : InList(p)'
              /\ At(u, "push")' => ~ InList(thread[u].producer)'
              /\ At(u, "place")' => /\ InList(thread[u].producer)'
                                    /\ given'[u] \in {{}, {thread'[u].producer}}
      <4> TAKE u \in Threads
      <4>1. CASE u = t
        <5>1. ~ At(t, "push")' /\ thread'[t].producer = q
          BY <2>1, <2>2 DEF At
        <5> QED
          BY <1>1, <1>2, <2>8, <4>1, <5>1
      <4>2. CASE u # t
        <5>1. \A p \in given'[u] : InList(p)'
          BY <1>1, <2>8 DEF ProducersFit
        <5>2. ASSUME At(u, "push")'
              PROVE  ~ InList(thread[u].producer)'
          <6>1. /\ thread'[u].producer = thread[u].producer /\ thread[u].producer # q
                /\ ~ InList(thread[u].producer)
            BY <1>1, <3>4, <3>5, <4>2, <5>2 DEF ProducersFit
          <6> QED
            BY <3>6, <6>1
        <5>3. ASSUME At(u, "place")'
              PROVE  /\ InList(thread[u].producer)'
                     /\ given'[u] \in {{}, {thread'[u].producer}}
          <6>1. /\ thread'[u].producer = thread[u].producer
                /\ InList(thread[u].producer) /\ given[u] \in {{}, {thread[u].producer}}
            BY <1>1, <3>4, <4>2, <5>3 DEF ProducersFit
          <6> QED
            BY <1>1, <2>8, <6>1
        <5> QED
          BY <5>1, <5>2, <5>3
      <4> QED
        BY <4>1, <4>2
    <3>8. \A u \in Threads : \A p : Owns(u, p)' =>
              /\ p \in 1 .. producers'
              /\ \A v \in Threads \ {u} : ~ Owns(v, p)'
      BY <1>1, <3>3 DEF ProducersFit
    <3> QED
      BY <1>1, <1>2, <2>6, <3>1, <3>2, <3>7, <3>8 DEF ProducersFit
  <2> QED
    BY <1>1, <1>3, <2>3, <2>4, <2>5, <2>9 DEF IInv, CountFits
<1> QED
  BY <1>1, <1>4, <1>5

LEMMA PlaceKeeps ==
    ASSUME IInv, NEW t \in Threads, Place(t)
    PROVE  IInv'
<1>0. PICK q, m : q = thread[t].producer /\ m = Main(t)
  OBVIOUS
<1>1. PICK e \in Found(t, m) :
          tables' = [tables EXCEPT ![m][e] = [key |-> t, value |-> q]]
  BY <1>0 DEF Place
<1>2. /\ ThreadsFit /\ CountFits /\ TablesFit /\ EntriesFit /\ GivenFit /\ ProducersFit
      /\ thread[t].at = "place" /\ producers' = producers /\ list' = list
      /\ hashCount' = hashCount
      /\ given' = [given EXCEPT ![t] = @ \cup {q}]
      /\ thread' = [thread EXCEPT ![t] = Idle]
  BY <1>0 DEF IInv, Place, Return, At
<1>3. /\ m \in 1 .. Len(tables) /\ thread \in [Threads -> Doing]
      /\ given \in [Threads -> SUBSET (1 .. producers)]
      /\ q \in 1 .. producers /\ q \in Nat /\ given[t] \in {{}, {q}} /\ InList(q)
      /\ \A u \in Threads \ {t} : ~ Owns(u, q)
  <2>1. m \in 1 .. Len(tables)
    BY <1>0, <1>2 DEF ThreadsFit, At
  <2>2. Owns(t, q)
    BY <1>0, <1>2 DEF Owns, At
  <2>3. given[t] \in {{}, {q}} /\ InList(q)
    BY <1>0, <1>2 DEF ProducersFit, At
  <2>4. q \in 1 .. producers /\ \A u \in Threads \ {t} : ~ Owns(u, q)
    BY <1>2, <2>2 DEF ProducersFit
  <2> QED
    BY <1>2, <2>1, <2>3, <2>4 DEF ThreadsFit, GivenFit, ProducersFit
<1>4. /\ given' \in [Threads -> SUBSET (1 .. producers)] /\ given'[t] = {q}
      /\ \A u \in Threads \ {t} : given'[u] = given[u]
  BY <1>2, <1>3
<1>5. /\ thread' \in [Threads -> Doing] /\ thread'[t].at = "idle"
      /\ \A u \in Threads \ {t} : thread'[u] = thread[u]
  BY <1>2, <1>3, IdleDoing
<1>6. PICK new : new = [tables[m] EXCEPT ![e] = [key |-> t, value |-> q]]
  OBVIOUS
<1>7. /\ IsTable(new) /\ Mentions(new, t) /\ Says(new, t, {q})
      /\ \A u \in Threads \ {t} : /\ Says(new, u, given[u])
                                  /\ Mentions(tables[m], u) => Mentions(new, u)
  BY <1>2, <1>3, <1>6, PlaceSays
<1>8. /\ \E S : tables' \in Seq(S)
      /\ Len(tables') = Len(tables) /\ tables'[m] = new
      /\ \A n \in 1 .. Len(tables) : n # m => tables'[n] = tables[n]
  <2>1. tables' = [tables EXCEPT ![m] = new]
    BY <1>1, <1>6
  <2>2. PICK S : tables \in Seq(S)
    BY <1>2 DEF TablesFit
  <2> DEFINE T == S \cup {new}
  <2>3. tables \in Seq(T) /\ new \in T
    BY <2>2
  <2> HIDE DEF T
  <2>4. tables' \in Seq(T)
    BY <1>3, <2>1, <2>3
  <2> QED
    BY <1>3, <2>1, <2>3, <2>4
<1>9. TablesFit'
  BY <1>2, <1>7, <1>8 DEF TablesFit
<1>10. EntriesFit'
  <2> SUFFICES ASSUME NEW n \in 1 .. Len(tables'), NEW u \in Threads
               PROVE  Says(tables'[n], u, given'[u])
    BY DEF EntriesFit
  <2>1. CASE n = m /\ u = t
    BY <1>4, <1>7, <1>8, <2>1
  <2>2. CASE n = m /\ u # t
    BY <1>4, <1>7, <1>8, <2>2
  <2>3. CASE n # m /\ u # t
    BY <1>2, <1>4, <1>8, <2>3 DEF EntriesFit
  <2>4. CASE n # m /\ u = t
    <3>1. tables'[n] = tables[n] /\ Says(tables[n], t, given[t])
      BY <1>2, <1>8, <2>4 DEF EntriesFit
    <3>2. Says(tables[n], t, {q})
      BY <1>3, <3>1 DEF Says
    <3> QED
      BY <1>4, <2>4, <3>1, <3>2
  <2> QED
    BY <2>1, <2>2, <2>3, <2>4
<1>11. ThreadsFit'
  BY <1>2, <1>5, <1>8 DEF ThreadsFit, At, Main
<1>12. CountFits'
  <2>1. Counted' = Counted
    BY <1>2, <1>4, <1>5 DEF Counted
  <2> QED
    BY <1>2, <2>1 DEF CountFits
<1>13. GivenFit'
  <2>1. \A u \in Threads : (Searched(u))' => u # t /\ Searched(u)
    BY <1>5 DEF Searched
  <2>2. \E n \in 1 .. Len(tables') : Mentions(tables'[n], t)
    BY <1>3, <1>7, <1>8
  <2>3. ASSUME NEW u \in Threads \ {t}, given[u] # {}
        PROVE  \E n \in 1 .. Len(tables') : Mentions(tables'[n], u)
    <3>1. PICK n \in 1 .. Len(tables) : Mentions(tables[n], u)
      BY <1>2, <2>3 DEF GivenFit
    <3>2. Mentions(tables'[n], u)
      BY <1>7, <1>8, <3>1
    <3> QED
      BY <1>8, <3>1, <3>2
  <2>4. \A u \in Threads : (Searched(u))' => given'[u] = {}
    BY <1>2, <1>4, <2>1 DEF GivenFit
  <2>5. \A u \in Threads : given'[u] # {} =>
            \E n \in 1 .. Len(tables') : Mentions(tables'[n], u)
    BY <1>4, <2>2, <2>3
  <2> QED
    BY <1>2, <1>4, <2>4, <2>5 DEF GivenFit
<1>14. ProducersFit'
  <2>1. \A p : InList(p)' <=> InList(p)
    BY <1>2 DEF InList
  <2>2. /\ \A u \in Threads \ {t} : \A p : Owns(u, p)' <=> Owns(u, p)
        /\ \A p : Owns(t, p)' <=> p = q
    BY <1>4, <1>5 DEF Owns, At
  <2>3. \A u \in Threads : \A p : Owns(u, p)' =>
            /\ p \in 1 .. producers'
            /\ \A v \in Threads \ {u} : ~ Owns(v, p)'
    <3> TAKE u \in Threads
    <3> TAKE p
    <3>1. CASE u = t
      BY <1>2, <1>3, <2>2, <3>1
    <3>2. CASE u # t
      <4>1. Owns(u, p) => /\ p # q /\ p \in 1 .. producers
                          /\ \A v \in Threads \ {u} : ~ Owns(v, p)
        BY <1>2, <1>3, <3>2 DEF ProducersFit
      <4> QED
        BY <1>2, <2>2, <3>2, <4>1
    <3> QED
      BY <3>1, <3>2
  <2>4. \A u \in Threads :
            /\ \A p \in given'[u] : InList(p)'
            /\ At(u, "push")' => ~ InList(thread[u].producer)'
            /\ At(u, "place")' => /\ InList(thread[u].producer)'
                                  /\ given'[u] \in {{}, {thread'[u].producer}}
    <3> TAKE u \in Threads
    <3>1. CASE u = t
      BY <1>3, <1>4, <1>5, <2>1, <3>1 DEF At
    <3>2. CASE u # t
      <4>1. thread'[u] = thread[u] /\ given'[u] = given[u] /\ (At(u, "push")' <=> At(u, "push"))
            /\ (At(u, "place")' <=> At(u, "place"))
        BY <1>4, <1>5, <3>2 DEF At
      <4>2. /\ \A p \in given[u] : InList(p)
            /\ At(u, "push") => ~ InList(thread[u].producer)
            /\ At(u, "place") => /\ InList(thread[u].producer)
                                 /\ given[u] \in {{}, {thread[u].producer}}
        BY <1>2 DEF ProducersFit
      <4> QED
        BY <2>1, <4>1, <4>2
    <3> QED
      BY <3>1, <3>2
  <2> QED
    BY <1>2, <2>3, <2>4 DEF ProducersFit
<1> QED
  BY <1>9, <1>10, <1>11, <1>12, <1>13, <1>14 DEF IInv

-----------------------------------------------------------------------------
(* The invariant                                                           *)

LEMMA InitIInv ==
    Init => IInv
<1> SUFFICES ASSUME Init
             PROVE  IInv
  OBVIOUS
<1> DEFINE first == NewTable(InitialSize)
<1>1. /\ tables = << first >> /\ hashCount = 0 /\ list = << >> /\ producers = 0
      /\ thread = [t \in Threads |-> Idle] /\ given = [t \in Threads |-> {}]
  BY DEF Init
<1>2. IsTable(first) /\ \A t \in Threads : Says(first, t, {})
  <2>1. first = [i \in 0 .. InitialSize - 1 |-> FreeEntry] /\ FreeEntry \in Entries
    BY DEF NewTable, FreeEntry, Entries
  <2>2. \A t \in Threads, e \in DOMAIN first : first[e].key # t
    BY <2>1, TableAssumption DEF FreeEntry
  <2> HIDE DEF first
  <2> QED
    BY <2>1, <2>2, TableAssumption DEF IsTable, Says, Sizes
<1> HIDE DEF first
<1>3. tables \in Seq({first}) /\ Len(tables) = 1 /\ tables[1] = first
  BY <1>1
<1>4. ThreadsFit
  BY <1>1, IdleDoing DEF ThreadsFit, At
<1>5. CountFits
  <2>1. Counted = {}
    BY <1>1, IdleDoing DEF Counted
  <2> QED
    BY <1>1, <2>1, FS_EmptySet DEF CountFits
<1>6. TablesFit
  BY <1>2, <1>3 DEF TablesFit
<1>7. EntriesFit
  BY <1>1, <1>2, <1>3 DEF EntriesFit
<1>8. GivenFit
  BY <1>1, IdleDoing DEF GivenFit, Searched
<1>9. ProducersFit
  BY <1>1, IdleDoing DEF ProducersFit, Owns, At
<1> QED
  BY <1>4, <1>5, <1>6, <1>7, <1>8, <1>9 DEF IInv

LEMMA NextIInv ==
    IInv /\ [Next]_vars => IInv'
<1> SUFFICES ASSUME IInv, [Next]_vars
             PROVE  IInv'
  OBVIOUS
<1>1. CASE UNCHANGED vars
  <2>1. /\ tables' = tables /\ hashCount' = hashCount /\ list' = list /\ given' = given
        /\ producers' = producers /\ thread' = thread
    BY <1>1 DEF vars
  <2>2. ThreadsFit' /\ TablesFit' /\ EntriesFit'
    BY <2>1 DEF IInv, ThreadsFit, TablesFit, EntriesFit, At, Main
  <2>3. CountFits' /\ GivenFit'
    BY <2>1 DEF IInv, CountFits, GivenFit, Counted, Searched
  <2>4. ProducersFit'
    BY <2>1, ProducersKept DEF IInv
  <2> QED
    BY <2>2, <2>3, <2>4 DEF IInv
<1>2. CASE Next
  <2>1. PICK t \in Threads : LookUp(t) \/ Step(t)
    BY <1>2 DEF Next
  <2> QED
    BY <2>1, LookUpKeeps, CountKeeps, RoomKeeps, ResizeKeeps, CannotAllocateKeeps,
       CreateKeeps, PushKeeps, PlaceKeeps DEF Step
<1> QED
  BY <1>1, <1>2

LEMMA InvariantKept ==
    Spec => []IInv
<1>1. Init => IInv
  BY InitIInv
<1>2. IInv /\ [Next]_vars => IInv'
  BY NextIInv
<1> QED
  BY <1>1, <1>2, PTL DEF Spec

-----------------------------------------------------------------------------
(* The theorems                                                            *)

\* Whatever tables are made and filled meanwhile, get_or_add_implicit_producer gives a
\* thread one producer, that no other thread is given and that is once in the list.
THEOREM ProducerAlwaysOwn ==
    Spec => []OwnProducer
<1>1. IInv => OwnProducer
  <2> SUFFICES ASSUME IInv
               PROVE  OwnProducer
    OBVIOUS
  <2>1. TablesFit /\ EntriesFit /\ GivenFit /\ ProducersFit
    BY DEF IInv
  <2>2. DOMAIN list = 1 .. Len(list)
    BY <2>1 DEF ProducersFit
  <2>3. ASSUME NEW t \in Threads, NEW q \in given[t]
        PROVE  /\ given[t] = {q} /\ InList(q)
               /\ \A u \in Threads \ {t} : q \notin given[u]
    <3>1. PICK n \in 1 .. Len(tables) : Mentions(tables[n], t)
      BY <2>1, <2>3 DEF GivenFit
    <3>2. PICK value : given[t] = {value}
      BY <2>1, <3>1 DEF EntriesFit, Says, Mentions
    <3>3. Owns(t, q) /\ \A u \in Threads : q \in given[u] => Owns(u, q)
      BY <2>3 DEF Owns
    <3> QED
      BY <2>1, <2>3, <3>2, <3>3 DEF ProducersFit
  <2> QED
    BY <2>1, <2>2, <2>3 DEF OwnProducer, ProducersFit, InList
<1> QED
  BY <1>1, InvariantKept, PTL

\* hashCount, by which a thread decides whether there is room, is the number of threads
\* that have or are getting an entry: no failed allocation makes it forget one.
THEOREM CountIsOfThreads ==
    Spec => [](hashCount = Cardinality(Counted))
<1>1. IInv => hashCount = Cardinality(Counted)
  BY DEF IInv, CountFits
<1> QED
  BY <1>1, InvariantKept, PTL
=============================================================================
