------------------------------ MODULE ServerProofs ------------------------------
(***************************************************************************)
(* Proofs about Server: its type invariant, that the dispatcher can rely   *)
(* on the posts of the workers (PostsFit), and that workers and dispatcher *)
(* have the same picture of who is connected (SamePicture), for every set  *)
(* of connections and streams, and every number of messages.  So is how    *)
(* the threads come to rest: clients that are gone and strays have left    *)
(* (GoneClientsLeave, StraysLeave), and ~Server returns (ShutdownReturns), *)
(* unless a thread waits for an answer that it does not give.  And, for the*)
(* tiles that the server hands over to an application, about TileDecoder:  *)
(* who waits for a decoding learns its outcome (WaitTellsOutcome), for any *)
(* tiles, contents and threads of the pool.  And for the frames that it    *)
(* gathers from several sources, about SimpleStreamer: a frame that is     *)
(* dispatched shows one turn of all its sources (OneTurnOfAll), for any    *)
(* number of applications, options and frames.                             *)
(***************************************************************************)
EXTENDS Server, TileDecoder, SimpleStreamer, SequenceTheorems, TLAPS

-----------------------------------------------------------------------------
(* The inductive invariant.  PostsFit looks at the next post only.  Why it *)
(* holds is a fact about the whole queue q: the posts that one connection  *)
(* c makes follow each other there as they do in the life of a stream, from*)
(* m, what the dispatcher knows of c, to s, the stream that its worker has *)
(* started.                                                                *)

Joins(p) == p.slot \in {"addSource", "addObserver"}
Uses(p) == p.slot \in {"data", "remove"}

\* A post of c that changes its membership.
Mark(p, c) == p.c = c /\ (Joins(p) \/ p.slot = "remove")

NoMark(q, c, first, last) == \A k \in first .. last : ~ Mark(q[k], c)

\* The first posts of c continue what the dispatcher knows.
FirstFits(q, c, m) ==
    \A n \in 1 .. Len(q) :
        q[n].c = c /\ NoMark(q, c, 1, n - 1) =>
            /\ Joins(q[n]) => m = Closed
            /\ Uses(q[n]) => m.phase # "closed" /\ m.uri = q[n].uri

\* Each post of c continues the last mark before it.
Follows(q, c) ==
    \A k, n \in 1 .. Len(q) :
        k < n /\ Mark(q[k], c) /\ q[n].c = c /\ NoMark(q, c, k + 1, n - 1) =>
            IF Joins(q[k]) THEN ~ Joins(q[n]) /\ (Uses(q[n]) => q[n].uri = q[k].uri)
            ELSE ~ Uses(q[n])

\* The worker continues the last mark.
LastFits(q, c, s) ==
    \A k \in 1 .. Len(q) :
        Mark(q[k], c) /\ NoMark(q, c, k + 1, Len(q)) =>
            s = IF Joins(q[k]) THEN q[k].uri ELSE NoUri

\* If there is none, it continues what the dispatcher knows.
NoneFits(q, c, m, s) ==
    NoMark(q, c, 1, Len(q)) =>
        IF s # NoUri THEN m.phase # "closed" /\ m.uri = s ELSE m = Closed

Fits(q, c, m, s) ==
    FirstFits(q, c, m) /\ Follows(q, c) /\ LastFits(q, c, s) /\ NoneFits(q, c, m, s)

\* A registration is answered once, to the worker w that waits for it, and a thread is
\* not told to quit when it is gone.
ThreadFits(q, c, w) ==
    /\ w.thread = "off" => w = NoWorker
    /\ \A n \in 1 .. Len(q) : q[n].c = c =>
          /\ q[n].slot = "quit" => w.thread # "off"
          /\ q[n].slot = "register" =>
                /\ w.thread = "blocked"
                /\ \A k \in 1 .. Len(q) : q[k].c = c /\ q[k].slot = "register" => k = n

\* Who can be heard has named a stream.
ClientFits(cl) == cl.link = "up" \/ cl.inbox # << >> => cl.uri \in Uris

IInv ==
    /\ TypeOK
    /\ \A c \in Connections : /\ Fits(posts, c, member[c], worker[c].streamId)
                              /\ ThreadFits(posts, c, worker[c])
                              /\ ClientFits(client[c])

-----------------------------------------------------------------------------
(* Connections that have a descriptor one after the other.  A connection   *)
(* that is not accepted yet has no thread and no posts.  Of two, one is    *)
(* over before the other begins to count, unless both had a worker at the  *)
(* same time.                                                              *)

\* Nothing is there of a connection before it is made.
FreshFits(q, c, cl, w) ==
    cl.link = "none" => w.thread = "off" /\ \A n \in 1 .. Len(q) : q[n].c # c

\* What d has posted about its membership comes before what c has.
Precedes(q, d, c) ==
    \A k, n \in 1 .. Len(q) : Mark(q[k], c) /\ Mark(q[n], d) => n < k

\* The worker of d is gone, and the dispatcher hears that d has left before it hears
\* of c, where m is what it knows of c.
Over(q, d, w, c, m) ==
    /\ w.thread = "off"
    /\ Precedes(q, d, c)
    /\ m = Closed \/ NoMark(q, d, 1, Len(q))

TakesTurns(c, d) ==
    \/ client[c].shared
    \/ Over(posts, d, worker[d], c, member[c])
    \/ Over(posts, c, worker[c], d, member[d])

TurnsInv ==
    \A c \in Connections : /\ FreshFits(posts, c, client[c], worker[c])
                            /\ \A d \in Twins(c) : TakesTurns(c, d)

-----------------------------------------------------------------------------
(* Lemmas about the queue.                                                 *)

Slots == {"addSource", "addObserver", "data", "remove", "register", "quit", "none"}

\* What the proofs use of a queue of posts.
LEMMA QueueElements ==
    ASSUME NEW q \in Seq(Posts)
    PROVE  /\ Len(q) \in Nat
           /\ \A n \in 1 .. Len(q) : /\ q[n] \in Posts
                                     /\ q[n].slot \in Slots
                                     /\ q[n].c \in Connections
BY DEF Posts, Slots

LEMMA JoinNamesStream ==
    ASSUME NEW q \in Seq(Posts), NEW n \in 1 .. Len(q), Joins(q[n])
    PROVE  q[n].uri \in Uris /\ q[n].uri # NoUri
BY QueueElements, ServerAssumption DEF Posts, Joins

LEMMA AppendElements ==
    ASSUME NEW q \in Seq(Posts), NEW p \in Posts
    PROVE  /\ Append(q, p) \in Seq(Posts)
           /\ Len(Append(q, p)) = Len(q) + 1
           /\ \A n \in 1 .. Len(q) : Append(q, p)[n] = q[n]
           /\ Append(q, p)[Len(q) + 1] = p
OBVIOUS

LEMMA TailElements ==
    ASSUME NEW q \in Seq(Posts), q # << >>
    PROVE  /\ Tail(q) \in Seq(Posts)
           /\ Len(q) \in Nat \ {0}
           /\ Head(q) = q[1]
           /\ Len(Tail(q)) = Len(q) - 1
           /\ \A n \in 1 .. Len(q) - 1 : Tail(q)[n] = q[n + 1]
OBVIOUS

\* A post that is not about the membership of c.
Foreign(p, c) == p.c # c \/ ~ (Joins(p) \/ Uses(p))

\* A post appended to the queue, with what the worker of c then has started.
Continues(p, c, s, t) ==
    \/ Foreign(p, c) /\ t = s
    \/ p.c = c /\ Joins(p) /\ s = NoUri /\ t # NoUri /\ t = p.uri
    \/ p.c = c /\ p.slot = "data" /\ s # NoUri /\ p.uri = s /\ t = s
    \/ p.c = c /\ p.slot = "remove" /\ s # NoUri /\ p.uri = s /\ t = NoUri

LEMMA AppendFits ==
    ASSUME NEW q \in Seq(Posts), NEW p \in Posts, NEW c, NEW m, NEW s, NEW t,
           Fits(q, c, m, s), Continues(p, c, s, t)
    PROVE  Fits(Append(q, p), c, m, t)
<1> DEFINE r == Append(q, p)
           L == Len(q)
<1>1. /\ L \in Nat
      /\ Len(r) = L + 1
      /\ \A n \in 1 .. L : r[n] = q[n]
      /\ r[L + 1] = p
  BY AppendElements, QueueElements
<1>2. \A n, k \in 1 .. L : NoMark(r, c, k + 1, n - 1) => NoMark(q, c, k + 1, n - 1)
  BY <1>1 DEF NoMark
<1>3. \A n \in 1 .. L : NoMark(r, c, 1, n - 1) => NoMark(q, c, 1, n - 1)
  BY <1>1 DEF NoMark
<1>4. \A k \in 1 .. L + 1 : NoMark(r, c, k, L) => NoMark(q, c, k, L)
  BY <1>1 DEF NoMark
<1>5. \A k \in 1 .. L + 1 : NoMark(r, c, k, L + 1) => NoMark(q, c, k, L) /\ ~ Mark(p, c)
  BY <1>1 DEF NoMark
<1> HIDE DEF r, L
<1>6. FirstFits(r, c, m)
  <2> SUFFICES ASSUME NEW n \in 1 .. L + 1, r[n].c = c, NoMark(r, c, 1, n - 1)
               PROVE  /\ Joins(r[n]) => m = Closed
                      /\ Uses(r[n]) => m.phase # "closed" /\ m.uri = r[n].uri
    BY <1>1 DEF FirstFits
  <2>1. CASE n \in 1 .. L
    BY <2>1, <1>1, <1>3 DEF Fits, FirstFits, L
  <2>2. CASE n = L + 1
    <3>1. NoMark(q, c, 1, L) /\ r[n] = p
      BY <2>2, <1>1, <1>4
    <3>2. IF s # NoUri THEN m.phase # "closed" /\ m.uri = s ELSE m = Closed
      BY <3>1 DEF Fits, NoneFits, L
    <3> QED BY <3>1, <3>2 DEF Continues, Foreign, Joins, Uses
  <2> QED BY <2>1, <2>2, <1>1
<1>7. Follows(r, c)
  <2> SUFFICES ASSUME NEW k \in 1 .. L + 1, NEW n \in 1 .. L + 1, k < n, Mark(r[k], c),
                      r[n].c = c, NoMark(r, c, k + 1, n - 1)
               PROVE  IF Joins(r[k]) THEN ~ Joins(r[n]) /\ (Uses(r[n]) => r[n].uri = r[k].uri)
                      ELSE ~ Uses(r[n])
    BY <1>1 DEF Follows
  <2>0. k \in 1 .. L
    BY <1>1
  <2>1. CASE n \in 1 .. L
    BY <2>0, <2>1, <1>1, <1>2 DEF Fits, Follows, L
  <2>2. CASE n = L + 1
    <3>1. NoMark(q, c, k + 1, L) /\ r[n] = p /\ r[k] = q[k] /\ Mark(q[k], c)
      BY <2>0, <2>2, <1>1, <1>4
    <3>2. s = IF Joins(q[k]) THEN q[k].uri ELSE NoUri
      BY <2>0, <3>1 DEF Fits, LastFits, L
    <3>3. Joins(q[k]) => q[k].uri # NoUri
      BY <2>0, JoinNamesStream DEF L
    <3> QED BY <3>1, <3>2, <3>3 DEF Continues, Foreign, Joins, Uses
  <2> QED BY <2>1, <2>2, <1>1
<1>8. LastFits(r, c, t)
  <2> SUFFICES ASSUME NEW k \in 1 .. L + 1, Mark(r[k], c), NoMark(r, c, k + 1, L + 1)
               PROVE  t = IF Joins(r[k]) THEN r[k].uri ELSE NoUri
    BY <1>1 DEF LastFits
  <2>1. CASE k \in 1 .. L
    <3>1. NoMark(q, c, k + 1, L) /\ ~ Mark(p, c) /\ r[k] = q[k]
      BY <2>1, <1>1, <1>5
    <3>2. s = IF Joins(q[k]) THEN q[k].uri ELSE NoUri
      BY <2>1, <3>1 DEF Fits, LastFits, L
    <3> QED BY <3>1, <3>2 DEF Continues, Foreign, Mark, Joins, Uses
  <2>2. CASE k = L + 1
    BY <2>2, <1>1 DEF Continues, Foreign, Mark, Joins, Uses
  <2> QED BY <2>1, <2>2, <1>1
<1>9. NoneFits(r, c, m, t)
  <2> SUFFICES ASSUME NoMark(r, c, 1, L + 1)
               PROVE  IF t # NoUri THEN m.phase # "closed" /\ m.uri = t ELSE m = Closed
    BY <1>1 DEF NoneFits
  <2>1. NoMark(q, c, 1, L) /\ ~ Mark(p, c)
    BY <1>1, <1>5
  <2>2. t = s
    BY <2>1 DEF Continues, Mark
  <2> QED BY <2>1, <2>2 DEF Fits, NoneFits, L
<1> QED BY <1>6, <1>7, <1>8, <1>9 DEF Fits, r

\* The next post delivered, with what the dispatcher then knows of c.
Delivers(p, c, m, m2) ==
    IF ~ Mark(p, c) THEN m2 = m
    ELSE IF Joins(p) THEN m2.phase # "closed" /\ m2.uri = p.uri
    ELSE m2 = Closed

LEMMA TailFits ==
    ASSUME NEW q \in Seq(Posts), q # << >>, NEW c, NEW m, NEW m2, NEW s,
           Fits(q, c, m, s), Delivers(Head(q), c, m, m2)
    PROVE  Fits(Tail(q), c, m2, s)
<1> DEFINE r == Tail(q)
           L == Len(q)
<1>1. /\ L \in Nat /\ L >= 1
      /\ Head(q) = q[1]
      /\ Len(r) = L - 1
      /\ \A n \in 1 .. L - 1 : r[n] = q[n + 1]
  BY TailElements
<1>2. \A n \in 1 .. L, k \in 1 .. L : NoMark(r, c, k, n - 1) => NoMark(q, c, k + 1, n)
  <2> SUFFICES ASSUME NEW n \in 1 .. L, NEW k \in 1 .. L, NoMark(r, c, k, n - 1),
                      NEW i \in k + 1 .. n
               PROVE  ~ Mark(q[i], c)
    BY DEF NoMark
  <2>1. i - 1 \in k .. n - 1 /\ i - 1 \in 1 .. L - 1 /\ (i - 1) + 1 = i
    BY <1>1
  <2> QED BY <2>1, <1>1 DEF NoMark
<1>3. \A n \in 1 .. L : NoMark(q, c, 2, n) /\ ~ Mark(q[1], c) => NoMark(q, c, 1, n)
  BY <1>1 DEF NoMark
<1> HIDE DEF r, L
<1>4. FirstFits(r, c, m2)
  <2> SUFFICES ASSUME NEW n \in 1 .. L - 1, r[n].c = c, NoMark(r, c, 1, n - 1)
               PROVE  /\ Joins(r[n]) => m2 = Closed
                      /\ Uses(r[n]) => m2.phase # "closed" /\ m2.uri = r[n].uri
    BY <1>1 DEF FirstFits
  <2>1. n + 1 \in 1 .. L /\ n \in 1 .. L /\ r[n] = q[n + 1] /\ q[n + 1].c = c /\ (n + 1) - 1 = n
    BY <1>1
  <2>2. NoMark(q, c, 2, n)
    BY <2>1, <1>1, <1>2, 1 + 1 = 2
  <2>3. CASE ~ Mark(q[1], c)
    <3>1. NoMark(q, c, 1, n)
      BY <2>1, <2>2, <2>3, <1>3
    <3> QED BY <3>1, <2>1, <2>3, <1>1 DEF Fits, FirstFits, L, Delivers
  <2>4. CASE Mark(q[1], c)
    <3>1. 1 \in 1 .. L /\ 1 < n + 1 /\ NoMark(q, c, 1 + 1, (n + 1) - 1)
      BY <2>1, <2>2, <1>1
    <3>2. IF Joins(q[1]) THEN ~ Joins(q[n + 1]) /\ (Uses(q[n + 1]) => q[n + 1].uri = q[1].uri)
          ELSE ~ Uses(q[n + 1])
      BY <2>1, <2>4, <3>1 DEF Fits, Follows, L
    <3> QED BY <2>1, <2>4, <3>2, <1>1 DEF Delivers
  <2> QED BY <2>3, <2>4
<1>5. Follows(r, c)
  <2> SUFFICES ASSUME NEW k \in 1 .. L - 1, NEW n \in 1 .. L - 1, k < n, Mark(r[k], c),
                      r[n].c = c, NoMark(r, c, k + 1, n - 1)
               PROVE  IF Joins(r[k]) THEN ~ Joins(r[n]) /\ (Uses(r[n]) => r[n].uri = r[k].uri)
                      ELSE ~ Uses(r[n])
    BY <1>1 DEF Follows
  <2>1. /\ k + 1 \in 1 .. L /\ n + 1 \in 1 .. L /\ n \in 1 .. L /\ k + 1 < n + 1
        /\ r[k] = q[k + 1] /\ r[n] = q[n + 1] /\ (n + 1) - 1 = n
    BY <1>1
  <2>2. NoMark(q, c, (k + 1) + 1, (n + 1) - 1)
    BY <2>1, <1>2
  <2> QED BY <2>1, <2>2 DEF Fits, Follows, L
<1>6. LastFits(r, c, s)
  <2> SUFFICES ASSUME NEW k \in 1 .. L - 1, Mark(r[k], c), NoMark(r, c, k + 1, L - 1)
               PROVE  s = IF Joins(r[k]) THEN r[k].uri ELSE NoUri
    BY <1>1 DEF LastFits
  <2>1. k + 1 \in 1 .. L /\ L \in 1 .. L /\ r[k] = q[k + 1]
    BY <1>1
  <2>2. NoMark(q, c, (k + 1) + 1, L)
    BY <2>1, <1>2
  <2> QED BY <2>1, <2>2 DEF Fits, LastFits, L
<1>7. NoneFits(r, c, m2, s)
  <2> SUFFICES ASSUME NoMark(r, c, 1, L - 1)
               PROVE  IF s # NoUri THEN m2.phase # "closed" /\ m2.uri = s ELSE m2 = Closed
    BY <1>1 DEF NoneFits
  <2>1. L \in 1 .. L /\ 1 \in 1 .. L /\ NoMark(q, c, 1 + 1, L)
    BY <1>1, <1>2
  <2>2. CASE ~ Mark(q[1], c)
    BY <2>1, <2>2, <1>1, <1>3 DEF Fits, NoneFits, L, Delivers
  <2>3. CASE Mark(q[1], c)
    <3>1. s = IF Joins(q[1]) THEN q[1].uri ELSE NoUri
      BY <2>1, <2>3 DEF Fits, LastFits, L
    <3>2. Joins(q[1]) => q[1].uri # NoUri
      BY <2>1, JoinNamesStream DEF L
    <3> QED BY <3>1, <3>2, <2>3, <1>1 DEF Delivers
  <2> QED BY <2>2, <2>3
<1> QED BY <1>4, <1>5, <1>6, <1>7 DEF Fits, r

\* Posts that lose their effect on the threads only.
LEMMA SameMarksFit ==
    ASSUME NEW q \in Seq(Posts), NEW r \in Seq(Posts), NEW c, NEW m, NEW s,
           Fits(q, c, m, s), Len(r) = Len(q),
           \A n \in 1 .. Len(q) :
              \/ r[n] = q[n]
              \/ ~ (Joins(q[n]) \/ Uses(q[n]) \/ Joins(r[n]) \/ Uses(r[n]))
    PROVE  Fits(r, c, m, s)
<1>1. \A n \in 1 .. Len(q) : Mark(r[n], c) <=> Mark(q[n], c)
  BY DEF Mark, Uses
<1>2. Len(q) \in Nat
  BY QueueElements
<1>3. \A n \in 1 .. Len(q), k \in 1 .. Len(q) :
         NoMark(r, c, k + 1, n - 1) => NoMark(q, c, k + 1, n - 1)
  BY <1>1, <1>2 DEF NoMark
<1>4. \A n \in 1 .. Len(q) : /\ NoMark(r, c, 1, n - 1) => NoMark(q, c, 1, n - 1)
                             /\ NoMark(r, c, n + 1, Len(q)) => NoMark(q, c, n + 1, Len(q))
  BY <1>1, <1>2 DEF NoMark
<1>5. NoMark(r, c, 1, Len(q)) => NoMark(q, c, 1, Len(q))
  BY <1>1, <1>2 DEF NoMark
<1>6. FirstFits(r, c, m)
  BY <1>4 DEF Fits, FirstFits
<1>7. Follows(r, c)
  BY <1>1, <1>3 DEF Fits, Follows, Mark, Uses
<1>8. LastFits(r, c, s)
  BY <1>1, <1>4 DEF Fits, LastFits, Mark, Uses
<1>9. NoneFits(r, c, m, s)
  BY <1>5 DEF Fits, NoneFits
<1> QED BY <1>6, <1>7, <1>8, <1>9 DEF Fits

\* A stream that is closed, or joined by another, leaves c a member of the same stream.
SameMembership(m, m2) ==
    /\ m = Closed => m2 = Closed
    /\ m.phase # "closed" => m2.phase # "closed" /\ m2.uri = m.uri

LEMMA SameMembershipFits ==
    ASSUME NEW q, NEW c, NEW m, NEW m2, NEW s, Fits(q, c, m, s), SameMembership(m, m2)
    PROVE  Fits(q, c, m2, s)
<1>1. FirstFits(q, c, m2)
  BY DEF Fits, FirstFits, SameMembership
<1>2. NoneFits(q, c, m2, s)
  BY DEF Fits, NoneFits, SameMembership
<1> QED BY <1>1, <1>2 DEF Fits

LEMMA AppendThreadFits ==
    ASSUME NEW q \in Seq(Posts), NEW p \in Posts, NEW c, NEW w, NEW w2,
           ThreadFits(q, c, w),
           p.c = c => w.thread \in {"idle", "draining"} /\ w2.thread # "off",
           p.c # c => w2 = w,
           p.c = c /\ p.slot = "register" => w2.thread = "blocked"
    PROVE  ThreadFits(Append(q, p), c, w2)
<1>1. /\ Len(q) \in Nat
      /\ Len(Append(q, p)) = Len(q) + 1
      /\ \A n \in 1 .. Len(q) : Append(q, p)[n] = q[n]
      /\ Append(q, p)[Len(q) + 1] = p
  BY AppendElements, QueueElements
<1>2. CASE p.c # c
  BY <1>1, <1>2 DEF ThreadFits
<1>3. CASE p.c = c
  <2>1. \A n \in 1 .. Len(q) : q[n].c = c => q[n].slot # "register"
    BY <1>3 DEF ThreadFits
  <2> QED BY <1>1, <1>3, <2>1 DEF ThreadFits
<1> QED BY <1>2, <1>3

LEMMA TailThreadFits ==
    ASSUME NEW q \in Seq(Posts), q # << >>, NEW c, NEW w, ThreadFits(q, c, w)
    PROVE  ThreadFits(Tail(q), c, w)
<1>1. /\ Len(q) \in Nat
      /\ Len(Tail(q)) = Len(q) - 1
      /\ \A n \in 1 .. Len(q) - 1 : Tail(q)[n] = q[n + 1]
  BY TailElements
<1>2. \A n \in 1 .. Len(q) - 1 : n + 1 \in 1 .. Len(q)
  BY <1>1
<1>3. \A n, k \in 1 .. Len(q) - 1 : k + 1 = n + 1 => k = n
  BY <1>1
<1> QED BY <1>1, <1>2, <1>3 DEF ThreadFits

-----------------------------------------------------------------------------
(* What the steps have in common.                                          *)

\* The worker of c handles something, and posts p.
LEMMA WorkerPosts ==
    ASSUME IInv, NEW c \in Connections, NEW p \in Posts,
           NEW w \in WorkerStates, NEW cl \in ClientStates,
           worker[c].thread \in {"idle", "draining"}, w.thread # "off",
           ClientFits(cl), p.c = c,
           p.slot = "register" => w.thread = "blocked",
           Continues(p, c, worker[c].streamId, w.streamId),
           worker' = [worker EXCEPT ![c] = w],
           client' = [client EXCEPT ![c] = cl],
           posts' = Append(posts, p),
           UNCHANGED << accepted, registryVars, main >>
    PROVE  IInv'
<1>1. TypeOK'
  BY AppendElements DEF IInv, TypeOK, registryVars
<1>2. ASSUME NEW d \in Connections
      PROVE  /\ Fits(posts', d, member[d], worker'[d].streamId)
             /\ ThreadFits(posts', d, worker'[d])
             /\ ClientFits(client'[d])
  <2>1. posts \in Seq(Posts) /\ worker'[d] = (IF d = c THEN w ELSE worker[d])
        /\ client'[d] = (IF d = c THEN cl ELSE client[d])
    BY DEF IInv, TypeOK
  <2>2. Fits(posts, d, member[d], worker[d].streamId) /\ ThreadFits(posts, d, worker[d])
        /\ ClientFits(client[d])
    BY DEF IInv
  <2>3. Continues(p, d, worker[d].streamId, worker'[d].streamId)
    BY <2>1 DEF Continues, Foreign
  <2>4. Fits(posts', d, member[d], worker'[d].streamId)
    BY <2>1, <2>2, <2>3, AppendFits
  <2>5. ThreadFits(posts', d, worker'[d])
    BY <2>1, <2>2, AppendThreadFits
  <2> QED BY <2>1, <2>2, <2>4, <2>5
<1> QED BY <1>1, <1>2 DEF IInv, registryVars

\* A step that leaves the queue alone, and the memberships.
LEMMA NothingPosted ==
    ASSUME IInv, TypeOK',
           UNCHANGED << posts, member >>,
           \A c \in Connections : /\ worker'[c].streamId = worker[c].streamId
                                  /\ ThreadFits(posts, c, worker'[c])
                                  /\ ClientFits(client'[c])
    PROVE  IInv'
BY DEF IInv

\* The main thread delivers the next post, and maybe tells the workers something.
LEMMA PostDelivered ==
    ASSUME IInv, posts # << >>, posts' = Tail(posts),
           NEW p, p = Head(posts),
           open' \subseteq Uris, member' \in [Connections -> MemberStates],
           worker' \in [Connections -> WorkerStates],
           \A c \in Connections :
              /\ worker'[c].streamId = worker[c].streamId
              /\ ThreadFits(Tail(posts), c, worker'[c])
              /\ IF ~ Mark(p, c) THEN SameMembership(member[c], member'[c])
                 ELSE Delivers(p, c, member[c], member'[c]),
           UNCHANGED << accepted, client, main >>
    PROVE  IInv'
<1>1. posts \in Seq(Posts)
  BY DEF IInv, TypeOK
<1>2. TypeOK'
  BY <1>1, TailElements DEF IInv, TypeOK
<1>3. ASSUME NEW c \in Connections
      PROVE  Fits(posts', c, member'[c], worker'[c].streamId)
  <2>1. Fits(posts, c, member[c], worker[c].streamId)
    BY DEF IInv
  <2>2. CASE Mark(p, c)
    BY <1>1, <2>1, <2>2, TailFits
  <2>3. CASE ~ Mark(p, c)
    <3>1. Fits(posts', c, member[c], worker[c].streamId)
      BY <1>1, <2>1, <2>3, TailFits DEF Delivers
    <3> QED BY <2>3, <3>1, SameMembershipFits
  <2> QED BY <2>2, <2>3
<1> QED BY <1>2, <1>3 DEF IInv

-----------------------------------------------------------------------------
(* The steps of a worker.                                                  *)

LEMMA Sizes ==
    /\ MaxAccepts \in Nat /\ MaxSends \in Nat /\ MaxBinds \in Nat
    /\ \A c \in Connections : Bound(c) \in Nat /\ Bound(c) <= MaxSends + MaxBinds
BY ServerAssumption DEF Bound

\* The client of c after its worker has handled a message.
LEMMA ClientHandled ==
    ASSUME IInv, NEW c \in Connections, NEW type \in {"open", "data", "bind", "quit"},
           NEW cl,
           \/ /\ client[c].link = "up"
              /\ MaySend(c, type)
              /\ cl = AfterSending(client[c], type)
           \/ /\ client[c].inbox # << >>
              /\ Head(client[c].inbox) = type
              /\ cl = [client[c] EXCEPT !.inbox = Tail(@)]
    PROVE  /\ cl \in ClientStates
           /\ ClientFits(cl)
           /\ client[c].uri \in Uris
<1>1. client[c] \in ClientStates /\ ClientFits(client[c])
  BY DEF IInv, TypeOK
<1>2. client[c].uri \in Uris
  BY <1>1 DEF ClientFits
<1>3. client[c].inbox # << >> => Tail(client[c].inbox) \in Seq({"open", "data", "bind", "quit"})
  BY <1>1 DEF ClientStates
<1>4. CASE client[c].link = "up" /\ MaySend(c, type) /\ cl = AfterSending(client[c], type)
  <2>1. type # "open" => client[c].sends + 1 \in 0 .. MaxSends + MaxBinds
    BY <1>1, <1>4, Sizes DEF MaySend, ClientStates
  <2> QED BY <1>1, <1>2, <1>4, <2>1 DEF AfterSending, ClientStates, ClientFits
<1>5. CASE client[c].inbox # << >> /\ cl = [client[c] EXCEPT !.inbox = Tail(@)]
  BY <1>1, <1>2, <1>3, <1>5 DEF ClientStates, ClientFits
<1> QED BY <1>2, <1>4, <1>5

\* Any message that the worker handles, with the post it makes.
LEMMA Handled ==
    ASSUME IInv, NEW c \in Connections, NEW type \in {"open", "data", "bind", "quit"},
           NEW w, NEW p \in Posts,
           Handle(c, type, w, << p >>),
           w \in WorkerStates, w.thread # "off", p.c = c,
           p.slot = "register" => w.thread = "blocked",
           Continues(p, c, worker[c].streamId, w.streamId)
    PROVE  IInv'
<1>1. PICK cl : /\ \/ /\ client[c].link = "up"
                      /\ MaySend(c, type)
                      /\ cl = AfterSending(client[c], type)
                   \/ /\ client[c].inbox # << >>
                      /\ Head(client[c].inbox) = type
                      /\ cl = [client[c] EXCEPT !.inbox = Tail(@)]
                /\ client' = [client EXCEPT ![c] = cl]
  BY DEF Handle, IInv, TypeOK
<1>2. cl \in ClientStates /\ ClientFits(cl)
  BY <1>1, ClientHandled
<1>3. posts' = Append(posts, p)
  BY DEF Handle, IInv, TypeOK
<1> QED BY <1>1, <1>2, <1>3, WorkerPosts DEF Handle

LEMMA WorkerType ==
    ASSUME IInv, NEW c \in Connections
    PROVE  /\ worker[c] \in WorkerStates
           /\ client[c] \in ClientStates
           /\ AfterMessage(worker[c]) \in {"idle", "draining"}
           /\ Started(c) => worker[c].streamId \in Uris
BY DEF IInv, TypeOK, WorkerStates, AfterMessage, Started

LEMMA OpenStep ==
    ASSUME IInv, NEW c \in Connections, HandleOpen(c)
    PROVE  IInv'
<1> DEFINE u == client[c].uri
           w == [worker[c] EXCEPT !.streamId = u, !.thread = AfterMessage(worker[c])]
           p == Post(IF c \in Sources THEN "addSource" ELSE "addObserver", c, u)
<1>1. Handle(c, "open", w, << p >>) /\ worker[c].streamId = NoUri
  BY DEF HandleOpen, Started
<1>2. u \in Uris
  BY <1>1, ClientHandled DEF Handle
<1>3. w \in WorkerStates /\ w.thread # "off" /\ w.streamId = u /\ u # NoUri
  BY <1>2, WorkerType, ServerAssumption DEF WorkerStates
<1>4. p \in Posts /\ p.c = c /\ p.slot # "register"
      /\ Continues(p, c, worker[c].streamId, w.streamId)
  BY <1>1, <1>2, <1>3 DEF Post, Posts, Continues, Joins
<1> HIDE DEF w, p
<1> QED BY <1>1, <1>3, <1>4, Handled

LEMMA DataStep ==
    ASSUME IInv, NEW c \in Connections, HandleData(c)
    PROVE  IInv'
<1> DEFINE w == [worker[c] EXCEPT !.thread = AfterMessage(worker[c])]
           p == Post("data", c, worker[c].streamId)
<1>1. Handle(c, "data", w, << p >>) /\ Started(c)
  BY DEF HandleData, Valid
<1>2. w \in WorkerStates /\ w.thread # "off" /\ w.streamId = worker[c].streamId
  BY WorkerType DEF WorkerStates
<1>3. p \in Posts /\ p.c = c /\ p.slot # "register"
      /\ Continues(p, c, worker[c].streamId, w.streamId)
  BY <1>1, <1>2, WorkerType DEF Post, Posts, Continues, Started
<1> HIDE DEF w, p
<1> QED BY <1>1, <1>2, <1>3, Handled

LEMMA QuitStep ==
    ASSUME IInv, NEW c \in Connections, HandleQuit(c)
    PROVE  IInv'
<1> DEFINE w == [worker[c] EXCEPT !.streamId = NoUri, !.protocolEnded = TRUE,
                                  !.thread = AfterMessage(worker[c])]
           p == Post("remove", c, worker[c].streamId)
<1>1. Handle(c, "quit", w, << p >>) /\ Started(c)
  BY DEF HandleQuit, Valid
<1>2. w \in WorkerStates /\ w.thread # "off" /\ w.streamId = NoUri
  BY WorkerType DEF WorkerStates
<1>3. p \in Posts /\ p.c = c /\ p.slot # "register"
      /\ Continues(p, c, worker[c].streamId, w.streamId)
  BY <1>1, <1>2, WorkerType DEF Post, Posts, Continues, Started
<1> HIDE DEF w, p
<1> QED BY <1>1, <1>2, <1>3, Handled

LEMMA BindStep ==
    ASSUME IInv, NEW c \in Connections, HandleBind(c)
    PROVE  IInv'
<1> DEFINE w == [worker[c] EXCEPT !.thread = "blocked"]
           p == Post("register", c, worker[c].streamId)
<1>1. Handle(c, "bind", w, << p >>) /\ Started(c)
  BY DEF HandleBind, Valid
<1>2. w \in WorkerStates /\ w.thread = "blocked" /\ w.streamId = worker[c].streamId
  BY WorkerType DEF WorkerStates
<1>3. p \in Posts /\ p.c = c /\ Continues(p, c, worker[c].streamId, w.streamId)
  BY <1>1, <1>2, WorkerType DEF Post, Posts, Continues, Started, Foreign, Joins, Uses
<1> HIDE DEF w, p
<1> QED BY <1>1, <1>2, <1>3, Handled

\* A post to the QThread of c.
LEMMA QuitPost ==
    ASSUME NEW c \in Connections, NEW s
    PROVE  /\ Post("quit", c, NoUri) \in Posts
           /\ Post("quit", c, NoUri).c = c
           /\ Post("quit", c, NoUri).slot # "register"
           /\ Continues(Post("quit", c, NoUri), c, s, s)
BY DEF Post, Posts, Continues, Foreign, Joins, Uses

LEMMA SecondBindStep ==
    ASSUME IInv, NEW c \in Connections, HandleSecondBind(c)
    PROVE  IInv'
<1> DEFINE w == [worker[c] EXCEPT !.thread = AfterMessage(worker[c])]
<1>1. Handle(c, "bind", w, << Post("quit", c, NoUri) >>)
  BY DEF HandleSecondBind
<1>2. w \in WorkerStates /\ w.thread # "off" /\ w.streamId = worker[c].streamId
  BY WorkerType DEF WorkerStates
<1> HIDE DEF w
<1> QED BY <1>1, <1>2, QuitPost, Handled

\* The worker tells its thread to quit, without a message of its client.
LEMMA WorkerQuits ==
    ASSUME IInv, NEW c \in Connections, NEW w \in WorkerStates,
           worker[c].thread \in {"idle", "draining"}, w.thread = "idle",
           w.streamId = worker[c].streamId,
           worker' = [worker EXCEPT ![c] = w],
           posts' = Append(posts, Post("quit", c, NoUri)),
           UNCHANGED << accepted, registryVars, client, main >>
    PROVE  IInv'
<1>1. client' = [client EXCEPT ![c] = client[c]] /\ client[c] \in ClientStates
      /\ ClientFits(client[c])
  BY DEF IInv, TypeOK
<1> QED BY <1>1, QuitPost, WorkerPosts

LEMMA NoticeStep ==
    ASSUME IInv, NEW c \in Connections, NoticeDisconnection(c)
    PROVE  IInv'
<1> DEFINE w == [worker[c] EXCEPT !.connected = FALSE]
<1>1. w \in WorkerStates /\ w.thread = "idle" /\ w.streamId = worker[c].streamId
      /\ worker[c].thread = "idle"
  BY WorkerType DEF WorkerStates, NoticeDisconnection, InEventLoop
<1>2. worker' = [worker EXCEPT ![c] = w]
  BY DEF NoticeDisconnection, IInv, TypeOK
<1> HIDE DEF w
<1> QED BY <1>1, <1>2, WorkerQuits DEF NoticeDisconnection

LEMMA DrainStep ==
    ASSUME IInv, NEW c \in Connections, EndOfDrain(c)
    PROVE  IInv'
<1> DEFINE w == [worker[c] EXCEPT !.thread = "idle"]
<1>1. w \in WorkerStates /\ w.thread = "idle" /\ w.streamId = worker[c].streamId
      /\ worker[c].thread = "draining"
  BY WorkerType DEF WorkerStates, EndOfDrain
<1>2. worker' = [worker EXCEPT ![c] = w]
  BY DEF EndOfDrain, IInv, TypeOK
<1> HIDE DEF w
<1> QED BY <1>1, <1>2, WorkerQuits DEF EndOfDrain

\* A change to worker c that its queue and its client do not see.
LEMMA WorkerChanges ==
    ASSUME IInv, NEW c \in Connections, NEW w \in WorkerStates,
           w.streamId = worker[c].streamId, ThreadFits(posts, c, w),
           worker' = [worker EXCEPT ![c] = w],
           main' \in {"running", "stopping", "stopped"},
           UNCHANGED << accepted, registryVars, client, posts >>
    PROVE  IInv'
<1>1. TypeOK'
  BY DEF IInv, TypeOK, registryVars
<1>2. \A d \in Connections : worker'[d] = IF d = c THEN w ELSE worker[d]
  BY DEF IInv, TypeOK
<1> QED BY <1>1, <1>2, NothingPosted DEF IInv, registryVars

\* What a thread that goes on may become, as far as its queue can tell.
LEMMA LiveThreadFits ==
    ASSUME NEW q, NEW c, NEW w, NEW w2, ThreadFits(q, c, w),
           w.thread # "off", w2.thread = w.thread
    PROVE  ThreadFits(q, c, w2)
BY DEF ThreadFits

LEMMA CloseConnectionsStep ==
    ASSUME IInv, NEW c \in Connections, NEW u \in Uris, CloseConnections(c, u)
    PROVE  IInv'
<1> DEFINE w == [worker[c] EXCEPT !.closes = @ \ {u}]
<1>1. w \in WorkerStates /\ w.thread = "idle" /\ w.streamId = worker[c].streamId
      /\ worker[c].thread = "idle"
  BY WorkerType DEF WorkerStates, CloseConnections, InEventLoop
<1>2. worker' = [worker EXCEPT ![c] = w]
  BY DEF CloseConnections, IInv, TypeOK
<1> HIDE DEF w
<1>3. CASE worker[c].streamId = u
  BY <1>1, <1>2, <1>3, WorkerQuits DEF CloseConnections
<1>4. CASE worker[c].streamId # u
  <2>1. ThreadFits(posts, c, w)
    BY <1>1, LiveThreadFits DEF IInv
  <2>2. main' \in {"running", "stopping", "stopped"} /\ UNCHANGED posts
    BY <1>4 DEF CloseConnections, IInv, TypeOK
  <2> QED BY <1>1, <1>2, <2>1, <2>2, WorkerChanges DEF CloseConnections
<1> QED BY <1>3, <1>4

\* Without the posts to the QThread of c, no post concerns its thread: it is not
\* blocked, so that there is no registration either.
LEMMA WithoutQuitFits ==
    ASSUME IInv, NEW c \in Connections, worker[c].thread = "idle"
    PROVE  /\ WithoutQuit(c) \in Seq(Posts)
           /\ \A d \in Connections :
                 Fits(WithoutQuit(c), d, member[d], worker[d].streamId)
           /\ \A d \in Connections \ {c} : ThreadFits(WithoutQuit(c), d, worker[d])
           /\ \A n \in 1 .. Len(WithoutQuit(c)) :
                 WithoutQuit(c)[n].c = c => WithoutQuit(c)[n].slot \notin {"quit", "register"}
<1> DEFINE r == WithoutQuit(c)
<1>1. posts \in Seq(Posts) /\ Len(posts) \in Nat
      /\ \A n \in 1 .. Len(posts) : posts[n] \in Posts
  BY QueueElements DEF IInv, TypeOK
<1>2. Post("none", c, NoUri) \in Posts
  BY DEF Post, Posts
<1>3. r \in Seq(Posts) /\ Len(r) = Len(posts)
  BY <1>1, <1>2 DEF WithoutQuit
<1>4. \A n \in 1 .. Len(posts) :
         r[n] = IF posts[n].c = c /\ posts[n].slot = "quit" THEN Post("none", c, NoUri)
                ELSE posts[n]
  BY <1>1 DEF WithoutQuit
<1> HIDE DEF r
<1>5. \A n \in 1 .. Len(posts) :
         \/ r[n] = posts[n]
         \/ ~ (Joins(posts[n]) \/ Uses(posts[n]) \/ Joins(r[n]) \/ Uses(r[n]))
  BY <1>4 DEF Joins, Uses, Post
<1>6. \A d \in Connections : Fits(r, d, member[d], worker[d].streamId)
  BY <1>1, <1>3, <1>5, SameMarksFit DEF IInv
<1>7. \A d \in Connections \ {c} : ThreadFits(r, d, worker[d])
  <2> SUFFICES ASSUME NEW d \in Connections \ {c}
               PROVE  ThreadFits(r, d, worker[d])
    OBVIOUS
  <2>1. \A n \in 1 .. Len(posts) : r[n].c = posts[n].c /\ (posts[n].c = d => r[n] = posts[n])
    BY <1>4 DEF Post
  <2>2. ThreadFits(posts, d, worker[d])
    BY DEF IInv
  <2> QED BY <1>3, <2>1, <2>2 DEF ThreadFits
<1>8. \A n \in 1 .. Len(r) : r[n].c = c => r[n].slot \notin {"quit", "register"}
  <2>1. ThreadFits(posts, c, worker[c])
    BY DEF IInv
  <2> QED BY <1>3, <1>4, <2>1 DEF ThreadFits, Post
<1> QED BY <1>3, <1>6, <1>7, <1>8 DEF r

LEMMA NoWorkerType ==
    /\ NoWorker \in WorkerStates /\ NoWorker.thread = "off" /\ NoWorker.streamId = NoUri
    /\ NewWorker \in WorkerStates /\ NewWorker.thread = "idle" /\ NewWorker.streamId = NoUri
    /\ NoClient \in ClientStates /\ ClientFits(NoClient)
    /\ \A cl \in ClientStates : Left(cl) \in ClientStates /\ ClientFits(Left(cl))
<1>1. NoWorker \in WorkerStates /\ NoWorker.thread = "off" /\ NoWorker.streamId = NoUri
  BY DEF NoWorker, WorkerStates
<1>2. NewWorker \in WorkerStates /\ NewWorker.thread = "idle" /\ NewWorker.streamId = NoUri
  BY DEF NewWorker, NoWorker, WorkerStates
<1>3. NoClient \in ClientStates
  <2>1. 0 \in 0 .. MaxSends + MaxBinds
    BY Sizes
  <2> QED BY <2>1 DEF NoClient, ClientStates
<1>4. ClientFits(NoClient)
  BY DEF NoClient, ClientFits
<1>5. ASSUME NEW cl \in ClientStates
      PROVE  Left(cl) \in ClientStates /\ ClientFits(Left(cl))
  <2>1. Left(cl) \in ClientStates
    BY <1>3 DEF Left, ClientStates
  <2>2. Left(cl).link = "down" /\ Left(cl).inbox = << >>
    BY <1>3 DEF Left, NoClient
  <2> QED BY <2>1, <2>2 DEF ClientFits
<1> QED BY <1>1, <1>2, <1>3, <1>4, <1>5

LEMMA EndThreadStep ==
    ASSUME IInv, NEW c \in Connections, EndThread(c)
    PROVE  IInv'
<1> DEFINE r == WithoutQuit(c)
           p == Post("remove", c, worker[c].streamId)
<1>1. worker[c].thread = "idle"
  BY DEF EndThread, InEventLoop
<1>2. /\ r \in Seq(Posts)
      /\ \A d \in Connections : Fits(r, d, member[d], worker[d].streamId)
      /\ \A d \in Connections \ {c} : ThreadFits(r, d, worker[d])
      /\ \A n \in 1 .. Len(r) : r[n].c = c => r[n].slot \notin {"quit", "register"}
  BY <1>1, WithoutQuitFits
<1>3. worker' = [worker EXCEPT ![c] = NoWorker]
      /\ client' = [client EXCEPT ![c] = Left(client[c])]
      /\ UNCHANGED << accepted, registryVars, main >>
      /\ posts' = IF Started(c) THEN Append(r, p) ELSE r
  BY DEF EndThread
<1>4. /\ \A d \in Connections : worker'[d] = IF d = c THEN NoWorker ELSE worker[d]
      /\ \A d \in Connections : client'[d] = IF d = c THEN Left(client[c]) ELSE client[d]
      /\ Left(client[c]) \in ClientStates /\ ClientFits(Left(client[c]))
  BY <1>3, NoWorkerType DEF IInv, TypeOK
<1> HIDE DEF r
<1>5. Started(c) => p \in Posts
  BY WorkerType DEF Post, Posts
<1>6. posts' \in Seq(Posts)
  BY <1>2, <1>3, <1>5, AppendElements
<1>7. TypeOK'
  BY <1>3, <1>4, <1>6, NoWorkerType DEF IInv, TypeOK, registryVars
<1>8. ASSUME NEW d \in Connections
      PROVE  Fits(posts', d, member[d], worker'[d].streamId)
  <2>1. CASE ~ Started(c)
    BY <1>2, <1>3, <1>4, <2>1, NoWorkerType DEF Started
  <2>2. CASE Started(c)
    <3>1. Continues(p, d, worker[d].streamId, worker'[d].streamId)
      BY <1>4, <2>2, NoWorkerType DEF Continues, Foreign, Post, Started
    <3> HIDE DEF p
    <3> QED BY <1>2, <1>3, <1>5, <2>2, <3>1, AppendFits
  <2> QED BY <2>1, <2>2
<1>9. ASSUME NEW d \in Connections
      PROVE  ThreadFits(posts', d, worker'[d])
  <2>1. CASE d # c
    <3>1. CASE ~ Started(c)
      BY <1>2, <1>3, <1>4, <2>1, <3>1
    <3>2. CASE Started(c)
      <4>1. p.c # d
        BY <2>1 DEF Post
      <4> HIDE DEF p
      <4> QED BY <1>2, <1>3, <1>4, <1>5, <2>1, <3>2, <4>1, AppendThreadFits
    <3> QED BY <3>1, <3>2
  <2>2. CASE d = c
    <3>1. \A n \in 1 .. Len(posts') : posts'[n].c = c => posts'[n].slot \notin {"quit", "register"}
      <4>1. CASE ~ Started(c)
        BY <1>2, <1>3, <4>1
      <4>2. CASE Started(c)
        <5>1. p.slot \notin {"quit", "register"}
          BY DEF Post
        <5> HIDE DEF p
        <5>2. /\ Len(r) \in Nat /\ Len(posts') = Len(r) + 1
              /\ \A n \in 1 .. Len(r) : posts'[n] = r[n]
              /\ posts'[Len(r) + 1] = p
          BY <1>2, <1>3, <1>5, <4>2, AppendElements, QueueElements
        <5> QED BY <1>2, <5>1, <5>2
      <4> QED BY <4>1, <4>2
    <3> QED BY <1>4, <2>2, <3>1 DEF ThreadFits
  <2> QED BY <2>1, <2>2
<1> QED BY <1>3, <1>4, <1>7, <1>8, <1>9, NoWorkerType DEF IInv, registryVars

-----------------------------------------------------------------------------
(* The steps of clients and of the network.                                *)

\* The client of d when c is accepted: it may have shared its descriptor.
AcceptedClient(c, u, d) ==
    IF d = c THEN [NoClient EXCEPT !.link = "up", !.uri = u, !.shared = Holders(c) # {}]
    ELSE [client[d] EXCEPT !.shared = @ \/ d \in Holders(c)]

LEMMA ClientAccepted ==
    ASSUME IInv, NEW c \in Connections, NEW u \in Uris, NEW d \in Connections
    PROVE  /\ AcceptedClient(c, u, d) \in ClientStates
           /\ ClientFits(AcceptedClient(c, u, d))
           /\ d # c => /\ AcceptedClient(c, u, d).link = client[d].link
                       /\ AcceptedClient(c, u, d).inbox = client[d].inbox
                       /\ AcceptedClient(c, u, d).shared <=>
                             client[d].shared \/ d \in Holders(c)
           /\ d = c => /\ AcceptedClient(c, u, d).link = "up"
                       /\ AcceptedClient(c, u, d).inbox = << >>
                       /\ AcceptedClient(c, u, d).shared <=> Holders(c) # {}
<1>1. CASE d = c
  <2>1. NoClient \in ClientStates
    BY NoWorkerType
  <2>2. AcceptedClient(c, u, d) =
           [NoClient EXCEPT !.link = "up", !.uri = u, !.shared = Holders(c) # {}]
    BY <1>1 DEF AcceptedClient
  <2>3. (Holders(c) # {}) \in BOOLEAN
    OBVIOUS
  <2>4. PICK shared \in BOOLEAN : shared = (Holders(c) # {})
    BY <2>3
  <2>5. AcceptedClient(c, u, d) =
           [NoClient EXCEPT !.link = "up", !.uri = u, !.shared = shared]
    BY <2>2, <2>4
  <2>6. AcceptedClient(c, u, d) \in ClientStates
    BY <2>1, <2>5 DEF ClientStates
  <2>7. /\ AcceptedClient(c, u, d).link = "up"
        /\ AcceptedClient(c, u, d).inbox = << >>
        /\ AcceptedClient(c, u, d).uri = u
        /\ AcceptedClient(c, u, d).shared = shared
    BY <2>5 DEF NoClient
  <2> QED BY <1>1, <2>4, <2>6, <2>7 DEF ClientFits
<1>2. CASE d # c
  <2>1. client[d] \in ClientStates /\ ClientFits(client[d])
    BY DEF IInv, TypeOK
  <2>2. (client[d].shared \/ d \in Holders(c)) \in BOOLEAN
    OBVIOUS
  <2>3. PICK shared \in BOOLEAN : shared = (client[d].shared \/ d \in Holders(c))
    BY <2>2
  <2>4. AcceptedClient(c, u, d) = [client[d] EXCEPT !.shared = shared]
    BY <1>2, <2>3 DEF AcceptedClient
  <2>5. /\ AcceptedClient(c, u, d) \in ClientStates
        /\ AcceptedClient(c, u, d).link = client[d].link
        /\ AcceptedClient(c, u, d).inbox = client[d].inbox
        /\ AcceptedClient(c, u, d).uri = client[d].uri
        /\ AcceptedClient(c, u, d).shared = shared
    BY <2>1, <2>4 DEF ClientStates
  <2> QED BY <1>2, <2>1, <2>3, <2>5 DEF ClientFits
<1> QED BY <1>1, <1>2

LEMMA AcceptedIs ==
    ASSUME IInv, TurnsInv, NEW c \in Connections, NEW u \in Uris, Accept(c, u)
    PROVE  /\ worker[c] = NoWorker
           /\ client' = [d \in Connections |-> AcceptedClient(c, u, d)]
           /\ \A d \in Connections : /\ client'[d] = AcceptedClient(c, u, d)
                                     /\ worker'[d] = IF d = c THEN NewWorker ELSE worker[d]
           /\ UNCHANGED << registryVars, posts, main >>
<1>1. client[c].link = "none" /\ worker' = [worker EXCEPT ![c] = NewWorker]
      /\ UNCHANGED << registryVars, posts, main >>
  BY DEF Accept
<1>2. client' = [d \in Connections |-> AcceptedClient(c, u, d)]
  BY DEF Accept, AcceptedClient
<1>3. worker[c] = NoWorker
  BY <1>1 DEF IInv, TurnsInv, FreshFits, ThreadFits
<1>4. \A d \in Connections : worker'[d] = IF d = c THEN NewWorker ELSE worker[d]
  BY <1>1 DEF IInv, TypeOK
<1>5. \A d \in Connections : client'[d] = AcceptedClient(c, u, d)
  BY <1>2
<1> QED BY <1>1, <1>2, <1>3, <1>4, <1>5

LEMMA AcceptStep ==
    ASSUME IInv, TurnsInv, NEW c \in Connections, NEW u \in Uris, Accept(c, u)
    PROVE  IInv'
<1>1. /\ worker[c] = NoWorker
      /\ client' = [d \in Connections |-> AcceptedClient(c, u, d)]
      /\ \A d \in Connections : /\ client'[d] = AcceptedClient(c, u, d)
                                /\ worker'[d] = IF d = c THEN NewWorker ELSE worker[d]
      /\ UNCHANGED << registryVars, posts, main >>
  BY AcceptedIs
<1>2. \A d \in Connections : /\ AcceptedClient(c, u, d) \in ClientStates
                            /\ ClientFits(AcceptedClient(c, u, d))
  BY ClientAccepted
<1>3. accepted' \in 0 .. MaxAccepts
  <2>1. accepted < MaxAccepts /\ accepted' = accepted + 1
    BY DEF Accept
  <2>2. accepted \in 0 .. MaxAccepts
    BY DEF IInv, TypeOK
  <2> QED BY <2>1, <2>2, Sizes
<1>4. client' \in [Connections -> ClientStates]
  BY <1>1, <1>2
<1>5. worker' \in [Connections -> WorkerStates]
  <2>1. worker' = [worker EXCEPT ![c] = NewWorker]
    BY DEF Accept
  <2>2. worker \in [Connections -> WorkerStates] /\ NewWorker \in WorkerStates
    BY NoWorkerType DEF IInv, TypeOK
  <2> QED BY <2>1, <2>2
<1>6. TypeOK'
  BY <1>1, <1>3, <1>4, <1>5 DEF IInv, TypeOK, registryVars
<1>7. ASSUME NEW d \in Connections
      PROVE  /\ worker'[d].streamId = worker[d].streamId
             /\ ThreadFits(posts, d, worker'[d])
             /\ ClientFits(client'[d])
  <2>1. ThreadFits(posts, d, worker[d])
    BY DEF IInv
  <2>2. d = c => ThreadFits(posts, d, NewWorker)
    BY <1>1, <2>1, NoWorkerType DEF ThreadFits
  <2> QED BY <1>1, <1>2, <2>1, <2>2, NoWorkerType
<1> QED BY <1>1, <1>6, <1>7, NothingPosted DEF registryVars

LEMMA DepartStep ==
    ASSUME IInv, NEW c \in Connections, Depart(c)
    PROVE  IInv'
<1> DEFINE Messages == {"open", "data", "bind", "quit"}
<1>1. PICK first \in {<< >>, << "open" >>}, t \in Unread(c), quit \in {<< >>, << "quit" >>} :
         client' = [client EXCEPT ![c].link = "down", ![c].sends = 0,
                                  ![c].inbox = first \o t \o quit]
  BY DEF Depart
<1>2. first \in Seq(Messages) /\ quit \in Seq(Messages)
  <2>1. << >> \in Seq(Messages) /\ << "open" >> \in Seq(Messages) /\ << "quit" >> \in Seq(Messages)
    OBVIOUS
  <2> QED BY <2>1
<1>3. t \in Seq(Messages)
  <2>1. PICK n \in 0 .. MaxUnread : t \in [1 .. n -> Types(c)]
    BY DEF Unread
  <2>2. n \in Nat /\ Types(c) \subseteq Messages
    BY <2>1, ServerAssumption DEF Types
  <2> QED BY <2>1, <2>2
<1>4. first \o t \o quit \in Seq(Messages)
  BY <1>2, <1>3
<1> DEFINE inbox == first \o t \o quit
           cl == [client[c] EXCEPT !.link = "down", !.sends = 0, !.inbox = inbox]
<1> HIDE DEF inbox
<1>5. client[c] \in ClientStates /\ ClientFits(client[c]) /\ client[c].link = "up"
  BY DEF Depart, IInv, TypeOK
<1>6. 0 \in 0 .. MaxSends + MaxBinds
  BY Sizes
<1>7. cl \in ClientStates /\ ClientFits(cl)
  <2>1. inbox \in Seq(Messages)
    BY <1>4 DEF inbox
  <2> QED BY <2>1, <1>5, <1>6 DEF ClientStates, ClientFits
<1>8. client' = [client EXCEPT ![c] = cl]
  BY <1>1 DEF IInv, TypeOK, inbox
<1> HIDE DEF cl
<1>9. TypeOK' /\ UNCHANGED << posts, member, worker >>
  BY <1>7, <1>8 DEF IInv, TypeOK, Depart, registryVars
<1>10. \A d \in Connections : client'[d] = IF d = c THEN cl ELSE client[d]
  BY <1>8 DEF IInv, TypeOK
<1> QED BY <1>7, <1>9, <1>10, NothingPosted DEF IInv

-----------------------------------------------------------------------------
(* What the main thread does to the registry.                              *)

LEMMA SameMembershipKept ==
    ASSUME NEW m
    PROVE  SameMembership(m, m)
BY DEF SameMembership

LEMMA CloseKeeps ==
    ASSUME NEW u \in Uris, NEW others \in [Connections -> MemberStates],
           open \subseteq Uris, Close(u, others)
    PROVE  /\ open' \subseteq Uris
           /\ member' \in [Connections -> MemberStates]
           /\ \A c \in Connections : SameMembership(others[c], member'[c])
<1>1. \A c \in Connections : others[c] = [phase |-> "joined", uri |-> u] =>
         /\ [others[c] EXCEPT !.phase = "stray"] = [phase |-> "stray", uri |-> u]
         /\ [others[c] EXCEPT !.phase = "stray"] \in MemberStates
  BY DEF MemberStates
<1>2. member' \in [Connections -> MemberStates]
  BY <1>1 DEF Close
<1>3. \A c \in Connections : SameMembership(others[c], member'[c])
  BY <1>1 DEF Close, SameMembership, Closed
<1> QED BY <1>2, <1>3 DEF Close

LEMMA JoinKeeps ==
    ASSUME NEW c \in Connections, NEW u \in Uris, TypeOK, Join(c, u) \/ Reject(c, u)
    PROVE  /\ open' \subseteq Uris
           /\ member' \in [Connections -> MemberStates]
           /\ member'[c].phase # "closed" /\ member'[c].uri = u
           /\ \A d \in Connections \ {c} : member'[d] = member[d]
<1>1. \A phase \in {"joined", "stray"} : [phase |-> phase, uri |-> u] \in MemberStates
  BY DEF MemberStates
<1> QED BY <1>1 DEF Join, Reject, TypeOK

LEMMA MemberUri ==
    ASSUME NEW c \in Connections, TypeOK, member[c].phase # "closed"
    PROVE  member[c].uri \in Uris
BY DEF TypeOK, MemberStates, Closed

\* The memberships of the others when c is forgotten, with those in same.
Forgotten(c, same, d) ==
    IF d = c THEN Closed
    ELSE IF d \in same /\ Joined(d, member[c].uri) THEN [member[d] EXCEPT !.phase = "stray"]
    ELSE member[d]

LEMMA ForgottenIs ==
    ASSUME NEW c \in Connections, NEW same, TypeOK, NEW d \in Connections
    PROVE  /\ Forgotten(c, same, d) \in MemberStates
           /\ d = c => Forgotten(c, same, d) = Closed
           /\ d # c => SameMembership(member[d], Forgotten(c, same, d))
<1>1. member[d] \in MemberStates /\ Closed \in MemberStates
  BY DEF TypeOK, MemberStates
<1>2. CASE d # c /\ d \in same /\ Joined(d, member[c].uri)
  <2>1. Forgotten(c, same, d) = [member[d] EXCEPT !.phase = "stray"]
        /\ member[d] = [phase |-> "joined", uri |-> member[c].uri]
    BY <1>2 DEF Forgotten, Joined
  <2>2. Forgotten(c, same, d) = [phase |-> "stray", uri |-> member[c].uri]
    BY <2>1
  <2>3. member[c].uri \in Uris
    BY <1>1, <2>1 DEF MemberStates, Closed
  <2> QED BY <1>2, <2>1, <2>2, <2>3 DEF MemberStates, SameMembership, Closed
<1> QED BY <1>1, <1>2, SameMembershipKept DEF Forgotten

LEMMA ForgetKeeps ==
    ASSUME NEW c \in Connections, NEW same, TypeOK, Forget(c, same)
    PROVE  /\ open' \subseteq Uris
           /\ member' \in [Connections -> MemberStates]
           /\ member'[c] = Closed
           /\ \A d \in Connections \ {c} : SameMembership(member[d], member'[d])
<1> DEFINE u == member[c].uri
           others == [d \in Connections |-> Forgotten(c, same, d)]
<1>1. others \in [Connections -> MemberStates] /\ others[c] = Closed
      /\ \A d \in Connections \ {c} : SameMembership(member[d], others[d])
  BY ForgottenIs
<1>2. u \in Uris /\ open \subseteq Uris
  BY MemberUri DEF Forget, TypeOK
<1>3. CASE Close(u, others)
  <2> HIDE DEF u, others
  <2>1. /\ open' \subseteq Uris
        /\ member' \in [Connections -> MemberStates]
        /\ \A d \in Connections : SameMembership(others[d], member'[d])
    BY <1>1, <1>2, <1>3, CloseKeeps
  <2> QED BY <1>1, <2>1 DEF SameMembership
<1>4. CASE member' = others /\ UNCHANGED open
  BY <1>1, <1>2, <1>4
<1> QED BY <1>3, <1>4 DEF Forget, Forgotten

LEMMA SendKeeps ==
    ASSUME NEW c \in Connections, TypeOK, Send(c)
    PROVE  /\ open' \subseteq Uris
           /\ member' \in [Connections -> MemberStates]
           /\ \A d \in Connections : SameMembership(member[d], member'[d])
<1>1. member[c].uri \in Uris /\ open \subseteq Uris /\ member \in [Connections -> MemberStates]
  BY MemberUri DEF Send, TypeOK
<1>2. CASE Close(member[c].uri, member)
  BY <1>1, <1>2, CloseKeeps
<1>3. CASE UNCHANGED registryVars
  BY <1>1, <1>3, SameMembershipKept DEF registryVars
<1> QED BY <1>2, <1>3 DEF Send

-----------------------------------------------------------------------------
(* The posts that the main thread delivers.                                *)

\* The next post is one of c.
LEMMA NextPost ==
    ASSUME IInv, NEW c \in Connections, NEW slot, Deliver(slot, c)
    PROVE  /\ posts \in Seq(Posts) /\ posts # << >> /\ posts' = Tail(posts)
           /\ Head(posts) \in Posts
           /\ Head(posts) = posts[1] /\ 1 \in 1 .. Len(posts)
           /\ Head(posts).c = c /\ Head(posts).slot = slot
<1>1. posts \in Seq(Posts) /\ posts # << >> /\ posts' = Tail(posts)
      /\ Head(posts).c = c /\ Head(posts).slot = slot
  BY DEF Deliver, IInv, TypeOK
<1> QED BY <1>1, TailElements, QueueElements

\* Signals to the threads are kept until they get to them.
LEMMA ClosesPosted ==
    ASSUME IInv, NEW u \in Uris, NEW C \in SUBSET Connections,
           worker' = [c \in Connections |->
                        IF c \notin C \/ worker[c].thread = "off" THEN worker[c]
                        ELSE [worker[c] EXCEPT !.closes = @ \cup {u}]]
    PROVE  /\ worker' \in [Connections -> WorkerStates]
           /\ \A c \in Connections : /\ worker'[c].streamId = worker[c].streamId
                                     /\ worker'[c].thread = worker[c].thread
                                     /\ worker'[c].thread = "off" => worker'[c] = worker[c]
<1>1. \A c \in Connections :
         /\ worker[c] \in WorkerStates
         /\ [worker[c] EXCEPT !.closes = @ \cup {u}] \in WorkerStates
  BY WorkerType DEF WorkerStates
<1>2. worker' \in [Connections -> WorkerStates]
  BY <1>1
<1>3. \A c \in Connections : /\ worker'[c].streamId = worker[c].streamId
                             /\ worker'[c].thread = worker[c].thread
                             /\ worker'[c].thread = "off" => worker'[c] = worker[c]
  BY <1>1 DEF WorkerStates
<1> QED BY <1>2, <1>3

LEMMA ThreadsKept ==
    ASSUME IInv, NEW c \in Connections, NEW w,
           w.thread = worker[c].thread, w.thread = "off" => w = worker[c]
    PROVE  ThreadFits(posts, c, w)
BY DEF IInv, ThreadFits

\* Those that sourceRejected is meant for.
SameDescriptor(c) == {d \in Connections : Descriptor[d] = Descriptor[c]}

LEMMA RejectedIs ==
    ASSUME NEW c, NEW u, EmitRejected(c, u)
    PROVE  worker' = [d \in Connections |->
                        IF d \notin SameDescriptor(c) \/ worker[d].thread = "off" THEN worker[d]
                        ELSE [worker[d] EXCEPT !.closes = @ \cup {u}]]
BY DEF EmitRejected, SameDescriptor

LEMMA AddSourceStep ==
    ASSUME IInv, NEW c \in Sources, DeliverAddSource(c)
    PROVE  IInv'
<1> DEFINE p == Head(posts)
<1>1. /\ posts \in Seq(Posts) /\ posts # << >> /\ posts' = Tail(posts) /\ p \in Posts
      /\ p.c = c /\ p.slot = "addSource" /\ c \in Connections
  BY NextPost DEF DeliverAddSource, Connections
<1>2. p.uri \in Uris
  BY <1>1 DEF Posts
<1>3. /\ open' \subseteq Uris
      /\ member' \in [Connections -> MemberStates]
      /\ member'[c].phase # "closed" /\ member'[c].uri = p.uri
      /\ \A d \in Connections \ {c} : member'[d] = member[d]
  BY <1>1, <1>2, JoinKeeps DEF DeliverAddSource, IInv
<1>4. /\ worker' \in [Connections -> WorkerStates]
      /\ \A d \in Connections : /\ worker'[d].streamId = worker[d].streamId
                                /\ worker'[d].thread = worker[d].thread
                                /\ worker'[d].thread = "off" => worker'[d] = worker[d]
  <2>1. CASE UNCHANGED worker
    BY <2>1 DEF IInv, TypeOK
  <2>2. CASE EmitRejected(c, p.uri)
    <3> HIDE DEF p
    <3>1. worker' = [d \in Connections |->
                       IF d \notin SameDescriptor(c) \/ worker[d].thread = "off" THEN worker[d]
                       ELSE [worker[d] EXCEPT !.closes = @ \cup {p.uri}]]
      BY <2>2, RejectedIs
    <3>2. SameDescriptor(c) \in SUBSET Connections
      BY DEF SameDescriptor
    <3> QED BY <1>2, <3>1, <3>2, ClosesPosted
  <2> QED BY <2>1, <2>2 DEF DeliverAddSource
<1>5. \A d \in Connections : ThreadFits(Tail(posts), d, worker'[d])
  BY <1>1, <1>4, ThreadsKept, TailThreadFits
<1>6. \A d \in Connections : IF ~ Mark(p, d) THEN SameMembership(member[d], member'[d])
                             ELSE Delivers(p, d, member[d], member'[d])
  BY <1>1, <1>3, SameMembershipKept DEF Mark, Joins, Delivers
<1> HIDE DEF p
<1> QED BY <1>1, <1>3, <1>4, <1>5, <1>6, PostDelivered DEF DeliverAddSource, p

LEMMA AddObserverStep ==
    ASSUME IInv, NEW c \in Observers, DeliverAddObserver(c)
    PROVE  IInv'
<1> DEFINE p == Head(posts)
<1>1. /\ posts \in Seq(Posts) /\ posts # << >> /\ posts' = Tail(posts) /\ p \in Posts
      /\ p.c = c /\ p.slot = "addObserver" /\ c \in Connections
  BY NextPost DEF DeliverAddObserver, Connections
<1>2. p.uri \in Uris
  BY <1>1 DEF Posts
<1>3. /\ open' \subseteq Uris
      /\ member' \in [Connections -> MemberStates]
      /\ member'[c].phase # "closed" /\ member'[c].uri = p.uri
      /\ \A d \in Connections \ {c} : member'[d] = member[d]
  BY <1>1, <1>2, JoinKeeps DEF DeliverAddObserver, IInv
<1>4. worker' = worker /\ worker \in [Connections -> WorkerStates]
  BY DEF DeliverAddObserver, IInv, TypeOK
<1>5. \A d \in Connections : ThreadFits(Tail(posts), d, worker'[d])
  BY <1>1, <1>4, TailThreadFits DEF IInv
<1>6. \A d \in Connections : IF ~ Mark(p, d) THEN SameMembership(member[d], member'[d])
                             ELSE Delivers(p, d, member[d], member'[d])
  BY <1>1, <1>3, SameMembershipKept DEF Mark, Joins, Delivers
<1> HIDE DEF p
<1> QED BY <1>1, <1>3, <1>4, <1>5, <1>6, PostDelivered DEF DeliverAddObserver, p

LEMMA CloseEmitted ==
    ASSUME IInv, NEW u \in Uris, EmitClose(u)
    PROVE  /\ worker' \in [Connections -> WorkerStates]
           /\ \A c \in Connections : /\ worker'[c].streamId = worker[c].streamId
                                     /\ worker'[c].thread = worker[c].thread
                                     /\ worker'[c].thread = "off" => worker'[c] = worker[c]
<1>1. worker' = [c \in Connections |->
                   IF c \notin Connections \/ worker[c].thread = "off" THEN worker[c]
                   ELSE [worker[c] EXCEPT !.closes = @ \cup {u}]]
  BY DEF EmitClose
<1> QED BY <1>1, ClosesPosted

LEMMA DeliverDataStep ==
    ASSUME IInv, NEW c \in Sources, DeliverData(c)
    PROVE  IInv'
<1> DEFINE p == Head(posts)
<1>1. /\ posts \in Seq(Posts) /\ posts # << >> /\ posts' = Tail(posts) /\ p \in Posts
      /\ p.c = c /\ p.slot = "data" /\ c \in Connections
  BY NextPost DEF DeliverData, Connections
<1>2. p.uri \in Uris
  BY <1>1 DEF Posts
<1>3. /\ open' \subseteq Uris
      /\ member' \in [Connections -> MemberStates]
      /\ \A d \in Connections : SameMembership(member[d], member'[d])
  BY <1>1, SendKeeps DEF DeliverData, IInv
<1>4. /\ worker' \in [Connections -> WorkerStates]
      /\ \A d \in Connections : /\ worker'[d].streamId = worker[d].streamId
                                /\ worker'[d].thread = worker[d].thread
                                /\ worker'[d].thread = "off" => worker'[d] = worker[d]
  <2>1. CASE UNCHANGED worker
    BY <2>1 DEF IInv, TypeOK
  <2>2. CASE EmitClose(p.uri)
    BY <1>2, <2>2, CloseEmitted
  <2> QED BY <2>1, <2>2 DEF DeliverData
<1>5. \A d \in Connections : ThreadFits(Tail(posts), d, worker'[d])
  BY <1>1, <1>4, ThreadsKept, TailThreadFits
<1>6. \A d \in Connections : ~ Mark(p, d)
  BY <1>1 DEF Mark, Joins
<1> HIDE DEF p
<1> QED BY <1>1, <1>3, <1>4, <1>5, <1>6, PostDelivered DEF DeliverData, p

LEMMA RemoveStep ==
    ASSUME IInv, NEW c \in Connections, DeliverRemove(c)
    PROVE  IInv'
<1> DEFINE p == Head(posts)
<1>1. /\ posts \in Seq(Posts) /\ posts # << >> /\ posts' = Tail(posts) /\ p \in Posts
      /\ p.c = c /\ p.slot = "remove"
  BY NextPost DEF DeliverRemove
<1>2. /\ open' \subseteq Uris
      /\ member' \in [Connections -> MemberStates]
      /\ member'[c] = Closed
      /\ \A d \in Connections \ {c} : SameMembership(member[d], member'[d])
  BY ForgetKeeps DEF DeliverRemove, IInv
<1>3. worker' = worker /\ worker \in [Connections -> WorkerStates]
  BY DEF DeliverRemove, IInv, TypeOK
<1>4. \A d \in Connections : ThreadFits(Tail(posts), d, worker'[d])
  BY <1>1, <1>3, TailThreadFits DEF IInv
<1>5. \A d \in Connections : IF ~ Mark(p, d) THEN SameMembership(member[d], member'[d])
                             ELSE Delivers(p, d, member[d], member'[d])
  BY <1>1, <1>2 DEF Mark, Joins, Delivers
<1> HIDE DEF p
<1> QED BY <1>1, <1>2, <1>3, <1>4, <1>5, PostDelivered DEF DeliverRemove, p

\* A post to a thread changes no membership.
LEMMA ThreadPostDelivered ==
    ASSUME IInv, NEW c \in Connections, NEW slot \in {"quit", "none", "register"},
           Deliver(slot, c), NEW w \in WorkerStates,
           w.streamId = worker[c].streamId, ThreadFits(Tail(posts), c, w),
           worker' = [worker EXCEPT ![c] = w],
           UNCHANGED << accepted, registryVars, client, main >>
    PROVE  IInv'
<1> DEFINE p == Head(posts)
<1>1. /\ posts \in Seq(Posts) /\ posts # << >> /\ posts' = Tail(posts)
      /\ p.slot = slot
  BY NextPost
<1>2. open' \subseteq Uris /\ member' \in [Connections -> MemberStates]
      /\ worker' \in [Connections -> WorkerStates]
      /\ \A d \in Connections : worker'[d] = IF d = c THEN w ELSE worker[d]
  BY DEF IInv, TypeOK, registryVars
<1>3. \A d \in Connections : ThreadFits(Tail(posts), d, worker'[d])
  BY <1>1, <1>2, TailThreadFits DEF IInv
<1>4. \A d \in Connections : ~ Mark(p, d) /\ SameMembership(member[d], member'[d])
  BY <1>1, SameMembershipKept DEF Mark, Joins, registryVars
<1> HIDE DEF p
<1> QED BY <1>1, <1>2, <1>3, <1>4, PostDelivered DEF p

LEMMA DeliverQuitStep ==
    ASSUME IInv, NEW c \in Connections, DeliverQuit(c)
    PROVE  IInv'
<1> DEFINE w == [worker[c] EXCEPT !.exit = TRUE]
<1>1. Deliver("quit", c) /\ posts \in Seq(Posts) /\ posts # << >>
      /\ posts[1].c = c /\ posts[1].slot = "quit" /\ 1 \in 1 .. Len(posts)
  BY NextPost DEF DeliverQuit
<1>2. worker[c].thread # "off"
  BY <1>1 DEF IInv, ThreadFits
<1>3. w \in WorkerStates /\ w.streamId = worker[c].streamId /\ w.thread = worker[c].thread
      /\ worker' = [worker EXCEPT ![c] = w]
  BY WorkerType DEF WorkerStates, DeliverQuit, IInv, TypeOK
<1> HIDE DEF w
<1>4. ThreadFits(Tail(posts), c, w)
  BY <1>1, <1>2, <1>3, LiveThreadFits, TailThreadFits DEF IInv
<1> QED BY <1>1, <1>3, <1>4, ThreadPostDelivered DEF DeliverQuit

LEMMA DeliverNothingStep ==
    ASSUME IInv, NEW c \in Connections, DeliverNothing(c)
    PROVE  IInv'
<1>1. Deliver("none", c) /\ posts \in Seq(Posts) /\ posts # << >>
  BY NextPost DEF DeliverNothing
<1>2. worker[c] \in WorkerStates /\ worker' = [worker EXCEPT ![c] = worker[c]]
  BY DEF DeliverNothing, IInv, TypeOK
<1>3. ThreadFits(Tail(posts), c, worker[c])
  BY <1>1, TailThreadFits DEF IInv
<1> QED BY <1>1, <1>2, <1>3, ThreadPostDelivered DEF DeliverNothing

LEMMA DeliverRegisterStep ==
    ASSUME IInv, NEW c \in Connections, DeliverRegister(c)
    PROVE  IInv'
<1>1. PICK answer \in BOOLEAN :
         worker' = [worker EXCEPT ![c].registered = answer,
                                  ![c].thread = AfterMessage(worker[c])]
  BY DEF DeliverRegister
<1> DEFINE w == [worker[c] EXCEPT !.registered = answer, !.thread = AfterMessage(worker[c])]
<1>2. Deliver("register", c) /\ posts \in Seq(Posts) /\ posts # << >>
      /\ posts[1].c = c /\ posts[1].slot = "register" /\ 1 \in 1 .. Len(posts)
  BY NextPost DEF DeliverRegister
<1>3. w \in WorkerStates /\ w.streamId = worker[c].streamId /\ w.thread # "off"
      /\ worker' = [worker EXCEPT ![c] = w]
  BY <1>1, WorkerType DEF WorkerStates, IInv, TypeOK
<1> HIDE DEF w
<1>4. ThreadFits(Tail(posts), c, w)
  <2>1. ThreadFits(posts, c, worker[c])
    BY DEF IInv
  <2>2. \A n \in 1 .. Len(Tail(posts)) :
           n + 1 \in 1 .. Len(posts) /\ n + 1 # 1 /\ Tail(posts)[n] = posts[n + 1]
    BY <1>2, TailElements
  <2>3. \A n \in 1 .. Len(Tail(posts)) :
           Tail(posts)[n].c = c => Tail(posts)[n].slot # "register"
    BY <1>2, <2>1, <2>2 DEF ThreadFits
  <2> QED BY <1>3, <2>3 DEF ThreadFits
<1> QED BY <1>2, <1>3, <1>4, ThreadPostDelivered DEF DeliverRegister

-----------------------------------------------------------------------------
(* What the application does, and ~Server.                                 *)

LEMMA AppCloseStep ==
    ASSUME IInv, NEW u \in Uris, AppCloseStream(u)
    PROVE  IInv'
<1>1. member \in [Connections -> MemberStates] /\ open \subseteq Uris
  BY DEF IInv, TypeOK
<1>2. /\ open' \subseteq Uris
      /\ member' \in [Connections -> MemberStates]
      /\ \A c \in Connections : SameMembership(member[c], member'[c])
  BY <1>1, CloseKeeps DEF AppCloseStream, AppClose
<1>3. /\ worker' \in [Connections -> WorkerStates]
      /\ \A c \in Connections : /\ worker'[c].streamId = worker[c].streamId
                                /\ worker'[c].thread = worker[c].thread
                                /\ worker'[c].thread = "off" => worker'[c] = worker[c]
  BY CloseEmitted DEF AppCloseStream
<1>4. UNCHANGED << accepted, client, posts, main >>
  BY DEF AppCloseStream
<1>5. TypeOK'
  BY <1>2, <1>3, <1>4 DEF IInv, TypeOK
<1>6. \A c \in Connections : /\ Fits(posts, c, member'[c], worker'[c].streamId)
                             /\ ThreadFits(posts, c, worker'[c])
  BY <1>2, <1>3, SameMembershipFits, ThreadsKept DEF IInv
<1> QED BY <1>4, <1>5, <1>6 DEF IInv

LEMMA QuitNextStep ==
    ASSUME IInv, NEW c \in Connections, QuitNextThread(c)
    PROVE  IInv'
<1> DEFINE w == [worker[c] EXCEPT !.exit = TRUE]
<1>1. w \in WorkerStates /\ w.streamId = worker[c].streamId /\ w.thread = worker[c].thread
      /\ worker[c].thread # "off" /\ worker' = [worker EXCEPT ![c] = w]
  BY WorkerType DEF WorkerStates, QuitNextThread, Threads, IInv, TypeOK
<1> HIDE DEF w
<1>2. ThreadFits(posts, c, w)
  BY <1>1, LiveThreadFits DEF IInv
<1>3. main' \in {"running", "stopping", "stopped"}
  BY DEF QuitNextThread, IInv, TypeOK
<1> QED BY <1>1, <1>2, <1>3, WorkerChanges DEF QuitNextThread

\* Steps that change nothing but main.
LEMMA MainStep ==
    ASSUME IInv, main' \in {"running", "stopping", "stopped"},
           UNCHANGED << accepted, registryVars, client, worker, posts >>
    PROVE  IInv'
BY DEF IInv, TypeOK, registryVars

-----------------------------------------------------------------------------
(* Connections with one descriptor take turns.                             *)

LEMMA AppendTurns ==
    ASSUME NEW q \in Seq(Posts), NEW p \in Posts, NEW d, NEW w, NEW c, NEW m,
           Over(q, d, w, c, m), p.c # d
    PROVE  Over(Append(q, p), d, w, c, m)
<1> DEFINE r == Append(q, p)
           L == Len(q)
<1>1. /\ L \in Nat
      /\ Len(r) = L + 1
      /\ \A n \in 1 .. L : r[n] = q[n]
      /\ r[L + 1] = p
  BY AppendElements, QueueElements
<1> HIDE DEF r, L
<1>2. ASSUME NEW n \in 1 .. L + 1, Mark(r[n], d)
      PROVE  n \in 1 .. L /\ Mark(q[n], d)
  BY <1>1, <1>2 DEF Mark
<1>3. ASSUME NEW k \in 1 .. L + 1, NEW n \in 1 .. L + 1, Mark(r[k], c), Mark(r[n], d)
      PROVE  n < k
  <2>1. n \in 1 .. L /\ Mark(q[n], d)
    BY <1>2, <1>3
  <2>2. CASE k \in 1 .. L
    BY <1>1, <1>3, <2>1, <2>2 DEF Over, Precedes, L
  <2>3. CASE k = L + 1
    BY <1>1, <2>1, <2>3
  <2> QED BY <1>1, <2>2, <2>3
<1>4. Precedes(r, d, c)
  BY <1>1, <1>3 DEF Precedes
<1>5. NoMark(q, d, 1, L) => NoMark(r, d, 1, L + 1)
  BY <1>1, <1>2 DEF NoMark
<1> QED BY <1>1, <1>4, <1>5 DEF Over, r, L

\* The next post is delivered.  If it is one of c, d has none left.
LEMMA TailTurns ==
    ASSUME NEW q \in Seq(Posts), q # << >>, NEW d, NEW w, NEW c, NEW m, NEW m2,
           Over(q, d, w, c, m), Mark(Head(q), c) \/ (m = Closed => m2 = Closed)
    PROVE  Over(Tail(q), d, w, c, m2)
<1> DEFINE r == Tail(q)
           L == Len(q)
<1>1. /\ L \in Nat \ {0}
      /\ Head(q) = q[1]
      /\ Len(r) = L - 1
      /\ \A n \in 1 .. L - 1 : r[n] = q[n + 1]
  BY TailElements
<1> HIDE DEF r, L
<1>2. \A n \in 1 .. L - 1 : n + 1 \in 1 .. L /\ r[n] = q[n + 1]
  BY <1>1
<1>3. Precedes(r, d, c)
  <2> SUFFICES ASSUME NEW k \in 1 .. L - 1, NEW n \in 1 .. L - 1, Mark(r[k], c), Mark(r[n], d)
               PROVE  n < k
    BY <1>1 DEF Precedes
  <2>1. k + 1 \in 1 .. L /\ n + 1 \in 1 .. L /\ Mark(q[k + 1], c) /\ Mark(q[n + 1], d)
    BY <1>2
  <2>2. n + 1 < k + 1
    BY <2>1 DEF Over, Precedes, L
  <2> QED BY <1>1, <2>2
<1>4. NoMark(q, d, 1, L) => NoMark(r, d, 1, L - 1)
  BY <1>2 DEF NoMark
<1>5. Mark(q[1], c) => NoMark(q, d, 1, L)
  <2> SUFFICES ASSUME Mark(q[1], c), NEW n \in 1 .. L, Mark(q[n], d)
               PROVE  FALSE
    BY DEF NoMark
  <2>1. 1 \in 1 .. L
    BY <1>1
  <2>2. n < 1
    BY <2>1 DEF Over, Precedes, L
  <2> QED BY <1>1, <2>2
<1> QED BY <1>1, <1>3, <1>4, <1>5 DEF Over, r, L

LEMMA SameMarksTurn ==
    ASSUME NEW q \in Seq(Posts), NEW r \in Seq(Posts), NEW d, NEW w, NEW w2, NEW c, NEW m, NEW m2,
           Over(q, d, w, c, m), Len(r) = Len(q),
           \A n \in 1 .. Len(q) : \A e : Mark(r[n], e) => Mark(q[n], e),
           w.thread = "off" => w2.thread = "off", m = Closed => m2 = Closed
    PROVE  Over(r, d, w2, c, m2)
<1>1. Precedes(r, d, c)
  BY DEF Over, Precedes
<1>2. NoMark(q, d, 1, Len(q)) => NoMark(r, d, 1, Len(r))
  BY DEF NoMark
<1> QED BY <1>1, <1>2 DEF Over

\* No step but Accept starts a thread or makes a connection.
SamePlace(c) ==
    /\ worker[c].thread = "off" => worker'[c].thread = "off"
    /\ client'[c].link = "none" => client[c].link = "none"
    /\ client'[c].shared = client[c].shared

\* The worker of c posts p, after what it may have undone of its posts to its thread.
LEMMA PostTurns ==
    ASSUME IInv, TurnsInv, NEW c \in Connections, worker[c].thread # "off",
           NEW p \in Posts, p.c = c, NEW q \in Seq(Posts), Len(q) = Len(posts),
           \A n \in 1 .. Len(q) : \A e : Mark(q[n], e) => Mark(posts[n], e),
           \A n \in 1 .. Len(q) : q[n].c = posts[n].c,
           posts' \in {q, Append(q, p)}, member' = member,
           \A e \in Connections : SamePlace(e)
    PROVE  TurnsInv'
<1>1. posts \in Seq(Posts)
  BY DEF IInv, TypeOK
<1>2. ASSUME NEW e \in Connections
      PROVE  FreshFits(posts', e, client'[e], worker'[e])
  <2> SUFFICES ASSUME client'[e].link = "none"
               PROVE  worker'[e].thread = "off" /\ \A n \in 1 .. Len(posts') : posts'[n].c # e
    BY DEF FreshFits
  <2>1. client[e].link = "none" /\ worker[e].thread = "off"
        /\ \A n \in 1 .. Len(posts) : posts[n].c # e
    BY DEF SamePlace, TurnsInv, FreshFits
  <2>2. worker'[e].thread = "off" /\ e # c
    BY <2>1 DEF SamePlace
  <2>3. /\ Len(q) \in Nat /\ Len(Append(q, p)) = Len(q) + 1
        /\ \A n \in 1 .. Len(q) : Append(q, p)[n] = q[n]
        /\ Append(q, p)[Len(q) + 1] = p
    BY AppendElements, QueueElements
  <2>4. \A n \in 1 .. Len(q) : q[n].c # e
    BY <2>1
  <2>5. CASE posts' = q
    BY <2>2, <2>4, <2>5
  <2>6. CASE posts' = Append(q, p)
    BY <2>2, <2>3, <2>4, <2>6
  <2> QED BY <2>5, <2>6
<1>3. ASSUME NEW e \in Connections, NEW d \in Connections, e # c,
             Over(posts, e, worker[e], d, member[d])
      PROVE  Over(posts', e, worker'[e], d, member'[d])
  <2>1. Over(q, e, worker'[e], d, member'[d])
    BY <1>1, <1>3, SameMarksTurn DEF SamePlace
  <2> QED BY <1>3, <2>1, AppendTurns
<1>4. ASSUME NEW e \in Connections, NEW d \in Connections,
             Over(posts, e, worker[e], d, member[d])
      PROVE  Over(posts', e, worker'[e], d, member'[d])
  BY <1>3, <1>4 DEF Over
<1>5. ASSUME NEW e \in Connections, NEW d \in Twins(e)
      PROVE  TakesTurns(e, d)'
  <2>1. TakesTurns(e, d) /\ d \in Connections /\ client'[e].shared = client[e].shared
    BY DEF TurnsInv, Twins, SamePlace
  <2> QED BY <1>4, <2>1 DEF TakesTurns
<1> QED BY <1>2, <1>5 DEF TurnsInv, Twins

\* The main thread delivers the next post, or closes a stream.
LEMMA MainTurns ==
    ASSUME IInv, TurnsInv, \A e \in Connections : SamePlace(e),
           \/ /\ posts' = posts
              /\ \A e \in Connections : SameMembership(member[e], member'[e])
           \/ /\ posts # << >>
              /\ posts' = Tail(posts)
              /\ \A e \in Connections :
                    Mark(Head(posts), e) \/ SameMembership(member[e], member'[e])
    PROVE  TurnsInv'
<1>1. posts \in Seq(Posts)
  BY DEF IInv, TypeOK
<1>2. ASSUME NEW e \in Connections
      PROVE  FreshFits(posts', e, client'[e], worker'[e])
  <2> SUFFICES ASSUME client'[e].link = "none"
               PROVE  worker'[e].thread = "off" /\ \A n \in 1 .. Len(posts') : posts'[n].c # e
    BY DEF FreshFits
  <2>1. client[e].link = "none" /\ worker[e].thread = "off"
        /\ \A n \in 1 .. Len(posts) : posts[n].c # e
    BY DEF SamePlace, TurnsInv, FreshFits
  <2>2. worker'[e].thread = "off"
    BY <2>1 DEF SamePlace
  <2>3. CASE posts # << >> /\ posts' = Tail(posts)
    <3>1. /\ Len(posts) \in Nat \ {0} /\ Len(posts') = Len(posts) - 1
          /\ \A n \in 1 .. Len(posts) - 1 : posts'[n] = posts[n + 1]
      BY <1>1, <2>3, TailElements
    <3>2. \A n \in 1 .. Len(posts) - 1 : n + 1 \in 1 .. Len(posts)
      BY <3>1
    <3> QED BY <2>1, <2>2, <3>1, <3>2
  <2> QED BY <2>1, <2>2, <2>3
<1>3. ASSUME NEW e \in Connections, NEW d \in Connections,
             Over(posts, e, worker[e], d, member[d])
      PROVE  Over(posts', e, worker'[e], d, member'[d])
  <2>1. worker[e].thread = "off" => worker'[e].thread = "off"
    BY DEF SamePlace
  <2>2. CASE posts' = posts /\ SameMembership(member[d], member'[d])
    <3>1. member[d] = Closed => member'[d] = Closed
      BY <2>2 DEF SameMembership
    <3> QED BY <1>3, <2>1, <2>2, <3>1 DEF Over
  <2>3. CASE /\ posts # << >> /\ posts' = Tail(posts)
             /\ Mark(Head(posts), d) \/ SameMembership(member[d], member'[d])
    <3>1. Mark(Head(posts), d) \/ (member[d] = Closed => member'[d] = Closed)
      BY <2>3 DEF SameMembership
    <3>2. Over(Tail(posts), e, worker[e], d, member'[d])
      BY <1>1, <1>3, <2>3, <3>1, TailTurns
    <3> QED BY <2>1, <2>3, <3>2 DEF Over
  <2> QED BY <2>2, <2>3
<1>4. ASSUME NEW e \in Connections, NEW d \in Twins(e)
      PROVE  TakesTurns(e, d)'
  <2>1. TakesTurns(e, d) /\ d \in Connections /\ client'[e].shared = client[e].shared
    BY DEF TurnsInv, Twins, SamePlace
  <2> QED BY <1>3, <2>1 DEF TakesTurns
<1> QED BY <1>2, <1>4 DEF TurnsInv, Twins

LEMMA AcceptTurns ==
    ASSUME IInv, TurnsInv, NEW c \in Connections, NEW u \in Uris, Accept(c, u)
    PROVE  TurnsInv'
<1>1. /\ worker[c] = NoWorker
      /\ \A d \in Connections : /\ client'[d] = AcceptedClient(c, u, d)
                                /\ worker'[d] = IF d = c THEN NewWorker ELSE worker[d]
      /\ UNCHANGED << registryVars, posts, main >>
  BY AcceptedIs
<1>2. \A d \in Connections \ {c} : /\ client'[d].link = client[d].link
                                   /\ client'[d].shared <=> client[d].shared \/ d \in Holders(c)
  BY <1>1, ClientAccepted
<1>3. client'[c].link = "up" /\ (client'[c].shared <=> Holders(c) # {})
  BY <1>1, ClientAccepted
<1>4. /\ \A n \in 1 .. Len(posts) : posts[n].c # c
      /\ client[c].link = "none"
  BY DEF Accept, TurnsInv, FreshFits
<1>5. NoMark(posts, c, 1, Len(posts)) /\ member[c] = Closed
  <2>1. NoMark(posts, c, 1, Len(posts))
    BY <1>4 DEF NoMark, Mark
  <2>2. NoneFits(posts, c, member[c], worker[c].streamId)
    BY DEF IInv, Fits
  <2> QED BY <1>1, <2>1, <2>2, NoWorkerType DEF NoneFits
<1>6. ASSUME NEW d \in Twins(c), d \notin Holders(c)
      PROVE  Over(posts, d, worker'[d], c, member'[c])
  <2>1. d \in Connections /\ d # c /\ worker[d].thread = "off"
    BY <1>6 DEF Twins, Holders
  <2>2. Precedes(posts, d, c)
    BY <1>4 DEF Precedes, Mark
  <2> QED BY <1>1, <1>5, <2>1, <2>2 DEF Over, registryVars
<1>7. ASSUME NEW e \in Connections
      PROVE  FreshFits(posts', e, client'[e], worker'[e])
  <2>1. e # c => FreshFits(posts, e, client[e], worker[e])
    BY DEF TurnsInv
  <2> QED BY <1>1, <1>2, <1>3, <2>1 DEF FreshFits
<1>8. ASSUME NEW e \in Connections, NEW d \in Twins(e)
      PROVE  TakesTurns(e, d)'
  <2>1. d \in Connections /\ d # e /\ e \in Twins(d)
    BY DEF Twins
  <2>2. CASE e = c
    <3>1. ~ client'[c].shared => d \notin Holders(c)
      BY <1>3
    <3> QED BY <1>1, <1>6, <2>2, <3>1 DEF TakesTurns
  <2>3. CASE d = c
    <3>1. ~ client'[e].shared => e \notin Holders(c)
      BY <1>2, <2>1, <2>3
    <3> QED BY <1>1, <1>6, <2>1, <2>3, <3>1 DEF TakesTurns
  <2>4. CASE e # c /\ d # c
    <3>1. TakesTurns(e, d)
      BY DEF TurnsInv
    <3>2. worker'[e] = worker[e] /\ worker'[d] = worker[d] /\ posts' = posts /\ member' = member
          /\ (client[e].shared => client'[e].shared)
      BY <1>1, <1>2, <2>1, <2>4 DEF registryVars
    <3> QED BY <3>1, <3>2 DEF TakesTurns
  <2> QED BY <2>2, <2>3, <2>4
<1> QED BY <1>7, <1>8 DEF TurnsInv, Twins

\* The worker of c handles something and the others stay as they are.
LEMMA OthersStay ==
    ASSUME IInv, NEW c \in Connections, NEW cl, NEW w,
           worker' = [worker EXCEPT ![c] = w], client' = [client EXCEPT ![c] = cl],
           cl.shared = client[c].shared, cl.link = "none" => client[c].link = "none",
           worker[c].thread = "off" => w.thread = "off"
    PROVE  \A e \in Connections : SamePlace(e)
<1>1. \A e \in Connections : /\ worker'[e] = IF e = c THEN w ELSE worker[e]
                             /\ client'[e] = IF e = c THEN cl ELSE client[e]
  BY DEF IInv, TypeOK
<1> QED BY <1>1 DEF SamePlace

LEMMA HandledTurns ==
    ASSUME IInv, TurnsInv, NEW c \in Connections, NEW type, NEW w, NEW p \in Posts,
           Handle(c, type, w, << p >>), p.c = c
    PROVE  TurnsInv'
<1>1. client[c] \in ClientStates /\ posts \in Seq(Posts)
      /\ worker[c].thread # "off" /\ member' = member
      /\ worker' = [worker EXCEPT ![c] = w] /\ posts' = Append(posts, p)
  BY DEF IInv, TypeOK, Handle, registryVars
<1>2. PICK cl : /\ client' = [client EXCEPT ![c] = cl]
                /\ cl = AfterSending(client[c], type) \/ cl = [client[c] EXCEPT !.inbox = Tail(@)]
  BY DEF Handle, IInv, TypeOK
<1>3. cl.shared = client[c].shared /\ cl.link = client[c].link
  BY <1>1, <1>2 DEF AfterSending, ClientStates
<1>4. \A e \in Connections : SamePlace(e)
  BY <1>1, <1>2, <1>3, OthersStay
<1> QED BY <1>1, <1>4, PostTurns

\* A worker that goes on, or ends, without a message of its client.
LEMMA WorkerTurns ==
    ASSUME IInv, TurnsInv, NEW c \in Connections, NEW w, NEW p \in Posts, p.c = c,
           worker[c].thread # "off", worker' = [worker EXCEPT ![c] = w],
           posts' \in {posts, Append(posts, p)}, UNCHANGED << client, member >>
    PROVE  TurnsInv'
<1>1. posts \in Seq(Posts) /\ client' = [client EXCEPT ![c] = client[c]]
  BY DEF IInv, TypeOK
<1>2. \A e \in Connections : SamePlace(e)
  BY <1>1, OthersStay
<1> QED BY <1>1, <1>2, PostTurns

LEMMA EndThreadTurns ==
    ASSUME IInv, TurnsInv, NEW c \in Connections, EndThread(c)
    PROVE  TurnsInv'
<1> DEFINE r == WithoutQuit(c)
           p == IF Started(c) THEN Post("remove", c, worker[c].streamId)
                ELSE Post("none", c, NoUri)
<1>1. /\ worker' = [worker EXCEPT ![c] = NoWorker] /\ client' = [client EXCEPT ![c] = Left(client[c])]
      /\ member' = member /\ worker[c].thread = "idle"
      /\ posts' \in {r, Append(r, p)}
  BY DEF EndThread, registryVars, InEventLoop
<1>2. p \in Posts /\ p.c = c
  BY WorkerType DEF Post, Posts
<1> HIDE DEF p
<1>3. posts \in Seq(Posts) /\ Len(posts) \in Nat /\ r \in Seq(Posts)
  BY <1>1, WithoutQuitFits, QueueElements DEF IInv, TypeOK
<1>4. Len(r) = Len(posts)
      /\ \A n \in 1 .. Len(posts) :
            r[n] = IF posts[n].c = c /\ posts[n].slot = "quit" THEN Post("none", c, NoUri)
                   ELSE posts[n]
  BY <1>3 DEF WithoutQuit
<1> HIDE DEF r
<1>5. \A n \in 1 .. Len(r) : \A e : Mark(r[n], e) => Mark(posts[n], e)
  BY <1>4 DEF Mark, Joins, Post
<1>6. \A n \in 1 .. Len(r) : r[n].c = posts[n].c
  BY <1>4 DEF Post
<1>7. Left(client[c]).shared = client[c].shared /\ Left(client[c]).link # "none"
  BY DEF Left, NoClient
<1>8. \A e \in Connections : SamePlace(e)
  BY <1>1, <1>7, NoWorkerType, OthersStay
<1> QED BY <1>1, <1>2, <1>3, <1>4, <1>5, <1>6, <1>8, PostTurns

LEMMA WorkerStepTurns ==
    ASSUME IInv, TurnsInv, NEW c \in Connections, WorkerStep(c)
    PROVE  TurnsInv'
<1>1. worker[c] \in WorkerStates /\ (Started(c) => worker[c].streamId \in Uris)
  BY WorkerType
<1> DEFINE quit == Post("quit", c, NoUri)
<1>2. quit \in Posts /\ quit.c = c
  BY QuitPost
<1>3. CASE HandleOpen(c)
  <2>1. PICK w : Handle(c, "open", w, << Post(IF c \in Sources THEN "addSource" ELSE "addObserver",
                                              c, client[c].uri) >>)
    BY <1>3 DEF HandleOpen
  <2>2. client[c].uri \in Uris
    BY <2>1, ClientHandled DEF Handle
  <2>3. Post(IF c \in Sources THEN "addSource" ELSE "addObserver", c, client[c].uri) \in Posts
    BY <2>2 DEF Post, Posts
  <2> QED BY <2>1, <2>3, HandledTurns DEF Post
<1>4. CASE HandleData(c) \/ HandleQuit(c) \/ HandleBind(c)
  <2> DEFINE stream(slot) == Post(slot, c, worker[c].streamId)
  <2>1. Started(c)
    BY <1>4 DEF HandleData, HandleQuit, HandleBind, Valid
  <2>2. \A slot \in {"data", "remove", "register"} :
           stream(slot) \in Posts /\ stream(slot).c = c
    BY <1>1, <2>1 DEF Post, Posts
  <2>3. \/ \E w : Handle(c, "data", w, << stream("data") >>)
        \/ \E w : Handle(c, "quit", w, << stream("remove") >>)
        \/ \E w : Handle(c, "bind", w, << stream("register") >>)
    BY <1>4 DEF HandleData, HandleQuit, HandleBind
  <2> HIDE DEF stream
  <2> QED BY <2>2, <2>3, HandledTurns
<1>5. CASE HandleSecondBind(c)
  <2>1. PICK w : Handle(c, "bind", w, << quit >>)
    BY <1>5 DEF HandleSecondBind
  <2> HIDE DEF quit
  <2> QED BY <1>2, <2>1, HandledTurns
<1>6. CASE \/ NoticeDisconnection(c) \/ EndOfDrain(c)
           \/ \E u \in Uris : CloseConnections(c, u)
  <2>1. /\ worker[c].thread # "off" /\ UNCHANGED << client, member >>
        /\ posts' \in {posts, Append(posts, quit)}
    BY <1>6 DEF NoticeDisconnection, EndOfDrain, CloseConnections, InEventLoop, registryVars
  <2>2. \E w : worker' = [worker EXCEPT ![c] = w]
    BY <1>6 DEF NoticeDisconnection, EndOfDrain, CloseConnections, IInv, TypeOK
  <2> HIDE DEF quit
  <2> QED BY <1>2, <2>1, <2>2, WorkerTurns
<1>7. CASE EndThread(c)
  BY <1>7, EndThreadTurns
<1> QED BY <1>3, <1>4, <1>5, <1>6, <1>7 DEF WorkerStep

\* What the main thread tells the workers starts no thread.
LEMMA ToldPlaces ==
    ASSUME NEW c \in Connections, client' = client,
           worker'[c].thread = worker[c].thread
    PROVE  SamePlace(c)
BY DEF SamePlace

LEMMA DeliverTurns ==
    ASSUME IInv, TurnsInv, DeliverStep
    PROVE  TurnsInv'
<1>1. CASE \E c \in Sources : DeliverAddSource(c)
  <2>1. PICK c \in Sources : DeliverAddSource(c)
    BY <1>1
  <2> DEFINE p == Head(posts)
  <2>2. /\ posts # << >> /\ posts' = Tail(posts) /\ p \in Posts /\ p.c = c
        /\ p.slot = "addSource" /\ c \in Connections /\ client' = client
    BY <2>1, NextPost DEF DeliverAddSource, Connections
  <2>3. p.uri \in Uris
    BY <2>2 DEF Posts
  <2>4. \A d \in Connections : Mark(p, d) \/ SameMembership(member[d], member'[d])
    BY <2>1, <2>2, <2>3, JoinKeeps, SameMembershipKept DEF DeliverAddSource, IInv, Mark, Joins
  <2>5. \A d \in Connections : worker'[d].thread = worker[d].thread
    <3>1. CASE UNCHANGED worker
      BY <3>1
    <3>2. CASE EmitRejected(c, p.uri)
      <4> HIDE DEF p
      <4>1. SameDescriptor(c) \in SUBSET Connections
        BY DEF SameDescriptor
      <4> QED BY <2>3, <3>2, <4>1, RejectedIs, ClosesPosted
    <3> QED BY <2>1, <3>1, <3>2 DEF DeliverAddSource
  <2> QED BY <2>2, <2>4, <2>5, ToldPlaces, MainTurns
<1>2. CASE \E c \in Sources : DeliverData(c)
  <2>1. PICK c \in Sources : DeliverData(c)
    BY <1>2
  <2> DEFINE p == Head(posts)
  <2>2. /\ posts # << >> /\ posts' = Tail(posts) /\ p \in Posts /\ p.slot = "data"
        /\ c \in Connections /\ client' = client
    BY <2>1, NextPost DEF DeliverData, Connections
  <2>3. p.uri \in Uris
    BY <2>2 DEF Posts
  <2>4. \A d \in Connections : SameMembership(member[d], member'[d])
    BY <2>1, <2>2, SendKeeps DEF DeliverData, IInv
  <2>5. \A d \in Connections : worker'[d].thread = worker[d].thread
    BY <2>1, <2>3, CloseEmitted DEF DeliverData
  <2> QED BY <2>2, <2>4, <2>5, ToldPlaces, MainTurns
<1>3. CASE \E c \in Observers : DeliverAddObserver(c)
  <2>1. PICK c \in Observers : DeliverAddObserver(c)
    BY <1>3
  <2> DEFINE p == Head(posts)
  <2>2. /\ posts # << >> /\ posts' = Tail(posts) /\ p \in Posts /\ p.c = c
        /\ p.slot = "addObserver" /\ c \in Connections /\ client' = client /\ worker' = worker
    BY <2>1, NextPost DEF DeliverAddObserver, Connections
  <2>3. p.uri \in Uris
    BY <2>2 DEF Posts
  <2>4. \A d \in Connections : Mark(p, d) \/ SameMembership(member[d], member'[d])
    BY <2>1, <2>2, <2>3, JoinKeeps, SameMembershipKept DEF DeliverAddObserver, IInv, Mark, Joins
  <2> QED BY <2>2, <2>4, ToldPlaces, MainTurns
<1>4. CASE \E c \in Connections : DeliverRemove(c)
  <2>1. PICK c \in Connections : DeliverRemove(c)
    BY <1>4
  <2> DEFINE p == Head(posts)
  <2>2. /\ posts # << >> /\ posts' = Tail(posts) /\ p \in Posts /\ p.c = c
        /\ p.slot = "remove" /\ client' = client /\ worker' = worker
    BY <2>1, NextPost DEF DeliverRemove
  <2>3. \A d \in Connections : Mark(p, d) \/ SameMembership(member[d], member'[d])
    BY <2>1, <2>2, ForgetKeeps DEF DeliverRemove, IInv, Mark, Joins
  <2> QED BY <2>2, <2>3, ToldPlaces, MainTurns
<1>5. CASE \E c \in Connections : DeliverQuit(c) \/ DeliverNothing(c) \/ DeliverRegister(c)
  <2>1. PICK c \in Connections : DeliverQuit(c) \/ DeliverNothing(c) \/ DeliverRegister(c)
    BY <1>5
  <2>2. /\ posts \in Seq(Posts) /\ posts # << >> /\ posts' = Tail(posts) /\ Head(posts) \in Posts
        /\ Head(posts).c = c /\ Head(posts) = posts[1] /\ 1 \in 1 .. Len(posts)
        /\ client' = client /\ member' = member
    BY <2>1, NextPost DEF DeliverQuit, DeliverNothing, DeliverRegister, registryVars
  <2>3. ASSUME NEW d \in Connections
        PROVE  SamePlace(d)
    <3>1. CASE DeliverQuit(c) \/ DeliverNothing(c)
      <4>1. worker'[d].thread = worker[d].thread
        BY <3>1, WorkerType DEF DeliverQuit, DeliverNothing, IInv, TypeOK, WorkerStates
      <4> QED BY <2>2, <4>1, ToldPlaces
    <3>2. CASE DeliverRegister(c)
      <4>1. worker[c].thread # "off"
        <5>1. posts[1].slot = "register"
          BY <2>2, <3>2 DEF DeliverRegister, Deliver
        <5> QED BY <2>2, <5>1 DEF IInv, ThreadFits
      <4>2. d # c => worker'[d] = worker[d]
        BY <3>2 DEF DeliverRegister, IInv, TypeOK
      <4> QED BY <2>2, <4>1, <4>2 DEF SamePlace
    <3> QED BY <2>1, <3>1, <3>2
  <2>4. \A d \in Connections : SameMembership(member[d], member'[d])
    BY <2>2, SameMembershipKept
  <2> QED BY <2>2, <2>3, <2>4, MainTurns
<1> QED BY <1>1, <1>2, <1>3, <1>4, <1>5 DEF DeliverStep

LEMMA TurnsInit ==
    ASSUME ServerInit
    PROVE  TurnsInv
<1>1. posts = << >> /\ \A c \in Connections : worker[c] = NoWorker
                                              /\ member[c] = Closed
  BY DEF ServerInit, RegistryInit
<1>2. \A c, d \in Connections : Over(posts, d, worker[d], c, member[c])
  BY <1>1, NoWorkerType DEF Over, Precedes
<1>3. \A c \in Connections : FreshFits(posts, c, client[c], worker[c])
  BY <1>1, NoWorkerType DEF FreshFits
<1> QED BY <1>2, <1>3 DEF TurnsInv, TakesTurns, Twins

LEMMA TurnsStep ==
    ASSUME IInv, TurnsInv, [ServerNext]_vars
    PROVE  TurnsInv'
<1>1. CASE \E c \in Connections, u \in Uris : Accept(c, u)
  BY <1>1, AcceptTurns
<1>2. CASE \E c \in Connections : Depart(c)
  <2>1. PICK c \in Connections : Depart(c)
    BY <1>2
  <2>2. \A d \in Connections : SamePlace(d)
    <3>1. UNCHANGED worker /\ client \in [Connections -> ClientStates]
      BY <2>1 DEF Depart, IInv, TypeOK
    <3>2. PICK s : client' = [client EXCEPT ![c].link = "down", ![c].sends = 0, ![c].inbox = s]
      BY <2>1 DEF Depart
    <3>3. \A d \in Connections : /\ client'[d].link = IF d = c THEN "down" ELSE client[d].link
                                 /\ client'[d].shared = client[d].shared
      BY <3>1, <3>2 DEF ClientStates
    <3> QED BY <3>1, <3>3 DEF SamePlace
  <2>3. posts' = posts /\ \A d \in Connections : SameMembership(member[d], member'[d])
    BY <2>1, SameMembershipKept DEF Depart, registryVars
  <2> QED BY <2>2, <2>3, MainTurns
<1>3. CASE \E c \in Connections : WorkerStep(c)
  BY <1>3, WorkerStepTurns
<1>4. CASE DeliverStep
  BY <1>4, DeliverTurns
<1>5. CASE \E u \in Uris : AppCloseStream(u)
  <2>1. PICK u \in Uris : AppCloseStream(u)
    BY <1>5
  <2>2. \A d \in Connections : SameMembership(member[d], member'[d])
    BY <2>1, CloseKeeps DEF AppCloseStream, AppClose, IInv, TypeOK
  <2>3. posts' = posts /\ client' = client /\ \A d \in Connections : worker'[d].thread = worker[d].thread
    BY <2>1, CloseEmitted DEF AppCloseStream
  <2> QED BY <2>2, <2>3, ToldPlaces, MainTurns
<1>6. CASE \E c \in Connections : QuitNextThread(c)
  <2>1. PICK c \in Connections : QuitNextThread(c)
    BY <1>6
  <2>2. \A d \in Connections : worker'[d].thread = worker[d].thread
    BY <2>1, WorkerType DEF QuitNextThread, IInv, TypeOK, WorkerStates
  <2>3. posts' = posts /\ client' = client
        /\ \A d \in Connections : SameMembership(member[d], member'[d])
    BY <2>1, SameMembershipKept DEF QuitNextThread, registryVars
  <2> QED BY <2>2, <2>3, ToldPlaces, MainTurns
<1>7. CASE Shutdown \/ ShutdownDone \/ Rest \/ UNCHANGED vars
  <2>1. UNCHANGED << member, client, worker, posts >>
    BY <1>7 DEF Shutdown, ShutdownDone, Rest, vars, serverVars, registryVars
  <2> QED BY <2>1 DEF TurnsInv, TakesTurns, Twins
<1> QED BY <1>1, <1>2, <1>3, <1>4, <1>5, <1>6, <1>7 DEF ServerNext, ShutdownStep

\* What is posted of c about its place in a stream is not taken for another's.
LEMMA NoOtherHasIt ==
    ASSUME IInv, TurnsInv, NEW c \in Connections, NEW d \in Twins(c), posts # << >>,
           Head(posts).c = c, Joins(Head(posts)) \/ Uses(Head(posts)), member[d] # Closed
    PROVE  client[c].shared /\ client[d].shared
<1>1. posts \in Seq(Posts) /\ d \in Connections /\ c \in Twins(d)
  BY DEF IInv, TypeOK, Twins
<1>2. Head(posts) = posts[1] /\ 1 \in 1 .. Len(posts) /\ Len(posts) \in Nat
  BY <1>1, TailElements, QueueElements
<1>3. \A e \in Connections :
         worker[e].thread = "off" /\ NoMark(posts, e, 1, Len(posts)) => member[e] = Closed
  BY NoWorkerType DEF IInv, ThreadFits, Fits, NoneFits
<1>4. /\ Joins(posts[1]) => Mark(posts[1], c)
      /\ ~ Joins(posts[1]) => member[c] # Closed
  <2>1. NoMark(posts, c, 1, 1 - 1) /\ FirstFits(posts, c, member[c])
    BY DEF NoMark, IInv, Fits
  <2>2. Uses(posts[1]) => member[c].phase # "closed"
    BY <1>2, <2>1 DEF FirstFits
  <2> QED BY <1>2, <2>2 DEF Mark, Closed
<1>5. ~ Over(posts, d, worker[d], c, member[c])
  <2> SUFFICES ASSUME Over(posts, d, worker[d], c, member[c])
               PROVE  FALSE
    OBVIOUS
  <2>1. ~ NoMark(posts, d, 1, Len(posts))
    BY <1>1, <1>3 DEF Over
  <2>2. PICK n \in 1 .. Len(posts) : Mark(posts[n], d)
    BY <2>1 DEF NoMark
  <2>3. Mark(posts[1], c)
    BY <1>4, <2>1 DEF Over
  <2>4. n < 1
    BY <1>2, <2>2, <2>3 DEF Over, Precedes
  <2> QED BY <1>2, <2>4
<1>6. ~ Over(posts, c, worker[c], d, member[d])
  <2> SUFFICES ASSUME Over(posts, c, worker[c], d, member[d])
               PROVE  FALSE
    OBVIOUS
  <2>1. NoMark(posts, c, 1, Len(posts)) /\ worker[c].thread = "off"
    BY DEF Over
  <2>2. ~ Mark(posts[1], c)
    BY <1>2, <2>1 DEF NoMark
  <2> QED BY <1>3, <1>4, <2>1, <2>2
<1> QED BY <1>1, <1>5, <1>6 DEF TurnsInv, TakesTurns

-----------------------------------------------------------------------------
(* The theorems.                                                           *)

LEMMA InvInit ==
    ASSUME ServerInit
    PROVE  IInv
<1>1. /\ member = [c \in Connections |-> Closed] /\ open = {} /\ accepted = 0
      /\ client = [c \in Connections |-> NoClient]
      /\ worker = [c \in Connections |-> NoWorker]
      /\ posts = << >> /\ main = "running"
  BY DEF ServerInit, RegistryInit
<1>2. TypeOK
  BY <1>1, NoWorkerType, Sizes DEF TypeOK, MemberStates
<1>3. \A c \in Connections : Fits(posts, c, member[c], worker[c].streamId)
  BY <1>1, NoWorkerType DEF Fits, FirstFits, Follows, LastFits, NoneFits
<1>4. \A c \in Connections : ThreadFits(posts, c, worker[c]) /\ ClientFits(client[c])
  BY <1>1, NoWorkerType DEF ThreadFits
<1> QED BY <1>2, <1>3, <1>4 DEF IInv

LEMMA InvStep ==
    ASSUME IInv, TurnsInv, [ServerNext]_vars
    PROVE  IInv'
<1>1. CASE \E c \in Connections, u \in Uris : Accept(c, u)
  BY <1>1, AcceptStep
<1>2. CASE \E c \in Connections : Depart(c)
  BY <1>2, DepartStep
<1>3. ASSUME NEW c \in Connections, WorkerStep(c)
      PROVE  IInv'
  <2>1. CASE \/ HandleOpen(c) \/ HandleData(c) \/ HandleQuit(c)
             \/ HandleBind(c) \/ HandleSecondBind(c)
    BY <2>1, OpenStep, DataStep, QuitStep, BindStep, SecondBindStep
  <2>2. CASE NoticeDisconnection(c) \/ EndOfDrain(c) \/ EndThread(c)
    BY <2>2, NoticeStep, DrainStep, EndThreadStep
  <2>3. CASE \E u \in Uris : CloseConnections(c, u)
    BY <2>3, CloseConnectionsStep
  <2> QED BY <1>3, <2>1, <2>2, <2>3 DEF WorkerStep
<1>4. CASE DeliverStep
  <2>1. CASE \E c \in Sources : DeliverAddSource(c) \/ DeliverData(c)
    BY <2>1, AddSourceStep, DeliverDataStep
  <2>2. CASE \E c \in Observers : DeliverAddObserver(c)
    BY <2>2, AddObserverStep
  <2>3. CASE \E c \in Connections : \/ DeliverRemove(c) \/ DeliverQuit(c)
                                   \/ DeliverNothing(c) \/ DeliverRegister(c)
    BY <2>3, RemoveStep, DeliverQuitStep, DeliverNothingStep, DeliverRegisterStep
  <2> QED BY <1>4, <2>1, <2>2, <2>3 DEF DeliverStep
<1>5. CASE \E u \in Uris : AppCloseStream(u)
  BY <1>5, AppCloseStep
<1>6. CASE Shutdown
  BY <1>6, MainStep DEF Shutdown
<1>7. CASE ShutdownStep
  <2>1. CASE ShutdownDone
    BY <2>1, MainStep DEF ShutdownDone
  <2>2. CASE \E c \in Connections : QuitNextThread(c)
    BY <2>2, QuitNextStep
  <2> QED BY <1>7, <2>1, <2>2 DEF ShutdownStep
<1>8. CASE Rest \/ UNCHANGED vars
  <2>1. UNCHANGED << accepted, registryVars, client, worker, posts, main >>
    BY <1>8 DEF Rest, vars, serverVars
  <2>2. main' \in {"running", "stopping", "stopped"}
    BY <2>1 DEF IInv, TypeOK
  <2> QED BY <2>1, <2>2, MainStep
<1> QED BY <1>1, <1>2, <1>3, <1>4, <1>5, <1>6, <1>7, <1>8 DEF ServerNext

LEMMA Invariance == ServerSpec => [](IInv /\ TurnsInv)
<1>1. ServerInit => IInv /\ TurnsInv
  BY InvInit, TurnsInit
<1>2. IInv /\ TurnsInv /\ [ServerNext]_vars => (IInv /\ TurnsInv)'
  BY InvStep, TurnsStep
<1> QED BY <1>1, <1>2, PTL DEF ServerSpec

\* What the worker of ServerWorker.cpp, the posts to the main thread and the main thread
\* of Server.cpp may hold: the counts of messages stay within their bounds, and the
\* posts carry the uris that their slots expect.
THEOREM ServerTypeCorrect == ServerSpec => []TypeOK
<1>1. IInv => TypeOK
  BY DEF IInv
<1> QED BY <1>1, Invariance, PTL

LEMMA FitsNextPost ==
    ASSUME IInv, TurnsInv
    PROVE  PostsFit
<1> DEFINE p == Head(posts)
<1> SUFFICES ASSUME posts # << >>
             PROVE  /\ CASE p.slot \in {"addSource", "addObserver"} -> member[p.c] = Closed
                         [] p.slot \in {"data", "remove"} -> Connected(p.c, p.uri)
                         [] p.slot \in {"quit", "register"} -> worker[p.c].thread # "off"
                         [] OTHER -> TRUE
                    /\ p.slot \in {"addSource", "data", "remove"} /\ Doubles(p.c, p.uri) # {} =>
                          client[p.c].shared
  BY DEF PostsFit
<1>1. posts \in Seq(Posts)
  BY DEF IInv, TypeOK
<1>2. p = posts[1] /\ 1 \in 1 .. Len(posts) /\ posts[1].c \in Connections
  BY <1>1, TailElements, QueueElements
<1> DEFINE c == posts[1].c
<1>3. NoMark(posts, c, 1, 1 - 1)
  BY DEF NoMark
<1>4. FirstFits(posts, c, member[c]) /\ ThreadFits(posts, c, worker[c])
  BY <1>2 DEF IInv, Fits
<1>5. /\ Joins(posts[1]) => member[c] = Closed
      /\ Uses(posts[1]) => member[c].phase # "closed" /\ member[c].uri = posts[1].uri
  BY <1>2, <1>3, <1>4 DEF FirstFits
<1>6. posts[1].slot \in {"quit", "register"} => worker[c].thread # "off"
  BY <1>2, <1>4 DEF ThreadFits
<1>7. ASSUME p.slot \in {"addSource", "data", "remove"}, Doubles(c, p.uri) # {}
      PROVE  client[c].shared
  <2>1. PICK d \in Twins(c) : Joined(d, p.uri)
    BY <1>7 DEF Doubles
  <2>2. member[d] # Closed
    BY <2>1 DEF Joined, Closed
  <2>3. Joins(p) \/ Uses(p)
    BY <1>7 DEF Joins, Uses
  <2> QED BY <1>2, <2>2, <2>3, NoOtherHasIt
<1> QED BY <1>2, <1>5, <1>6, <1>7 DEF Joins, Uses, Connected

\* When a post of a worker reaches the main thread, the dispatcher is as the worker
\* took it to be when it made the post, however many posts of others, ends of threads
\* and new connections came in between.  It is not taken for the post of another with
\* the same descriptor (ServerWorker.cpp): the removal of the one is delivered before
\* the other joins, if the other was accepted when the worker of the one had ended.
THEOREM PostsAlwaysFit == ServerSpec => []PostsFit
<1>1. IInv /\ TurnsInv => PostsFit
  BY FitsNextPost
<1> QED BY <1>1, Invariance, PTL

-----------------------------------------------------------------------------
(* What rests.  When the threads have come to rest, GoneClientsLeave,      *)
(* StraysLeave and ShutdownReturns say how.  Why it is so is a fact about  *)
(* what still wakes a thread: for each state that it may wait in, the      *)
(* message, the signal or the post that ends the wait.                     *)

\* A post of this slot about c waits in the queue q.
Posted(q, slot, c) == \E n \in 1 .. Len(q) : q[n].slot = slot /\ q[n].c = c

\* What a client sends after OPEN: QUIT, if at all, comes last.
Body(s) == \A n \in 1 .. Len(s) : /\ s[n] \in {"data", "bind", "quit"}
                                  /\ s[n] = "quit" => n = Len(s)

\* What a client has left unread can be read: it starts with OPEN if the worker has not
\* started, and nothing follows QUIT.
InboxFits(cl, w) ==
    /\ cl.link = "up" => cl.inbox = << >> /\ ~ w.protocolEnded
    /\ cl.inbox # << >> =>
          IF w.streamId # NoUri THEN Body(cl.inbox)
          ELSE ~ w.protocolEnded /\ Head(cl.inbox) = "open" /\ Body(Tail(cl.inbox))

\* The thread is told to quit, or is going to be.
Leaves(q, c, w) == w.exit \/ Posted(q, "quit", c)

\* Who waits for an answer has asked for it, and who has lost its client leaves.
WakesUp(q, c, w) ==
    /\ w.thread = "blocked" => Posted(q, "register", c)
    /\ w.thread # "off" /\ ~ w.connected => Leaves(q, c, w)

\* The thread of a stray source leaves, or is going to see why it should, unless the
\* main thread is going to hear that the source has changed its stream meanwhile.
StrayFits(q, c, m, w) ==
    c \in Sources /\ m.phase = "stray" /\ w.thread # "off" /\ NoMark(q, c, 1, Len(q)) =>
        Leaves(q, c, w) \/ m.uri \in w.closes

RestFits(q, c, m, cl, w) ==
    /\ InboxFits(cl, w)
    /\ WakesUp(q, c, w)
    /\ cl.shared \/ StrayFits(q, c, m, w)

RestInv == \A c \in Connections : RestFits(posts, c, member[c], client[c], worker[c])

LEMMA PostedAppend ==
    ASSUME NEW q \in Seq(Posts), NEW p \in Posts, NEW c
    PROVE  /\ \A slot : Posted(q, slot, c) => Posted(Append(q, p), slot, c)
           /\ p.c = c => Posted(Append(q, p), p.slot, c)
           /\ NoMark(Append(q, p), c, 1, Len(Append(q, p))) => NoMark(q, c, 1, Len(q)) /\ ~ Mark(p, c)
<1>1. /\ Len(q) \in Nat
      /\ Len(Append(q, p)) = Len(q) + 1
      /\ \A n \in 1 .. Len(q) : Append(q, p)[n] = q[n]
      /\ Append(q, p)[Len(q) + 1] = p
  BY AppendElements, QueueElements
<1> DEFINE r == Append(q, p)
<1> HIDE DEF r
<1>2. \A slot : Posted(q, slot, c) => Posted(r, slot, c)
  BY <1>1 DEF Posted, r
<1>3. p.c = c => Posted(r, p.slot, c)
  BY <1>1 DEF Posted, r
<1>4. NoMark(r, c, 1, Len(r)) => NoMark(q, c, 1, Len(q)) /\ ~ Mark(p, c)
  <2> SUFFICES ASSUME \A k \in 1 .. Len(r) : ~ Mark(r[k], c)
               PROVE  (\A k \in 1 .. Len(q) : ~ Mark(q[k], c)) /\ ~ Mark(p, c)
    BY DEF NoMark
  <2> QED BY <1>1 DEF r
<1> QED BY <1>2, <1>3, <1>4 DEF r

LEMMA PostedTail ==
    ASSUME NEW q \in Seq(Posts), q # << >>, NEW c
    PROVE  /\ \A slot : Posted(q, slot, c) =>
                  Posted(Tail(q), slot, c) \/ (Head(q).slot = slot /\ Head(q).c = c)
           /\ NoMark(Tail(q), c, 1, Len(Tail(q))) => NoMark(q, c, 1, Len(q)) \/ Mark(Head(q), c)
<1> DEFINE r == Tail(q)
<1>1. /\ Len(q) \in Nat \ {0}
      /\ Head(q) = q[1]
      /\ Len(r) = Len(q) - 1
      /\ \A n \in 1 .. Len(q) - 1 : r[n] = q[n + 1]
  BY TailElements
<1> HIDE DEF r
<1>2. \A n \in 1 .. Len(q) : n = 1 \/ (n - 1 \in 1 .. Len(r) /\ r[n - 1] = q[n])
  BY <1>1
<1>3. ASSUME NEW slot, Posted(q, slot, c)
      PROVE  Posted(r, slot, c) \/ (Head(q).slot = slot /\ Head(q).c = c)
  <2>1. PICK n \in 1 .. Len(q) : q[n].slot = slot /\ q[n].c = c
    BY <1>3 DEF Posted
  <2> QED BY <1>1, <1>2, <2>1 DEF Posted
<1>4. NoMark(r, c, 1, Len(r)) => NoMark(q, c, 1, Len(q)) \/ Mark(Head(q), c)
  <2> SUFFICES ASSUME \A k \in 1 .. Len(r) : ~ Mark(r[k], c), ~ Mark(Head(q), c),
                      NEW k \in 1 .. Len(q)
               PROVE  ~ Mark(q[k], c)
    BY DEF NoMark
  <2> QED BY <1>1, <1>2
<1> QED BY <1>3, <1>4 DEF r

-----------------------------------------------------------------------------
(* What is left unread.                                                    *)

Messages == {"open", "data", "bind", "quit"}

LEMMA BodyTail ==
    ASSUME NEW s \in Seq(Messages), s # << >>, Body(s)
    PROVE  /\ Head(s) \in {"data", "bind", "quit"}
           /\ Body(Tail(s))
           /\ Head(s) = "quit" => Tail(s) = << >>
<1> DEFINE r == Tail(s)
           L == Len(s)
<1>1. /\ L \in Nat \ {0}
      /\ Head(s) = s[1]
      /\ Len(r) = L - 1
      /\ \A n \in 1 .. L - 1 : r[n] = s[n + 1]
      /\ r \in Seq(Messages)
  OBVIOUS
<1>2. \A n \in 1 .. L : s[n] \in {"data", "bind", "quit"} /\ (s[n] = "quit" => n = L)
  BY DEF Body
<1> HIDE DEF r, L
<1>3. L = 1 => r = << >>
  <2>1. \A t \in Seq(Messages) : Len(t) = 0 => t = << >>
    OBVIOUS
  <2> QED BY <1>1, <2>1
<1>4. Head(s) \in {"data", "bind", "quit"} /\ (Head(s) = "quit" => L = 1)
  BY <1>1, <1>2
<1>5. \A n \in 1 .. Len(r) : r[n] \in {"data", "bind", "quit"} /\ (r[n] = "quit" => n = Len(r))
  <2> SUFFICES ASSUME NEW n \in 1 .. L - 1
               PROVE  r[n] \in {"data", "bind", "quit"} /\ (r[n] = "quit" => n = L - 1)
    BY <1>1
  <2>1. n + 1 \in 1 .. L /\ r[n] = s[n + 1]
    BY <1>1
  <2> QED BY <1>1, <1>2, <2>1
<1>6. Body(r)
  BY <1>5 DEF Body
<1> QED BY <1>3, <1>4, <1>6 DEF r

\* The worker is in the life of its stream where the message has brought it.
Advances(w, type, w2) ==
    /\ type = "open" => /\ w.streamId = NoUri
                        /\ w2.streamId # NoUri
                        /\ w2.protocolEnded = w.protocolEnded
    /\ type \in {"data", "bind"} => /\ w.streamId # NoUri
                                    /\ w2.streamId = w.streamId
                                    /\ w2.protocolEnded = w.protocolEnded
    /\ type = "quit" => w.streamId # NoUri

LEMMA InboxHandled ==
    ASSUME NEW cl \in ClientStates, NEW w, NEW cl2, NEW w2, NEW type \in Messages,
           InboxFits(cl, w), Advances(w, type, w2),
           \/ /\ cl.link = "up"
              /\ type # "quit"
              /\ cl2 = AfterSending(cl, type)
           \/ /\ cl.inbox # << >>
              /\ Head(cl.inbox) = type
              /\ cl2 = [cl EXCEPT !.inbox = Tail(@)]
    PROVE  InboxFits(cl2, w2)
<1>1. CASE cl.link = "up" /\ type # "quit" /\ cl2 = AfterSending(cl, type)
  <2>1. cl2.link = "up" /\ cl2.inbox = cl.inbox
    BY <1>1 DEF AfterSending, ClientStates
  <2>2. w2.protocolEnded = w.protocolEnded
    BY <1>1 DEF Advances, Messages
  <2> QED BY <1>1, <2>1, <2>2 DEF InboxFits
<1>2. CASE cl.inbox # << >> /\ Head(cl.inbox) = type /\ cl2 = [cl EXCEPT !.inbox = Tail(@)]
  <2> DEFINE s == cl.inbox
  <2>1. s \in Seq(Messages) /\ cl2.inbox = Tail(s) /\ cl2.link = cl.link /\ cl2.link # "up"
    BY <1>2 DEF ClientStates, Messages, InboxFits
  <2>2. CASE w.streamId # NoUri
    <3>1. Body(s)
      BY <1>2, <2>2 DEF InboxFits
    <3>2. type \in {"data", "bind", "quit"} /\ Body(Tail(s)) /\ (type = "quit" => Tail(s) = << >>)
      BY <1>2, <2>1, <3>1, BodyTail
    <3> HIDE DEF s
    <3> QED BY <2>1, <2>2, <3>2 DEF InboxFits, Advances
  <2>3. CASE w.streamId = NoUri
    <3>1. type = "open" /\ Body(Tail(s))
      BY <1>2, <2>3 DEF InboxFits
    <3> HIDE DEF s
    <3> QED BY <2>1, <3>1 DEF InboxFits, Advances
  <2> QED BY <2>2, <2>3
<1> QED BY <1>1, <1>2

LEMMA InboxOfSame ==
    ASSUME NEW cl, NEW w, NEW w2, InboxFits(cl, w),
           w2.streamId = w.streamId, w2.protocolEnded = w.protocolEnded
    PROVE  InboxFits(cl, w2)
BY DEF InboxFits

LEMMA DepartureFits ==
    ASSUME NEW cl, NEW w, InboxFits(cl, w), cl.link = "up",
           NEW first \in {<< >>, << "open" >>}, NEW t \in Seq({"data", "bind"}),
           NEW quit \in {<< >>, << "quit" >>},
           IF w.streamId # NoUri THEN first = << >> ELSE first = << >> => t = << >> /\ quit = << >>,
           NEW cl2, cl2.link = "down", cl2.inbox = first \o t \o quit
    PROVE  InboxFits(cl2, w)
<1> DEFINE s == cl2.inbox
<1>1. CASE first = << >>
  <2>1. \A n \in 1 .. Len(s) : /\ s[n] \in {"data", "bind", "quit"}
                               /\ s[n] = "quit" => n = Len(s)
    <3>1. CASE quit = << >>
      <4>1. s = t
        BY <1>1, <3>1
      <4> HIDE DEF s
      <4> QED BY <4>1
    <3>2. CASE quit = << "quit" >>
      <4>1. s = Append(t, "quit")
        BY <1>1, <3>2
      <4>2. Len(s) = Len(t) + 1 /\ Len(t) \in Nat /\ s[Len(t) + 1] = "quit"
            /\ \A n \in 1 .. Len(t) : s[n] = t[n]
        BY <4>1
      <4> HIDE DEF s
      <4> QED BY <4>2
    <3> QED BY <3>1, <3>2
  <2>2. Body(s)
    BY <2>1 DEF Body
  <2>3. w.streamId = NoUri => s = << >>
    BY <1>1
  <2> QED BY <2>2, <2>3 DEF InboxFits
<1>2. CASE first = << "open" >>
  <2>1. w.streamId = NoUri /\ ~ w.protocolEnded
    BY <1>2 DEF InboxFits
  <2>2. CASE quit = << >>
    <3>1. s = << "open" >> \o t /\ Len(t) \in Nat
      BY <1>2, <2>2
    <3>2. s[1] = "open" /\ Len(s) = Len(t) + 1 /\ s # << >> /\ s \in Seq(Messages)
          /\ \A n \in 1 .. Len(t) : s[n + 1] = t[n]
      BY <3>1 DEF Messages
    <3> HIDE DEF s
    <3>3. Len(Tail(s)) = Len(t) /\ Head(s) = "open" /\ \A n \in 1 .. Len(t) : Tail(s)[n] = s[n + 1]
      BY <3>1, <3>2
    <3>4. Body(Tail(s))
      BY <3>2, <3>3 DEF Body
    <3> QED BY <2>1, <3>3, <3>4 DEF InboxFits, s
  <2>3. CASE quit = << "quit" >>
    <3>1. s = Append(<< "open" >> \o t, "quit") /\ Len(t) \in Nat
      BY <1>2, <2>3
    <3>2. s[1] = "open" /\ Len(s) = Len(t) + 2 /\ s # << >> /\ s \in Seq(Messages)
          /\ (\A n \in 1 .. Len(t) : s[n + 1] = t[n]) /\ s[Len(t) + 2] = "quit"
      BY <3>1 DEF Messages
    <3> HIDE DEF s
    <3>3. Len(Tail(s)) = Len(t) + 1 /\ Head(s) = "open"
          /\ \A n \in 1 .. Len(t) + 1 : Tail(s)[n] = s[n + 1]
      BY <3>1, <3>2
    <3>4. Body(Tail(s))
      <4> SUFFICES ASSUME NEW n \in 1 .. Len(t) + 1
                   PROVE  /\ Tail(s)[n] \in {"data", "bind", "quit"}
                          /\ Tail(s)[n] = "quit" => n = Len(t) + 1
        BY <3>3 DEF Body
      <4>1. n \in 1 .. Len(t) \/ n = Len(t) + 1
        BY <3>1
      <4> QED BY <3>1, <3>2, <3>3, <4>1
    <3> QED BY <2>1, <3>3, <3>4 DEF InboxFits, s
  <2> QED BY <2>2, <2>3
<1> QED BY <1>1, <1>2

-----------------------------------------------------------------------------
(* One connection, and what others' steps change of it.                    *)

LEMMA RestOfWorker ==
    ASSUME NEW q, NEW c, NEW m, NEW w, NEW r, NEW w2,
           WakesUp(q, c, w),
           w2.thread # "off" => w.thread # "off",
           w2.thread = "blocked" => Posted(r, "register", c),
           Leaves(q, c, w) => Leaves(r, c, w2),
           ~ w2.connected => ~ w.connected \/ Leaves(r, c, w2),
           w.closes \subseteq w2.closes,
           NoMark(r, c, 1, Len(r)) => NoMark(q, c, 1, Len(q))
    PROVE  WakesUp(r, c, w2) /\ (StrayFits(q, c, m, w) => StrayFits(r, c, m, w2))
<1>1. WakesUp(r, c, w2)
  BY DEF WakesUp
<1>2. StrayFits(q, c, m, w) => StrayFits(r, c, m, w2)
  BY DEF StrayFits
<1> QED BY <1>1, <1>2

\* What another connection posts changes nothing.
LEMMA AppendRest ==
    ASSUME NEW q \in Seq(Posts), NEW p \in Posts, NEW c, NEW m, NEW cl, NEW w,
           RestFits(q, c, m, cl, w)
    PROVE  RestFits(Append(q, p), c, m, cl, w)
<1> DEFINE r == Append(q, p)
<1> HIDE DEF r
<1>1. /\ \A slot : Posted(q, slot, c) => Posted(r, slot, c)
      /\ NoMark(r, c, 1, Len(r)) => NoMark(q, c, 1, Len(q))
  BY PostedAppend DEF r
<1>2. InboxFits(cl, w) /\ WakesUp(q, c, w) /\ (cl.shared \/ StrayFits(q, c, m, w))
  BY DEF RestFits
<1>3. w.thread = "blocked" => Posted(r, "register", c)
  BY <1>1, <1>2 DEF WakesUp
<1>4. Leaves(q, c, w) => Leaves(r, c, w)
  BY <1>1 DEF Leaves
<1>5. WakesUp(r, c, w) /\ (StrayFits(q, c, m, w) => StrayFits(r, c, m, w))
  BY <1>1, <1>2, <1>3, <1>4, RestOfWorker
<1> QED BY <1>2, <1>5 DEF RestFits, r

\* What the main thread may do to a worker, and to its place in the registry.
SameWorker(w, w2) ==
    /\ w2.thread = w.thread
    /\ w2.connected = w.connected
    /\ w2.exit = w.exit
    /\ w2.streamId = w.streamId
    /\ w2.protocolEnded = w.protocolEnded
    /\ w.closes \subseteq w2.closes

StrayTold(c, m, m2, w2) ==
    c \in Sources /\ m2.phase = "stray" =>
        \/ m.phase = "stray" /\ m2.uri = m.uri
        \/ m2.uri \in w2.closes
        \/ w2.thread = "off"

LEMMA ToldRest ==
    ASSUME NEW q, NEW c, NEW m, NEW cl, NEW w, NEW m2, NEW w2,
           RestFits(q, c, m, cl, w), SameWorker(w, w2), StrayTold(c, m, m2, w2)
    PROVE  RestFits(q, c, m2, cl, w2)
<1>1. InboxFits(cl, w2)
  BY DEF RestFits, SameWorker, InboxFits
<1>2. WakesUp(q, c, w2)
  BY DEF RestFits, SameWorker, WakesUp, Leaves
<1>3. cl.shared \/ StrayFits(q, c, m2, w2)
  BY DEF RestFits, SameWorker, StrayFits, StrayTold, Leaves
<1> QED BY <1>1, <1>2, <1>3 DEF RestFits

\* The next post is delivered, and is not for the thread of c.
LEMMA TailRest ==
    ASSUME NEW q \in Seq(Posts), q # << >>, NEW c, NEW m, NEW cl, NEW w, NEW m2, NEW w2,
           RestFits(q, c, m, cl, w), SameWorker(w, w2),
           Head(q).c = c => Head(q).slot \notin {"quit", "register"},
           \/ cl.shared
           \/ /\ StrayTold(c, m, m2, w2)
              /\ Mark(Head(q), c) => StrayTold(c, Closed, m2, w2)
    PROVE  RestFits(Tail(q), c, m2, cl, w2)
<1> DEFINE r == Tail(q)
<1> HIDE DEF r
<1>1. /\ \A slot \in {"quit", "register"} : Posted(q, slot, c) => Posted(r, slot, c)
      /\ NoMark(r, c, 1, Len(r)) => NoMark(q, c, 1, Len(q)) \/ Mark(Head(q), c)
  BY PostedTail DEF r
<1>2. InboxFits(cl, w) /\ WakesUp(q, c, w) /\ (cl.shared \/ StrayFits(q, c, m, w))
  BY DEF RestFits
<1>3. InboxFits(cl, w2)
  BY <1>2 DEF SameWorker, InboxFits
<1>4. Leaves(q, c, w) => Leaves(r, c, w2)
  BY <1>1 DEF Leaves, SameWorker
<1>5. WakesUp(r, c, w2)
  BY <1>1, <1>2, <1>4 DEF SameWorker, WakesUp
<1>6. cl.shared \/ StrayFits(r, c, m2, w2)
  <2>1. CASE Mark(Head(q), c)
    BY <2>1 DEF StrayFits, StrayTold, Closed
  <2>2. CASE ~ Mark(Head(q), c)
    BY <1>1, <1>2, <1>4, <2>2 DEF SameWorker, StrayFits, StrayTold
  <2> QED BY <2>1, <2>2
<1> QED BY <1>3, <1>5, <1>6 DEF RestFits, r

LEMMA NothingTold ==
    ASSUME NEW c, NEW m, NEW w
    PROVE  SameWorker(w, w) /\ StrayTold(c, m, m, w)
BY DEF SameWorker, StrayTold

-----------------------------------------------------------------------------
(* The steps of a worker keep what wakes the threads.                      *)

\* Any message that the worker handles.
LEMMA HandledRest ==
    ASSUME IInv, RestInv, NEW c \in Connections, NEW type \in Messages,
           NEW w, NEW p \in Posts,
           Handle(c, type, w, << p >>), p.c = c, Advances(worker[c], type, w),
           w.thread = "blocked" => p.slot = "register",
           w.connected = worker[c].connected, w.exit = worker[c].exit,
           w.closes = worker[c].closes
    PROVE  RestInv'
<1>1. PICK cl : /\ \/ /\ client[c].link = "up"
                      /\ MaySend(c, type)
                      /\ cl = AfterSending(client[c], type)
                   \/ /\ client[c].inbox # << >>
                      /\ Head(client[c].inbox) = type
                      /\ cl = [client[c] EXCEPT !.inbox = Tail(@)]
                /\ client' = [client EXCEPT ![c] = cl]
  BY DEF Handle, IInv, TypeOK
<1>2. posts' = Append(posts, p) /\ posts \in Seq(Posts) /\ member' = member
      /\ worker[c].thread \in {"idle", "draining"}
  BY DEF Handle, IInv, TypeOK, registryVars
<1>3. \A d \in Connections : /\ client'[d] = IF d = c THEN cl ELSE client[d]
                             /\ worker'[d] = IF d = c THEN w ELSE worker[d]
  BY <1>1 DEF Handle, IInv, TypeOK
<1>4. RestFits(posts, c, member[c], client[c], worker[c])
  BY DEF RestInv
<1>5. MaySend(c, type) => type # "quit"
  BY DEF MaySend, Types, Advances, Started
<1>6. InboxFits(cl, w)
  <2>1. client[c] \in ClientStates /\ InboxFits(client[c], worker[c])
    BY <1>4 DEF IInv, TypeOK, RestFits
  <2> QED BY <1>1, <1>5, <2>1, InboxHandled
<1>7. /\ \A slot : Posted(posts, slot, c) => Posted(posts', slot, c)
      /\ Posted(posts', p.slot, c)
      /\ NoMark(posts', c, 1, Len(posts')) => NoMark(posts, c, 1, Len(posts))
  BY <1>2, PostedAppend
<1>8. WakesUp(posts', c, w) /\ (cl.shared \/ StrayFits(posts', c, member[c], w))
  <2>1. WakesUp(posts, c, worker[c])
        /\ (client[c].shared \/ StrayFits(posts, c, member[c], worker[c]))
    BY <1>4 DEF RestFits
  <2>5. cl.shared = client[c].shared
    BY <1>1 DEF AfterSending, IInv, TypeOK, ClientStates
  <2>2. Leaves(posts, c, worker[c]) => Leaves(posts', c, w)
    BY <1>7 DEF Leaves
  <2>3. worker[c].thread # "off" /\ worker[c].closes \subseteq w.closes
        /\ (~ w.connected => ~ worker[c].connected)
    BY <1>2
  <2>4. w.thread = "blocked" => Posted(posts', "register", c)
    BY <1>7
  <2> QED BY <1>7, <2>1, <2>2, <2>3, <2>4, <2>5, RestOfWorker
<1>9. RestFits(posts', c, member[c], cl, w)
  BY <1>6, <1>8 DEF RestFits
<1>10. \A d \in Connections : RestFits(posts', d, member[d], client[d], worker[d])
  BY <1>2, AppendRest DEF RestInv
<1> QED BY <1>2, <1>3, <1>9, <1>10 DEF RestInv

LEMMA OpenRest ==
    ASSUME IInv, RestInv, NEW c \in Connections, HandleOpen(c)
    PROVE  RestInv'
<1> DEFINE u == client[c].uri
           w == [worker[c] EXCEPT !.streamId = u, !.thread = AfterMessage(worker[c])]
           p == Post(IF c \in Sources THEN "addSource" ELSE "addObserver", c, u)
<1>1. Handle(c, "open", w, << p >>) /\ worker[c].streamId = NoUri
  BY DEF HandleOpen, Started
<1>2. u \in Uris
  BY <1>1, ClientHandled DEF Handle
<1>3. p \in Posts /\ p.c = c
  BY <1>2 DEF Post, Posts
<1>4. /\ w.streamId = u /\ u # NoUri /\ w.protocolEnded = worker[c].protocolEnded
      /\ w.thread # "blocked" /\ w.connected = worker[c].connected
      /\ w.exit = worker[c].exit /\ w.closes = worker[c].closes
  BY <1>2, WorkerType, ServerAssumption DEF WorkerStates
<1>5. Advances(worker[c], "open", w) /\ "open" \in Messages
  BY <1>1, <1>4 DEF Advances, Messages
<1> HIDE DEF w, p
<1> QED BY <1>1, <1>3, <1>4, <1>5, HandledRest

LEMMA DataRest ==
    ASSUME IInv, RestInv, NEW c \in Connections, HandleData(c)
    PROVE  RestInv'
<1> DEFINE w == [worker[c] EXCEPT !.thread = AfterMessage(worker[c])]
           p == Post("data", c, worker[c].streamId)
<1>1. Handle(c, "data", w, << p >>) /\ Started(c)
  BY DEF HandleData, Valid
<1>2. p \in Posts /\ p.c = c
  BY <1>1, WorkerType DEF Post, Posts
<1>3. /\ w.streamId = worker[c].streamId /\ w.protocolEnded = worker[c].protocolEnded
      /\ w.thread # "blocked" /\ w.connected = worker[c].connected
      /\ w.exit = worker[c].exit /\ w.closes = worker[c].closes
  BY WorkerType DEF WorkerStates
<1>4. Advances(worker[c], "data", w) /\ "data" \in Messages
  BY <1>1, <1>3 DEF Advances, Messages, Started
<1> HIDE DEF w, p
<1> QED BY <1>1, <1>2, <1>3, <1>4, HandledRest

LEMMA QuitRest ==
    ASSUME IInv, RestInv, NEW c \in Connections, HandleQuit(c)
    PROVE  RestInv'
<1> DEFINE w == [worker[c] EXCEPT !.streamId = NoUri, !.protocolEnded = TRUE,
                                  !.thread = AfterMessage(worker[c])]
           p == Post("remove", c, worker[c].streamId)
<1>1. Handle(c, "quit", w, << p >>) /\ Started(c)
  BY DEF HandleQuit, Valid
<1>2. p \in Posts /\ p.c = c
  BY <1>1, WorkerType DEF Post, Posts
<1>3. /\ w.thread # "blocked" /\ w.connected = worker[c].connected
      /\ w.exit = worker[c].exit /\ w.closes = worker[c].closes
  BY WorkerType DEF WorkerStates
<1>4. Advances(worker[c], "quit", w) /\ "quit" \in Messages
  BY <1>1 DEF Advances, Messages, Started
<1> HIDE DEF w, p
<1> QED BY <1>1, <1>2, <1>3, <1>4, HandledRest

LEMMA BindRest ==
    ASSUME IInv, RestInv, NEW c \in Connections, HandleBind(c)
    PROVE  RestInv'
<1> DEFINE w == [worker[c] EXCEPT !.thread = "blocked"]
           p == Post("register", c, worker[c].streamId)
<1>1. Handle(c, "bind", w, << p >>) /\ Started(c)
  BY DEF HandleBind, Valid
<1>2. p \in Posts /\ p.c = c /\ p.slot = "register"
  BY <1>1, WorkerType DEF Post, Posts
<1>3. /\ w.streamId = worker[c].streamId /\ w.protocolEnded = worker[c].protocolEnded
      /\ w.connected = worker[c].connected
      /\ w.exit = worker[c].exit /\ w.closes = worker[c].closes
  BY WorkerType DEF WorkerStates
<1>4. Advances(worker[c], "bind", w) /\ "bind" \in Messages
  BY <1>1, <1>3 DEF Advances, Messages, Started
<1> HIDE DEF w, p
<1> QED BY <1>1, <1>2, <1>3, <1>4, HandledRest

LEMMA SecondBindRest ==
    ASSUME IInv, RestInv, NEW c \in Connections, HandleSecondBind(c)
    PROVE  RestInv'
<1> DEFINE w == [worker[c] EXCEPT !.thread = AfterMessage(worker[c])]
           p == Post("quit", c, NoUri)
<1>1. Handle(c, "bind", w, << p >>) /\ Started(c)
  BY DEF HandleSecondBind, Valid
<1>2. p \in Posts /\ p.c = c
  BY QuitPost
<1>3. /\ w.streamId = worker[c].streamId /\ w.protocolEnded = worker[c].protocolEnded
      /\ w.thread # "blocked" /\ w.connected = worker[c].connected
      /\ w.exit = worker[c].exit /\ w.closes = worker[c].closes
  BY WorkerType DEF WorkerStates
<1>4. Advances(worker[c], "bind", w) /\ "bind" \in Messages
  BY <1>1, <1>3 DEF Advances, Messages, Started
<1> HIDE DEF w, p
<1> QED BY <1>1, <1>2, <1>3, <1>4, HandledRest

\* A step of one worker that posts a quit to its thread, or nothing.
LEMMA LeavesRest ==
    ASSUME IInv, RestInv, NEW c \in Connections, NEW w \in WorkerStates,
           worker[c].thread # "off", w.thread = "idle",
           w.streamId = worker[c].streamId, w.protocolEnded = worker[c].protocolEnded,
           worker' = [worker EXCEPT ![c] = w],
           posts' = Append(posts, Post("quit", c, NoUri)),
           UNCHANGED << client, member >>
    PROVE  RestInv'
<1> DEFINE p == Post("quit", c, NoUri)
<1>1. p \in Posts /\ p.c = c /\ p.slot = "quit"
  BY QuitPost DEF Post
<1> HIDE DEF p
<1>2. posts \in Seq(Posts) /\ posts' = Append(posts, p)
      /\ \A d \in Connections : worker'[d] = IF d = c THEN w ELSE worker[d]
  BY DEF IInv, TypeOK, p
<1>3. Leaves(posts', c, w)
  BY <1>1, <1>2, PostedAppend DEF Leaves
<1>4. RestFits(posts', c, member[c], client[c], w)
  <2>1. InboxFits(client[c], w)
    BY DEF RestInv, RestFits, InboxFits
  <2> QED BY <1>3, <2>1 DEF RestFits, WakesUp, StrayFits
<1>5. \A d \in Connections : RestFits(posts', d, member[d], client[d], worker[d])
  BY <1>1, <1>2, AppendRest DEF RestInv
<1> QED BY <1>2, <1>4, <1>5 DEF RestInv

LEMMA NoticeRest ==
    ASSUME IInv, RestInv, NEW c \in Connections, NoticeDisconnection(c)
    PROVE  RestInv'
<1> DEFINE w == [worker[c] EXCEPT !.connected = FALSE]
<1>1. w \in WorkerStates /\ w.thread = "idle" /\ w.streamId = worker[c].streamId
      /\ w.protocolEnded = worker[c].protocolEnded /\ worker[c].thread # "off"
  BY WorkerType DEF WorkerStates, NoticeDisconnection, InEventLoop
<1>2. worker' = [worker EXCEPT ![c] = w] /\ member' = member
  BY DEF NoticeDisconnection, IInv, TypeOK, registryVars
<1> HIDE DEF w
<1> QED BY <1>1, <1>2, LeavesRest DEF NoticeDisconnection

LEMMA DrainRest ==
    ASSUME IInv, RestInv, NEW c \in Connections, EndOfDrain(c)
    PROVE  RestInv'
<1> DEFINE w == [worker[c] EXCEPT !.thread = "idle"]
<1>1. w \in WorkerStates /\ w.thread = "idle" /\ w.streamId = worker[c].streamId
      /\ w.protocolEnded = worker[c].protocolEnded /\ worker[c].thread # "off"
  BY WorkerType DEF WorkerStates, EndOfDrain
<1>2. worker' = [worker EXCEPT ![c] = w] /\ member' = member
  BY DEF EndOfDrain, IInv, TypeOK, registryVars
<1> HIDE DEF w
<1> QED BY <1>1, <1>2, LeavesRest DEF EndOfDrain

\* A stray whose stream is not the one that it is told of has another to be told of.
LEMMA StrayOfAnother ==
    ASSUME IInv, NEW c \in Connections, member[c].phase = "stray",
           NoMark(posts, c, 1, Len(posts))
    PROVE  Started(c) /\ member[c].uri = worker[c].streamId
BY DEF IInv, Fits, NoneFits, Started, Closed

LEMMA CloseConnectionsRest ==
    ASSUME IInv, RestInv, NEW c \in Connections, NEW u \in Uris, CloseConnections(c, u)
    PROVE  RestInv'
<1> DEFINE w == [worker[c] EXCEPT !.closes = @ \ {u}]
<1>1. w \in WorkerStates /\ w.thread = "idle" /\ w.streamId = worker[c].streamId
      /\ w.protocolEnded = worker[c].protocolEnded /\ worker[c].thread = "idle"
      /\ w.connected = worker[c].connected /\ w.exit = worker[c].exit
      /\ w.closes = worker[c].closes \ {u}
  BY WorkerType DEF WorkerStates, CloseConnections, InEventLoop
<1>2. worker' = [worker EXCEPT ![c] = w] /\ member' = member /\ client' = client
  BY DEF CloseConnections, IInv, TypeOK, registryVars
<1> HIDE DEF w
<1>3. CASE worker[c].streamId = u
  BY <1>1, <1>2, <1>3, LeavesRest DEF CloseConnections
<1>4. CASE worker[c].streamId # u
  <2>1. posts' = posts /\ \A d \in Connections : worker'[d] = IF d = c THEN w ELSE worker[d]
    BY <1>2, <1>4 DEF CloseConnections, IInv, TypeOK
  <2>2. RestFits(posts, c, member[c], client[c], worker[c])
    BY DEF RestInv
  <2>3. InboxFits(client[c], w)
    BY <1>1, <2>2 DEF RestFits, InboxFits
  <2>4. WakesUp(posts, c, w)
    BY <1>1, <2>2 DEF RestFits, WakesUp, Leaves
  <2>5. client[c].shared \/ StrayFits(posts, c, member[c], w)
    BY <1>1, <1>4, <2>2, StrayOfAnother DEF RestFits, StrayFits, Leaves
  <2> QED BY <1>2, <2>1, <2>3, <2>4, <2>5 DEF RestInv, RestFits
<1> QED BY <1>3, <1>4

\* Without the posts to the QThread of c, the others find theirs.
LEMMA WithoutQuitRest ==
    ASSUME IInv, RestInv, NEW c \in Connections, NEW d \in Connections \ {c}
    PROVE  RestFits(WithoutQuit(c), d, member[d], client[d], worker[d])
<1> DEFINE r == WithoutQuit(c)
<1>1. posts \in Seq(Posts) /\ Len(posts) \in Nat
  BY QueueElements DEF IInv, TypeOK
<1>2. Len(r) = Len(posts)
      /\ \A n \in 1 .. Len(posts) :
            r[n] = IF posts[n].c = c /\ posts[n].slot = "quit" THEN Post("none", c, NoUri)
                   ELSE posts[n]
  BY <1>1 DEF WithoutQuit
<1> HIDE DEF r
<1>3. \A n \in 1 .. Len(posts) : /\ posts[n].c = d => r[n] = posts[n]
                                 /\ Mark(posts[n], d) => Mark(r[n], d)
  BY <1>2 DEF Mark
<1>4. \A slot : Posted(posts, slot, d) => Posted(r, slot, d)
  BY <1>2, <1>3 DEF Posted
<1>5. NoMark(r, d, 1, Len(r)) => NoMark(posts, d, 1, Len(posts))
  BY <1>2, <1>3 DEF NoMark
<1>6. RestFits(posts, d, member[d], client[d], worker[d])
  BY DEF RestInv
<1>7. WakesUp(posts, d, worker[d])
      /\ (client[d].shared \/ StrayFits(posts, d, member[d], worker[d]))
  BY <1>6 DEF RestFits
<1>8. worker[d].thread = "blocked" => Posted(r, "register", d)
  BY <1>4, <1>7 DEF WakesUp
<1>9. Leaves(posts, d, worker[d]) => Leaves(r, d, worker[d])
  BY <1>4 DEF Leaves
<1>10. WakesUp(r, d, worker[d])
       /\ (StrayFits(posts, d, member[d], worker[d]) => StrayFits(r, d, member[d], worker[d]))
  BY <1>5, <1>7, <1>8, <1>9, RestOfWorker
<1> QED BY <1>6, <1>7, <1>10 DEF RestFits, r

LEMMA NoOneRests ==
    ASSUME NEW q, NEW c, NEW m, NEW cl, cl.link # "up", cl.inbox = << >>
    PROVE  RestFits(q, c, m, cl, NoWorker)
BY DEF RestFits, InboxFits, WakesUp, StrayFits, NoWorker

LEMMA EndThreadRest ==
    ASSUME IInv, RestInv, NEW c \in Connections, EndThread(c)
    PROVE  RestInv'
<1> DEFINE r == WithoutQuit(c)
           p == Post("remove", c, worker[c].streamId)
<1>1. worker' = [worker EXCEPT ![c] = NoWorker]
      /\ client' = [client EXCEPT ![c] = Left(client[c])]
      /\ member' = member
      /\ posts' = IF Started(c) THEN Append(r, p) ELSE r
  BY DEF EndThread, registryVars
<1>2. /\ \A d \in Connections : worker'[d] = IF d = c THEN NoWorker ELSE worker[d]
      /\ \A d \in Connections : client'[d] = IF d = c THEN Left(client[c]) ELSE client[d]
      /\ Left(client[c]).link # "up" /\ Left(client[c]).inbox = << >>
  BY <1>1 DEF IInv, TypeOK, Left, NoClient
<1>3. r \in Seq(Posts)
  BY WithoutQuitFits DEF EndThread, InEventLoop
<1>4. Started(c) => p \in Posts
  BY WorkerType DEF Post, Posts
<1>5. \A d \in Connections \ {c} : RestFits(r, d, member[d], client[d], worker[d])
  BY WithoutQuitRest
<1> HIDE DEF r, p
<1>6. \A d \in Connections \ {c} : RestFits(posts', d, member[d], client[d], worker[d])
  BY <1>1, <1>3, <1>4, <1>5, AppendRest
<1> QED BY <1>1, <1>2, <1>6, NoOneRests DEF RestInv

-----------------------------------------------------------------------------
(* So do the steps of the clients.                                         *)

LEMMA AcceptRest ==
    ASSUME IInv, TurnsInv, RestInv, NEW c \in Connections, NEW u \in Uris, Accept(c, u)
    PROVE  RestInv'
<1>1. /\ worker[c] = NoWorker
      /\ \A d \in Connections : /\ client'[d] = AcceptedClient(c, u, d)
                                /\ worker'[d] = IF d = c THEN NewWorker ELSE worker[d]
      /\ UNCHANGED << registryVars, posts, main >>
  BY AcceptedIs
<1>2. InboxFits(client'[c], NewWorker)
  BY <1>1, ClientAccepted DEF InboxFits, NewWorker, NoWorker
<1>3. WakesUp(posts, c, NewWorker)
  BY DEF WakesUp, NewWorker, NoWorker
<1>4. StrayFits(posts, c, member[c], NewWorker)
  <2>1. ~ Started(c)
    BY <1>1 DEF Started, NoWorker
  <2> QED BY <2>1, StrayOfAnother DEF StrayFits
<1>5. ASSUME NEW d \in Connections \ {c}
      PROVE  RestFits(posts, d, member[d], client'[d], worker[d])
  <2>1. RestFits(posts, d, member[d], client[d], worker[d])
    BY DEF RestInv
  <2>2. /\ client'[d].link = client[d].link
        /\ client'[d].inbox = client[d].inbox
        /\ client[d].shared => client'[d].shared
    BY <1>1, ClientAccepted
  <2> QED BY <2>1, <2>2 DEF RestFits, InboxFits
<1> QED BY <1>1, <1>2, <1>3, <1>4, <1>5 DEF RestInv, RestFits, registryVars

LEMMA DepartRest ==
    ASSUME IInv, RestInv, NEW c \in Connections, Depart(c)
    PROVE  RestInv'
<1>1. PICK first \in {<< >>, << "open" >>}, t \in Unread(c), quit \in {<< >>, << "quit" >>} :
         /\ IF Started(c) THEN first = << >> ELSE first = << >> => t = << >> /\ quit = << >>
         /\ client' = [client EXCEPT ![c].link = "down", ![c].sends = 0,
                                     ![c].inbox = first \o t \o quit]
  BY DEF Depart
<1>2. t \in Seq({"data", "bind"})
  <2>1. PICK n \in 0 .. MaxUnread : t \in [1 .. n -> Types(c)]
    BY DEF Unread
  <2>2. n \in Nat /\ Types(c) \subseteq {"data", "bind"}
    BY <2>1, ServerAssumption DEF Types
  <2> QED BY <2>1, <2>2
<1> DEFINE inbox == first \o t \o quit
           cl == [client[c] EXCEPT !.link = "down", !.sends = 0, !.inbox = inbox]
<1> HIDE DEF inbox
<1>3. cl.link = "down" /\ cl.inbox = inbox /\ cl.shared = client[c].shared
  BY DEF IInv, TypeOK, ClientStates
<1>4. client' = [client EXCEPT ![c] = cl]
  BY <1>1 DEF IInv, TypeOK, inbox
<1> HIDE DEF cl
<1>5. InboxFits(client[c], worker[c]) /\ client[c].link = "up"
  BY DEF RestInv, RestFits, Depart
<1>6. IF worker[c].streamId # NoUri THEN first = << >>
      ELSE first = << >> => t = << >> /\ quit = << >>
  BY <1>1 DEF Started
<1>7. cl.inbox = first \o t \o quit
  BY <1>3 DEF inbox
<1>8. InboxFits(cl, worker[c])
  BY <1>2, <1>3, <1>5, <1>6, <1>7, DepartureFits
<1>9. UNCHANGED << posts, member, worker >>
      /\ \A d \in Connections : client'[d] = IF d = c THEN cl ELSE client[d]
  BY <1>4 DEF IInv, TypeOK, Depart, registryVars
<1> QED BY <1>3, <1>8, <1>9 DEF RestInv, RestFits

-----------------------------------------------------------------------------
(* And the steps of the main thread.                                       *)

\* The next post is delivered, and its slot may close a stream, and says so.
LEMMA DeliveredRest ==
    ASSUME IInv, RestInv, NEW c \in Connections, NEW slot, Deliver(slot, c),
           slot \notin {"quit", "register"}, client' = client,
           \A d \in Connections :
              /\ SameWorker(worker[d], worker'[d])
              /\ \/ client[d].shared
                 \/ /\ StrayTold(d, member[d], member'[d], worker'[d])
                    /\ Mark(Head(posts), d) => StrayTold(d, Closed, member'[d], worker'[d])
    PROVE  RestInv'
<1>1. /\ posts \in Seq(Posts) /\ posts # << >> /\ posts' = Tail(posts)
      /\ Head(posts).slot = slot
  BY NextPost
<1> SUFFICES ASSUME NEW d \in Connections
             PROVE  RestFits(Tail(posts), d, member'[d], client[d], worker'[d])
  BY <1>1 DEF RestInv
<1>2. RestFits(posts, d, member[d], client[d], worker[d])
  BY DEF RestInv
<1>3. Head(posts).c = d => Head(posts).slot \notin {"quit", "register"}
  BY <1>1
<1> QED BY <1>1, <1>2, <1>3, TailRest

\* The threads C are told that stream u is closed.
LEMMA ThreadsTold ==
    ASSUME IInv, NEW u \in Uris, NEW C \in SUBSET Connections,
           worker' = [c \in Connections |->
                        IF c \notin C \/ worker[c].thread = "off" THEN worker[c]
                        ELSE [worker[c] EXCEPT !.closes = @ \cup {u}]]
    PROVE  \A c \in Connections : /\ SameWorker(worker[c], worker'[c])
                                  /\ c \in C => u \in worker'[c].closes \/ worker'[c].thread = "off"
<1> SUFFICES ASSUME NEW c \in Connections
             PROVE  /\ SameWorker(worker[c], worker'[c])
                    /\ c \in C => u \in worker'[c].closes \/ worker'[c].thread = "off"
  OBVIOUS
<1>1. worker[c] \in WorkerStates
  BY WorkerType
<1> DEFINE w == [worker[c] EXCEPT !.closes = @ \cup {u}]
<1>2. SameWorker(worker[c], w) /\ u \in w.closes
  BY <1>1 DEF SameWorker, WorkerStates
<1>3. worker'[c] = IF c \notin C \/ worker[c].thread = "off" THEN worker[c] ELSE w
  OBVIOUS
<1> HIDE DEF w
<1> QED BY <1>2, <1>3, NothingTold

LEMMA CloseTold ==
    ASSUME IInv, NEW u \in Uris, EmitClose(u)
    PROVE  \A c \in Connections : /\ SameWorker(worker[c], worker'[c])
                                  /\ u \in worker'[c].closes \/ worker'[c].thread = "off"
<1>1. worker' = [c \in Connections |->
                   IF c \notin Connections \/ worker[c].thread = "off" THEN worker[c]
                   ELSE [worker[c] EXCEPT !.closes = @ \cup {u}]]
  BY DEF EmitClose
<1> QED BY <1>1, ThreadsTold

\* Who strays when a stream is closed is told so.
LEMMA CloseStrays ==
    ASSUME NEW u, NEW others, Close(u, others), NEW c \in Connections,
           NEW w, u \in w.closes \/ w.thread = "off"
    PROVE  StrayTold(c, others[c], member'[c], w)
<1>1. CASE others[c] = [phase |-> "joined", uri |-> u]
  <2>1. member'[c] = [others[c] EXCEPT !.phase = "stray"]
    BY <1>1 DEF Close
  <2>2. member'[c].uri = u
    BY <1>1, <2>1
  <2> QED BY <2>2 DEF StrayTold
<1>2. CASE others[c] # [phase |-> "joined", uri |-> u]
  <2>1. member'[c] = others[c]
    BY <1>2 DEF Close
  <2> QED BY <2>1 DEF StrayTold
<1> QED BY <1>1, <1>2

LEMMA AddSourceRest ==
    ASSUME IInv, RestInv, NEW c \in Sources, DeliverAddSource(c)
    PROVE  RestInv'
<1> DEFINE p == Head(posts)
<1>1. /\ p \in Posts /\ p.c = c /\ p.slot = "addSource" /\ c \in Connections
      /\ Deliver("addSource", c)
  BY NextPost DEF DeliverAddSource, Connections
<1>2. p.uri \in Uris /\ \A d \in Connections : Mark(p, d) => d = c
  BY <1>1 DEF Posts, Mark
<1>3. CASE Join(c, p.uri) /\ UNCHANGED worker
  <2>1. \A d \in Connections : /\ d # c => member'[d] = member[d]
                               /\ d = c => member'[d].phase = "joined"
    BY <1>3 DEF Join, IInv, TypeOK
  <2>2. ASSUME NEW d \in Connections
        PROVE  /\ SameWorker(worker[d], worker'[d])
               /\ StrayTold(d, member[d], member'[d], worker'[d])
               /\ Mark(p, d) => StrayTold(d, Closed, member'[d], worker'[d])
    BY <1>2, <1>3, <2>1, NothingTold DEF StrayTold
  <2> QED BY <1>1, <2>2, DeliveredRest DEF DeliverAddSource
<1>4. CASE Reject(c, p.uri) /\ EmitRejected(c, p.uri)
  <2> HIDE DEF p
  <2>3. worker' = [d \in Connections |->
                     IF d \notin SameDescriptor(c) \/ worker[d].thread = "off" THEN worker[d]
                     ELSE [worker[d] EXCEPT !.closes = @ \cup {p.uri}]]
    BY <1>4, RejectedIs
  <2>4. SameDescriptor(c) \in SUBSET Connections /\ c \in SameDescriptor(c)
    BY <1>1 DEF SameDescriptor
  <2>5. \A d \in Connections :
           /\ SameWorker(worker[d], worker'[d])
           /\ d = c => p.uri \in worker'[d].closes \/ worker'[d].thread = "off"
    BY <1>2, <2>3, <2>4, ThreadsTold
  <2>6. \A d \in Connections : /\ d # c => member'[d] = member[d]
                               /\ d = c => member'[d].uri = p.uri
    BY <1>4 DEF Reject, IInv, TypeOK
  <2>7. ASSUME NEW d \in Connections
        PROVE  /\ SameWorker(worker[d], worker'[d])
               /\ StrayTold(d, member[d], member'[d], worker'[d])
               /\ Mark(p, d) => StrayTold(d, Closed, member'[d], worker'[d])
    BY <1>2, <2>5, <2>6 DEF StrayTold
  <2> QED BY <1>1, <2>7, DeliveredRest DEF DeliverAddSource, p
<1> QED BY <1>3, <1>4 DEF DeliverAddSource

LEMMA AddObserverRest ==
    ASSUME IInv, RestInv, NEW c \in Observers, DeliverAddObserver(c)
    PROVE  RestInv'
<1>1. c \in Connections /\ Deliver("addObserver", c) /\ worker' = worker /\ client' = client
      /\ \A d \in Sources : d # c
  BY RegistryAssumption DEF DeliverAddObserver, Connections
<1>2. \A d \in Connections : d # c => member'[d] = member[d]
  BY DEF DeliverAddObserver, Join, IInv, TypeOK
<1>3. Head(posts).c = c
  BY DEF DeliverAddObserver, Deliver
<1>4. ASSUME NEW d \in Connections
      PROVE  /\ SameWorker(worker[d], worker'[d])
             /\ StrayTold(d, member[d], member'[d], worker'[d])
             /\ Mark(Head(posts), d) => StrayTold(d, Closed, member'[d], worker'[d])
  BY <1>1, <1>2, <1>3, NothingTold DEF StrayTold, Mark
<1> QED BY <1>1, <1>4, DeliveredRest

LEMMA DataDeliveredRest ==
    ASSUME IInv, TurnsInv, RestInv, NEW c \in Sources, DeliverData(c)
    PROVE  RestInv'
<1>1. c \in Connections /\ Deliver("data", c) /\ client' = client /\ Send(c)
  BY DEF DeliverData, Connections
<1> DEFINE p == Head(posts)
<1>2. p \in Posts /\ p.slot = "data" /\ p.c = c /\ posts # << >>
  BY <1>1, NextPost
<1>3. member[c].uri = p.uri /\ p.uri \in Uris
  <2>1. Connected(c, p.uri)
    BY <1>2, FitsNextPost DEF PostsFit
  <2> QED BY <1>2, <2>1 DEF Connected, Posts
<1>4. \A d \in Connections : ~ Mark(p, d)
  BY <1>2 DEF Mark, Joins
<1>5. ASSUME NEW d \in Connections
      PROVE  /\ SameWorker(worker[d], worker'[d])
             /\ StrayTold(d, member[d], member'[d], worker'[d])
  <2>1. CASE p.uri \in open /\ Close(p.uri, member)
    <3>1. EmitClose(p.uri)
      BY <2>1 DEF DeliverData, Close
    <3> HIDE DEF p
    <3>2. SameWorker(worker[d], worker'[d])
          /\ (p.uri \in worker'[d].closes \/ worker'[d].thread = "off")
      BY <1>3, <3>1, CloseTold
    <3>3. Close(p.uri, member)
      BY <2>1
    <3>4. StrayTold(d, member[d], member'[d], worker'[d])
      BY <3>2, <3>3, CloseStrays
    <3> QED BY <3>2, <3>4
  <2>2. CASE UNCHANGED registryVars
    BY <2>2, NothingTold DEF DeliverData, registryVars
  <2> QED BY <1>1, <1>3, <2>1, <2>2 DEF Send
<1> QED BY <1>1, <1>4, <1>5, DeliveredRest

LEMMA RemoveRest ==
    ASSUME IInv, TurnsInv, RestInv, NEW c \in Connections, DeliverRemove(c)
    PROVE  RestInv'
<1> DEFINE same == IF c \in Sources THEN Twins(c) \cap Sources ELSE {}
           u == member[c].uri
           others == [d \in Connections |-> Forgotten(c, same, d)]
           rest == Connections \ ({c} \cup same)
<1>1. Deliver("remove", c) /\ client' = client /\ worker' = worker /\ Forget(c, same)
      /\ Head(posts).c = c /\ Head(posts).slot = "remove" /\ posts # << >>
  BY DEF DeliverRemove, Deliver
<1>2. member'[c] = Closed
  BY ForgetKeeps DEF DeliverRemove, IInv
<1>3. \/ Close(u, others) /\ \A s \in Sources \cap rest : ~ Joined(s, u)
      \/ member' = others
  BY <1>1 DEF Forget, Forgotten
<1>4. ASSUME NEW d \in Sources \ {c}
      PROVE  client[d].shared \/ member'[d] = member[d]
  <2>1. d \in Connections
    BY DEF Connections
  <2>2. CASE d \in same /\ Joined(d, u)
    <3>1. d \in Twins(c) /\ member[d] # Closed
      BY <2>2 DEF Joined, Closed
    <3>2. Uses(Head(posts))
      BY <1>1 DEF Uses
    <3> QED BY <1>1, <3>1, <3>2, NoOtherHasIt
  <2>3. CASE ~ (d \in same /\ Joined(d, u))
    <3>1. others[d] = member[d]
      BY <2>1, <2>3 DEF Forgotten
    <3>2. CASE Close(u, others) /\ \A s \in Sources \cap rest : ~ Joined(s, u)
      <4>1. others[d] # [phase |-> "joined", uri |-> u]
        BY <2>1, <2>3, <3>1, <3>2 DEF Joined
      <4> HIDE DEF others, u
      <4> QED BY <2>1, <3>1, <3>2, <4>1 DEF Close
    <3> QED BY <1>3, <3>1, <3>2
  <2> QED BY <2>2, <2>3
<1> HIDE DEF u, others, same
<1>5. ASSUME NEW d \in Connections
      PROVE  /\ SameWorker(worker[d], worker'[d])
             /\ \/ client[d].shared
                \/ /\ StrayTold(d, member[d], member'[d], worker'[d])
                   /\ Mark(Head(posts), d) => StrayTold(d, Closed, member'[d], worker'[d])
  BY <1>1, <1>2, <1>4, NothingTold DEF StrayTold, Mark, Closed
<1> QED BY <1>1, <1>5, DeliveredRest

\* A post for the thread of c is delivered.
LEMMA ThreadPostRest ==
    ASSUME IInv, RestInv, NEW c \in Connections, NEW slot, Deliver(slot, c),
           NEW w, worker' = [worker EXCEPT ![c] = w],
           UNCHANGED << registryVars, client >>,
           RestFits(Tail(posts), c, member[c], client[c], w)
    PROVE  RestInv'
<1>1. /\ posts \in Seq(Posts) /\ posts # << >> /\ posts' = Tail(posts)
      /\ Head(posts).c = c
  BY NextPost
<1>2. \A d \in Connections : worker'[d] = IF d = c THEN w ELSE worker[d]
  BY DEF IInv, TypeOK
<1>3. ASSUME NEW d \in Connections \ {c}
      PROVE  RestFits(Tail(posts), d, member[d], client[d], worker[d])
  <2>1. RestFits(posts, d, member[d], client[d], worker[d])
    BY DEF RestInv
  <2>2. Head(posts).c # d /\ ~ Mark(Head(posts), d)
    BY <1>1 DEF Mark
  <2> QED BY <1>1, <2>1, <2>2, NothingTold, TailRest
<1> QED BY <1>1, <1>2, <1>3 DEF RestInv, registryVars

LEMMA DeliverQuitRest ==
    ASSUME IInv, RestInv, NEW c \in Connections, DeliverQuit(c)
    PROVE  RestInv'
<1> DEFINE w == [worker[c] EXCEPT !.exit = TRUE]
<1>1. Deliver("quit", c) /\ posts \in Seq(Posts) /\ posts # << >>
      /\ Head(posts).slot = "quit"
  BY NextPost DEF DeliverQuit
<1>2. w.exit /\ w.thread = worker[c].thread /\ w.streamId = worker[c].streamId
      /\ w.protocolEnded = worker[c].protocolEnded
      /\ worker' = [worker EXCEPT ![c] = w]
  BY WorkerType DEF WorkerStates, DeliverQuit, IInv, TypeOK
<1> HIDE DEF w
<1>3. RestFits(posts, c, member[c], client[c], worker[c])
  BY DEF RestInv
<1>4. Posted(posts, "register", c) => Posted(Tail(posts), "register", c)
  BY <1>1, PostedTail
<1>5. RestFits(Tail(posts), c, member[c], client[c], w)
  BY <1>2, <1>3, <1>4 DEF RestFits, InboxFits, WakesUp, StrayFits, Leaves
<1> QED BY <1>1, <1>2, <1>5, ThreadPostRest DEF DeliverQuit

LEMMA DeliverNothingRest ==
    ASSUME IInv, RestInv, NEW c \in Connections, DeliverNothing(c)
    PROVE  RestInv'
<1>1. Deliver("none", c) /\ UNCHANGED << member, client, worker >>
  BY DEF DeliverNothing, registryVars
<1>2. Head(posts).slot = "none"
  BY <1>1, NextPost
<1>3. \A d \in Connections : ~ Mark(Head(posts), d)
  BY <1>2 DEF Mark, Joins
<1> QED BY <1>1, <1>3, NothingTold, DeliveredRest

LEMMA DeliverRegisterRest ==
    ASSUME IInv, RestInv, NEW c \in Connections, DeliverRegister(c)
    PROVE  RestInv'
<1>1. PICK answer \in BOOLEAN :
         worker' = [worker EXCEPT ![c].registered = answer,
                                  ![c].thread = AfterMessage(worker[c])]
  BY DEF DeliverRegister
<1> DEFINE w == [worker[c] EXCEPT !.registered = answer, !.thread = AfterMessage(worker[c])]
<1>2. Deliver("register", c) /\ posts \in Seq(Posts) /\ posts # << >>
      /\ Head(posts).c = c /\ Head(posts).slot = "register" /\ Head(posts) = posts[1]
      /\ 1 \in 1 .. Len(posts)
  BY NextPost DEF DeliverRegister
<1>3. /\ w.thread # "blocked" /\ w.exit = worker[c].exit /\ w.closes = worker[c].closes
      /\ w.connected = worker[c].connected /\ w.streamId = worker[c].streamId
      /\ w.protocolEnded = worker[c].protocolEnded
      /\ worker' = [worker EXCEPT ![c] = w]
  BY <1>1, WorkerType DEF WorkerStates, IInv, TypeOK
<1> HIDE DEF w
<1>4. worker[c].thread # "off"
  BY <1>2 DEF IInv, ThreadFits
<1>5. /\ Posted(posts, "quit", c) => Posted(Tail(posts), "quit", c)
      /\ NoMark(Tail(posts), c, 1, Len(Tail(posts))) => NoMark(posts, c, 1, Len(posts))
  BY <1>2, PostedTail DEF Mark, Joins
<1>6. RestFits(posts, c, member[c], client[c], worker[c])
  BY DEF RestInv
<1>7. InboxFits(client[c], w)
  BY <1>3, <1>6 DEF RestFits, InboxFits
<1>8. Leaves(posts, c, worker[c]) => Leaves(Tail(posts), c, w)
  BY <1>3, <1>5 DEF Leaves
<1>9. WakesUp(Tail(posts), c, w)
  BY <1>3, <1>4, <1>6, <1>8 DEF RestFits, WakesUp
<1>10. client[c].shared \/ StrayFits(Tail(posts), c, member[c], w)
  BY <1>3, <1>4, <1>5, <1>6, <1>8 DEF RestFits, StrayFits
<1>11. RestFits(Tail(posts), c, member[c], client[c], w)
  BY <1>7, <1>9, <1>10 DEF RestFits
<1> QED BY <1>2, <1>3, <1>11, ThreadPostRest DEF DeliverRegister

LEMMA AppCloseRest ==
    ASSUME IInv, RestInv, NEW u \in Uris, AppCloseStream(u)
    PROVE  RestInv'
<1>1. Close(u, member) /\ EmitClose(u) /\ UNCHANGED << client, posts >>
  BY DEF AppCloseStream, AppClose
<1> SUFFICES ASSUME NEW c \in Connections
             PROVE  RestFits(posts, c, member'[c], client[c], worker'[c])
  BY <1>1 DEF RestInv
<1>2. SameWorker(worker[c], worker'[c])
      /\ (u \in worker'[c].closes \/ worker'[c].thread = "off")
  BY <1>1, CloseTold
<1>3. StrayTold(c, member[c], member'[c], worker'[c])
  BY <1>1, <1>2, CloseStrays
<1>4. RestFits(posts, c, member[c], client[c], worker[c])
  BY DEF RestInv
<1> QED BY <1>2, <1>3, <1>4, ToldRest

LEMMA QuitNextRest ==
    ASSUME IInv, RestInv, NEW c \in Connections, QuitNextThread(c)
    PROVE  RestInv'
<1> DEFINE w == [worker[c] EXCEPT !.exit = TRUE]
<1>1. w.exit /\ w.thread = worker[c].thread /\ w.streamId = worker[c].streamId
      /\ w.protocolEnded = worker[c].protocolEnded
      /\ worker' = [worker EXCEPT ![c] = w]
  BY WorkerType DEF WorkerStates, QuitNextThread, IInv, TypeOK
<1> HIDE DEF w
<1>2. UNCHANGED << member, client, posts >>
      /\ \A d \in Connections : worker'[d] = IF d = c THEN w ELSE worker[d]
  BY <1>1 DEF QuitNextThread, IInv, TypeOK, registryVars
<1>3. RestFits(posts, c, member[c], client[c], worker[c])
  BY DEF RestInv
<1>4. RestFits(posts, c, member[c], client[c], w)
  BY <1>1, <1>3 DEF RestFits, InboxFits, WakesUp, StrayFits, Leaves
<1> QED BY <1>2, <1>4 DEF RestInv

-----------------------------------------------------------------------------
(* The theorems.                                                           *)

LEMMA RestInit ==
    ASSUME ServerInit
    PROVE  RestInv
BY NoOneRests DEF ServerInit, RestInv, NoClient

LEMMA RestStep ==
    ASSUME IInv, TurnsInv, RestInv, [ServerNext]_vars
    PROVE  RestInv'
<1>1. CASE \E c \in Connections, u \in Uris : Accept(c, u)
  BY <1>1, AcceptRest
<1>2. CASE \E c \in Connections : Depart(c)
  BY <1>2, DepartRest
<1>3. ASSUME NEW c \in Connections, WorkerStep(c)
      PROVE  RestInv'
  <2>1. CASE \/ HandleOpen(c) \/ HandleData(c) \/ HandleQuit(c)
             \/ HandleBind(c) \/ HandleSecondBind(c)
    BY <2>1, OpenRest, DataRest, QuitRest, BindRest, SecondBindRest
  <2>2. CASE NoticeDisconnection(c) \/ EndOfDrain(c) \/ EndThread(c)
    BY <2>2, NoticeRest, DrainRest, EndThreadRest
  <2>3. CASE \E u \in Uris : CloseConnections(c, u)
    BY <2>3, CloseConnectionsRest
  <2> QED BY <1>3, <2>1, <2>2, <2>3 DEF WorkerStep
<1>4. CASE DeliverStep
  <2>1. CASE \E c \in Sources : DeliverAddSource(c) \/ DeliverData(c)
    BY <2>1, AddSourceRest, DataDeliveredRest
  <2>2. CASE \E c \in Observers : DeliverAddObserver(c)
    BY <2>2, AddObserverRest
  <2>3. CASE \E c \in Connections : \/ DeliverRemove(c) \/ DeliverQuit(c)
                                   \/ DeliverNothing(c) \/ DeliverRegister(c)
    BY <2>3, RemoveRest, DeliverQuitRest, DeliverNothingRest, DeliverRegisterRest
  <2> QED BY <1>4, <2>1, <2>2, <2>3 DEF DeliverStep
<1>5. CASE \E u \in Uris : AppCloseStream(u)
  BY <1>5, AppCloseRest
<1>6. CASE \E c \in Connections : QuitNextThread(c)
  BY <1>6, QuitNextRest
<1>7. CASE Shutdown \/ ShutdownDone \/ Rest \/ UNCHANGED vars
  <2>1. UNCHANGED << member, client, worker, posts >>
    BY <1>7 DEF Shutdown, ShutdownDone, Rest, vars, serverVars, registryVars
  <2> QED BY <2>1 DEF RestInv
<1> QED BY <1>1, <1>2, <1>3, <1>4, <1>5, <1>6, <1>7 DEF ServerNext, ShutdownStep

LEMMA RestInvariance == ServerSpec => [](IInv /\ TurnsInv /\ RestInv)
<1>1. ServerInit => IInv /\ TurnsInv /\ RestInv
  BY InvInit, TurnsInit, RestInit
<1>2. IInv /\ TurnsInv /\ RestInv /\ [ServerNext]_vars => (IInv /\ TurnsInv /\ RestInv)'
  BY InvStep, TurnsStep, RestStep
<1> QED BY <1>1, <1>2, PTL DEF ServerSpec

\* Where nothing is on its way between them, worker and dispatcher agree on the stream
\* that a connection belongs to: no QUIT, crash or end of a thread is lost on the way.
\* A source that is not in it any more will hear so, unless another with its descriptor
\* was removed in its place (ReceiveBuffer::removeSource).
THEOREM SamePictureKept == ServerSpec => []SamePicture
<1>1. IInv /\ RestInv => SamePicture
  <2> SUFFICES ASSUME IInv, RestInv, NEW c \in Connections,
                      \A n \in 1 .. Len(posts) : posts[n].c = c =>
                          posts[n].slot \notin {"addSource", "addObserver", "remove"}
               PROVE  IF Started(c)
                      THEN /\ Connected(c, worker[c].streamId)
                           /\ c \in Sources => \/ Joined(c, worker[c].streamId)
                                               \/ Told(c) \/ client[c].shared
                      ELSE member[c] = Closed
    BY DEF SamePicture
  <2>1. NoMark(posts, c, 1, Len(posts))
    BY DEF NoMark, Mark, Joins
  <2>2. IF Started(c) THEN Connected(c, worker[c].streamId) ELSE member[c] = Closed
    BY <2>1 DEF IInv, Fits, NoneFits, Started, Connected
  <2>3. ASSUME Started(c), c \in Sources, ~ Joined(c, worker[c].streamId), ~ client[c].shared
        PROVE  Told(c)
    <3>1. StrayFits(posts, c, member[c], worker[c])
      BY <2>3 DEF RestInv, RestFits
    <3>2. member[c].phase = "stray" /\ member[c].uri = worker[c].streamId
      BY <2>2, <2>3 DEF IInv, TypeOK, MemberStates, Closed, Connected, Joined
    <3>3. worker[c].thread # "off"
      BY <2>3, NoWorkerType DEF IInv, ThreadFits, Started
    <3> QED BY <2>1, <2>3, <3>1, <3>2, <3>3 DEF StrayFits, Leaves, Posted, Told
  <2> QED BY <2>2, <2>3
<1> QED BY <1>1, RestInvariance, PTL

\* At rest no thread is in the middle of the messages of a client: it can read the next.
LEMMA NobodyDrains ==
    ASSUME IInv, RestInv, NEW c \in Connections, AtRest(c)
    PROVE  worker[c].thread # "draining"
<1> SUFFICES ASSUME worker[c].thread = "draining"
             PROVE  FALSE
  OBVIOUS
<1> DEFINE s == client[c].inbox
<1>1. s # << >> /\ ~ CanRead(c)
  BY DEF AtRest
<1>2. s \in Seq(Messages)
  BY WorkerType DEF ClientStates, Messages
<1>3. InboxFits(client[c], worker[c])
  BY DEF RestInv, RestFits
<1>4. CASE Started(c)
  <2>1. Body(s)
    BY <1>1, <1>3, <1>4 DEF InboxFits, Started
  <2>2. Head(s) \in {"data", "bind", "quit"}
    BY <1>1, <1>2, <2>1, BodyTail
  <2> HIDE DEF s
  <2> QED BY <1>1, <1>4, <2>2 DEF CanRead, s
<1>5. CASE ~ Started(c)
  <2>1. ~ worker[c].protocolEnded /\ Head(s) = "open"
    BY <1>1, <1>3, <1>5 DEF InboxFits, Started
  <2> QED BY <1>1, <1>5, <2>1 DEF CanRead
<1> QED BY <1>4, <1>5

\* When nothing is posted and c is at rest, its thread is gone or waits for its client,
\* which is connected, and it has not been told to leave.
LEMMA ThreadAtRest ==
    ASSUME IInv, RestInv, NEW c \in Connections, AtRest(c), posts = << >>,
           worker[c].thread # "off"
    PROVE  /\ worker[c].thread = "idle" /\ client[c].link = "up"
           /\ ~ Leaves(posts, c, worker[c]) /\ worker[c].closes = {}
<1>1. \A slot : ~ Posted(posts, slot, c)
  BY DEF Posted
<1>2. WakesUp(posts, c, worker[c])
  BY DEF RestInv, RestFits
<1>3. worker[c].thread \in {"off", "idle", "draining", "blocked"}
  BY WorkerType DEF WorkerStates
<1>4. worker[c].thread = "idle"
  BY <1>1, <1>2, <1>3, NobodyDrains DEF WakesUp
<1>5. ~ worker[c].exit /\ worker[c].closes = {}
      /\ (worker[c].connected => client[c].link = "up")
  BY <1>4 DEF AtRest
<1>6. ~ Leaves(posts, c, worker[c])
  BY <1>1, <1>5 DEF Leaves
<1> QED BY <1>2, <1>4, <1>5, <1>6 DEF WakesUp

\* With an empty queue workers and dispatcher have the same picture.
LEMMA SameAtRest ==
    ASSUME IInv, NEW c \in Connections, posts = << >>
    PROVE  /\ NoMark(posts, c, 1, Len(posts))
           /\ ~ Started(c) => member[c] = Closed
           /\ Started(c) => member[c].uri = worker[c].streamId
           /\ worker[c].thread = "off" => ~ Started(c)
<1>1. NoMark(posts, c, 1, Len(posts))
  BY DEF NoMark
<1> QED BY <1>1 DEF IInv, Fits, NoneFits, Started, ThreadFits, NoWorker

\* A client that has gone, by QUIT, by a crash or by a loss of the network that TCP
\* reports, is not a member of a stream any more when the threads of Server.cpp and
\* ServerWorker.cpp have come to rest: no post, signal or unread message of it is left
\* lying about.
THEOREM GoneClientsHaveLeft == ServerSpec => []GoneClientsLeave
<1>1. IInv /\ RestInv => GoneClientsLeave
  <2> SUFFICES ASSUME IInv, RestInv, main = "running", Quiet,
                      NEW c \in Connections, client[c].link = "down"
               PROVE  member[c] = Closed
    BY DEF GoneClientsLeave
  <2>1. posts = << >> /\ AtRest(c)
    BY DEF Quiet
  <2>2. worker[c].thread = "off"
    BY <2>1, ThreadAtRest
  <2> QED BY <2>1, <2>2, SameAtRest
<1> QED BY <1>1, RestInvariance, PTL

\* A source that was rejected, or whose stream was closed under it, has been
\* disconnected when the threads have come to rest: the signal that its stream is closed
\* gets to its worker, or its worker has left that stream before
\* (ServerWorker::closeConnections).  The exception is one that the dispatcher took for
\* another, whose worker was still there when it was accepted with the same descriptor.
THEOREM StraysHaveLeft == ServerSpec => []StraysLeave
<1>1. IInv /\ RestInv => StraysLeave
  <2> SUFFICES ASSUME IInv, RestInv, main = "running", Quiet,
                      NEW s \in Sources, member[s].phase = "stray", ~ client[s].shared
               PROVE  FALSE
    BY DEF StraysLeave
  <2>1. s \in Connections
    BY DEF Connections
  <2>2. posts = << >> /\ AtRest(s)
    BY <2>1 DEF Quiet
  <2>3. worker[s].thread # "off"
    BY <2>1, <2>2, SameAtRest DEF Closed
  <2>4. ~ Leaves(posts, s, worker[s]) /\ worker[s].closes = {}
    BY <2>1, <2>2, <2>3, ThreadAtRest
  <2>5. StrayFits(posts, s, member[s], worker[s])
    BY <2>1 DEF RestInv, RestFits
  <2> QED BY <2>1, <2>2, <2>3, <2>4, <2>5, SameAtRest DEF StrayFits
<1> QED BY <1>1, RestInvariance, PTL

\* ~Server waits for one thread after the other.  Whatever these are about, it comes to
\* its end, but for a thread that waits for the answer to a registration, which the
\* main thread does not give any more.
THEOREM ShutdownHasReturned == ServerSpec => []ShutdownReturns
<1>1. IInv /\ RestInv => ShutdownReturns
  <2> SUFFICES ASSUME IInv, RestInv, main = "stopping", Quiet
               PROVE  Deadlocked
    BY DEF ShutdownReturns
  <2>1. PICK c : c \in Connections /\ worker[c].thread # "off" /\ worker[c].exit
    BY DEF Quiet, Threads
  <2>2. AtRest(c)
    BY <2>1 DEF Quiet
  <2>3. worker[c].thread # "idle"
    BY <2>1, <2>2 DEF AtRest
  <2>4. worker[c].thread \in {"off", "idle", "draining", "blocked"}
    BY <2>1, WorkerType DEF WorkerStates
  <2>5. worker[c].thread = "blocked"
    BY <2>1, <2>2, <2>3, <2>4, NobodyDrains
  <2> QED BY <2>1, <2>5 DEF Deadlocked
<1> QED BY <1>1, RestInvariance, PTL

-----------------------------------------------------------------------------
(* TileDecoder: the inductive invariant                                    *)

Kinds == Samplings \cup {"rgba"}
Images == {content.imageData : content \in Contents} \cup [kind : Kinds, size : Int]
Formats == {content.format : content \in Contents} \cup Kinds
TileRecords == [width : Nat, height : Nat, format : Formats, imageData : Images]

TilesFit ==
    /\ tiles \in [Tiles -> TileRecords]
    /\ \A x \in Tiles : tiles[x].format = "jpeg" =>
         tiles[x].imageData.width \in Nat /\ tiles[x].imageData.height \in Nat

\* What a thread has found out about its tile, which nobody changes meanwhile.
DecodingFits(c, x) ==
    /\ c.at \in {"begin", "header", "image", "store"} /\ c.tile \in Tiles
    /\ c.at \in {"header", "image"} => x.format = "jpeg"
    /\ c.at = "image" => ~ HeaderThrows(x.imageData)
    /\ c.at = "store" =>
         c.decoded \in [kind : Kinds, size : Int] /\ c.decoded.kind # "jpeg"

CallFits(c) == c = Idle \/ DecodingFits(c, tiles[c.tile])

\* The pool's thread decodes the tile that was started, to RGBA.
PoolDecodes(c) ==
    /\ c # Idle /\ c.tile = started.tile
    /\ c.at # "store" => c.toYUV = FALSE
    /\ c.at = "store" =>
         LET x == started.was
         IN  /\ x.format = "jpeg" /\ ~ HeaderThrows(x.imageData) /\ x.imageData.image
             /\ c.decoded = Decompressed(x.imageData)

\* One thread decodes at a time: of the pool when the future is pending.
RunFits ==
    IF future = "running"
    THEN /\ started.tile \in Tiles /\ started.was = tiles[started.tile]
         /\ \E t \in Pool : PoolDecodes(calls[t])
              /\ \A s \in DecoderThreads \ {t} : calls[s] = Idle
    ELSE \A t \in Pool : calls[t] = Idle

OutcomeFits ==
    /\ future \in {"none", "running", "finished", "exception"}
    /\ future = "finished" => Decodable(started.was)
    /\ future = "exception" => ~ Decodable(started.was)

DecoderInv ==
    /\ TilesFit /\ DOMAIN calls = DecoderThreads
    /\ \A t \in DecoderThreads : CallFits(calls[t])
    /\ RunFits /\ OutcomeFits

LEMMA DecoderInvInit == DecoderInit => DecoderInv
<1>1. SUFFICES ASSUME DecoderInit
               PROVE  DecoderInv
  OBVIOUS
<1>2. TilesFit
  <2>1. ASSUME NEW x \in Tiles
        PROVE  /\ tiles[x] \in TileRecords
               /\ tiles[x].format = "jpeg" =>
                    tiles[x].imageData.width \in Nat /\ tiles[x].imageData.height \in Nat
    <3>1. PICK content \in Contents : tiles[x] = content
      BY <1>1 DEF DecoderInit
    <3>2. content.imageData \in Images /\ content.format \in Formats
      BY DEF Images, Formats
    <3>3. content \in TileRecords
      BY <3>2, DecoderAssumption DEF TileRecords
    <3> QED
      BY <3>1, <3>3, DecoderAssumption
  <2>2. DOMAIN tiles = Tiles /\ tiles = [x \in Tiles |-> tiles[x]]
    BY <1>1 DEF DecoderInit
  <2> QED
    BY <2>1, <2>2 DEF TilesFit
<1>3. DOMAIN calls = DecoderThreads /\ \A t \in DecoderThreads : calls[t] = Idle
  BY <1>1 DEF DecoderInit
<1>4. future = "none"
  BY <1>1 DEF DecoderInit
<1> QED
  BY <1>2, <1>3, <1>4 DEF DecoderInv, CallFits, RunFits, OutcomeFits, DecoderThreads

-----------------------------------------------------------------------------
(* TileDecoder: the steps of a thread that decodes                         *)

LEMMA OneDecodes ==
    ASSUME DecoderInv, NEW t \in DecoderThreads, calls[t] # Idle
    PROVE  /\ \A s \in DecoderThreads \ {t} : calls[s] = Idle
           /\ t \in Pool <=> future = "running"
           /\ t \in Pool => PoolDecodes(calls[t]) /\ started.was = tiles[started.tile]
           /\ DecodingFits(calls[t], tiles[calls[t].tile])
<1>1. DecodingFits(calls[t], tiles[calls[t].tile])
  BY DEF DecoderInv, CallFits
<1>2. CASE future = "running"
  <2>1. PICK s \in Pool : PoolDecodes(calls[s]) /\ \A r \in DecoderThreads \ {s} : calls[r] = Idle
    BY <1>2 DEF DecoderInv, RunFits
  <2>2. s = t
    BY <2>1
  <2> QED
    BY <1>1, <1>2, <2>1, <2>2 DEF DecoderInv, RunFits
<1>3. CASE future # "running"
  <2>1. \A s \in Pool : calls[s] = Idle
    BY <1>3 DEF DecoderInv, RunFits
  <2> QED
    BY <1>1, <1>3, <2>1 DEF DecoderThreads
<1> QED
  BY <1>2, <1>3

\* The call goes on.
LEMMA CallGoesOn ==
    ASSUME DecoderInv, NEW t \in DecoderThreads, calls[t] # Idle, NEW c, c # Idle,
           calls' = [calls EXCEPT ![t] = c], UNCHANGED <<tiles, future, started>>,
           DecodingFits(c, tiles[c.tile]), t \in Pool => PoolDecodes(c)
    PROVE  DecoderInv'
<1>1. DOMAIN calls' = DecoderThreads /\ calls'[t] = c
      /\ \A s \in DecoderThreads \ {t} : calls'[s] = Idle
  BY OneDecodes DEF DecoderInv
<1>2. TilesFit' /\ OutcomeFits'
  BY DEF DecoderInv, TilesFit, OutcomeFits
<1>3. \A s \in DecoderThreads : CallFits(calls[s])'
  BY <1>1 DEF CallFits
<1>4. t \in Pool => PoolDecodes(calls[t])'
  BY <1>1 DEF PoolDecodes
<1>5. RunFits'
  <2>1. CASE future = "running"
    BY <1>1, <1>4, <2>1, OneDecodes DEF DecoderInv, RunFits
  <2>2. CASE future # "running"
    BY <1>1, <2>2, OneDecodes DEF RunFits, DecoderThreads
  <2> QED
    BY <2>1, <2>2
<1> QED
  BY <1>1, <1>2, <1>3, <1>5 DEF DecoderInv

\* The call returns or throws.
LEMMA CallIsOver ==
    ASSUME DecoderInv, NEW t \in DecoderThreads, calls[t] # Idle,
           calls' = [calls EXCEPT ![t] = Idle], UNCHANGED started, TilesFit',
           NEW f \in {"finished", "exception"}, future' = IF t \in Pool THEN f ELSE future,
           t \in Pool => (f = "finished" <=> Decodable(started.was))
    PROVE  DecoderInv'
<1>1. DOMAIN calls' = DecoderThreads /\ \A s \in DecoderThreads : calls'[s] = Idle
  BY OneDecodes DEF DecoderInv
<1>2. \A s \in DecoderThreads : CallFits(calls[s])'
  BY <1>1 DEF CallFits
<1>3. future' # "running"
  BY OneDecodes
<1>4. RunFits'
  BY <1>1, <1>3 DEF RunFits, DecoderThreads
<1>5. OutcomeFits'
  BY DEF OutcomeFits, DecoderInv
<1> QED
  BY <1>1, <1>2, <1>4, <1>5 DEF DecoderInv

LEMMA LookAtFormatKeeps ==
    ASSUME DecoderInv, NEW t \in DecoderThreads, LookAtFormat(t), UNCHANGED started
    PROVE  DecoderInv'
<1>1. calls[t].at = "begin" /\ calls[t] # Idle
  BY DEF LookAtFormat, Idle
<1>2. DecodingFits(calls[t], tiles[calls[t].tile])
  BY <1>1, OneDecodes
<1>3. CASE tiles[calls[t].tile].format # "jpeg"
  <2>1. calls' = [calls EXCEPT ![t] = Idle] /\ future' = (IF t \in Pool THEN "finished" ELSE future)
        /\ tiles' = tiles
    BY <1>3 DEF LookAtFormat, Return
  <2>2. TilesFit'
    BY <2>1 DEF DecoderInv, TilesFit
  <2>3. t \in Pool => Decodable(started.was)
    BY <1>1, <1>3, OneDecodes DEF PoolDecodes, Decodable
  <2> QED
    BY <1>1, <2>1, <2>2, <2>3, CallIsOver
<1>4. CASE tiles[calls[t].tile].format = "jpeg"
  <2>1. PICK c : c = [calls[t] EXCEPT !.at = "header"]
    OBVIOUS
  <2>2. calls' = [calls EXCEPT ![t] = c] /\ UNCHANGED <<tiles, future>>
    BY <1>4, <2>1 DEF LookAtFormat, Continue
  <2>3. c.at = "header" /\ c.tile = calls[t].tile /\ c.toYUV = calls[t].toYUV
    BY <1>1, <2>1
  <2>4. c # Idle
    BY <2>3 DEF Idle
  <2>5. DecodingFits(c, tiles[c.tile])
    BY <1>2, <1>4, <2>3 DEF DecodingFits
  <2>6. t \in Pool => PoolDecodes(c)
    BY <1>1, <2>3, <2>4, OneDecodes DEF PoolDecodes
  <2> QED
    BY <1>1, <2>2, <2>4, <2>5, <2>6, CallGoesOn
<1> QED
  BY <1>3, <1>4

LEMMA DecompressHeaderKeeps ==
    ASSUME DecoderInv, NEW t \in DecoderThreads, DecompressHeader(t), UNCHANGED started
    PROVE  DecoderInv'
<1>1. calls[t].at = "header" /\ calls[t] # Idle
  BY DEF DecompressHeader, Idle
<1>2. DecodingFits(calls[t], tiles[calls[t].tile])
  BY <1>1, OneDecodes
<1>3. CASE HeaderThrows(tiles[calls[t].tile].imageData)
  <2>1. calls' = [calls EXCEPT ![t] = Idle] /\ future' = (IF t \in Pool THEN "exception" ELSE future)
        /\ tiles' = tiles
    BY <1>3 DEF DecompressHeader, Throw
  <2>2. TilesFit'
    BY <2>1 DEF DecoderInv, TilesFit
  <2>3. ASSUME t \in Pool
        PROVE  ~ Decodable(started.was)
    <3>1. started.was = tiles[calls[t].tile]
      BY <1>1, <2>3, OneDecodes DEF PoolDecodes
    <3> QED
      BY <1>1, <1>2, <1>3, <3>1 DEF DecodingFits, Decodable, HeaderThrows
  <2> QED
    BY <1>1, <2>1, <2>2, <2>3, CallIsOver
<1>4. CASE ~ HeaderThrows(tiles[calls[t].tile].imageData)
  <2>1. PICK c : c = [calls[t] EXCEPT !.at = "image"]
    OBVIOUS
  <2>2. calls' = [calls EXCEPT ![t] = c] /\ UNCHANGED <<tiles, future>>
    BY <1>4, <2>1 DEF DecompressHeader, Continue
  <2>3. c.at = "image" /\ c.tile = calls[t].tile /\ c.toYUV = calls[t].toYUV
    BY <1>1, <2>1
  <2>4. c # Idle
    BY <2>3 DEF Idle
  <2>5. DecodingFits(c, tiles[c.tile])
    BY <1>1, <1>2, <1>4, <2>3 DEF DecodingFits
  <2>6. t \in Pool => PoolDecodes(c)
    BY <1>1, <2>3, <2>4, OneDecodes DEF PoolDecodes
  <2> QED
    BY <1>1, <2>2, <2>4, <2>5, <2>6, CallGoesOn
<1> QED
  BY <1>3, <1>4

\* What a JPEG is decoded to.
LEMMA DecodedIs ==
    ASSUME NEW data, data.width \in Nat, data.height \in Nat, ~ HeaderThrows(data)
    PROVE  /\ Decompressed(data) \in [kind : Kinds, size : Int] /\ Decompressed(data).kind # "jpeg"
           /\ Planes(data) \in [kind : Kinds, size : Int] /\ Planes(data).kind # "jpeg"
<1>1. PICK w \in Int, h \in Int : w = data.width /\ h = data.height
  OBVIOUS
<1>2. PICK a \in Int : a = w * h
  OBVIOUS
<1>3. 4 * data.width * data.height \in Int
  BY <1>1
<1>4. data.sampling \in {"yuv444", "yuv422", "yuv420"}
  BY DEF HeaderThrows, Samplings
<1>5. Half(data.width) \in Int /\ Half(data.height) \in Int
  BY <1>1 DEF Half
<1>6. PICK v \in Int, u \in Int : v = Half(data.width) /\ u = Half(data.height)
  BY <1>5
<1>7. PICK b \in Int, c \in Int : b = v * h /\ c = v * u
  OBVIOUS
<1>8. Planes(data) = [kind |-> data.sampling,
         size |-> a + 2 * CASE data.sampling = "yuv444" -> a
                            [] data.sampling = "yuv422" -> b
                            [] data.sampling = "yuv420" -> c]
  BY <1>1, <1>2, <1>6, <1>7 DEF Planes
<1>9. PICK d \in Int : d = CASE data.sampling = "yuv444" -> a
                            [] data.sampling = "yuv422" -> b
                            [] data.sampling = "yuv420" -> c
  BY <1>4
<1>10. Planes(data) = [kind |-> data.sampling, size |-> a + 2 * d]
  BY <1>8, <1>9
<1>11. PICK k \in Kinds, n \in Int : k = data.sampling /\ n = a + 2 * d
  BY <1>4 DEF Kinds, Samplings
<1>12. Planes(data) = [kind |-> k, size |-> n] /\ k # "jpeg"
  BY <1>4, <1>10, <1>11
<1>13. Planes(data) \in [kind : Kinds, size : Int] /\ Planes(data).kind # "jpeg"
  BY ONLY <1>12
<1>14. PICK m \in Int : m = 4 * data.width * data.height
  BY <1>3
<1>15. Decompressed(data) = [kind |-> "rgba", size |-> m]
  BY <1>14 DEF Decompressed
<1>16. PICK r \in Kinds : r = "rgba"
  BY DEF Kinds
<1>17. Decompressed(data) \in [kind : Kinds, size : Int] /\ Decompressed(data).kind # "jpeg"
  BY <1>15, <1>16
<1> QED
  BY <1>13, <1>17

LEMMA DecompressImageKeeps ==
    ASSUME DecoderInv, NEW t \in DecoderThreads, DecompressImage(t), UNCHANGED started
    PROVE  DecoderInv'
<1>1. calls[t].at = "image" /\ calls[t] # Idle
  BY DEF DecompressImage, Idle
<1>2. DecodingFits(calls[t], tiles[calls[t].tile])
  BY <1>1, OneDecodes
<1>3. PICK x, data : x = tiles[calls[t].tile] /\ data = x.imageData
  OBVIOUS
<1>4. calls[t].tile \in Tiles /\ x.format = "jpeg" /\ ~ HeaderThrows(data)
  BY <1>1, <1>2, <1>3 DEF DecodingFits
<1>5. t \in Pool => started.was = x /\ calls[t].tile = started.tile /\ calls[t].toYUV = FALSE
  BY <1>1, <1>3, OneDecodes DEF PoolDecodes
<1>6. CASE ~ data.image
  <2>1. calls' = [calls EXCEPT ![t] = Idle] /\ future' = (IF t \in Pool THEN "exception" ELSE future)
        /\ tiles' = tiles
    BY <1>3, <1>6 DEF DecompressImage, Throw
  <2>2. TilesFit'
    BY <2>1 DEF DecoderInv, TilesFit
  <2>3. t \in Pool => ~ Decodable(started.was)
    BY <1>3, <1>4, <1>5, <1>6 DEF Decodable
  <2> QED
    BY <1>1, <2>1, <2>2, <2>3, CallIsOver
<1>7. CASE data.image
  <2>1. data.width \in Nat /\ data.height \in Nat
    BY <1>3, <1>4 DEF DecoderInv, TilesFit
  <2>2. PICK c : c = [at |-> "store", tile |-> calls[t].tile,
                      decoded |-> IF calls[t].toYUV THEN Planes(data) ELSE Decompressed(data)]
    OBVIOUS
  <2>3. calls' = [calls EXCEPT ![t] = c] /\ UNCHANGED <<tiles, future>>
    BY <1>3, <1>7, <2>2 DEF DecompressImage, Continue
  <2>4. c.at = "store" /\ c.tile = calls[t].tile
        /\ c.decoded = IF calls[t].toYUV THEN Planes(data) ELSE Decompressed(data)
    BY <2>2
  <2>5. c # Idle
    BY <2>4 DEF Idle
  <2>6. c.decoded \in [kind : Kinds, size : Int] /\ c.decoded.kind # "jpeg"
    BY <1>4, <2>1, <2>4, DecodedIs
  <2>7. DecodingFits(c, tiles[c.tile])
    BY <1>4, <2>4, <2>6 DEF DecodingFits
  <2>8. t \in Pool => PoolDecodes(c)
    BY <1>3, <1>4, <1>5, <1>7, <2>4, <2>5 DEF PoolDecodes
  <2> QED
    BY <1>1, <2>3, <2>5, <2>7, <2>8, CallGoesOn
<1> QED
  BY <1>6, <1>7

\* A decoded image has the size that is expected just when it has the
\* dimensions of the tile.
LEMMA SizeTellsDimensions ==
    ASSUME NEW x, NEW data, x.width \in Nat, x.height \in Nat,
           data.width \in Nat, data.height \in Nat
    PROVE  Decompressed(data).size = ExpectedSize("rgba", x)
             <=> data.width * data.height = x.width * x.height
<1>1. PICK w \in Nat, h \in Nat, v \in Nat, u \in Nat :
        w = x.width /\ h = x.height /\ v = data.width /\ u = data.height
  OBVIOUS
<1>2. ExpectedSize("rgba", x) = (w * h) * 4
  BY <1>1 DEF ExpectedSize
<1>3. Decompressed(data).size = 4 * v * u
  BY <1>1 DEF Decompressed
<1>4. 4 * v * u = (v * u) * 4
  OBVIOUS
<1>5. PICK a \in Nat, b \in Nat : a = w * h /\ b = v * u
  OBVIOUS
<1>6. b * 4 = a * 4 <=> b = a
  OBVIOUS
<1> QED
  BY <1>1, <1>2, <1>3, <1>4, <1>5, <1>6

LEMMA StoreKeeps ==
    ASSUME DecoderInv, NEW t \in DecoderThreads, Store(t), UNCHANGED started
    PROVE  DecoderInv'
<1>1. calls[t].at = "store" /\ calls[t] # Idle
  BY DEF Store, Idle
<1>2. DecodingFits(calls[t], tiles[calls[t].tile])
  BY <1>1, OneDecodes
<1>3. PICK x, y, d : y = calls[t].tile /\ x = tiles[y] /\ d = calls[t].decoded
  OBVIOUS
<1>4. y \in Tiles /\ d \in [kind : Kinds, size : Int] /\ d.kind # "jpeg"
  BY <1>1, <1>2, <1>3 DEF DecodingFits
<1>5. x \in TileRecords
  BY <1>3, <1>4 DEF DecoderInv, TilesFit
<1>6. t \in Pool => (d.size = ExpectedSize(d.kind, x) <=> Decodable(started.was))
  <2>1. SUFFICES ASSUME t \in Pool
                 PROVE  d.size = ExpectedSize(d.kind, x) <=> Decodable(started.was)
    OBVIOUS
  <2>2. started.was = x /\ x.format = "jpeg" /\ ~ HeaderThrows(x.imageData) /\ x.imageData.image
        /\ d = Decompressed(x.imageData)
    BY <1>1, <1>3, <2>1, OneDecodes DEF PoolDecodes
  <2>3. x.imageData.width \in Nat /\ x.imageData.height \in Nat
    BY <1>3, <1>4, <2>2 DEF DecoderInv, TilesFit
  <2>4. x.width \in Nat /\ x.height \in Nat
    BY <1>5 DEF TileRecords
  <2>5. PICK data : data = x.imageData
    OBVIOUS
  <2>6. d.size = ExpectedSize("rgba", x) <=> data.width * data.height = x.width * x.height
    BY <2>2, <2>3, <2>4, <2>5, SizeTellsDimensions
  <2>7. d.kind = "rgba"
    BY <2>2 DEF Decompressed
  <2>8. Decodable(x) <=> data.width * data.height = x.width * x.height
    BY <2>2, <2>5 DEF Decodable, HeaderThrows
  <2> QED
    BY <2>2, <2>6, <2>7, <2>8
<1>7. CASE d.size # ExpectedSize(d.kind, x)
  <2>1. calls' = [calls EXCEPT ![t] = Idle] /\ future' = (IF t \in Pool THEN "exception" ELSE future)
        /\ tiles' = tiles
    BY <1>3, <1>7 DEF Store, Throw
  <2>2. TilesFit'
    BY <2>1 DEF DecoderInv, TilesFit
  <2> QED
    BY <1>1, <1>6, <1>7, <2>1, <2>2, CallIsOver
<1>8. CASE d.size = ExpectedSize(d.kind, x)
  <2>1. calls' = [calls EXCEPT ![t] = Idle] /\ future' = (IF t \in Pool THEN "finished" ELSE future)
    BY <1>3, <1>8 DEF Store, Return
  <2>2. tiles' = [tiles EXCEPT ![y].imageData = d, ![y].format = d.kind]
    BY <1>3, <1>8 DEF Store
  <2>3. PICK z : z = [width |-> x.width, height |-> x.height, format |-> d.kind, imageData |-> d]
    OBVIOUS
  <2>4. PICK x1 : x1 = [x EXCEPT !.imageData = d]
    OBVIOUS
  <2>5. x = [width |-> x.width, height |-> x.height, format |-> x.format, imageData |-> x.imageData]
    BY <1>5 DEF TileRecords
  <2>6. x1 = [width |-> x.width, height |-> x.height, format |-> x.format, imageData |-> d]
    BY <2>4, <2>5
  <2>7. [x1 EXCEPT !.format = d.kind] = z
    BY <2>3, <2>6
  <2>8. tiles' = [tiles EXCEPT ![y] = z]
    BY <1>3, <1>4, <2>2, <2>4, <2>7 DEF DecoderInv, TilesFit
  <2>9. z \in TileRecords /\ z.format # "jpeg"
    BY <1>4, <1>5, <2>3 DEF TileRecords, Images, Formats
  <2>10. TilesFit'
    BY <1>4, <2>8, <2>9 DEF DecoderInv, TilesFit
  <2> QED
    BY <1>1, <1>6, <1>8, <2>1, <2>10, CallIsOver
<1> QED
  BY <1>7, <1>8

-----------------------------------------------------------------------------
(* TileDecoder: the steps of the main thread                               *)

LEMMA MainDecodesKeeps ==
    ASSUME DecoderInv, MainIsFree, ~ IsRunning, NEW x \in Tiles, NEW b,
           Begin("main", x, b), UNCHANGED <<tiles, future, started>>
    PROVE  DecoderInv'
<1>1. future # "running" /\ \A t \in Pool : calls[t] = Idle
  BY DEF DecoderInv, RunFits, IsRunning
<1>2. PICK c : c = [at |-> "begin", tile |-> x, toYUV |-> b]
  OBVIOUS
<1>3. calls' = [calls EXCEPT !["main"] = c]
  BY <1>2 DEF Begin
<1>4. DOMAIN calls' = DecoderThreads /\ calls'["main"] = c /\ \A t \in Pool : calls'[t] = Idle
  BY <1>1, <1>3, DecoderAssumption DEF DecoderInv, DecoderThreads
<1>5. DecodingFits(c, tiles[c.tile])
  BY <1>2 DEF DecodingFits
<1>6. \A t \in DecoderThreads : CallFits(calls[t])'
  BY <1>4, <1>5 DEF CallFits, DecoderThreads
<1>7. TilesFit' /\ OutcomeFits' /\ RunFits'
  BY <1>1, <1>4 DEF DecoderInv, TilesFit, OutcomeFits, RunFits
<1> QED
  BY <1>4, <1>6, <1>7 DEF DecoderInv

LEMMA StartDecodingKeeps ==
    ASSUME DecoderInv, NEW x \in Tiles, StartDecoding(x)
    PROVE  DecoderInv'
<1>1. future # "running" /\ \A s \in Pool : calls[s] = Idle
  BY DEF StartDecoding, DecoderInv, RunFits, IsRunning
<1>2. calls["main"] = Idle
  BY DEF StartDecoding, MainIsFree
<1>3. PICK t \in Pool : Begin(t, x, FALSE)
  BY DEF StartDecoding
<1>4. PICK c : c = [at |-> "begin", tile |-> x, toYUV |-> FALSE]
  OBVIOUS
<1>5. calls' = [calls EXCEPT ![t] = c]
  BY <1>3, <1>4 DEF Begin
<1>6. t \in DecoderThreads
  BY DEF DecoderThreads
<1>7. DOMAIN calls' = DecoderThreads /\ calls'[t] = c
      /\ \A s \in DecoderThreads \ {t} : calls'[s] = Idle
  BY <1>1, <1>2, <1>5, <1>6 DEF DecoderInv, DecoderThreads
<1>8. tiles' = tiles /\ future' = "running" /\ started' = [tile |-> x, was |-> tiles[x]]
  BY DEF StartDecoding
<1>9. started'.tile = x /\ started'.was = tiles[x]
  BY <1>8
<1>10. c # Idle /\ c.at = "begin" /\ c.tile = x /\ c.toYUV = FALSE
  <2>1. c.at = "begin" /\ c.tile = x /\ c.toYUV = FALSE
    BY <1>4
  <2> QED
    BY <2>1 DEF Idle
<1>11. DecodingFits(c, tiles[c.tile])
  BY <1>10 DEF DecodingFits
<1>12. \A s \in DecoderThreads : CallFits(calls[s])'
  BY <1>7, <1>8, <1>11 DEF CallFits
<1>13. PoolDecodes(calls[t])'
  BY <1>7, <1>9, <1>10 DEF PoolDecodes
<1>14. RunFits'
  BY <1>7, <1>8, <1>9, <1>13 DEF RunFits
<1>15. TilesFit' /\ OutcomeFits'
  BY <1>8 DEF DecoderInv, TilesFit, OutcomeFits
<1> QED
  BY <1>7, <1>12, <1>14, <1>15 DEF DecoderInv

LEMMA ReceiveKeeps ==
    ASSUME DecoderInv, NEW x \in Tiles, Receive(x)
    PROVE  DecoderInv'
<1>1. future # "running" /\ calls["main"] = Idle /\ \A s \in Pool : calls[s] = Idle
  BY DEF Receive, MainIsFree, DecoderInv, RunFits, IsRunning
<1>2. PICK content \in Contents : tiles' = [tiles EXCEPT ![x] = content]
  BY DEF Receive
<1>3. UNCHANGED <<calls, future, started>>
  BY DEF Receive
<1>4. content.imageData \in Images /\ content.format \in Formats
  BY DEF Images, Formats
<1>5. content \in TileRecords
  BY <1>4, DecoderAssumption DEF TileRecords
<1>6. content.format = "jpeg" => content.imageData.width \in Nat /\ content.imageData.height \in Nat
  BY DecoderAssumption
<1>7. TilesFit'
  BY <1>2, <1>5, <1>6 DEF DecoderInv, TilesFit
<1>8. \A s \in DecoderThreads : CallFits(calls[s])'
  BY <1>1, <1>3 DEF CallFits, DecoderThreads
<1>9. RunFits' /\ OutcomeFits'
  BY <1>1, <1>3 DEF DecoderInv, RunFits, OutcomeFits
<1> QED
  BY <1>3, <1>7, <1>8, <1>9 DEF DecoderInv

LEMMA DecoderStutters ==
    ASSUME DecoderInv, UNCHANGED <<tiles, calls, future, started>>
    PROVE  DecoderInv'
<1>1. TilesFit' /\ OutcomeFits'
  BY DEF DecoderInv, TilesFit, OutcomeFits
<1>2. \A s \in DecoderThreads : CallFits(calls[s])'
  BY DEF DecoderInv, CallFits
<1>3. \A s \in Pool : PoolDecodes(calls[s]) => PoolDecodes(calls[s])'
  BY DEF PoolDecodes
<1>4. RunFits'
  BY <1>3 DEF DecoderInv, RunFits
<1> QED
  BY <1>1, <1>2, <1>4 DEF DecoderInv

LEMMA DecoderInvNext == DecoderInv /\ [DecoderNext]_decoderVars => DecoderInv'
<1>1. SUFFICES ASSUME DecoderInv, [DecoderNext]_decoderVars
               PROVE  DecoderInv'
  OBVIOUS
<1>2. ASSUME NEW x \in Tiles, Decode(x)
      PROVE  DecoderInv'
  BY <1>1, <1>2, MainDecodesKeeps DEF Decode
<1>3. ASSUME NEW x \in Tiles, DecodeToYUV(x)
      PROVE  DecoderInv'
  BY <1>1, <1>3, MainDecodesKeeps DEF DecodeToYUV
<1>4. ASSUME NEW x \in Tiles, StartDecoding(x)
      PROVE  DecoderInv'
  BY <1>1, <1>4, StartDecodingKeeps
<1>5. ASSUME NEW x \in Tiles, Receive(x)
      PROVE  DecoderInv'
  BY <1>1, <1>5, ReceiveKeeps
<1>6. CASE WaitDecoding
  BY <1>1, <1>6, DecoderStutters DEF WaitDecoding
<1>7. CASE WaitReturns
  BY <1>1, <1>7, DecoderStutters DEF WaitReturns
<1>8. ASSUME NEW t \in DecoderThreads, DecodeTile(t)
      PROVE  DecoderInv'
  <2>1. UNCHANGED started
    BY <1>8 DEF DecodeTile
  <2>2. CASE LookAtFormat(t)
    BY <1>1, <2>1, <2>2, LookAtFormatKeeps
  <2>3. CASE DecompressHeader(t)
    BY <1>1, <2>1, <2>3, DecompressHeaderKeeps
  <2>4. CASE DecompressImage(t)
    BY <1>1, <2>1, <2>4, DecompressImageKeeps
  <2>5. CASE Store(t)
    BY <1>1, <2>1, <2>5, StoreKeeps
  <2> QED
    BY <1>8, <2>2, <2>3, <2>4, <2>5 DEF DecodeTile
<1>9. CASE UNCHANGED decoderVars
  BY <1>1, <1>9, DecoderStutters DEF decoderVars
<1> QED
  BY <1>1, <1>2, <1>3, <1>4, <1>5, <1>6, <1>7, <1>8, <1>9 DEF DecoderNext, Main

(* waitDecoding returns for a tile that was decoded or was no JPEG, and    *)
(* throws for one that could not be decoded, whoever decoded other tiles   *)
(* with the same decompressor before.                                      *)
THEOREM WaitTellsTheOutcome == DecoderSpec => WaitTellsOutcome
<1>1. DecoderInit => DecoderInv
  BY DecoderInvInit
<1>2. DecoderInv /\ [DecoderNext]_decoderVars => DecoderInv'
  BY DecoderInvNext
<1>3. ASSUME DecoderInv, [DecoderNext]_decoderVars
      PROVE  [waiting /\ ~waiting' =>
                \/ future = "none"
                \/ future = "finished" /\ Decodable(started.was)
                \/ future = "exception" /\ ~Decodable(started.was)]_decoderVars
  <2>1. SUFFICES ASSUME waiting, ~ waiting', DecoderNext
                 PROVE  \/ future = "none"
                        \/ future = "finished" /\ Decodable(started.was)
                        \/ future = "exception" /\ ~Decodable(started.was)
    BY <1>3 DEF decoderVars
  <2>2. ~ Main /\ ~ WaitDecoding
    BY <2>1 DEF Main, WaitDecoding, Decode, DecodeToYUV, StartDecoding, Receive, MainIsFree
  <2>3. \A t \in DecoderThreads : ~ DecodeTile(t)
    BY <2>1 DEF DecodeTile
  <2>4. WaitReturns
    BY <2>1, <2>2, <2>3 DEF DecoderNext
  <2> QED
    BY <1>3, <2>4 DEF WaitReturns, IsRunning, DecoderInv, OutcomeFits
<1> QED
  BY <1>1, <1>2, <1>3, PTL DEF DecoderSpec, WaitTellsOutcome

-----------------------------------------------------------------------------
(* SimpleStreamer: the inductive invariant.  An application sends its      *)
(* messages in the order of a script: of each turn the images of all       *)
(* passes, and that the frame is finished.  How far the server has come in *)
(* it is seen in the source buffer, and how far the application, in plan   *)
(* and finished; what is on the wire is the script in between.             *)

Listed(w) == \E S : w \in Seq(S)

Places(o) == [turn : Nat \ {0}, image : 1 .. Len(Passes(o)) + 1]
FirstPlace == [turn |-> 1, image |-> 1]

\* The message that the script has at place p, and the place after it.
Due(p, o) ==
    IF p.image > Len(Passes(o)) THEN [type |-> "finish"]
    ELSE [type |-> "image", tiles |-> TilesOf(Passes(o)[p.image], p.turn)]

Following(p, o) ==
    IF p.image > Len(Passes(o)) THEN [turn |-> p.turn + 1, image |-> 1]
    ELSE [turn |-> p.turn, image |-> p.image + 1]

\* w is the script from p to q; at are the places of its messages.
ChainAt(w, at, p, q, o) ==
    /\ at \in [1 .. Len(w) + 1 -> Places(o)]
    /\ at[1] = p /\ at[Len(w) + 1] = q
    /\ \A i \in 1 .. Len(w) : w[i] = Due(at[i], o) /\ at[i + 1] = Following(at[i], o)
    /\ \A i \in 1 .. Len(w) + 1 : at[i].turn <= q.turn
    /\ \A i \in 1 .. Len(w) : at[i].image > Len(Passes(o)) => at[i].turn < q.turn

Chain(w, p, q, o) == Listed(w) /\ \E at : ChainAt(w, at, p, q, o)

OpenMessage == [type |-> "open"]
QuitMessage == [type |-> "quit"]

\* After the script comes what says that it is over.
Flow(v, p, q, over, o) ==
    \E w : Chain(w, p, q, o) /\ v = IF over THEN Append(w, QuitMessage) ELSE w

\* How far an application has come.
AppAt(a) ==
    [turn |-> finished[a] + 1,
     image |-> IF pc[a] = "send" THEN Len(Passes(options[a])) + 1 - Len(plan[a]) ELSE 1]

\* The places that it may have come to, and whether it has come to its end.
Goal(a) ==
    [reached |-> IF Ended(a) THEN {q \in Places(options[a]) : q.turn <= finished[a] + 1}
                 ELSE IF connected[a] /\ pc[a] # "start" THEN {AppAt(a)} ELSE {},
     over |-> Ended(a)]

Awaits(v, p, goal, o) == \E q \in goal.reached : Flow(v, p, q, goal.over, o)

\* The server has read the messages of o up to p, and popped frames up to last.
SourceFits(sb, last, p, o) ==
    /\ sb = [queue |-> sb.queue, back |-> sb.back]
    /\ p \in Places(o) /\ last \in Nat /\ sb.back \in Nat
    /\ p.turn = sb.back + 1 /\ last <= sb.back
    /\ Listed(sb.queue) /\ Len(sb.queue) = sb.back + 1 - last
    /\ \A n \in 1 .. Len(sb.queue) - 1 : sb.queue[n] = Whole(last + n, o)
    /\ sb.queue[Len(sb.queue)] =
         UNION {TilesOf(Passes(o)[m], p.turn) : m \in 1 .. p.image - 1}

\* An application is a source, or its stream is not open yet or no more.
LinkFits(a, b, link, v, goal, o) ==
    IF a \in SourcesOf(b)
    THEN \E p : SourceFits(b.sources[a], b.last, p, o) /\ Awaits(v, p, goal, o)
    ELSE \/ ~ link /\ (v = <<>> \/ (goal.over /\ v = <<QuitMessage>>))
         \/ v # <<>> /\ Head(v) = OpenMessage /\ Awaits(Tail(v), FirstPlace, goal, o)

Linked(a) == LinkFits(a, buffer, connected[a], wire[a], Goal(a), options[a])

\* The images that are left for this frame, as long as somebody receives them.
PlanFits(a) ==
    LET all == Passes(options[a]) IN
    /\ Listed(plan[a]) /\ Len(plan[a]) <= Len(all)
    /\ \A i \in 1 .. Len(plan[a]) : plan[a][i] = all[Len(all) - Len(plan[a]) + i]
    /\ success[a] \/ Len(plan[a]) = Len(all)

Running == {"draw", "send", "events"}

AppFits(a) ==
    /\ pc[a] \in Running \cup {"start", "exited", "failed", "terminated"}
    /\ finished[a] \in 0 .. MaxFinished[a]
    /\ pc[a] = "start" => ~ connected[a] /\ wire[a] = <<>> /\ finished[a] = 0
    /\ pc[a] = "send" /\ connected[a] => finished[a] < MaxFinished[a] /\ PlanFits(a)
    /\ Listed(wire[a]) /\ Linked(a)

Defined ==
    /\ DOMAIN pc = Apps /\ DOMAIN plan = Apps /\ DOMAIN finished = Apps /\ DOMAIN wire = Apps
    /\ success \in [Apps -> BOOLEAN] /\ connected \in [Apps -> BOOLEAN]

BufferFits(b) ==
    /\ b = [sources |-> b.sources, last |-> b.last, allowed |-> b.allowed]
    /\ b.last \in Nat /\ SourcesOf(b) \subseteq Apps

StreamerInv ==
    /\ Defined /\ BufferFits(buffer) /\ OneTurnOfAll
    /\ \A a \in Apps : AppFits(a)

-----------------------------------------------------------------------------
(* SimpleStreamer: lemmas about scripts                                    *)

LEMMA NothingListed == Listed(<<>>) /\ Len(<<>>) = 0
<1>1. <<>> \in Seq({}) /\ Len(<<>>) = 0
  OBVIOUS
<1> QED
  BY <1>1 DEF Listed

LEMMA AppendListed ==
    ASSUME NEW w, Listed(w), NEW m
    PROVE  /\ Listed(Append(w, m)) /\ Len(w) \in Nat /\ Len(Append(w, m)) = Len(w) + 1
           /\ \A i \in 1 .. Len(w) : Append(w, m)[i] = w[i]
           /\ Append(w, m)[Len(w) + 1] = m /\ Append(w, m) # <<>>
<1>1. PICK S : w \in Seq(S)
  BY DEF Listed
<1>2. PICK T : T = S \cup {m}
  OBVIOUS
<1>3. w \in Seq(T) /\ m \in T
  BY <1>1, <1>2, SeqMonotonic
<1>4. Append(w, m) \in Seq(T)
  BY <1>3, AppendProperties
<1> QED
  BY <1>3, <1>4, AppendProperties, LenProperties DEF Listed

LEMMA TailListed ==
    ASSUME NEW w, Listed(w), w # <<>>
    PROVE  /\ Listed(Tail(w)) /\ Len(w) \in Nat \ {0} /\ Len(Tail(w)) = Len(w) - 1
           /\ Head(w) = w[1] /\ \A i \in 1 .. Len(w) - 1 : Tail(w)[i] = w[i + 1]
<1>1. PICK S : w \in Seq(S)
  BY DEF Listed
<1>2. Tail(w) \in Seq(S) /\ Len(Tail(w)) = Len(w) - 1
  BY <1>1, HeadTailProperties
<1>3. Len(w) \in Nat \ {0}
  BY <1>1, EmptySeq, LenProperties
<1>4. \A i \in 1 .. Len(w) - 1 : Tail(w)[i] = w[i + 1]
  BY <1>1, HeadTailProperties
<1> QED
  BY <1>1, <1>2, <1>3, <1>4 DEF Listed

LEMMA TailOfAppend ==
    ASSUME NEW w, Listed(w), w # <<>>, NEW m
    PROVE  Head(Append(w, m)) = Head(w) /\ Tail(Append(w, m)) = Append(Tail(w), m)
<1>1. PICK S : w \in Seq(S)
  BY DEF Listed
<1>2. PICK T : T = S \cup {m}
  OBVIOUS
<1>3. w \in Seq(T) /\ m \in T
  BY <1>1, <1>2, SeqMonotonic
<1>4. Len(w) >= 1
  BY <1>3
<1>5. Head(Append(w, m)) = Head(w)
  BY <1>3, <1>4
<1>6. Tail(Append(w, m)) = Append(Tail(w), m)
  BY <1>3, <1>4
<1> QED
  BY <1>5, <1>6

LEMMA TailOfOne == ASSUME NEW m PROVE Head(<<m>>) = m /\ Tail(<<m>>) = <<>> /\ <<m>> # <<>>
OBVIOUS

\* The passes of a frame are at least one image.
LEMMA PassesListed ==
    ASSUME NEW o
    PROVE  Listed(Passes(o)) /\ Len(Passes(o)) \in Nat \ {0} /\ DOMAIN Passes(o) = 1 .. Len(Passes(o))
<1> DEFINE Names == {"side_by_side", "left_eye", "right_eye", "mono"}
<1>1. \A x \in Names : <<x>> \in Seq(Names) /\ Len(<<x>>) = 1
  OBVIOUS
<1>2. <<>> \in Seq(Names) /\ Len(<<>>) = 0
  OBVIOUS
<1>3. Views(o) \in Seq(Names) /\ Len(Views(o)) >= 1
  <2>1. CASE o.sideBySide
    BY <1>1, <2>1 DEF Views
  <2>2. CASE ~ o.sideBySide /\ ~ (o.left \/ o.right)
    BY <1>1, <2>2 DEF Views
  <2>3. CASE ~ o.sideBySide /\ (o.left \/ o.right)
    <3>1. PICK u, v : u = (IF o.left THEN <<"left_eye">> ELSE <<>>)
                      /\ v = (IF o.right THEN <<"right_eye">> ELSE <<>>)
      OBVIOUS
    <3>2. u \in Seq(Names) /\ v \in Seq(Names) /\ Len(u) + Len(v) >= 1
      <4>1. PICK l, r : l = <<"left_eye">> /\ r = <<"right_eye">>
        OBVIOUS
      <4>2. l \in Seq(Names) /\ Len(l) = 1 /\ r \in Seq(Names) /\ Len(r) = 1
        BY <1>1, <4>1
      <4>3. u = (IF o.left THEN l ELSE <<>>) /\ v = (IF o.right THEN r ELSE <<>>)
        BY <3>1, <4>1
      <4>4. (o.left => u = l) /\ (~ o.left => u = <<>>) /\ (o.right => v = r) /\ (~ o.right => v = <<>>)
        BY <4>3
      <4> HIDE DEF Names
      <4>5. u \in Seq(Names) /\ Len(u) \in {0, 1} /\ (o.left => Len(u) = 1)
        BY <1>2, <4>2, <4>4
      <4>6. v \in Seq(Names) /\ Len(v) \in {0, 1} /\ (o.right => Len(v) = 1)
        BY <1>2, <4>2, <4>4
      <4> QED
        BY <2>3, <4>5, <4>6
    <3>3. u \o v \in Seq(Names) /\ Len(u \o v) = Len(u) + Len(v)
      BY <3>2, ConcatProperties
    <3>4. Views(o) = u \o v
      BY <2>3, <3>1 DEF Views
    <3> QED
      BY <3>2, <3>3, <3>4
  <2> QED
    BY <2>1, <2>2, <2>3
<1> HIDE DEF Names
<1>4. DOMAIN Views(o) = 1 .. Len(Views(o)) /\ Len(Views(o)) \in Nat \ {0}
  BY <1>3, LenProperties
<1>5. PICK S : S = [app : {o.app}, view : Names, channel : {0, 1}]
  OBVIOUS
<1>6. ASSUME NEW c \in {0, 1}
      PROVE  Pass(o, c) \in Seq(S) /\ Len(Pass(o, c)) >= 1
  <2>1. \A n \in 1 .. Len(Views(o)) : Views(o)[n] \in Names
    BY <1>3, ElementOfSeq
  <2>2. Pass(o, c) = [n \in 1 .. Len(Views(o)) |-> [app |-> o.app, view |-> Views(o)[n], channel |-> c]]
    BY <1>4 DEF Pass
  <2>3. \A n \in 1 .. Len(Views(o)) : [app |-> o.app, view |-> Views(o)[n], channel |-> c] \in S
    BY <1>5, <2>1
  <2>4. Pass(o, c) \in Seq(S) /\ Len(Pass(o, c)) = Len(Views(o))
    BY <1>4, <2>2, <2>3, IsASeq
  <2> QED
    BY <1>4, <2>4
<1>7. Passes(o) \in Seq(S) /\ Len(Passes(o)) >= 1
  <2>1. Pass(o, 1) \o Pass(o, 0) \in Seq(S) /\ Len(Pass(o, 1) \o Pass(o, 0)) = Len(Pass(o, 1)) + Len(Pass(o, 0))
    BY <1>6, ConcatProperties
  <2> QED
    BY <1>6, <2>1, LenProperties DEF Passes
<1> QED
  BY <1>7, LenProperties DEF Listed

LEMMA FollowingIs ==
    ASSUME NEW o, NEW p \in Places(o)
    PROVE  /\ Following(p, o) \in Places(o) /\ p.turn \in Nat \ {0}
           /\ IF p.image > Len(Passes(o)) THEN Following(p, o) = [turn |-> p.turn + 1, image |-> 1]
              ELSE Following(p, o) = [turn |-> p.turn, image |-> p.image + 1]
           /\ p.turn <= Following(p, o).turn
           /\ p.image > Len(Passes(o)) => p.turn < Following(p, o).turn
BY PassesListed DEF Following, Places

LEMMA ChainStays ==
    ASSUME NEW o, NEW p \in Places(o)
    PROVE  Chain(<<>>, p, p, o)
<1>1. PICK at : at = [i \in 1 .. Len(<<>>) + 1 |-> p]
  OBVIOUS
<1>2. p.turn \in Nat
  BY DEF Places
<1>3. ChainAt(<<>>, at, p, p, o)
  BY <1>1, <1>2, NothingListed DEF ChainAt
<1> QED
  BY <1>3, NothingListed DEF Chain

LEMMA ChainGrows ==
    ASSUME NEW o, NEW w, NEW p, NEW q, Chain(w, p, q, o)
    PROVE  q \in Places(o) /\ Chain(Append(w, Due(q, o)), p, Following(q, o), o)
<1>1. PICK at : ChainAt(w, at, p, q, o)
  BY DEF Chain
<1>2. Listed(w)
  BY DEF Chain
<1>3. PICK n \in Nat : n = Len(w)
  BY <1>2, AppendListed
<1>4. PICK m, v, r : m = Due(q, o) /\ v = Append(w, m) /\ r = Following(q, o)
  OBVIOUS
<1>5. Listed(v) /\ Len(v) = n + 1 /\ v[n + 1] = m /\ \A i \in 1 .. n : v[i] = w[i]
  BY <1>2, <1>3, <1>4, AppendListed
<1>6. at \in [1 .. n + 1 -> Places(o)] /\ at[1] = p /\ at[n + 1] = q
  BY <1>1, <1>3 DEF ChainAt
<1>7. q \in Places(o) /\ r \in Places(o) /\ q.turn <= r.turn
      /\ (q.image > Len(Passes(o)) => q.turn < r.turn) /\ q.turn \in Nat /\ r.turn \in Nat
  BY <1>4, <1>6, FollowingIs DEF Places
<1>8. \A i \in 1 .. n + 1 : at[i].turn \in Nat
  BY <1>6 DEF Places
<1>9. PICK bt : bt = [i \in 1 .. n + 2 |-> IF i = n + 2 THEN r ELSE at[i]]
  OBVIOUS
<1>10. bt \in [1 .. Len(v) + 1 -> Places(o)] /\ bt[1] = p /\ bt[Len(v) + 1] = r
  BY <1>5, <1>6, <1>7, <1>9
<1>11. bt[n + 2] = r /\ \A i \in 1 .. n + 1 : bt[i] = at[i]
  BY <1>9
<1>12. \A i \in 1 .. Len(v) : v[i] = Due(bt[i], o) /\ bt[i + 1] = Following(bt[i], o)
  <2>1. ASSUME NEW i \in 1 .. n
        PROVE  v[i] = Due(bt[i], o) /\ bt[i + 1] = Following(bt[i], o)
    BY <1>1, <1>3, <1>5, <1>11 DEF ChainAt
  <2>2. v[n + 1] = Due(bt[n + 1], o) /\ bt[n + 2] = Following(bt[n + 1], o)
    BY <1>4, <1>5, <1>6, <1>11
  <2> QED
    BY <1>5, <2>1, <2>2
<1>13. \A i \in 1 .. Len(v) + 1 : bt[i].turn <= r.turn
  <2>1. \A i \in 1 .. n + 1 : at[i].turn <= q.turn
    BY <1>1, <1>3 DEF ChainAt
  <2> QED
    BY <1>5, <1>7, <1>8, <1>11, <2>1
<1>14. \A i \in 1 .. Len(v) : bt[i].image > Len(Passes(o)) => bt[i].turn < r.turn
  <2>1. \A i \in 1 .. n : at[i].image > Len(Passes(o)) => at[i].turn < q.turn
    BY <1>1, <1>3 DEF ChainAt
  <2> QED
    BY <1>5, <1>6, <1>7, <1>8, <1>11, <2>1
<1>15. ChainAt(v, bt, p, r, o)
  BY <1>10, <1>12, <1>13, <1>14 DEF ChainAt
<1>16. Chain(v, p, r, o)
  BY <1>5, <1>15 DEF Chain
<1> QED
  BY <1>4, <1>7, <1>16

LEMMA ChainShrinks ==
    ASSUME NEW o, NEW w, NEW p, NEW q, Chain(w, p, q, o), w # <<>>
    PROVE  /\ Head(w) = Due(p, o) /\ Chain(Tail(w), Following(p, o), q, o)
           /\ p \in Places(o) /\ q \in Places(o)
           /\ p.image > Len(Passes(o)) => p.turn < q.turn
<1>1. PICK at : ChainAt(w, at, p, q, o)
  BY DEF Chain
<1>2. Listed(w)
  BY DEF Chain
<1>3. PICK n \in Nat \ {0} : n = Len(w)
  BY <1>2, TailListed
<1>4. PICK v, r : v = Tail(w) /\ r = Following(p, o)
  OBVIOUS
<1>5. Listed(v) /\ Len(v) = n - 1 /\ Head(w) = w[1] /\ \A i \in 1 .. n - 1 : v[i] = w[i + 1]
  BY <1>2, <1>3, <1>4, TailListed
<1>6. at \in [1 .. n + 1 -> Places(o)] /\ at[1] = p /\ at[n + 1] = q
  BY <1>1, <1>3 DEF ChainAt
<1>7. \A i \in 1 .. n : w[i] = Due(at[i], o) /\ at[i + 1] = Following(at[i], o)
  BY <1>1, <1>3 DEF ChainAt
<1>8. at[2] = r /\ w[1] = Due(p, o)
  BY <1>4, <1>6, <1>7
<1>9. PICK bt : bt = [i \in 1 .. n |-> at[i + 1]]
  OBVIOUS
<1>10. bt \in [1 .. Len(v) + 1 -> Places(o)] /\ bt[1] = r /\ bt[Len(v) + 1] = q
  BY <1>5, <1>6, <1>8, <1>9
<1>11. \A i \in 1 .. Len(v) : v[i] = Due(bt[i], o) /\ bt[i + 1] = Following(bt[i], o)
  <2>1. SUFFICES ASSUME NEW i \in 1 .. n - 1
                 PROVE  v[i] = Due(bt[i], o) /\ bt[i + 1] = Following(bt[i], o)
    BY <1>5
  <2>2. PICK j \in 1 .. n : j = i + 1
    OBVIOUS
  <2>3. w[j] = Due(at[j], o) /\ at[j + 1] = Following(at[j], o)
    BY <1>7
  <2> QED
    BY <1>5, <1>9, <2>2, <2>3
<1>12. \A i \in 1 .. Len(v) + 1 : bt[i].turn <= q.turn
  <2>1. \A i \in 1 .. n + 1 : at[i].turn <= q.turn
    BY <1>1, <1>3 DEF ChainAt
  <2> QED
    BY <1>5, <1>9, <2>1
<1>13. \A i \in 1 .. n : at[i].image > Len(Passes(o)) => at[i].turn < q.turn
  BY <1>1, <1>3 DEF ChainAt
<1>14. \A i \in 1 .. Len(v) : bt[i].image > Len(Passes(o)) => bt[i].turn < q.turn
  BY <1>5, <1>9, <1>13
<1>15. ChainAt(v, bt, r, q, o)
  BY <1>10, <1>11, <1>12, <1>14 DEF ChainAt
<1>16. Chain(v, r, q, o)
  BY <1>5, <1>15 DEF Chain
<1> QED
  BY <1>4, <1>5, <1>6, <1>8, <1>13, <1>16

LEMMA DueTypes ==
    ASSUME NEW o, NEW p
    PROVE  /\ p.image > Len(Passes(o)) => Due(p, o) = [type |-> "finish"] /\ Due(p, o).type = "finish"
           /\ ~ p.image > Len(Passes(o)) => /\ Due(p, o).type = "image"
                                            /\ Due(p, o).tiles = TilesOf(Passes(o)[p.image], p.turn)
           /\ Due(p, o).type \in {"finish", "image"}
BY DEF Due

LEMMA OneListed == ASSUME NEW m PROVE Listed(<<m>>)
<1>1. <<m>> \in Seq({m})
  OBVIOUS
<1> QED
  BY <1>1 DEF Listed

LEMMA AppendToNothing == ASSUME NEW m PROVE Append(<<>>, m) = <<m>>
OBVIOUS

LEMMA FlowListed ==
    ASSUME NEW v, NEW p, NEW q, NEW over \in BOOLEAN, NEW o, Flow(v, p, q, over, o)
    PROVE  Listed(v)
BY AppendListed DEF Flow, Chain

LEMMA FlowReads ==
    ASSUME NEW v, NEW p, NEW q, NEW over \in BOOLEAN, NEW o, Flow(v, p, q, over, o),
           v # <<>>, Head(v).type # "quit"
    PROVE  /\ Head(v) = Due(p, o) /\ Flow(Tail(v), Following(p, o), q, over, o)
           /\ p \in Places(o) /\ q \in Places(o)
           /\ p.image > Len(Passes(o)) => p.turn < q.turn
<1>1. PICK w : Chain(w, p, q, o) /\ v = IF over THEN Append(w, QuitMessage) ELSE w
  BY DEF Flow
<1>2. Listed(w)
  BY <1>1 DEF Chain
<1>3. w # <<>>
  <2>1. CASE ~ over
    BY <1>1, <2>1
  <2>2. CASE over
    <3>1. ASSUME w = <<>>
          PROVE  FALSE
      <4>1. v = <<QuitMessage>>
        BY <1>1, <2>2, <3>1, AppendToNothing
      <4>2. Head(v).type = "quit"
        BY <4>1, TailOfOne DEF QuitMessage
      <4> QED
        BY <4>2
    <3> QED
      BY <3>1
  <2> QED
    BY <2>1, <2>2
<1>4. /\ Head(w) = Due(p, o) /\ Chain(Tail(w), Following(p, o), q, o)
      /\ p \in Places(o) /\ q \in Places(o)
      /\ p.image > Len(Passes(o)) => p.turn < q.turn
  BY <1>1, <1>3, ChainShrinks
<1>5. Head(v) = Head(w) /\ Tail(v) = IF over THEN Append(Tail(w), QuitMessage) ELSE Tail(w)
  BY <1>1, <1>2, <1>3, TailOfAppend
<1> QED
  BY <1>4, <1>5 DEF Flow

LEMMA FlowEnds ==
    ASSUME NEW v, NEW p, NEW q, NEW over \in BOOLEAN, NEW o, Flow(v, p, q, over, o),
           v # <<>>, Head(v).type = "quit"
    PROVE  over /\ v = <<QuitMessage>>
<1>1. PICK w : Chain(w, p, q, o) /\ v = IF over THEN Append(w, QuitMessage) ELSE w
  BY DEF Flow
<1>2. Listed(w)
  BY <1>1 DEF Chain
<1>3. w = <<>>
  <2>1. ASSUME w # <<>>
        PROVE  FALSE
    <3>1. Head(w) = Due(p, o)
      BY <1>1, <2>1, ChainShrinks
    <3>2. Head(v) = Head(w)
      BY <1>1, <1>2, <2>1, TailOfAppend
    <3> QED
      BY <3>1, <3>2, DueTypes
  <2> QED
    BY <2>1
<1> QED
  BY <1>1, <1>3, AppendToNothing

LEMMA FlowGrows ==
    ASSUME NEW v, NEW p, NEW q, NEW o, Flow(v, p, q, FALSE, o)
    PROVE  /\ q \in Places(o)
           /\ Flow(Append(v, Due(q, o)), p, Following(q, o), FALSE, o)
           /\ Flow(Append(v, QuitMessage), p, q, TRUE, o)
<1>1. Chain(v, p, q, o)
  BY DEF Flow
<1>2. q \in Places(o) /\ Chain(Append(v, Due(q, o)), p, Following(q, o), o)
  BY <1>1, ChainGrows
<1> QED
  BY <1>1, <1>2 DEF Flow

-----------------------------------------------------------------------------
(* SimpleStreamer: what an application does with its link to the server    *)

Keeps(goal, goal2, o) == \A v, p : Awaits(v, p, goal, o) => Awaits(v, p, goal2, o)
Adds(m, goal, goal2, o) == \A v, p : Awaits(v, p, goal, o) => Awaits(Append(v, m), p, goal2, o)

LEMMA KeepLink ==
    ASSUME NEW a, NEW b, NEW link, NEW v, NEW goal, NEW o, LinkFits(a, b, link, v, goal, o),
           NEW goal2, Keeps(goal, goal2, o), goal.over => goal2.over
    PROVE  LinkFits(a, b, link, v, goal2, o)
BY DEF LinkFits, Keeps

LEMMA AppendLink ==
    ASSUME NEW a, NEW b, NEW link, NEW v, NEW goal, NEW o, LinkFits(a, b, link, v, goal, o),
           link, Listed(v), NEW goal2, NEW m, Adds(m, goal, goal2, o)
    PROVE  LinkFits(a, b, link, Append(v, m), goal2, o)
<1>1. CASE a \in SourcesOf(b)
  BY <1>1 DEF LinkFits, Adds
<1>2. CASE a \notin SourcesOf(b)
  <2>1. v # <<>> /\ Head(v) = OpenMessage /\ Awaits(Tail(v), FirstPlace, goal, o)
    BY <1>2 DEF LinkFits
  <2>2. PICK u : u = Append(v, m)
    OBVIOUS
  <2>3. Head(u) = OpenMessage /\ Tail(u) = Append(Tail(v), m) /\ u # <<>>
    BY <2>1, <2>2, TailOfAppend, AppendListed
  <2>4. Awaits(Tail(u), FirstPlace, goal2, o)
    BY <2>1, <2>3 DEF Adds
  <2> QED
    BY <1>2, <2>2, <2>3, <2>4 DEF LinkFits
<1> QED
  BY <1>1, <1>2

LEMMA NoLinkFits ==
    ASSUME NEW a, NEW b, a \notin SourcesOf(b), NEW goal, NEW o, NEW link, ~ link, NEW v, v = <<>>
    PROVE  LinkFits(a, b, link, v, goal, o)
<1>1. ~ link /\ (v = <<>> \/ (goal.over /\ v = <<QuitMessage>>))
  OBVIOUS
<1> QED
  BY <1>1 DEF LinkFits

\* Whose stream is open, and who has not ended, has a single place.
LEMMA GoalRunning ==
    ASSUME NEW a, pc[a] \in Running, connected[a]
    PROVE  Goal(a).reached = {AppAt(a)} /\ Goal(a).over = FALSE
<1>1. Ended(a) = FALSE /\ pc[a] # "start"
  BY DEF Running, Ended
<1>2. PICK R : R = {AppAt(a)}
  OBVIOUS
<1>3. Goal(a) = [reached |-> R, over |-> FALSE]
  BY <1>1, <1>2 DEF Goal
<1> QED
  BY <1>2, <1>3

LEMMA GoalRunningNext ==
    ASSUME NEW a, pc'[a] \in Running, connected'[a]
    PROVE  Goal(a)'.reached = {AppAt(a)'} /\ Goal(a)'.over = FALSE
<1>1. Ended(a)' = FALSE /\ pc'[a] # "start"
  BY DEF Running, Ended
<1>2. PICK R : R = {AppAt(a)'}
  OBVIOUS
<1>3. Goal(a)' = [reached |-> R, over |-> FALSE]
  BY <1>1, <1>2 DEF Goal
<1> QED
  BY <1>2, <1>3

LEMMA GoalOverNext ==
    ASSUME NEW a, Ended(a)'
    PROVE  /\ Goal(a)'.reached = {q \in Places(options'[a]) : q.turn <= finished'[a] + 1}
           /\ Goal(a)'.over = TRUE
BY DEF Goal, Ended

\* The next message of the script.
LEMMA SendsDue ==
    ASSUME NEW goal, NEW q, goal.reached = {q}, goal.over = FALSE, NEW o,
           NEW goal2, goal2.reached = {Following(q, o)}, goal2.over = FALSE
    PROVE  Adds(Due(q, o), goal, goal2, o)
<1>1. SUFFICES ASSUME NEW v, NEW p, Awaits(v, p, goal, o)
               PROVE  Awaits(Append(v, Due(q, o)), p, goal2, o)
  BY DEF Adds
<1>2. Flow(v, p, q, FALSE, o)
  BY <1>1 DEF Awaits
<1>3. Flow(Append(v, Due(q, o)), p, Following(q, o), FALSE, o)
  BY <1>2, FlowGrows
<1> QED
  BY <1>3 DEF Awaits

LEMMA SendsQuit ==
    ASSUME NEW goal, NEW q, goal.reached = {q}, goal.over = FALSE, NEW o,
           NEW goal2, q \in Places(o) => q \in goal2.reached, goal2.over = TRUE
    PROVE  Adds(QuitMessage, goal, goal2, o)
BY FlowGrows DEF Adds, Awaits

\* Whoever has no stream has nothing on the wire.
LEMMA NoLink ==
    ASSUME NEW a, pc[a] \in Running, Linked(a), ~ connected[a]
    PROVE  a \notin SourcesOf(buffer) /\ wire[a] = <<>>
<1>1. Goal(a).reached = {} /\ Goal(a).over = FALSE
  <2>1. Ended(a) = FALSE
    BY DEF Running, Ended
  <2>2. PICK R : R = {}
    OBVIOUS
  <2>3. Goal(a) = [reached |-> R, over |-> FALSE]
    BY <2>1, <2>2 DEF Goal
  <2> QED
    BY <2>2, <2>3
<1>2. \A v, p : ~ Awaits(v, p, Goal(a), options[a])
  BY <1>1 DEF Awaits
<1> QED
  BY <1>1, <1>2 DEF Linked, LinkFits

\* The steps of an application that leave its link alone.
LEMMA AppStays ==
    ASSUME NEW a, pc[a] \in Running, pc'[a] \in Running, Linked(a),
           UNCHANGED <<buffer, options>>, connected'[a] = connected[a], wire'[a] = wire[a],
           connected[a] => AppAt(a)' = AppAt(a)
    PROVE  Linked(a)'
<1>1. CASE connected[a]
  <2>1. Goal(a).reached = {AppAt(a)} /\ Goal(a).over = FALSE
    BY <1>1, GoalRunning
  <2>2. Goal(a)'.reached = {AppAt(a)} /\ Goal(a)'.over = FALSE
    BY <1>1, GoalRunningNext
  <2>3. Keeps(Goal(a), Goal(a)', options[a])
    BY <2>1, <2>2 DEF Keeps, Awaits
  <2>4. LinkFits(a, buffer, connected[a], wire[a], Goal(a)', options[a])
    BY <2>1, <2>3, KeepLink DEF Linked
  <2> QED
    BY <2>4 DEF Linked
<1>2. CASE ~ connected[a]
  BY <1>2, NoLink DEF Linked, LinkFits
<1> QED
  BY <1>1, <1>2

\* The steps that send the next message of the script.
LEMMA AppSends ==
    ASSUME NEW a, pc[a] \in Running, pc'[a] \in Running, Linked(a), Listed(wire[a]),
           UNCHANGED <<buffer, options>>, connected[a], connected'[a],
           wire'[a] = Append(wire[a], Due(AppAt(a), options[a])),
           AppAt(a)' = Following(AppAt(a), options[a])
    PROVE  Linked(a)'
<1>1. Goal(a).reached = {AppAt(a)} /\ Goal(a).over = FALSE
  BY GoalRunning
<1>2. Goal(a)'.reached = {Following(AppAt(a), options[a])} /\ Goal(a)'.over = FALSE
  BY GoalRunningNext
<1>3. Adds(Due(AppAt(a), options[a]), Goal(a), Goal(a)', options[a])
  BY <1>1, <1>2, SendsDue
<1>4. LinkFits(a, buffer, connected[a], wire'[a], Goal(a)', options[a])
  BY <1>3, AppendLink DEF Linked
<1> QED
  BY <1>4 DEF Linked, LinkFits

\* The steps that end it.
LEMMA AppQuits ==
    ASSUME NEW a, pc[a] \in Running, Ended(a)', Linked(a), Listed(wire[a]), finished[a] \in Nat,
           UNCHANGED <<buffer, options>>, finished'[a] = finished[a],
           wire'[a] = Append(wire[a], QuitMessage) \/ (~ connected[a] /\ wire'[a] = wire[a]),
           connected'[a] => connected[a]
    PROVE  Linked(a)'
<1>1. Goal(a)'.reached = {q \in Places(options[a]) : q.turn <= finished[a] + 1}
      /\ Goal(a)'.over = TRUE
  BY GoalOverNext
<1>2. CASE connected[a]
  <2>1. Goal(a).reached = {AppAt(a)} /\ Goal(a).over = FALSE
    BY <1>2, GoalRunning
  <2>2. AppAt(a).turn <= finished[a] + 1
    BY DEF AppAt
  <2>3. Adds(QuitMessage, Goal(a), Goal(a)', options[a])
    BY <1>1, <2>1, <2>2, SendsQuit
  <2>4. LinkFits(a, buffer, connected[a], wire'[a], Goal(a)', options[a])
    BY <1>2, <2>3, AppendLink DEF Linked
  <2> QED
    BY <1>2, <2>4 DEF Linked, LinkFits
<1>3. CASE ~ connected[a]
  <2>1. a \notin SourcesOf(buffer) /\ wire[a] = <<>>
    BY <1>3, NoLink
  <2>2. wire'[a] = <<>> \/ wire'[a] = <<QuitMessage>>
    BY <2>1, AppendToNothing
  <2> QED
    BY <1>1, <1>3, <2>1, <2>2 DEF Linked, LinkFits
<1> QED
  BY <1>2, <1>3

-----------------------------------------------------------------------------
(* SimpleStreamer: the steps of an application                             *)

\* What an application does concerns no other.
LEMMA OneAppSteps ==
    ASSUME StreamerInv, NEW a \in Apps, UNCHANGED <<buffer, shown, options>>, Defined',
           \A s \in Apps \ {a} : /\ pc'[s] = pc[s] /\ plan'[s] = plan[s] /\ success'[s] = success[s]
                                 /\ finished'[s] = finished[s] /\ wire'[s] = wire[s]
                                 /\ connected'[s] = connected[s],
           AppFits(a)'
    PROVE  StreamerInv'
<1>1. ASSUME NEW s \in Apps \ {a}
      PROVE  AppFits(s)'
  <2>1. AppFits(s)
    BY DEF StreamerInv
  <2>2. Goal(s)' = Goal(s)
    BY DEF Goal, Ended, AppAt
  <2>3. Linked(s)'
    BY <2>1, <2>2 DEF AppFits, Linked
  <2> QED
    BY <2>1, <2>3 DEF AppFits, PlanFits
<1>2. BufferFits(buffer)'
  BY DEF StreamerInv, BufferFits, SourcesOf
<1>3. OneTurnOfAll'
  BY DEF StreamerInv, OneTurnOfAll
<1> QED
  BY <1>1, <1>2, <1>3 DEF StreamerInv

\* Before the stream is opened.
LEMMA NotOpenYet ==
    ASSUME StreamerInv, NEW a \in Apps, pc[a] = "start"
    PROVE  a \notin SourcesOf(buffer) /\ wire[a] = <<>> /\ finished[a] = 0 /\ connected[a] = FALSE
<1>1. AppFits(a)
  BY DEF StreamerInv
<1>2. wire[a] = <<>> /\ finished[a] = 0 /\ connected[a] = FALSE
  BY <1>1 DEF AppFits, StreamerInv, Defined
<1>3. Goal(a).reached = {}
  <2>1. Ended(a) = FALSE
    BY DEF Ended
  <2>2. PICK R : R = {}
    OBVIOUS
  <2>3. Goal(a) = [reached |-> R, over |-> FALSE]
    BY <1>2, <2>1, <2>2 DEF Goal
  <2> QED
    BY <2>2, <2>3
<1>4. \A v, p : ~ Awaits(v, p, Goal(a), options[a])
  BY <1>3 DEF Awaits
<1> QED
  BY <1>1, <1>2, <1>4 DEF AppFits, Linked, LinkFits

LEMMA FirstPlaceIs == ASSUME NEW o PROVE FirstPlace \in Places(o) /\ FirstPlace.turn = 1
BY PassesListed DEF FirstPlace, Places

LEMMA OpenStreamKeeps ==
    ASSUME StreamerInv, NEW a \in Apps, OpenStream(a)
    PROVE  StreamerInv'
<1>1. a \notin SourcesOf(buffer) /\ wire[a] = <<>> /\ finished[a] = 0
  BY NotOpenYet DEF OpenStream
<1>2. UNCHANGED <<buffer, shown, options, plan, success, finished>>
  BY DEF OpenStream, display, server
<1>3. pc' = [pc EXCEPT ![a] = "draw"] /\ connected' = [connected EXCEPT ![a] = TRUE]
      /\ wire' = [wire EXCEPT ![a] = <<OpenMessage>>]
  BY DEF OpenStream, Goto, OpenMessage
<1>4. Defined' /\ pc'[a] = "draw" /\ connected'[a] = TRUE /\ wire'[a] = <<OpenMessage>>
  BY <1>2, <1>3 DEF StreamerInv, Defined
<1>5. AppAt(a)' = FirstPlace
  BY <1>1, <1>2, <1>4 DEF AppAt, FirstPlace
<1>6. Goal(a)'.reached = {FirstPlace} /\ Goal(a)'.over = FALSE
  <2>1. pc'[a] \in Running /\ connected'[a]
    BY <1>4 DEF Running
  <2>2. Goal(a)'.reached = {AppAt(a)'} /\ Goal(a)'.over = FALSE
    BY <2>1, GoalRunningNext
  <2> QED
    BY <1>5, <2>2
<1>7. Flow(<<>>, FirstPlace, FirstPlace, FALSE, options[a])
  BY FirstPlaceIs, ChainStays DEF Flow
<1>8. Awaits(<<>>, FirstPlace, Goal(a)', options[a])
  BY <1>6, <1>7 DEF Awaits
<1>9. Linked(a)'
  BY <1>1, <1>2, <1>4, <1>8, TailOfOne DEF Linked, LinkFits
<1>10. Listed(wire'[a])
  BY <1>4, OneListed
<1>11. AppFits(a)'
  BY <1>1, <1>2, <1>4, <1>9, <1>10, StreamerAssumption DEF AppFits, Running
<1>12. \A s \in Apps \ {a} : pc'[s] = pc[s] /\ wire'[s] = wire[s] /\ connected'[s] = connected[s]
  BY <1>3 DEF StreamerInv, Defined
<1> QED
  BY <1>2, <1>4, <1>11, <1>12, OneAppSteps

LEMMA CannotOpenKeeps ==
    ASSUME StreamerInv, NEW a \in Apps, CannotOpen(a)
    PROVE  StreamerInv'
<1>1. a \notin SourcesOf(buffer) /\ wire[a] = <<>> /\ finished[a] = 0 /\ connected[a] = FALSE
  BY NotOpenYet DEF CannotOpen
<1>2. UNCHANGED <<buffer, shown, options, plan, success, finished>>
  BY DEF CannotOpen, display, server
<1>3. pc' = [pc EXCEPT ![a] = "failed"]
  BY DEF CannotOpen, Goto
<1>4. Ended(a)'
  BY <1>3 DEF Ended, StreamerInv, Defined
<1>5. Goal(a)'.reached = {q \in Places(options[a]) : q.turn <= finished[a] + 1}
      /\ Goal(a)'.over = TRUE
  BY <1>2, <1>4, GoalOverNext
<1>6. CASE UNCHANGED <<connected, wire>>
  <2>1. Linked(a)'
    <3>1. LinkFits(a, buffer, FALSE, <<>>, Goal(a)', options[a])
      BY <1>1, NoLinkFits
    <3> QED
      BY <1>1, <1>2, <1>6, <3>1 DEF Linked
  <2>2. AppFits(a)' /\ Defined'
    BY <1>1, <1>2, <1>3, <1>6, <2>1, NothingListed DEF AppFits, StreamerInv, Defined
  <2> QED
    BY <1>2, <1>3, <1>6, <2>2, OneAppSteps DEF StreamerInv, Defined
<1>7. CASE /\ connected' = [connected EXCEPT ![a] = TRUE]
           /\ wire' = [wire EXCEPT ![a] = <<OpenMessage, QuitMessage>>]
  <2>1. Defined' /\ wire'[a] = <<OpenMessage, QuitMessage>>
    BY <1>2, <1>3, <1>7 DEF StreamerInv, Defined
  <2>2. <<OpenMessage, QuitMessage>> = Append(<<OpenMessage>>, QuitMessage)
    OBVIOUS
  <2>3. PICK v : v = <<OpenMessage>>
    OBVIOUS
  <2>4. Listed(v) /\ v # <<>> /\ Head(v) = OpenMessage /\ Tail(v) = <<>>
    BY <2>3, OneListed, TailOfOne
  <2>5. Listed(wire'[a]) /\ wire'[a] # <<>> /\ Head(wire'[a]) = OpenMessage
        /\ Tail(wire'[a]) = Append(<<>>, QuitMessage)
    <3>1. wire'[a] = Append(v, QuitMessage)
      BY <2>1, <2>2, <2>3
    <3>2. Listed(Append(v, QuitMessage)) /\ Append(v, QuitMessage) # <<>>
      BY <2>4, AppendListed
    <3>3. Head(Append(v, QuitMessage)) = Head(v) /\ Tail(Append(v, QuitMessage)) = Append(Tail(v), QuitMessage)
      BY <2>4, TailOfAppend
    <3> QED
      BY <2>4, <3>1, <3>2, <3>3
  <2>6. Flow(Append(<<>>, QuitMessage), FirstPlace, FirstPlace, TRUE, options[a])
    BY FirstPlaceIs, ChainStays DEF Flow
  <2>7. Awaits(Tail(wire'[a]), FirstPlace, Goal(a)', options[a])
    <3>1. FirstPlace \in Goal(a)'.reached
      BY <1>1, <1>5, FirstPlaceIs
    <3>2. Flow(Tail(wire'[a]), FirstPlace, FirstPlace, Goal(a)'.over, options[a])
      BY <1>5, <2>5, <2>6
    <3> QED
      BY <3>1, <3>2 DEF Awaits
  <2>8. Linked(a)'
    BY <1>1, <1>2, <2>5, <2>7 DEF Linked, LinkFits
  <2>9. pc'[a] = "failed"
    BY <1>3 DEF StreamerInv, Defined
  <2>10. AppFits(a)'
    BY <1>1, <1>2, <2>5, <2>8, <2>9, StreamerAssumption DEF AppFits
  <2>11. \A s \in Apps \ {a} : pc'[s] = pc[s] /\ wire'[s] = wire[s] /\ connected'[s] = connected[s]
    BY <1>3, <1>7 DEF StreamerInv, Defined
  <2> QED
    BY <1>2, <2>1, <2>10, <2>11, OneAppSteps
<1> QED
  BY <1>6, <1>7 DEF CannotOpen, OpenMessage, QuitMessage

LEMMA AppFields ==
    ASSUME StreamerInv, NEW a \in Apps
    PROVE  /\ Linked(a) /\ Listed(wire[a]) /\ connected[a] \in BOOLEAN /\ success[a] \in BOOLEAN
           /\ finished[a] \in Nat /\ MaxFinished[a] \in Nat /\ finished[a] <= MaxFinished[a]
           /\ pc[a] = "send" /\ connected[a] => finished[a] < MaxFinished[a] /\ PlanFits(a)
<1>1. AppFits(a) /\ Defined
  BY DEF StreamerInv
<1>2. MaxFinished[a] \in Nat
  BY StreamerAssumption, BufferAssumption
<1> QED
  BY <1>1, <1>2 DEF AppFits, Defined

LEMMA DrawKeeps ==
    ASSUME StreamerInv, NEW a \in Apps, Draw(a)
    PROVE  StreamerInv'
<1>1. UNCHANGED <<buffer, shown, options, finished, wire, connected>> /\ pc[a] = "draw"
      /\ success' = [success EXCEPT ![a] = FALSE]
      /\ (finished[a] < MaxFinished[a] \/ ~ connected[a])
  BY DEF Draw, server
<1>2. pc[a] \in Running
  BY <1>1 DEF Running
<1>3. CASE MustWait(a)
  <2>1. plan' = plan /\ pc' = [pc EXCEPT ![a] = "events"]
    BY <1>3 DEF Draw, Goto
  <2>2. Defined' /\ pc'[a] = "events"
    BY <1>1, <2>1 DEF StreamerInv, Defined
  <2>3. AppAt(a)' = AppAt(a)
    BY <1>1, <2>2 DEF AppAt
  <2>4. pc'[a] \in Running
    BY <2>2 DEF Running
  <2>5. Linked(a)'
    BY <1>1, <1>2, <2>3, <2>4, AppFields, AppStays
  <2>6. AppFits(a)'
    BY <1>1, <2>2, <2>4, <2>5, AppFields DEF AppFits
  <2>7. \A s \in Apps \ {a} : pc'[s] = pc[s] /\ success'[s] = success[s]
    BY <1>1, <2>1 DEF StreamerInv, Defined
  <2> QED
    BY <1>1, <2>1, <2>2, <2>6, <2>7, OneAppSteps
<1>4. CASE ~ MustWait(a)
  <2>1. plan' = [plan EXCEPT ![a] = Passes(options[a])] /\ pc' = [pc EXCEPT ![a] = "send"]
    BY <1>4 DEF Draw, Goto
  <2>2. Defined' /\ pc'[a] = "send" /\ plan'[a] = Passes(options[a])
    BY <1>1, <2>1 DEF StreamerInv, Defined
  <2>3. AppAt(a)' = AppAt(a)
    BY <1>1, <2>2, PassesListed DEF AppAt
  <2>4. pc'[a] \in Running
    BY <2>2 DEF Running
  <2>5. Linked(a)'
    BY <1>1, <1>2, <2>3, <2>4, AppFields, AppStays
  <2>6. PlanFits(a)'
    BY <1>1, <2>2, PassesListed DEF PlanFits
  <2>7. AppFits(a)'
    BY <1>1, <2>2, <2>4, <2>5, <2>6, AppFields DEF AppFits
  <2>8. \A s \in Apps \ {a} : pc'[s] = pc[s] /\ success'[s] = success[s] /\ plan'[s] = plan[s]
    BY <1>1, <2>1 DEF StreamerInv, Defined
  <2> QED
    BY <1>1, <2>2, <2>7, <2>8, OneAppSteps
<1> QED
  BY <1>3, <1>4

LEMMA TerminateKeeps ==
    ASSUME StreamerInv, NEW a \in Apps, Terminate(a)
    PROVE  StreamerInv'
<1>1. UNCHANGED <<buffer, shown, options, finished, plan, success>> /\ pc[a] = "send"
      /\ pc' = [pc EXCEPT ![a] = "terminated"] /\ connected' = [connected EXCEPT ![a] = FALSE]
      /\ wire' = [wire EXCEPT ![a] = Append(@, QuitMessage)]
  BY DEF Terminate, server, display, Goto, QuitMessage
<1>2. Defined' /\ pc'[a] = "terminated" /\ connected'[a] = FALSE
      /\ wire'[a] = Append(wire[a], QuitMessage)
  BY <1>1 DEF StreamerInv, Defined
<1>3. pc[a] \in Running
  BY <1>1 DEF Running
<1>4. Ended(a)'
  BY <1>2 DEF Ended
<1>5. Linked(a)'
  <2>1. Linked(a) /\ Listed(wire[a]) /\ finished[a] \in Nat
    BY AppFields
  <2>2. UNCHANGED <<buffer, options>> /\ finished'[a] = finished[a]
    BY <1>1
  <2>3. connected'[a] => connected[a]
    BY <1>2
  <2> QED
    BY <1>2, <1>3, <1>4, <2>1, <2>2, <2>3, AppQuits
<1>6. Listed(wire'[a])
  BY <1>2, AppFields, AppendListed
<1>7. AppFits(a)'
  BY <1>1, <1>2, <1>5, <1>6, AppFields DEF AppFits
<1>8. \A s \in Apps \ {a} : pc'[s] = pc[s] /\ connected'[s] = connected[s] /\ wire'[s] = wire[s]
  BY <1>1 DEF StreamerInv, Defined
<1> QED
  BY <1>1, <1>2, <1>7, <1>8, OneAppSteps

LEMMA SendViewKeeps ==
    ASSUME StreamerInv, NEW a \in Apps, SendView(a)
    PROVE  StreamerInv'
<1>1. UNCHANGED <<buffer, shown, options, finished, connected, pc>> /\ pc[a] = "send"
      /\ plan[a] # <<>> /\ success' = [success EXCEPT ![a] = connected[a]]
  BY DEF SendView, server
<1>2. pc[a] \in Running
  BY <1>1 DEF Running
<1>3. CASE connected[a]
  <2>1. PICK m : m = [type |-> "image", tiles |-> TilesOf(Head(plan[a]), finished[a] + 1)]
    OBVIOUS
  <2>2. wire' = [wire EXCEPT ![a] = Append(@, m)] /\ plan' = [plan EXCEPT ![a] = Tail(@)]
    BY <1>3, <2>1 DEF SendView, Message
  <2>3. Defined' /\ success'[a] = TRUE /\ wire'[a] = Append(wire[a], m) /\ plan'[a] = Tail(plan[a])
    BY <1>1, <1>3, <2>2 DEF StreamerInv, Defined
  <2>4. PICK L \in Nat : L = Len(Passes(options[a])) /\ L >= 1
    BY PassesListed
  <2>5. Listed(plan[a]) /\ Len(plan[a]) <= L
        /\ \A i \in 1 .. Len(plan[a]) : plan[a][i] = Passes(options[a])[L - Len(plan[a]) + i]
    BY <1>1, <1>3, <2>4, AppFields DEF PlanFits
  <2>6. PICK n \in Nat : n = Len(plan[a]) /\ n <= L /\ n >= 1
    BY <1>1, <2>5, TailListed
  <2>7. Listed(plan'[a]) /\ Len(plan'[a]) = n - 1 /\ Head(plan[a]) = plan[a][1]
        /\ \A i \in 1 .. n - 1 : plan'[a][i] = plan[a][i + 1]
    BY <1>1, <2>3, <2>5, <2>6, TailListed
  <2>8. AppAt(a) = [turn |-> finished[a] + 1, image |-> L + 1 - n]
    BY <1>1, <2>4, <2>6 DEF AppAt
  <2>9. AppAt(a)' = [turn |-> finished[a] + 1, image |-> L + 1 - (n - 1)]
    BY <1>1, <2>4, <2>7 DEF AppAt
  <2>11. PICK k : k = L + 1 - n
    OBVIOUS
  <2>20. k \in 1 .. L
    BY <2>6, <2>11
  <2>10. Head(plan[a]) = Passes(options[a])[L + 1 - n]
    <3>0. 1 \in 1 .. Len(plan[a])
      BY <2>6
    <3>1. plan[a][1] = Passes(options[a])[L - n + 1]
      BY <2>5, <2>6, <3>0
    <3>2. L - n + 1 = L + 1 - n
      BY <2>6
    <3> QED
      BY <2>7, <3>1, <3>2
  <2>12. m = Due(AppAt(a), options[a])
    BY <2>1, <2>4, <2>8, <2>10, <2>11, <2>20 DEF Due
  <2>13. AppAt(a)' = Following(AppAt(a), options[a])
    BY <2>4, <2>8, <2>9, <2>11, <2>20 DEF Following
  <2>14. connected'[a] /\ pc'[a] \in Running
    BY <1>1, <1>2, <1>3
  <2>15. Linked(a)'
    BY <1>1, <1>2, <1>3, <2>3, <2>12, <2>13, <2>14, AppFields, AppSends
  <2>16. Listed(wire'[a])
    BY <2>3, AppFields, AppendListed
  <2>17. PlanFits(a)'
    <3>1. \A i \in 1 .. n - 1 : plan'[a][i] = Passes(options[a])[L - (n - 1) + i]
      <4>1. SUFFICES ASSUME NEW i \in 1 .. n - 1
                     PROVE  plan'[a][i] = Passes(options[a])[L - (n - 1) + i]
        OBVIOUS
      <4>2. PICK j \in 1 .. n : j = i + 1
        OBVIOUS
      <4>3. L - n + j = L - (n - 1) + i
        BY <4>2
      <4> QED
        BY <2>5, <2>6, <2>7, <4>2, <4>3
    <3>2. Listed(plan'[a]) /\ Len(plan'[a]) = n - 1 /\ n - 1 <= L /\ success'[a] = TRUE
      BY <2>3, <2>6, <2>7
    <3>3. options' = options
      BY <1>1
    <3> QED
      BY <2>4, <3>1, <3>2, <3>3 DEF PlanFits
  <2>18. AppFits(a)'
    BY <1>1, <1>3, <2>3, <2>14, <2>15, <2>16, <2>17, AppFields DEF AppFits
  <2>19. \A s \in Apps \ {a} : success'[s] = success[s] /\ plan'[s] = plan[s] /\ wire'[s] = wire[s]
    BY <1>1, <2>2 DEF StreamerInv, Defined
  <2> QED
    BY <1>1, <2>3, <2>18, <2>19, OneAppSteps
<1>4. CASE ~ connected[a]
  <2>1. wire' = wire /\ plan' = [plan EXCEPT ![a] = <<>>]
    BY <1>4 DEF SendView, Message
  <2>2. Defined'
    BY <1>1, <2>1 DEF StreamerInv, Defined
  <2>3. Linked(a)'
    BY <1>1, <1>2, <1>4, <2>1, AppFields, AppStays
  <2>4. AppFits(a)'
    BY <1>1, <1>2, <1>4, <2>1, <2>3, AppFields DEF AppFits
  <2>5. \A s \in Apps \ {a} : success'[s] = success[s] /\ plan'[s] = plan[s]
    BY <1>1, <2>1 DEF StreamerInv, Defined
  <2> QED
    BY <1>1, <2>1, <2>2, <2>4, <2>5, OneAppSteps
<1> QED
  BY <1>3, <1>4

LEMMA FinishKeeps ==
    ASSUME StreamerInv, NEW a \in Apps, Finish(a)
    PROVE  StreamerInv'
<1>1. UNCHANGED <<buffer, shown, options, plan, connected>> /\ pc[a] = "send" /\ plan[a] = <<>>
      /\ pc' = [pc EXCEPT ![a] = "events"]
      /\ success' = [success EXCEPT ![a] = @ /\ connected[a]]
      /\ finished' = [finished EXCEPT ![a] = IF success'[a] THEN @ + 1 ELSE @]
  BY DEF Finish, server, Goto
<1>2. success'[a] = (success[a] /\ connected[a]) /\ success' \in [Apps -> BOOLEAN]
      /\ pc'[a] = "events" /\ DOMAIN pc' = Apps /\ DOMAIN finished' = Apps
  BY <1>1, AppFields DEF StreamerInv, Defined
<1>3. pc[a] \in Running /\ pc'[a] \in Running
  BY <1>1, <1>2 DEF Running
<1>4. CASE connected[a]
  <2>1. success[a] /\ finished[a] < MaxFinished[a]
    BY <1>1, <1>4, AppFields, PassesListed, NothingListed DEF PlanFits
  <2>2. finished'[a] = finished[a] + 1
    BY <1>1, <1>2, <1>4, <2>1 DEF StreamerInv, Defined
  <2>3. PICK m : m = [type |-> "finish"]
    OBVIOUS
  <2>4. wire' = [wire EXCEPT ![a] = Append(@, m)]
    BY <1>4, <2>1, <2>3 DEF Finish, Message
  <2>5. Defined' /\ wire'[a] = Append(wire[a], m)
    BY <1>1, <1>2, <2>4 DEF StreamerInv, Defined
  <2>6. PICK L \in Nat : L = Len(Passes(options[a])) /\ L >= 1
    BY PassesListed
  <2>7. AppAt(a) = [turn |-> finished[a] + 1, image |-> L + 1]
    BY <1>1, <2>6, NothingListed DEF AppAt
  <2>8. AppAt(a)' = [turn |-> (finished[a] + 1) + 1, image |-> 1]
    BY <1>2, <2>2 DEF AppAt
  <2>9. m = Due(AppAt(a), options[a])
    BY <2>3, <2>6, <2>7 DEF Due
  <2>10. AppAt(a)' = Following(AppAt(a), options[a])
    BY <2>6, <2>7, <2>8 DEF Following
  <2>11. connected'[a]
    BY <1>1, <1>4
  <2>12. Linked(a)'
    BY <1>1, <1>3, <1>4, <2>5, <2>9, <2>10, <2>11, AppFields, AppSends
  <2>13. Listed(wire'[a])
    BY <2>5, AppFields, AppendListed
  <2>14. AppFits(a)'
    BY <1>2, <1>3, <2>1, <2>2, <2>12, <2>13, AppFields DEF AppFits
  <2>15. \A s \in Apps \ {a} : /\ pc'[s] = pc[s] /\ success'[s] = success[s]
                               /\ finished'[s] = finished[s] /\ wire'[s] = wire[s]
    BY <1>1, <2>4 DEF StreamerInv, Defined
  <2> QED
    BY <1>1, <2>5, <2>14, <2>15, OneAppSteps
<1>5. CASE ~ connected[a]
  <2>1. wire' = wire
    BY <1>5 DEF Finish, Message
  <2>2. finished'[a] = finished[a]
    BY <1>1, <1>2, <1>5 DEF StreamerInv, Defined
  <2>3. Defined'
    BY <1>1, <1>2, <2>1 DEF StreamerInv, Defined
  <2>4. Linked(a)'
    BY <1>1, <1>3, <1>5, <2>1, AppFields, AppStays
  <2>5. AppFits(a)'
    BY <1>2, <1>3, <2>1, <2>2, <2>4, AppFields DEF AppFits
  <2>6. \A s \in Apps \ {a} : /\ pc'[s] = pc[s] /\ success'[s] = success[s]
                              /\ finished'[s] = finished[s]
    BY <1>1 DEF StreamerInv, Defined
  <2> QED
    BY <1>1, <2>1, <2>3, <2>5, <2>6, OneAppSteps
<1> QED
  BY <1>4, <1>5

LEMMA EndOfDisplayKeeps ==
    ASSUME StreamerInv, NEW a \in Apps, EndOfDisplay(a)
    PROVE  StreamerInv'
<1>1. UNCHANGED <<buffer, shown, options, plan, connected, success, finished>> /\ pc[a] = "events"
  BY DEF EndOfDisplay, server
<1>2. pc[a] \in Running
  BY <1>1 DEF Running
<1>3. CASE pc' = [pc EXCEPT ![a] = "draw"] /\ wire' = wire
  <2>1. Defined' /\ pc'[a] = "draw"
    BY <1>1, <1>3 DEF StreamerInv, Defined
  <2>2. AppAt(a)' = AppAt(a)
    BY <1>1, <2>1 DEF AppAt
  <2>3. pc'[a] \in Running
    BY <2>1 DEF Running
  <2>4. Linked(a)'
    BY <1>1, <1>2, <1>3, <2>2, <2>3, AppFields, AppStays
  <2>5. AppFits(a)'
    BY <1>1, <1>3, <2>1, <2>3, <2>4, AppFields DEF AppFits
  <2>6. \A s \in Apps \ {a} : pc'[s] = pc[s]
    BY <1>3 DEF StreamerInv, Defined
  <2> QED
    BY <1>1, <1>3, <2>1, <2>5, <2>6, OneAppSteps
<1>4. ASSUME NEW how \in {"exited", "failed"}, Exit(a, how)
      PROVE  StreamerInv'
  <2>1. pc' = [pc EXCEPT ![a] = how]
        /\ wire' = IF connected[a] THEN [wire EXCEPT ![a] = Append(@, QuitMessage)] ELSE wire
    BY <1>4 DEF Exit, Goto, Message, QuitMessage
  <2>2. Defined' /\ pc'[a] = how
    BY <1>1, <2>1 DEF StreamerInv, Defined
  <2>3. wire'[a] = IF connected[a] THEN Append(wire[a], QuitMessage) ELSE wire[a]
    BY <2>1 DEF StreamerInv, Defined
  <2>4. Ended(a)'
    BY <2>2 DEF Ended
  <2>5. Linked(a)'
    <3>1. Linked(a) /\ Listed(wire[a]) /\ finished[a] \in Nat
      BY AppFields
    <3>2. UNCHANGED <<buffer, options>> /\ finished'[a] = finished[a] /\ connected' = connected
      BY <1>1
    <3>3. connected'[a] => connected[a]
      BY <3>2
    <3>4. wire'[a] = Append(wire[a], QuitMessage) \/ (~ connected[a] /\ wire'[a] = wire[a])
      BY <2>3
    <3> QED
      BY <1>2, <2>4, <3>1, <3>2, <3>3, <3>4, AppQuits
  <2>6. Listed(wire'[a])
    BY <2>3, AppFields, AppendListed
  <2>7. AppFits(a)'
    BY <1>1, <2>2, <2>5, <2>6, AppFields DEF AppFits
  <2>8. \A s \in Apps \ {a} : pc'[s] = pc[s] /\ wire'[s] = wire[s]
    BY <2>1 DEF StreamerInv, Defined
  <2> QED
    BY <1>1, <2>2, <2>7, <2>8, OneAppSteps
<1> QED
  BY <1>3, <1>4 DEF EndOfDisplay, Goto

\* What the invariant does not speak about.
LEMMA NothingSteps ==
    ASSUME StreamerInv, UNCHANGED <<buffer, shown, options, pc, plan, success, finished, wire, connected>>
    PROVE  StreamerInv'
<1>1. ASSUME NEW s \in Apps
      PROVE  AppFits(s)'
  <2>1. AppFits(s)
    BY DEF StreamerInv
  <2>2. Goal(s)' = Goal(s)
    BY DEF Goal, Ended, AppAt
  <2>3. Linked(s)'
    BY <2>1, <2>2 DEF AppFits, Linked
  <2> QED
    BY <2>1, <2>3 DEF AppFits, PlanFits
<1>2. BufferFits(buffer)'
  BY DEF StreamerInv, BufferFits, SourcesOf
<1>3. OneTurnOfAll'
  BY DEF StreamerInv, OneTurnOfAll
<1>4. Defined'
  BY DEF StreamerInv, Defined
<1> QED
  BY <1>1, <1>2, <1>3, <1>4 DEF StreamerInv

-----------------------------------------------------------------------------
(* SimpleStreamer: lemmas about source buffers                             *)

\* A list whose last element is another one.
WithLast(w, m) == [w EXCEPT ![Len(w)] = m]

LEMMA LastReplaced ==
    ASSUME NEW w, Listed(w), Len(w) >= 1, NEW m
    PROVE  /\ Listed(WithLast(w, m)) /\ Len(WithLast(w, m)) = Len(w)
           /\ Len(w) \in Nat /\ WithLast(w, m)[Len(w)] = m
           /\ \A i \in 1 .. Len(w) - 1 : WithLast(w, m)[i] = w[i]
<1>1. PICK S : w \in Seq(S)
  BY DEF Listed
<1>2. PICK T : T = S \cup {m}
  OBVIOUS
<1>3. w \in Seq(T) /\ m \in T
  BY <1>1, <1>2, SeqMonotonic
<1>4. PICK n \in Nat : n = Len(w) /\ n >= 1
  BY <1>3, LenProperties
<1>5. n \in 1 .. Len(w)
  BY <1>4
<1>6. PICK v : v = [w EXCEPT ![n] = m] /\ v = WithLast(w, m)
  BY <1>4 DEF WithLast
<1>7. v \in Seq(T) /\ Len(v) = Len(w) /\ \A i \in 1 .. Len(w) : v[i] = IF i = n THEN m ELSE w[i]
  BY <1>3, <1>5, <1>6, ExceptSeq
<1>8. Listed(v)
  BY <1>7 DEF Listed
<1> QED
  BY <1>4, <1>5, <1>6, <1>7, <1>8

LEMMA RestListed ==
    ASSUME NEW w, Listed(w), NEW k \in Nat, k < Len(w)
    PROVE  LET v == SubSeq(w, k + 1, Len(w))
           IN  /\ Listed(v) /\ Len(v) = Len(w) - k /\ Len(w) \in Nat
               /\ \A i \in 1 .. Len(w) - k : v[i] = w[k + i]
<1>1. PICK S : w \in Seq(S)
  BY DEF Listed
<1>2. PICK n \in Nat : n = Len(w)
  BY <1>1, LenProperties
<1>3. PICK v : v = SubSeq(w, k + 1, n)
  OBVIOUS
<1>4. v \in Seq(S) /\ Len(v) = n - k /\ \A i \in 1 .. n - k : v[i] = w[k + i]
  <2>1. k + 1 \in 1 .. Len(w) + 1 /\ n \in k .. Len(w)
    BY <1>2
  <2>2. Len(v) = n - k /\ \A i \in 1 .. Len(v) : v[i] = w[(k + 1) + i - 1]
    BY <1>1, <1>2, <1>3, <2>1, SubSeqProperties
  <2>3. \A i \in 1 .. n - k : (k + 1) + i - 1 = k + i
    OBVIOUS
  <2>4. v \in Seq(S)
    BY <1>1, <1>2, <1>3, <2>1, SubSeqProperties
  <2> QED
    BY <2>2, <2>3, <2>4
<1>5. Listed(v)
  BY <1>4 DEF Listed
<1> QED
  BY <1>2, <1>3, <1>4, <1>5

LEMMA SourceStarts ==
    ASSUME NEW o
    PROVE  SourceFits(NewSourceBuffer, 0, FirstPlace, o)
<1>1. PICK w : w = <<{}>>
  OBVIOUS
<1>2. Listed(w) /\ Len(w) = 1 /\ w[1] = {}
  BY <1>1, OneListed
<1>3. NewSourceBuffer = [queue |-> w, back |-> 0]
  BY <1>1 DEF NewSourceBuffer
<1>4. FirstPlace \in Places(o) /\ FirstPlace.turn = 1 /\ FirstPlace.image = 1
  BY FirstPlaceIs DEF FirstPlace
<1>5. UNION {TilesOf(Passes(o)[m], FirstPlace.turn) : m \in 1 .. FirstPlace.image - 1} = {}
  BY <1>4
<1>6. PICK sb : sb = NewSourceBuffer
  OBVIOUS
<1>7. sb.queue = w /\ sb.back = 0 /\ sb = [queue |-> sb.queue, back |-> sb.back]
  BY <1>3, <1>6
<1>8. Len(sb.queue) = sb.back + 1 - 0 /\ \A n \in 1 .. Len(sb.queue) - 1 : FALSE
  <2>1. Len(sb.queue) = 1 /\ sb.back + 1 - 0 = 1
    BY <1>2, <1>7
  <2>2. 1 .. Len(sb.queue) - 1 = {}
    BY <2>1
  <2> QED
    BY <2>1, <2>2
<1>9. sb.queue[Len(sb.queue)] = {}
  BY <1>2, <1>7
<1>10. SourceFits(sb, 0, FirstPlace, o)
  BY <1>2, <1>4, <1>5, <1>7, <1>8, <1>9 DEF SourceFits
<1> QED
  BY <1>6, <1>10

LEMMA SourceInserts ==
    ASSUME NEW sb, NEW last, NEW p, NEW o, SourceFits(sb, last, p, o), ~ p.image > Len(Passes(o)),
           NEW part, part = TilesOf(Passes(o)[p.image], p.turn)
    PROVE  SourceFits([queue |-> [sb.queue EXCEPT ![Len(sb.queue)] = @ \cup part], back |-> sb.back],
                      last, Following(p, o), o)
<1>1. PICK L \in Nat : L = Len(Passes(o))
  BY PassesListed
<1>2. PICK w, n, r : w = sb.queue /\ n = Len(w) /\ r = w[n] \cup part
  OBVIOUS
<1>3. Listed(w) /\ n = sb.back + 1 - last /\ last \in Nat /\ sb.back \in Nat /\ last <= sb.back
      /\ p.turn = sb.back + 1 /\ p \in Places(o)
  BY <1>2 DEF SourceFits
<1>4. n >= 1 /\ n \in Nat
  BY <1>3
<1>5. PICK v : v = [w EXCEPT ![n] = r]
  OBVIOUS
<1>6. Listed(v) /\ Len(v) = n /\ v[n] = r /\ \A i \in 1 .. n - 1 : v[i] = w[i]
  <2>1. v = WithLast(w, r) /\ Len(w) >= 1
    BY <1>2, <1>4, <1>5 DEF WithLast
  <2>2. Listed(v) /\ Len(v) = Len(w) /\ v[Len(w)] = r /\ \A i \in 1 .. Len(w) - 1 : v[i] = w[i]
    BY <1>3, <2>1, LastReplaced
  <2> QED
    BY <1>2, <2>2
<1>7. PICK f : f = Following(p, o)
  OBVIOUS
<1>8. f \in Places(o) /\ f.turn = p.turn /\ f.image = p.image + 1 /\ p.image \in Nat
  BY <1>3, <1>7, FollowingIs DEF Places
<1>9. r = UNION {TilesOf(Passes(o)[m], f.turn) : m \in 1 .. f.image - 1}
  <2>1. w[n] = UNION {TilesOf(Passes(o)[m], p.turn) : m \in 1 .. p.image - 1}
    BY <1>2 DEF SourceFits
  <2>2. PICK k, t : k \in Nat /\ k = p.image /\ t = p.turn
    BY <1>8
  <2>3. 1 .. f.image - 1 = (1 .. k - 1) \cup {k}
    <3>1. k >= 1
      BY <1>3, <2>2 DEF Places
    <3> QED
      BY <1>8, <2>2, <3>1
  <2>4. UNION {TilesOf(Passes(o)[m], t) : m \in (1 .. k - 1) \cup {k}}
          = (UNION {TilesOf(Passes(o)[m], t) : m \in 1 .. k - 1}) \cup TilesOf(Passes(o)[k], t)
    OBVIOUS
  <2> QED
    BY <1>2, <1>8, <2>1, <2>2, <2>3, <2>4
<1>10. \A i \in 1 .. n - 1 : v[i] = Whole(last + i, o)
  BY <1>2, <1>6 DEF SourceFits
<1>11. SourceFits([queue |-> v, back |-> sb.back], last, f, o)
  BY <1>3, <1>6, <1>8, <1>9, <1>10 DEF SourceFits
<1> QED
  BY <1>2, <1>5, <1>7, <1>11

\* Before it is full, a counter does not wrap.
LEMMA NoWrap ==
    ASSUME NEW size \in Nat \ {0}, NEW count \in Nat, count < size
    PROVE  count % size = count
OBVIOUS

LEMMA SourcePushes ==
    ASSUME NEW sb, NEW last, NEW p, NEW o, SourceFits(sb, last, p, o), p.image > Len(Passes(o)),
           p.turn < FrameIndexSpan
    PROVE  SourceFits(PushFrame(sb), last, Following(p, o), o)
<1>1. PICK L \in Nat : L = Len(Passes(o)) /\ DOMAIN Passes(o) = 1 .. L
  BY PassesListed
<1>2. PICK w, n : w = sb.queue /\ n = Len(w)
  OBVIOUS
<1>3. Listed(w) /\ n = sb.back + 1 - last /\ last \in Nat /\ sb.back \in Nat /\ last <= sb.back
      /\ p.turn = sb.back + 1 /\ p \in Places(o)
  BY <1>2 DEF SourceFits
<1>4. n >= 1 /\ n \in Nat
  BY <1>3
<1>5. (sb.back + 1) % FrameIndexSpan = sb.back + 1
  <2>1. sb.back + 1 \in Nat /\ sb.back + 1 < FrameIndexSpan /\ FrameIndexSpan \in Nat \ {0}
    BY <1>3, BufferAssumption
  <2> QED
    BY <2>1, NoWrap
<1>6. PICK v, e : e = {} /\ v = Append(w, e)
  OBVIOUS
<1>7. Listed(v) /\ Len(v) = n + 1 /\ v[n + 1] = {} /\ \A i \in 1 .. n : v[i] = w[i]
  <2>1. /\ Listed(v) /\ Len(v) = Len(w) + 1 /\ v[Len(w) + 1] = e
        /\ \A i \in 1 .. Len(w) : v[i] = w[i]
    BY <1>3, <1>6, AppendListed
  <2> QED
    BY <1>2, <1>6, <2>1
<1>8. PICK f : f = Following(p, o)
  OBVIOUS
<1>9. f \in Places(o) /\ f.turn = p.turn + 1 /\ f.image = 1
  BY <1>3, <1>8, FollowingIs
<1>10. v[n + 1] = UNION {TilesOf(Passes(o)[m], f.turn) : m \in 1 .. f.image - 1}
  <2>1. UNION {TilesOf(Passes(o)[m], f.turn) : m \in 1 .. f.image - 1} = {}
    BY <1>9
  <2> QED
    BY <1>7, <2>1
<1>11. p.image = L + 1
  BY <1>1, <1>3 DEF Places
<1>12. w[n] = Whole(p.turn, o)
  <2>1. w[n] = UNION {TilesOf(Passes(o)[m], p.turn) : m \in 1 .. p.image - 1}
    BY <1>2 DEF SourceFits
  <2>2. 1 .. p.image - 1 = 1 .. L
    BY <1>11
  <2> QED
    BY <1>1, <2>1, <2>2 DEF Whole
<1>13. \A i \in 1 .. n : v[i] = Whole(last + i, o)
  <2>1. \A i \in 1 .. n - 1 : w[i] = Whole(last + i, o)
    BY <1>2 DEF SourceFits
  <2>2. last + n = p.turn
    BY <1>3
  <2>3. v[n] = Whole(last + n, o)
    BY <1>4, <1>7, <1>12, <2>2
  <2> QED
    BY <1>4, <1>7, <2>1, <2>3
<1>14. PushFrame(sb) = [queue |-> v, back |-> sb.back + 1]
  BY <1>2, <1>5, <1>6 DEF PushFrame
<1>15. n + 1 = (sb.back + 1) + 1 - last /\ f.turn = (sb.back + 1) + 1 /\ last <= sb.back + 1
  BY <1>3, <1>9
<1>16. SourceFits([queue |-> v, back |-> sb.back + 1], last, f, o)
  BY <1>3, <1>4, <1>7, <1>9, <1>10, <1>13, <1>15 DEF SourceFits
<1> QED
  BY <1>8, <1>14, <1>16

PoppedTo(sb, last, n) == [sb EXCEPT !.queue = SubSeq(@, n - last + 1, Len(@))]

LEMMA SourcePops ==
    ASSUME NEW sb, NEW last, NEW p, NEW o, SourceFits(sb, last, p, o),
           NEW n \in Nat, n > last, n <= sb.back
    PROVE  /\ SourceFits(PoppedTo(sb, last, n), n, p, o)
           /\ sb.queue[n - last] = Whole(n, o)
<1>1. PICK w, k : w = sb.queue /\ k = n - last
  OBVIOUS
<1>2. Listed(w) /\ Len(w) = sb.back + 1 - last /\ last \in Nat /\ sb.back \in Nat
      /\ p.turn = sb.back + 1 /\ p \in Places(o) /\ sb = [queue |-> w, back |-> sb.back]
  BY <1>1 DEF SourceFits
<1>3. k \in Nat /\ k < Len(w) /\ k >= 1 /\ Len(w) \in Nat
  BY <1>1, <1>2
<1>4. PICK v : v = SubSeq(w, k + 1, Len(w))
  OBVIOUS
<1>5. Listed(v) /\ Len(v) = Len(w) - k /\ \A i \in 1 .. Len(w) - k : v[i] = w[k + i]
  BY <1>2, <1>3, <1>4, RestListed
<1>6. \A i \in 1 .. Len(w) - 1 : w[i] = Whole(last + i, o)
  BY <1>1 DEF SourceFits
<1>7. \A i \in 1 .. Len(v) - 1 : v[i] = Whole(n + i, o)
  <2>1. SUFFICES ASSUME NEW i \in 1 .. Len(v) - 1
                 PROVE  v[i] = Whole(n + i, o)
    OBVIOUS
  <2>2. v[i] = w[k + i] /\ k + i \in 1 .. Len(w) - 1
    BY <1>3, <1>5
  <2>3. last + (k + i) = n + i
    BY <1>1, <1>2
  <2> QED
    BY <1>6, <2>2, <2>3
<1>8. v[Len(v)] = w[Len(w)]
  <2>1. Len(v) \in 1 .. Len(w) - k /\ k + Len(v) = Len(w)
    BY <1>3, <1>5
  <2> QED
    BY <1>5, <2>1
<1>9. v[Len(v)] = UNION {TilesOf(Passes(o)[m], p.turn) : m \in 1 .. p.image - 1}
  BY <1>1, <1>8 DEF SourceFits
<1>10. Len(v) = sb.back + 1 - n /\ n <= sb.back
  BY <1>1, <1>2, <1>5
<1>11. SourceFits([queue |-> v, back |-> sb.back], n, p, o)
  BY <1>2, <1>5, <1>7, <1>9, <1>10 DEF SourceFits
<1>12. PoppedTo(sb, last, n) = [queue |-> v, back |-> sb.back]
  <2>1. SubSeq(sb.queue, n - last + 1, Len(sb.queue)) = v
    BY <1>1, <1>4
  <2>2. [sb EXCEPT !.queue = v] = [queue |-> v, back |-> sb.back]
    BY <1>2
  <2> QED
    BY <2>1, <2>2 DEF PoppedTo
<1>13. w[k] = Whole(n, o)
  <2>1. last + k = n /\ k \in 1 .. Len(w) - 1
    BY <1>1, <1>2, <1>3
  <2> QED
    BY <1>6, <2>1
<1> QED
  BY <1>1, <1>11, <1>12, <1>13

-----------------------------------------------------------------------------
(* SimpleStreamer: the buffer of the stream                                *)

SourceKept(a, b, b2, o) ==
    \A p : SourceFits(b.sources[a], b.last, p, o) => SourceFits(b2.sources[a], b2.last, p, o)

SourcesFit(b) == \A a \in SourcesOf(b) : \E p : SourceFits(b.sources[a], b.last, p, options[a])

\* A frame that is dispatched has whole frames of the same turn.
LEMMA DrainedIs ==
    ASSUME NEW b, NEW n, NEW a \in SourcesOf(b)
    PROVE  /\ SourcesOf(Drained(b, n)) = SourcesOf(b) /\ Drained(b, n).last = n
           /\ Drained(b, n).sources[a] = PoppedTo(b.sources[a], b.last, n)
BY DEF Drained, SourcesOf, PoppedTo

LEMMA DispatchKeeps ==
    ASSUME NEW b, BufferFits(b), SourcesFit(b), SourcesOf(b) # {}, Dispatch(b), OneTurnOfAll, UNCHANGED options
    PROVE  /\ BufferFits(buffer)' /\ SourcesOf(buffer') = SourcesOf(b) /\ OneTurnOfAll'
           /\ \A a \in SourcesOf(b) : SourceKept(a, b, buffer', options[a])
<1>1. CASE ~ (b.allowed /\ HasCompleteFrame(b))
  <2>1. buffer' = b /\ shown' = shown
    BY <1>1 DEF Dispatch
  <2>2. BufferFits(buffer)'
    BY <2>1 DEF BufferFits, SourcesOf
  <2>3. OneTurnOfAll'
    BY <2>1 DEF OneTurnOfAll
  <2> QED
    BY <2>1, <2>2, <2>3 DEF SourceKept
<1>2. CASE b.allowed /\ HasCompleteFrame(b)
  <2>1. PICK n \in LatestFrame(b) :
           /\ shown' = [turn |-> n, of |-> SourcesOf(b), tiles |-> TilesOfFrame(b, n)]
           /\ buffer' = Drained(b, n)
    BY <1>2 DEF Dispatch
  <2>2. PICK last \in Nat : last = b.last
    BY DEF BufferFits
  <2>3. \A a \in SourcesOf(b) : b.sources[a].back \in Nat
    BY DEF SourcesFit, SourceFits
  <2>4. n \in Nat /\ n > last /\ \A a \in SourcesOf(b) : n <= b.sources[a].back
    BY <2>1, <2>2, <2>3 DEF LatestFrame
  <2>5. SourcesOf(buffer') = SourcesOf(b) /\ buffer'.last = n
    BY <2>1, DrainedIs
  <2>6. ASSUME NEW a \in SourcesOf(b)
        PROVE  SourceKept(a, b, buffer', options[a]) /\ b.sources[a].queue[n - last] = Whole(n, options[a])
    <3>1. PICK sb : sb = b.sources[a]
      OBVIOUS
    <3>2. buffer'.sources[a] = PoppedTo(sb, last, n)
      BY <2>1, <2>2, <2>6, <3>1, DrainedIs
    <3>3. n <= sb.back
      BY <2>4, <2>6, <3>1
    <3>4. ASSUME NEW p, SourceFits(sb, last, p, options[a])
          PROVE  SourceFits(buffer'.sources[a], n, p, options[a]) /\ sb.queue[n - last] = Whole(n, options[a])
      BY <2>4, <3>2, <3>3, <3>4, SourcePops
    <3>5. PICK p : SourceFits(sb, last, p, options[a])
      BY <2>2, <2>6, <3>1 DEF SourcesFit
    <3> QED
      BY <2>2, <2>5, <3>1, <3>4, <3>5 DEF SourceKept
  <2>7. shown'.tiles = UNION {Whole(n, options[a]) : a \in SourcesOf(b)}
    BY <2>1, <2>2, <2>6 DEF TilesOfFrame
  <2>8. SourcesOf(b) \in SUBSET Apps
    BY DEF BufferFits
  <2>9. OneTurnOfAll'
    BY <2>1, <2>7 DEF OneTurnOfAll
  <2>10. BufferFits(buffer)'
    <3>1. buffer' = [sources |-> buffer'.sources, last |-> buffer'.last, allowed |-> buffer'.allowed]
      BY <2>1 DEF Drained
    <3>2. buffer'.last \in Nat /\ SourcesOf(buffer') \subseteq Apps
      BY <2>4, <2>5, <2>8
    <3> QED
      BY <3>1, <3>2 DEF BufferFits, SourcesOf
  <2> QED
    BY <2>5, <2>6, <2>9, <2>10
<1> QED
  BY <1>1, <1>2

\* One source of a buffer is replaced or added.
LEMMA WithSourceIs ==
    ASSUME NEW b, BufferFits(b), NEW a \in Apps, NEW sb
    PROVE  /\ BufferFits(WithSource(b, a, sb))
           /\ SourcesOf(WithSource(b, a, sb)) = SourcesOf(b) \cup {a}
           /\ WithSource(b, a, sb).last = b.last
           /\ WithSource(b, a, sb).sources[a] = sb
           /\ \A s \in SourcesOf(b) \ {a} : WithSource(b, a, sb).sources[s] = b.sources[s]
<1>1. PICK f : f = [r \in DOMAIN b.sources \cup {a} |-> IF r = a THEN sb ELSE b.sources[r]]
  OBVIOUS
<1>2. WithSource(b, a, sb) = [b EXCEPT !.sources = f]
  BY <1>1 DEF WithSource
<1>3. b = [sources |-> b.sources, last |-> b.last, allowed |-> b.allowed]
  BY DEF BufferFits
<1>4. PICK b2 : b2 = WithSource(b, a, sb)
  OBVIOUS
<1>5. b2 = [sources |-> f, last |-> b.last, allowed |-> b.allowed]
  BY <1>2, <1>3, <1>4
<1>6. DOMAIN f = SourcesOf(b) \cup {a} /\ f[a] = sb /\ \A s \in SourcesOf(b) \ {a} : f[s] = b.sources[s]
  BY <1>1 DEF SourcesOf
<1>7. b2.sources = f /\ b2.last = b.last /\ b2.allowed = b.allowed
      /\ b2 = [sources |-> b2.sources, last |-> b2.last, allowed |-> b2.allowed]
  BY <1>5
<1>8. BufferFits(b2)
  BY <1>6, <1>7 DEF BufferFits, SourcesOf
<1> QED
  BY <1>4, <1>6, <1>7, <1>8 DEF SourcesOf

-----------------------------------------------------------------------------
(* SimpleStreamer: the steps of the server                                 *)

AppsWait == UNCHANGED <<options, pc, plan, success, finished>>

LEMMA LinkMoves ==
    ASSUME NEW a, NEW b, NEW link, NEW v, NEW goal, NEW o, LinkFits(a, b, link, v, goal, o),
           NEW b2, a \in SourcesOf(b2) <=> a \in SourcesOf(b), SourceKept(a, b, b2, o)
    PROVE  LinkFits(a, b2, link, v, goal, o)
BY DEF LinkFits, SourceKept

\* The link of an application that the step is not about.
LEMMA StaysLinked ==
    ASSUME NEW s, AppsWait, Linked(s), connected'[s] = connected[s], wire'[s] = wire[s],
           s \in SourcesOf(buffer') <=> s \in SourcesOf(buffer),
           s \in SourcesOf(buffer) => SourceKept(s, buffer, buffer', options[s])
    PROVE  Linked(s)'
<1>1. Goal(s)' = Goal(s)
  BY DEF Goal, Ended, AppAt, AppsWait
<1>2. LinkFits(s, buffer', connected[s], wire[s], Goal(s), options[s])
  <2>1. CASE s \in SourcesOf(buffer)
    BY <2>1, LinkMoves DEF Linked
  <2>2. CASE s \notin SourcesOf(buffer)
    BY <2>2 DEF Linked, LinkFits
  <2> QED
    BY <2>1, <2>2
<1> QED
  BY <1>1, <1>2 DEF Linked, AppsWait

LEMMA CutOff ==
    ASSUME NEW s, s \notin SourcesOf(buffer'), ~ connected'[s], wire'[s] = <<>>
    PROVE  Linked(s)' /\ Listed(wire'[s])
<1>1. LinkFits(s, buffer', connected'[s], wire'[s], Goal(s)', options'[s])
  BY NoLinkFits
<1> QED
  BY <1>1, NothingListed DEF Linked

Served(s) ==
    /\ Linked(s)' /\ Listed(wire'[s])
    /\ connected'[s] => connected[s]
    /\ wire[s] = <<>> => wire'[s] = <<>>

LEMMA NothingShown ==
    ASSUME OneTurnOfAll, shown' = shown, AppsWait
    PROVE  OneTurnOfAll'
BY DEF OneTurnOfAll, AppsWait

LEMMA ServerSteps ==
    ASSUME StreamerInv, AppsWait, connected' \in [Apps -> BOOLEAN], DOMAIN wire' = Apps,
           BufferFits(buffer)', OneTurnOfAll',
           \A s \in Apps : Served(s)
    PROVE  StreamerInv'
<1>1. Defined'
  BY DEF AppsWait, StreamerInv, Defined
<1>2. ASSUME NEW s \in Apps
      PROVE  AppFits(s)'
  <2>1. AppFits(s)
    BY DEF StreamerInv
  <2>2. connected'[s] \in BOOLEAN /\ connected[s] \in BOOLEAN
    BY DEF StreamerInv, Defined
  <2>3. PlanFits(s) => PlanFits(s)'
    BY DEF PlanFits, AppsWait
  <2>4. pc'[s] = pc[s] /\ finished'[s] = finished[s]
    BY DEF AppsWait
  <2>5. /\ Linked(s)' /\ Listed(wire'[s])
        /\ connected'[s] => connected[s]
        /\ wire[s] = <<>> => wire'[s] = <<>>
    BY DEF Served
  <2> QED
    BY <2>1, <2>2, <2>3, <2>4, <2>5 DEF AppFits
<1> QED
  BY <1>1, <1>2 DEF StreamerInv

LEMMA NewBuffer == BufferFits(NewReceiveBuffer) /\ SourcesOf(NewReceiveBuffer) = {}
<1>1. PICK e : e = <<>> /\ DOMAIN e = {}
  OBVIOUS
<1>2. NewReceiveBuffer = [sources |-> e, last |-> 0, allowed |-> FALSE]
  BY <1>1 DEF NewReceiveBuffer
<1>3. PICK b : b = NewReceiveBuffer
  OBVIOUS
<1>4. b.sources = e /\ b.last = 0 /\ b = [sources |-> b.sources, last |-> b.last, allowed |-> b.allowed]
  BY <1>2, <1>3
<1>5. BufferFits(b) /\ SourcesOf(b) = {}
  BY <1>1, <1>4 DEF BufferFits, SourcesOf
<1> QED
  BY <1>3, <1>5

LEMMA CloseStreamKeeps ==
    ASSUME StreamerInv, AppsWait, NEW rest, CloseStream(rest),
           \A s \in Apps \ SourcesOf(buffer) : rest[s] = wire[s]
    PROVE  StreamerInv'
<1>1. /\ connected' = [a \in Apps |-> connected[a] /\ a \notin SourcesOf(buffer)]
      /\ wire' = [a \in Apps |-> IF a \in SourcesOf(buffer) THEN <<>> ELSE rest[a]]
      /\ buffer' = NewReceiveBuffer /\ shown' = shown
  BY DEF CloseStream, Disconnect
<1>2. BufferFits(buffer)' /\ SourcesOf(buffer') = {}
  BY <1>1, NewBuffer DEF BufferFits, SourcesOf
<1>3. OneTurnOfAll'
  BY <1>1 DEF OneTurnOfAll, StreamerInv, AppsWait
<1>4. connected' \in [Apps -> BOOLEAN] /\ DOMAIN wire' = Apps
  BY <1>1 DEF StreamerInv, Defined
<1>5. ASSUME NEW s \in Apps
      PROVE  Served(s)
  <2>1. CASE s \in SourcesOf(buffer)
    <3>1. wire'[s] = <<>> /\ connected'[s] = FALSE
      BY <1>1, <2>1
    <3> QED
      BY <1>2, <3>1, CutOff DEF Served
  <2>2. CASE s \notin SourcesOf(buffer)
    <3>1. wire'[s] = wire[s] /\ connected'[s] = connected[s]
      BY <1>1, <2>2 DEF StreamerInv, Defined
    <3>2. Linked(s) /\ Listed(wire[s])
      BY AppFields
    <3>3. Linked(s)'
      BY <1>2, <2>2, <3>1, <3>2, StaysLinked
    <3> QED
      BY <3>1, <3>2, <3>3 DEF Served
  <2> QED
    BY <2>1, <2>2
<1> QED
  BY <1>2, <1>3, <1>4, <1>5, ServerSteps

\* What is read from a source.
LEMMA ReadsScript ==
    ASSUME StreamerInv, NEW a \in Apps, wire[a] # <<>>, Head(wire[a]).type \in {"image", "finish"}
    PROVE  /\ a \in SourcesOf(buffer)
           /\ \E p \in Places(options[a]), q \in Goal(a).reached :
                /\ SourceFits(buffer.sources[a], buffer.last, p, options[a])
                /\ Head(wire[a]) = Due(p, options[a])
                /\ Flow(Tail(wire[a]), Following(p, options[a]), q, Goal(a).over, options[a])
                /\ p.image > Len(Passes(options[a])) => p.turn < q.turn
<1>1. Linked(a)
  BY AppFields
<1>2. a \in SourcesOf(buffer)
  <2>1. SUFFICES ASSUME a \notin SourcesOf(buffer)
                 PROVE  FALSE
    OBVIOUS
  <2>2. wire[a] = <<QuitMessage>> \/ Head(wire[a]) = OpenMessage
    BY <1>1, <2>1 DEF Linked, LinkFits
  <2>3. Head(wire[a]) = QuitMessage \/ Head(wire[a]) = OpenMessage
    BY <2>2, TailOfOne
  <2>4. QuitMessage.type = "quit" /\ OpenMessage.type = "open"
    BY DEF QuitMessage, OpenMessage
  <2> QED
    BY <2>3, <2>4
<1>3. PICK p : SourceFits(buffer.sources[a], buffer.last, p, options[a])
                 /\ Awaits(wire[a], p, Goal(a), options[a])
  BY <1>1, <1>2 DEF Linked, LinkFits
<1>4. PICK q \in Goal(a).reached : Flow(wire[a], p, q, Goal(a).over, options[a])
  BY <1>3 DEF Awaits
<1>5. Goal(a).over \in BOOLEAN
  BY DEF Goal, Ended
<1>6. /\ Head(wire[a]) = Due(p, options[a])
      /\ Flow(Tail(wire[a]), Following(p, options[a]), q, Goal(a).over, options[a])
      /\ p \in Places(options[a])
      /\ p.image > Len(Passes(options[a])) => p.turn < q.turn
  <2>0. PICK over \in BOOLEAN : over = Goal(a).over
    BY <1>5
  <2>1. PICK v, o : v = wire[a] /\ o = options[a]
    OBVIOUS
  <2>2. v # <<>> /\ Head(v).type # "quit" /\ Flow(v, p, q, over, o)
    BY <1>4, <2>0, <2>1
  <2>3. /\ Head(v) = Due(p, o) /\ Flow(Tail(v), Following(p, o), q, over, o)
        /\ p \in Places(o)
        /\ p.image > Len(Passes(o)) => p.turn < q.turn
    BY ONLY <2>2, FlowReads, over \in BOOLEAN
  <2> QED
    BY <2>0, <2>1, <2>3
<1> QED
  BY <1>2, <1>3, <1>4, <1>6

\* A message of a source is taken from the wire, and the others are left alone.
LEMMA ReadsOne ==
    ASSUME StreamerInv, AppsWait, NEW a \in Apps, wire[a] # <<>>, wire' = Taken(a),
           connected' = connected, BufferFits(buffer)', OneTurnOfAll', Linked(a)',
           \A s \in Apps \ {a} : s \in SourcesOf(buffer') <=> s \in SourcesOf(buffer),
           \A s \in SourcesOf(buffer) \ {a} : SourceKept(s, buffer, buffer', options[s])
    PROVE  StreamerInv'
<1>1. DOMAIN wire' = Apps /\ wire'[a] = Tail(wire[a]) /\ \A s \in Apps \ {a} : wire'[s] = wire[s]
  BY DEF Taken, StreamerInv, Defined
<1>2. connected' \in [Apps -> BOOLEAN]
  BY DEF StreamerInv, Defined
<1>3. Served(a)
  <2>1. Listed(wire'[a])
    BY <1>1, AppFields, TailListed
  <2> QED
    BY <2>1 DEF Served
<1>4. ASSUME NEW s \in Apps \ {a}
      PROVE  Served(s)
  <2>1. Linked(s) /\ Listed(wire[s])
    BY AppFields
  <2>2. wire'[s] = wire[s] /\ connected'[s] = connected[s]
    BY <1>1
  <2>3. Linked(s)'
    BY <2>1, <2>2, StaysLinked
  <2> QED
    BY <2>1, <2>2, <2>3 DEF Served
<1> QED
  BY <1>1, <1>2, <1>3, <1>4, ServerSteps

LEMMA OpensStream ==
    ASSUME StreamerInv, NEW a \in Apps, wire[a] # <<>>, Head(wire[a]).type = "open"
    PROVE  a \notin SourcesOf(buffer) /\ Awaits(Tail(wire[a]), FirstPlace, Goal(a), options[a])
<1>1. Linked(a)
  BY AppFields
<1>2. a \notin SourcesOf(buffer)
  <2>1. SUFFICES ASSUME a \in SourcesOf(buffer)
                 PROVE  FALSE
    OBVIOUS
  <2>2. PICK p : Awaits(wire[a], p, Goal(a), options[a])
    BY <1>1, <2>1 DEF Linked, LinkFits
  <2>3. PICK q \in Goal(a).reached : Flow(wire[a], p, q, Goal(a).over, options[a])
    BY <2>2 DEF Awaits
  <2>4. Goal(a).over \in BOOLEAN
    BY DEF Goal, Ended
  <2>5. PICK over \in BOOLEAN : over = Goal(a).over
    BY <2>4
  <2>6. PICK v, o : v = wire[a] /\ o = options[a]
    OBVIOUS
  <2>7. v # <<>> /\ Head(v).type # "quit" /\ Flow(v, p, q, over, o)
    BY <2>3, <2>5, <2>6
  <2>8. Head(v) = Due(p, o)
    BY ONLY <2>7, FlowReads, over \in BOOLEAN
  <2>9. Head(v).type \in {"finish", "image"}
    BY <2>8, DueTypes
  <2> QED
    BY <2>6, <2>9
<1>3. wire[a] = <<QuitMessage>> \/ Awaits(Tail(wire[a]), FirstPlace, Goal(a), options[a])
  BY <1>1, <1>2 DEF Linked, LinkFits
<1>4. wire[a] # <<QuitMessage>>
  BY TailOfOne DEF QuitMessage
<1> QED
  BY <1>2, <1>3, <1>4

\* Who is rejected, or goes, has nothing on the wire after it.
LEMMA ServeOpenKeeps ==
    ASSUME StreamerInv, AppsWait, NEW a \in Apps, ServeOpen(a)
    PROVE  StreamerInv'
<1>1. wire[a] # <<>> /\ Head(wire[a]).type = "open"
  BY DEF ServeOpen, Next1
<1>2. a \notin SourcesOf(buffer) /\ Awaits(Tail(wire[a]), FirstPlace, Goal(a), options[a])
  BY <1>1, OpensStream
<1>3. BufferFits(buffer) /\ OneTurnOfAll
  BY DEF StreamerInv
<1>4. CASE RejectsSources(buffer)
  <2>1. /\ connected' = [s \in Apps |-> connected[s] /\ s \notin {a}]
        /\ wire' = [wire EXCEPT ![a] = <<>>] /\ buffer' = buffer /\ shown' = shown
    BY <1>4 DEF ServeOpen, Disconnect, server
  <2>2. connected' \in [Apps -> BOOLEAN] /\ DOMAIN wire' = Apps
    BY <2>1 DEF StreamerInv, Defined
  <2>3. BufferFits(buffer)' /\ OneTurnOfAll'
    <3>1. BufferFits(buffer)'
      BY <1>3, <2>1 DEF BufferFits, SourcesOf
    <3>2. OneTurnOfAll'
      BY <1>3, <2>1, NothingShown
    <3> QED
      BY <3>1, <3>2
  <2>4. Served(a)
    <3>1. wire'[a] = <<>> /\ connected'[a] = FALSE
      BY <2>1 DEF StreamerInv, Defined
    <3>2. a \notin SourcesOf(buffer')
      BY <1>2, <2>1
    <3> QED
      BY <3>1, <3>2, CutOff DEF Served
  <2>5. ASSUME NEW s \in Apps \ {a}
        PROVE  Served(s)
    <3>1. wire'[s] = wire[s] /\ connected'[s] = connected[s]
      BY <2>1 DEF StreamerInv, Defined
    <3>2. Linked(s) /\ Listed(wire[s])
      BY AppFields
    <3>3. SourceKept(s, buffer, buffer', options[s])
      BY <2>1 DEF SourceKept
    <3>4. Linked(s)'
      BY <2>1, <3>1, <3>2, <3>3, StaysLinked
    <3> QED
      BY <3>1, <3>2, <3>4 DEF Served
  <2> QED
    BY <2>2, <2>3, <2>4, <2>5, ServerSteps
<1>5. CASE ~ RejectsSources(buffer)
  <2>1. /\ buffer' = WithSource(buffer, a, NewSourceBuffer)
        /\ wire' = Taken(a) /\ connected' = connected /\ shown' = shown
    BY <1>2, <1>5 DEF ServeOpen, AddSource, SourceAt
  <2>2. buffer.last = 0
    BY <1>3, <1>5 DEF RejectsSources, BufferFits
  <2>3. PICK b : b = buffer'
    OBVIOUS
  <2>4. /\ BufferFits(b) /\ SourcesOf(b) = SourcesOf(buffer) \cup {a}
        /\ b.last = 0 /\ b.sources[a] = NewSourceBuffer
        /\ \A s \in SourcesOf(buffer) \ {a} : b.sources[s] = buffer.sources[s]
    BY <1>3, <2>1, <2>2, <2>3, WithSourceIs
  <2>5. BufferFits(buffer)' /\ OneTurnOfAll'
    <3>1. BufferFits(buffer)'
      BY ONLY <2>3, <2>4 DEF BufferFits, SourcesOf
    <3>2. OneTurnOfAll'
      BY <1>3, <2>1, NothingShown
    <3> QED
      BY <3>1, <3>2
  <2>6. Linked(a)'
    <3>1. SourceFits(b.sources[a], b.last, FirstPlace, options[a])
      BY <2>4, SourceStarts
    <3>2. wire'[a] = Tail(wire[a])
      BY <2>1 DEF Taken, StreamerInv, Defined
    <3>3. Goal(a)' = Goal(a)
      BY <2>1 DEF Goal, Ended, AppAt, AppsWait
    <3>4. LinkFits(a, b, connected[a], Tail(wire[a]), Goal(a), options[a])
      BY <1>2, <2>4, <3>1 DEF LinkFits
    <3> QED
      BY <2>1, <2>3, <3>2, <3>3, <3>4 DEF Linked, AppsWait
  <2>7. \A s \in SourcesOf(buffer) \ {a} : SourceKept(s, buffer, buffer', options[s])
    BY <2>2, <2>3, <2>4 DEF SourceKept
  <2>8. \A s \in Apps \ {a} : s \in SourcesOf(buffer') <=> s \in SourcesOf(buffer)
    BY <2>3, <2>4
  <2> QED
    BY <1>1, <2>1, <2>5, <2>6, <2>7, <2>8, ReadsOne
<1> QED
  BY <1>4, <1>5

\* The link of who has sent an image, or has finished a frame, when it is read.
LEMMA LinkReads ==
    ASSUME NEW a \in Apps, AppsWait, StreamerInv, connected' = connected, wire' = Taken(a),
           NEW p \in Places(options[a]), NEW q \in Goal(a).reached,
           Flow(Tail(wire[a]), Following(p, options[a]), q, Goal(a).over, options[a]),
           NEW b, b = buffer', a \in SourcesOf(b),
           SourceFits(b.sources[a], b.last, Following(p, options[a]), options[a])
    PROVE  Linked(a)'
<1>1. wire'[a] = Tail(wire[a])
  BY DEF Taken, StreamerInv, Defined
<1>2. Goal(a)' = Goal(a)
  BY DEF Goal, Ended, AppAt, AppsWait
<1>3. Awaits(Tail(wire[a]), Following(p, options[a]), Goal(a), options[a])
  BY DEF Awaits
<1>4. LinkFits(a, b, connected[a], Tail(wire[a]), Goal(a), options[a])
  BY <1>3 DEF LinkFits
<1> QED
  BY <1>1, <1>2, <1>4 DEF Linked, AppsWait

LEMMA ServeImageKeeps ==
    ASSUME StreamerInv, AppsWait, NEW a \in Apps, ServeImage(a)
    PROVE  StreamerInv'
<1>1. wire[a] # <<>> /\ Head(wire[a]).type = "image"
  BY DEF ServeImage, Next1
<1>2. a \in SourcesOf(buffer)
  BY <1>1, ReadsScript
<1>3. PICK p \in Places(options[a]), q \in Goal(a).reached :
        /\ SourceFits(buffer.sources[a], buffer.last, p, options[a])
        /\ Head(wire[a]) = Due(p, options[a])
        /\ Flow(Tail(wire[a]), Following(p, options[a]), q, Goal(a).over, options[a])
        /\ p.image > Len(Passes(options[a])) => p.turn < q.turn
  BY <1>1, ReadsScript
<1>4. /\ ~ p.image > Len(Passes(options[a]))
      /\ Head(wire[a]).tiles = TilesOf(Passes(options[a])[p.image], p.turn)
  BY <1>1, <1>3, DueTypes
<1>5. PICK sb, part : sb = buffer.sources[a] /\ part = Head(wire[a]).tiles
  OBVIOUS
<1>6. PICK sb2 : sb2 = [queue |-> [sb.queue EXCEPT ![Len(sb.queue)] = @ \cup part], back |-> sb.back]
  OBVIOUS
<1>7. /\ buffer' = WithSource(buffer, a, sb2)
      /\ wire' = Taken(a) /\ shown' = shown /\ connected' = connected
  BY <1>5, <1>6 DEF ServeImage
<1>8. SourceFits(sb2, buffer.last, Following(p, options[a]), options[a])
  <2>1. PICK o, last : o = options[a] /\ last = buffer.last
    OBVIOUS
  <2>2. SourceFits(sb, last, p, o) /\ ~ p.image > Len(Passes(o)) /\ part = TilesOf(Passes(o)[p.image], p.turn)
    BY <1>3, <1>4, <1>5, <2>1
  <2>3. SourceFits([queue |-> [sb.queue EXCEPT ![Len(sb.queue)] = @ \cup part], back |-> sb.back],
                   last, Following(p, o), o)
    BY ONLY <2>2, SourceInserts
  <2> QED
    BY <1>6, <2>1, <2>3
<1>9. PICK b : b = buffer'
  OBVIOUS
<1>10. BufferFits(buffer) /\ OneTurnOfAll
  BY DEF StreamerInv
<1>11. /\ BufferFits(b) /\ SourcesOf(b) = SourcesOf(buffer) \cup {a}
       /\ b.last = buffer.last /\ b.sources[a] = sb2
       /\ \A s \in SourcesOf(buffer) \ {a} : b.sources[s] = buffer.sources[s]
  BY <1>7, <1>9, <1>10, WithSourceIs
<1>12. BufferFits(buffer)' /\ OneTurnOfAll'
  <2>1. BufferFits(buffer)'
    BY ONLY <1>9, <1>11 DEF BufferFits, SourcesOf
  <2>2. OneTurnOfAll'
    BY <1>7, <1>10, NothingShown
  <2> QED
    BY <2>1, <2>2
<1>13. Linked(a)'
  BY <1>2, <1>3, <1>7, <1>8, <1>9, <1>11, LinkReads
<1>14. \A s \in SourcesOf(buffer) \ {a} : SourceKept(s, buffer, buffer', options[s])
  BY <1>9, <1>11 DEF SourceKept
<1>15. \A s \in Apps \ {a} : s \in SourcesOf(buffer') <=> s \in SourcesOf(buffer)
  BY <1>9, <1>11
<1> QED
  BY <1>1, <1>7, <1>12, <1>13, <1>14, <1>15, ReadsOne

\* A turn that is not over when an application has come to another one.
LEMMA TurnIsSmall ==
    ASSUME StreamerInv, NEW a \in Apps, NEW q \in Goal(a).reached, NEW p \in Places(options[a]), p.turn < q.turn
    PROVE  p.turn < FrameIndexSpan
<1>1. finished[a] \in Nat /\ MaxFinished[a] \in 0 .. FrameIndexSpan - 1 /\ finished[a] <= MaxFinished[a]
  BY AppFields, StreamerAssumption
<1>2. FrameIndexSpan \in Nat \ {0} /\ p.turn \in Nat
  BY BufferAssumption DEF Places
<1>3. q.turn \in Nat /\ q.turn <= finished[a] + 1
  <2>1. CASE Ended(a)
    BY <2>1 DEF Goal, Places
  <2>2. CASE ~ Ended(a)
    <3>1. q = AppAt(a)
      BY <2>2 DEF Goal
    <3> QED
      BY <1>1, <3>1 DEF AppAt
  <2> QED
    BY <2>1, <2>2
<1> QED
  BY <1>1, <1>2, <1>3

LEMMA SourceFitsKept ==
    ASSUME NEW a, NEW b, NEW b2, NEW o, SourceKept(a, b, b2, o), NEW p, SourceFits(b.sources[a], b.last, p, o)
    PROVE  SourceFits(b2.sources[a], b2.last, p, o)
BY DEF SourceKept

\* What every source has read.
LEMMA SourcesHaveRead ==
    ASSUME StreamerInv
    PROVE  SourcesFit(buffer) /\ BufferFits(buffer) /\ OneTurnOfAll
<1>1. ASSUME NEW s \in SourcesOf(buffer)
      PROVE  \E p : SourceFits(buffer.sources[s], buffer.last, p, options[s])
  <2>1. s \in Apps
    BY DEF StreamerInv, BufferFits
  <2>2. Linked(s)
    BY <2>1, AppFields
  <2> QED
    BY <2>2 DEF Linked, LinkFits
<1> QED
  BY <1>1 DEF SourcesFit, StreamerInv

LEMMA ServeFinishKeeps ==
    ASSUME StreamerInv, AppsWait, NEW a \in Apps, ServeFinish(a)
    PROVE  StreamerInv'
<1>1. wire[a] # <<>> /\ Head(wire[a]).type = "finish"
  BY DEF ServeFinish, Next1
<1>2. a \in SourcesOf(buffer)
  BY <1>1, ReadsScript
<1>3. CASE QueueExceeded(buffer, a)
  <2>1. CloseStream(Taken(a))
    BY <1>3 DEF ServeFinish
  <2>2. \A s \in Apps \ SourcesOf(buffer) : Taken(a)[s] = wire[s]
    BY <1>2 DEF Taken, StreamerInv, Defined
  <2>3. PICK rest : rest = Taken(a)
    OBVIOUS
  <2>4. CloseStream(rest) /\ \A s \in Apps \ SourcesOf(buffer) : rest[s] = wire[s]
    BY <2>1, <2>2, <2>3
  <2> QED
    BY <2>4, CloseStreamKeeps
<1>4. CASE ~ QueueExceeded(buffer, a)
  <2>1. PICK p \in Places(options[a]), q \in Goal(a).reached :
          /\ SourceFits(buffer.sources[a], buffer.last, p, options[a])
          /\ Head(wire[a]) = Due(p, options[a])
          /\ Flow(Tail(wire[a]), Following(p, options[a]), q, Goal(a).over, options[a])
          /\ p.image > Len(Passes(options[a])) => p.turn < q.turn
    BY <1>1, ReadsScript
  <2>2. p.image > Len(Passes(options[a]))
    BY <1>1, <2>1, DueTypes
  <2>3. p.turn < FrameIndexSpan
    BY <2>1, <2>2, TurnIsSmall
  <2>4. PICK sb, b : sb = buffer.sources[a] /\ b = FinishFrame(buffer, a)
    OBVIOUS
  <2>5. /\ b = WithSource(buffer, a, PushFrame(sb)) /\ Dispatch(b)
        /\ wire' = Taken(a) /\ connected' = connected
    BY <1>2, <1>4, <2>4 DEF ServeFinish, FinishFrame, SourceAt
  <2>6. SourceFits(PushFrame(sb), buffer.last, Following(p, options[a]), options[a])
    <3>1. PICK o, last : o = options[a] /\ last = buffer.last
      OBVIOUS
    <3>2. SourceFits(sb, last, p, o) /\ p.image > Len(Passes(o)) /\ p.turn < FrameIndexSpan
      BY <2>1, <2>2, <2>3, <2>4, <3>1
    <3>3. SourceFits(PushFrame(sb), last, Following(p, o), o)
      BY ONLY <3>2, SourcePushes
    <3> QED
      BY <3>1, <3>3
  <2>7. SourcesFit(buffer) /\ BufferFits(buffer) /\ OneTurnOfAll
    BY SourcesHaveRead
  <2>8. /\ BufferFits(b) /\ SourcesOf(b) = SourcesOf(buffer) \cup {a}
        /\ b.last = buffer.last /\ b.sources[a] = PushFrame(sb)
        /\ \A s \in SourcesOf(buffer) \ {a} : b.sources[s] = buffer.sources[s]
    BY <2>5, <2>7, WithSourceIs
  <2>9. SourcesFit(b)
    BY <2>6, <2>7, <2>8 DEF SourcesFit
  <2>10. /\ BufferFits(buffer)' /\ SourcesOf(buffer') = SourcesOf(b) /\ OneTurnOfAll'
         /\ \A s \in SourcesOf(b) : SourceKept(s, b, buffer', options[s])
    <3>1. UNCHANGED options /\ SourcesOf(b) # {}
      BY <2>8 DEF AppsWait
    <3> QED
      BY <2>5, <2>7, <2>8, <2>9, <3>1, DispatchKeeps
  <2>11. PICK b2 : b2 = buffer'
    OBVIOUS
  <2>12. a \in SourcesOf(b2) /\ SourceKept(a, b, b2, options[a])
    BY <2>8, <2>10, <2>11
  <2>13. SourceFits(b2.sources[a], b2.last, Following(p, options[a]), options[a])
    <3>1. SourceFits(b.sources[a], b.last, Following(p, options[a]), options[a])
      BY <2>6, <2>8
    <3> QED
      BY <2>12, <3>1, SourceFitsKept
  <2>14. Linked(a)'
    BY <2>1, <2>5, <2>11, <2>12, <2>13, LinkReads
  <2>15. \A s \in SourcesOf(buffer) \ {a} : SourceKept(s, buffer, buffer', options[s])
    BY <2>8, <2>10 DEF SourceKept
  <2>16. \A s \in Apps \ {a} : s \in SourcesOf(buffer') <=> s \in SourcesOf(buffer)
    BY <2>8, <2>10
  <2> QED
    BY <1>1, <2>5, <2>10, <2>14, <2>15, <2>16, ReadsOne
<1> QED
  BY <1>3, <1>4

LEMMA RequestFrameKeeps ==
    ASSUME StreamerInv, AppsWait, RequestFrame
    PROVE  StreamerInv'
<1>1. PICK b : b = AllowToSend(buffer)
  OBVIOUS
<1>2. SourcesOf(buffer) # {} /\ Dispatch(b) /\ connected' = connected /\ wire' = wire
  BY <1>1 DEF RequestFrame
<1>3. SourcesFit(buffer) /\ BufferFits(buffer) /\ OneTurnOfAll
  BY SourcesHaveRead
<1>4. b.sources = buffer.sources /\ b.last = buffer.last /\ BufferFits(b) /\ SourcesOf(b) = SourcesOf(buffer)
  <2>1. b = [sources |-> buffer.sources, last |-> buffer.last, allowed |-> TRUE]
    BY <1>1, <1>3 DEF AllowToSend, BufferFits
  <2>2. b.sources = buffer.sources /\ b.last = buffer.last
        /\ b = [sources |-> b.sources, last |-> b.last, allowed |-> b.allowed]
    BY <2>1
  <2> QED
    BY <1>3, <2>2 DEF BufferFits, SourcesOf
<1>5. SourcesFit(b)
  BY <1>3, <1>4 DEF SourcesFit
<1>6. /\ BufferFits(buffer)' /\ SourcesOf(buffer') = SourcesOf(b) /\ OneTurnOfAll'
      /\ \A s \in SourcesOf(b) : SourceKept(s, b, buffer', options[s])
  <2>1. UNCHANGED options /\ SourcesOf(b) # {}
    BY <1>2, <1>4 DEF AppsWait
  <2> QED
    BY <1>2, <1>3, <1>4, <1>5, <2>1, DispatchKeeps
<1>7. \A s \in SourcesOf(buffer) : SourceKept(s, buffer, buffer', options[s])
  BY <1>4, <1>6 DEF SourceKept
<1>8. ASSUME NEW s \in Apps
      PROVE  Served(s)
  <2>1. Linked(s) /\ Listed(wire[s])
    BY AppFields
  <2>2. wire'[s] = wire[s] /\ connected'[s] = connected[s]
    BY <1>2
  <2>3. s \in SourcesOf(buffer') <=> s \in SourcesOf(buffer)
    BY <1>4, <1>6
  <2>4. Linked(s)'
    BY <1>7, <2>1, <2>2, <2>3, StaysLinked
  <2> QED
    BY <2>1, <2>2, <2>4 DEF Served
<1>9. connected' \in [Apps -> BOOLEAN] /\ DOMAIN wire' = Apps
  BY <1>2 DEF StreamerInv, Defined
<1> QED
  BY <1>6, <1>8, <1>9, ServerSteps

LEMMA ServeQuitKeeps ==
    ASSUME StreamerInv, AppsWait, NEW a \in Apps, ServeQuit(a)
    PROVE  StreamerInv'
<1>1. /\ wire[a] # <<>> /\ Head(wire[a]).type = "quit"
      /\ buffer' = IF SourcesOf(buffer) = {a} THEN NewReceiveBuffer ELSE RemoveSource(buffer, a)
      /\ wire' = Taken(a) /\ connected' = [connected EXCEPT ![a] = FALSE] /\ shown' = shown
  BY DEF ServeQuit, Next1
<1>2. wire[a] = <<QuitMessage>>
  <2>1. Linked(a)
    BY AppFields
  <2>2. CASE a \in SourcesOf(buffer)
    <3>1. PICK p : Awaits(wire[a], p, Goal(a), options[a])
      BY <2>1, <2>2 DEF Linked, LinkFits
    <3>2. PICK q \in Goal(a).reached : Flow(wire[a], p, q, Goal(a).over, options[a])
      BY <3>1 DEF Awaits
    <3>3. Goal(a).over \in BOOLEAN
      BY DEF Goal, Ended
    <3>4. PICK over \in BOOLEAN : over = Goal(a).over
      BY <3>3
    <3>5. PICK v, o : v = wire[a] /\ o = options[a]
      OBVIOUS
    <3>6. v # <<>> /\ Head(v).type = "quit" /\ Flow(v, p, q, over, o)
      BY <1>1, <3>2, <3>4, <3>5
    <3>7. v = <<QuitMessage>>
      BY ONLY <3>6, FlowEnds, over \in BOOLEAN
    <3> QED
      BY <3>5, <3>7
  <2>3. CASE a \notin SourcesOf(buffer)
    BY <1>1, <2>1, <2>3 DEF Linked, LinkFits, OpenMessage
  <2> QED
    BY <2>2, <2>3
<1>3. wire'[a] = <<>> /\ connected'[a] = FALSE /\ DOMAIN wire' = Apps
  <2>1. wire'[a] = Tail(wire[a]) /\ connected'[a] = FALSE /\ DOMAIN wire' = Apps
    BY <1>1 DEF Taken, StreamerInv, Defined
  <2> QED
    BY <1>2, <2>1, TailOfOne
<1>4. BufferFits(buffer) /\ OneTurnOfAll
  BY DEF StreamerInv
<1>5. PICK b : b = buffer'
  OBVIOUS
<1>6. /\ BufferFits(b) /\ SourcesOf(b) = SourcesOf(buffer) \ {a}
      /\ \A s \in SourcesOf(buffer) \ {a} : b.sources[s] = buffer.sources[s] /\ b.last = buffer.last
  <2>1. CASE SourcesOf(buffer) = {a}
    BY <1>1, <1>5, <2>1, NewBuffer
  <2>2. CASE SourcesOf(buffer) # {a}
    <3>1. PICK rest : rest = SourcesOf(buffer) \ {a}
      OBVIOUS
    <3>2. PICK f, last : f = [r \in rest |-> buffer.sources[r]] /\ last = IF rest = {} THEN 0 ELSE buffer.last
      OBVIOUS
    <3>3. b = [buffer EXCEPT !.sources = f, !.last = IF rest = {} THEN 0 ELSE @]
      BY <1>1, <1>5, <2>2, <3>1, <3>2 DEF RemoveSource
    <3>4. buffer = [sources |-> buffer.sources, last |-> buffer.last, allowed |-> buffer.allowed]
          /\ buffer.last \in Nat /\ SourcesOf(buffer) \subseteq Apps
      BY <1>4 DEF BufferFits
    <3>5. b = [sources |-> f, last |-> last, allowed |-> buffer.allowed]
      BY <3>2, <3>3, <3>4
    <3>6. b.sources = f /\ b.last = last /\ b = [sources |-> b.sources, last |-> b.last, allowed |-> b.allowed]
      BY <3>5
    <3>7. SourcesOf(b) = rest
      BY <3>2, <3>6 DEF SourcesOf
    <3>8. b.last \in Nat /\ rest \subseteq Apps
      BY <3>1, <3>2, <3>4, <3>6
    <3> QED
      BY <3>1, <3>2, <3>6, <3>7, <3>8 DEF BufferFits
  <2> QED
    BY <2>1, <2>2
<1>7. BufferFits(buffer)' /\ OneTurnOfAll'
  <2>1. BufferFits(buffer)'
    BY ONLY <1>5, <1>6 DEF BufferFits, SourcesOf
  <2>2. OneTurnOfAll'
    BY <1>1, <1>4, NothingShown
  <2> QED
    BY <2>1, <2>2
<1>8. Served(a)
  <2>1. a \notin SourcesOf(buffer')
    BY <1>5, <1>6
  <2> QED
    BY <1>3, <2>1, CutOff DEF Served
<1>9. ASSUME NEW s \in Apps \ {a}
      PROVE  Served(s)
  <2>1. wire'[s] = wire[s] /\ connected'[s] = connected[s]
    BY <1>1 DEF Taken, StreamerInv, Defined
  <2>2. Linked(s) /\ Listed(wire[s])
    BY AppFields
  <2>3. s \in SourcesOf(buffer') <=> s \in SourcesOf(buffer)
    BY <1>5, <1>6
  <2>4. s \in SourcesOf(buffer) => SourceKept(s, buffer, buffer', options[s])
    BY <1>5, <1>6 DEF SourceKept
  <2>5. Linked(s)'
    BY <2>1, <2>2, <2>3, <2>4, StaysLinked
  <2> QED
    BY <2>1, <2>2, <2>5 DEF Served
<1>10. connected' \in [Apps -> BOOLEAN]
  BY <1>1 DEF StreamerInv, Defined
<1> QED
  BY <1>3, <1>7, <1>8, <1>9, <1>10, ServerSteps

LEMMA ServerKeeps ==
    ASSUME StreamerInv, Server, UNCHANGED <<options, pc, window, display, registered>>
    PROVE  StreamerInv'
<1>1. AppsWait
  BY DEF AppsWait, display
<1>2. CASE \E a \in Apps :
             ServeOpen(a) \/ ServeImage(a) \/ ServeFinish(a) \/ ServeQuit(a) \/ SendEvent(a)
  <2>1. PICK a \in Apps : ServeOpen(a) \/ ServeImage(a) \/ ServeFinish(a) \/ ServeQuit(a) \/ SendEvent(a)
    BY <1>2
  <2>2. CASE SendEvent(a)
    <3>1. UNCHANGED <<buffer, shown, options, pc, plan, success, finished, wire, connected>>
      BY <1>1, <2>2 DEF SendEvent, server, AppsWait
    <3> QED
      BY <3>1, NothingSteps
  <2> QED
    BY <1>1, <2>1, <2>2, ServeOpenKeeps, ServeImageKeeps, ServeFinishKeeps, ServeQuitKeeps
<1>3. CASE RequestFrame
  BY <1>1, <1>3, RequestFrameKeeps
<1>4. CASE ClosePixelStream
  <2>1. PICK rest : rest = wire
    OBVIOUS
  <2>2. CloseStream(rest) /\ \A s \in Apps \ SourcesOf(buffer) : rest[s] = wire[s]
    BY <1>4, <2>1 DEF ClosePixelStream
  <2> QED
    BY <1>1, <2>2, CloseStreamKeeps
<1> QED
  BY <1>2, <1>3, <1>4 DEF Server

LEMMA StreamerInvInit == StreamerInit => StreamerInv
<1> SUFFICES ASSUME StreamerInit
             PROVE  StreamerInv
  OBVIOUS
<1>1. /\ pc = [a \in Apps |-> "start"] /\ plan = [a \in Apps |-> <<>>]
      /\ success = [a \in Apps |-> FALSE] /\ finished = [a \in Apps |-> 0]
      /\ connected = [a \in Apps |-> FALSE] /\ wire = [a \in Apps |-> <<>>]
      /\ buffer = NewReceiveBuffer
      /\ shown = [turn |-> 0, of |-> {}, tiles |-> {}]
  BY DEF StreamerInit, All
<1>2. Defined
  BY <1>1 DEF Defined
<1>3. BufferFits(buffer) /\ SourcesOf(buffer) = {}
  BY <1>1, NewBuffer
<1>4. OneTurnOfAll
  BY <1>1 DEF OneTurnOfAll
<1>5. ASSUME NEW a \in Apps
      PROVE  AppFits(a)
  <2>1. pc[a] = "start" /\ finished[a] = 0 /\ connected[a] = FALSE /\ wire[a] = <<>>
    BY <1>1
  <2>2. Linked(a)
    <3>1. a \notin SourcesOf(buffer) /\ ~ connected[a]
      BY <1>3, <2>1
    <3> QED
      BY <2>1, <3>1 DEF Linked, LinkFits
  <2>3. MaxFinished[a] \in Nat
    BY StreamerAssumption, BufferAssumption
  <2> QED
    BY <2>1, <2>2, <2>3, NothingListed DEF AppFits
<1> QED
  BY <1>2, <1>3, <1>4, <1>5 DEF StreamerInv

LEMMA StreamerInvNext == StreamerInv /\ [StreamerNext]_streamerVars => StreamerInv'
<1> SUFFICES ASSUME StreamerInv, [StreamerNext]_streamerVars
             PROVE  StreamerInv'
  OBVIOUS
<1>1. ASSUME NEW a \in Apps, Step(a)
      PROVE  StreamerInv'
  BY <1>1, OpenStreamKeeps, CannotOpenKeeps, DrawKeeps, TerminateKeeps, SendViewKeeps,
     FinishKeeps, EndOfDisplayKeeps DEF Step
<1>2. ASSUME NEW a \in Apps, Resize(a)
      PROVE  StreamerInv'
  BY <1>2, NothingSteps DEF Resize, display, server
<1>3. ASSUME NEW a \in Apps, Timeout(a)
      PROVE  StreamerInv'
  BY <1>3, NothingSteps DEF Timeout, server
<1>4. CASE Server
  <2>1. UNCHANGED <<options, pc, window, display, registered>>
    BY <1>4 DEF Server
  <2> QED
    BY <1>4, <2>1, ServerKeeps
<1>5. CASE UNCHANGED streamerVars
  BY <1>5, NothingSteps DEF streamerVars, display, server
<1> QED
  BY <1>1, <1>2, <1>3, <1>4, <1>5 DEF StreamerNext

\* A frame that is dispatched is made of the images of the same turn of all the
\* applications that send to the stream, each with all its views and channels,
\* though the server does not know what they have to send (SimpleStreamer.OneTurnOfAll).
THEOREM FramesShowOneTurn == StreamerSpec => []OneTurnOfAll
<1>1. StreamerInv => OneTurnOfAll
  BY DEF StreamerInv
<1>2. StreamerInit /\ [][StreamerNext]_streamerVars => []OneTurnOfAll
  BY StreamerInvInit, StreamerInvNext, <1>1, PTL
<1> QED
  BY <1>2, PTL DEF StreamerSpec
=============================================================================
