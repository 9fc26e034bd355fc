------------------------- MODULE FrameDispatcherProofs -------------------------
(***************************************************************************)
(* FrameDispatcher's safety, for any number of streams, sources, observers *)
(* and frames.                                                             *)
(***************************************************************************)
EXTENDS FrameDispatcher, FiniteSetTheorems, SequenceTheorems, WellFoundedInduction, TLAPS

-----------------------------------------------------------------------------
(* The inductive invariant                                                 *)

ConnectedIn(cn, c, u) == cn[c].phase # "closed" /\ cn[c].uri = u

ObserversIn(cn, u) == {o \in Observers : ConnectedIn(cn, o, u)}

\* What holds of the source buffer sb of s, in a buffer that has completed the
\* frames up to last, given the connections cn and the tiles st sent so far.
SourceOK(u, s, sb, last, cn, st) ==
    /\ ConnectedIn(cn, s, u)
    /\ Len(sb.queue) \in 1 .. MaxQueueSize + 1
    /\ sb.back + 1 <= last + Len(sb.queue)
    /\ sb.back + 1 <= cn[s].frame
    /\ \A n \in 1 .. Len(sb.queue) : \A t \in sb.queue[n] : t.source = s
    /\ cn[s].phase = "joined" =>
          /\ cn[s].frame = last + Len(sb.queue)
          /\ \A n \in 1 .. Len(sb.queue) :
                sb.queue[n] = {t \in st[s] : t.frame = last + n}

\* What holds of one stream.
StreamOK(u, stream, cn, st) ==
    /\ StreamTypeOK(stream)
    /\ \A s \in SourcesOf(stream.buffer) :
          SourceOK(u, s, stream.buffer.sources[s], stream.buffer.last, cn, st)
    /\ \A s \in Sources : cn[s].phase = "joined" /\ cn[s].uri = u
                            => s \in SourcesOf(stream.buffer)
    /\ stream.observers <= Cardinality(ObserversIn(cn, u))

\* What holds of the connections and of the history.
ConnOK(cn, st) ==
    /\ cn \in [Connections -> ConnectionStates]
    /\ \A c \in Connections : cn[c].phase # "closed" => cn[c].uri \in Uris
    /\ st \in [Sources -> SUBSET Tiles]
    /\ \A c \in Sources : \A t \in st[c] :
          cn[c].phase = "joined" /\ t.source = c /\ t.frame <= cn[c].frame

Inv ==
    /\ IsPartialFunction(streams, Uris, {streams[u] : u \in DOMAIN streams})
    /\ opened \in [Uris -> Int]
    /\ requested \subseteq Uris
    /\ received \in [uri : Uris \cup {NoUri}, index : Nat, tiles : SUBSET Tiles]
    /\ ConnOK(conn, sent)
    /\ \A u \in DOMAIN streams : /\ StreamOK(u, streams[u], conn, sent)
                                 /\ ~ AllConnectionsClosed(streams[u])
    /\ \A c \in Sources, u \in Uris : Joined(c, u) => Exists(u)
    /\ AppViewAccurate
    /\ WholeFrame

-----------------------------------------------------------------------------
(* Lemmas about the buffer                                                 *)

\* Counting a frame, as long as FrameIndex does not wrap around.
LEMMA NextIndex == ASSUME NEW n \in Nat, n <= MaxFrames PROVE n % FrameIndexSpan = n
BY BufferAssumption, DispatcherAssumption

\* Replacing or adding one source leaves the rest of a buffer as it is.
LEMMA WithSourceLemma ==
    ASSUME NEW b, BufferTypeOK(b), NEW s \in Sources, NEW sb \in SourceBuffers
    PROVE  /\ BufferTypeOK(WithSource(b, s, sb))
           /\ SourcesOf(WithSource(b, s, sb)) = SourcesOf(b) \cup {s}
           /\ WithSource(b, s, sb).last = b.last
           /\ WithSource(b, s, sb).allowed = b.allowed
           /\ WithSource(b, s, sb).sources[s] = sb
           /\ \A r \in SourcesOf(b) : r # s => WithSource(b, s, sb).sources[r] = b.sources[r]
<1> DEFINE f == [r \in DOMAIN b.sources \cup {s} |-> IF r = s THEN sb ELSE b.sources[r]]
<1>1. WithSource(b, s, sb) = [b EXCEPT !.sources = f]
  BY DEF WithSource
<1>2. b \in [sources : {b.sources}, last : Nat, allowed : BOOLEAN]
  BY DEF BufferTypeOK
<1>3. /\ WithSource(b, s, sb).sources = f
      /\ WithSource(b, s, sb).last = b.last
      /\ WithSource(b, s, sb).allowed = b.allowed
      /\ WithSource(b, s, sb) \in [sources : {f}, last : Nat, allowed : BOOLEAN]
  <2> HIDE DEF f
  <2> QED BY <1>1, <1>2
<1>4. IsPartialFunction(f, Sources, SourceBuffers)
  BY DEF BufferTypeOK, IsPartialFunction
<1> QED BY <1>3, <1>4 DEF BufferTypeOK, SourcesOf

\* A new source buffer, and what its operations make of any source buffer.
LEMMA SourceAtType ==
    ASSUME NEW b, BufferTypeOK(b), NEW s \in Sources
    PROVE  SourceAt(b, s) \in SourceBuffers
<1>1. NewSourceBuffer \in SourceBuffers
  BY DEF NewSourceBuffer, SourceBuffers
<1> QED BY <1>1 DEF SourceAt, BufferTypeOK, IsPartialFunction, SourcesOf

LEMMA InsertTileLemma ==
    ASSUME NEW sb \in SourceBuffers, Len(sb.queue) >= 1, NEW tile \in Tiles
    PROVE  LET sb2 == InsertTile(sb, tile)
           IN  /\ sb2 \in SourceBuffers
               /\ sb2.back = sb.back
               /\ Len(sb2.queue) = Len(sb.queue)
               /\ \A n \in 1 .. Len(sb.queue) :
                     sb2.queue[n] = IF n = Len(sb.queue) THEN sb.queue[n] \cup {tile}
                                    ELSE sb.queue[n]
<1> DEFINE q == sb.queue
           q2 == [q EXCEPT ![Len(q)] = @ \cup {tile}]
<1>1. q \in Seq(SUBSET Tiles) /\ Len(q) \in 1 .. Len(q) /\ sb.back \in Nat
  BY LenProperties DEF SourceBuffers
<1>2. q[Len(q)] \cup {tile} \in SUBSET Tiles
  BY <1>1, LenProperties
<1>3. /\ q2 \in Seq(SUBSET Tiles)
      /\ Len(q2) = Len(q)
      /\ \A n \in 1 .. Len(q) : q2[n] = IF n = Len(q) THEN q[Len(q)] \cup {tile} ELSE q[n]
  <2> HIDE DEF q
  <2> QED BY <1>1, <1>2, ExceptSeq
<1>4. InsertTile(sb, tile) = [sb EXCEPT !.queue = q2]
  BY DEF InsertTile
<1>5. sb \in [queue : Seq(SUBSET Tiles), back : Nat]
  BY DEF SourceBuffers
<1> HIDE DEF q2
<1> QED BY <1>1, <1>3, <1>4, <1>5 DEF SourceBuffers

LEMMA PushFrameLemma ==
    ASSUME NEW sb \in SourceBuffers, sb.back + 1 <= MaxFrames
    PROVE  LET sb2 == PushFrame(sb)
           IN  /\ sb2 \in SourceBuffers
               /\ sb2.back = sb.back + 1
               /\ Len(sb2.queue) = Len(sb.queue) + 1
               /\ \A n \in 1 .. Len(sb.queue) : sb2.queue[n] = sb.queue[n]
               /\ sb2.queue[Len(sb.queue) + 1] = {}
<1>1. sb.queue \in Seq(SUBSET Tiles) /\ sb.back \in Nat /\ {} \in SUBSET Tiles
  BY DEF SourceBuffers
<1>2. (sb.back + 1) % FrameIndexSpan = sb.back + 1
  BY <1>1, NextIndex
<1> QED BY <1>1, <1>2, AppendProperties DEF PushFrame, SourceBuffers

\* A stream that is sound but for its source c.
OthersOK(u, c, stream, cn, st) ==
    /\ StreamTypeOK(stream)
    /\ \A s \in SourcesOf(stream.buffer) \ {c} :
          SourceOK(u, s, stream.buffer.sources[s], stream.buffer.last, cn, st)
    /\ \A s \in Sources \ {c} : cn[s].phase = "joined" /\ cn[s].uri = u
                                  => s \in SourcesOf(stream.buffer)
    /\ stream.observers <= Cardinality(ObserversIn(cn, u))

\* The new buffer of a source, put in place, leaves a sound stream.
LEMMA ReplaceSource ==
    ASSUME NEW u, NEW cn, NEW st, NEW stream, NEW c \in Sources, NEW sb \in SourceBuffers,
           OthersOK(u, c, stream, cn, st),
           SourceOK(u, c, sb, stream.buffer.last, cn, st)
    PROVE  LET stream2 == [stream EXCEPT !.buffer = WithSource(@, c, sb)]
           IN  /\ StreamOK(u, stream2, cn, st)
               /\ SourcesOf(stream2.buffer) = SourcesOf(stream.buffer) \cup {c}
               /\ stream2.observers = stream.observers
<1> DEFINE b == stream.buffer
           b2 == WithSource(b, c, sb)
           stream2 == [stream EXCEPT !.buffer = b2]
<1>1. BufferTypeOK(b) /\ stream \in [buffer : {b}, observers : Nat]
  BY DEF OthersOK, StreamTypeOK
<1>2. /\ BufferTypeOK(b2)
      /\ SourcesOf(b2) = SourcesOf(b) \cup {c}
      /\ b2.last = b.last
      /\ b2.sources[c] = sb
      /\ \A r \in SourcesOf(b) : r # c => b2.sources[r] = b.sources[r]
  BY <1>1, WithSourceLemma
<1>3. /\ stream2 \in [buffer : {b2}, observers : Nat]
      /\ stream2.buffer = b2
      /\ stream2.observers = stream.observers
  <2> HIDE DEF b2
  <2> QED BY <1>1
<1> HIDE DEF b2
<1>4. StreamTypeOK(stream2)
  BY <1>2, <1>3 DEF StreamTypeOK
<1>5. \A s \in SourcesOf(b2) : SourceOK(u, s, b2.sources[s], b2.last, cn, st)
  BY <1>2 DEF OthersOK
<1>6. StreamOK(u, stream2, cn, st)
  BY <1>2, <1>3, <1>4, <1>5 DEF StreamOK, OthersOK
<1> QED BY <1>2, <1>3, <1>6 DEF b2

-----------------------------------------------------------------------------
(* Lemmas about one stream, for each operation on its buffer               *)

\* A stream is sound whatever happens to connections that are not its own.
LEMMA OtherStream ==
    ASSUME NEW u, NEW stream, NEW cn, NEW st, NEW cn2, NEW st2,
           StreamOK(u, stream, cn, st),
           \A c \in Sources : ConnectedIn(cn, c, u) \/ ConnectedIn(cn2, c, u)
                                => cn2[c] = cn[c] /\ st2[c] = st[c],
           \A o \in Observers : ConnectedIn(cn2, o, u) <=> ConnectedIn(cn, o, u)
    PROVE  StreamOK(u, stream, cn2, st2)
<1>1. SourcesOf(stream.buffer) \subseteq Sources
  BY DEF StreamOK, StreamTypeOK, BufferTypeOK, IsPartialFunction, SourcesOf
<1>2. \A s \in SourcesOf(stream.buffer) :
         SourceOK(u, s, stream.buffer.sources[s], stream.buffer.last, cn2, st2)
  BY <1>1 DEF StreamOK, SourceOK, ConnectedIn
<1>3. ObserversIn(cn2, u) = ObserversIn(cn, u)
  BY DEF ObserversIn
<1>4. \A s \in Sources : cn2[s].phase = "joined" /\ cn2[s].uri = u
                            => s \in SourcesOf(stream.buffer)
  BY DEF StreamOK, ConnectedIn
<1> QED BY <1>2, <1>3, <1>4 DEF StreamOK

\* What a sound stream says of one of its sources, or of a new one.
LEMMA SourceAtOK ==
    ASSUME NEW u, NEW stream, NEW cn, NEW st, ConnOK(cn, st), StreamOK(u, stream, cn, st),
           NEW c \in Sources, ConnectedIn(cn, c, u)
    PROVE  LET sb == SourceAt(stream.buffer, c)
           IN  /\ sb \in SourceBuffers
               /\ stream.buffer.last \in Nat
               /\ SourceOK(u, c, sb, stream.buffer.last, cn, st)
<1>1. stream.buffer.last \in Nat /\ SourceAt(stream.buffer, c) \in SourceBuffers
  BY SourceAtType DEF StreamOK, StreamTypeOK, BufferTypeOK
<1>2. CASE c \in SourcesOf(stream.buffer)
  BY <1>1, <1>2 DEF StreamOK, SourceAt
<1>3. CASE c \notin SourcesOf(stream.buffer)
  <2>1. cn[c].phase # "joined"
    BY <1>3 DEF StreamOK, ConnectedIn
  <2>2. cn[c].frame \in Nat /\ cn[c].frame >= 1
    BY DispatcherAssumption DEF ConnectionStates, ConnOK, Connections
  <2>3. /\ SourceAt(stream.buffer, c).back = 0
        /\ SourceAt(stream.buffer, c).queue = << {} >>
    BY <1>3 DEF SourceAt, NewSourceBuffer
  <2>4. Len(<< {} >>) = 1 /\ << {} >>[1] = {}
    OBVIOUS
  <2> QED BY <1>1, <2>1, <2>2, <2>3, <2>4, BufferAssumption DEF SourceOK
<1> QED BY <1>2, <1>3

LEMMA InsertOK ==
    ASSUME NEW u, NEW stream, NEW cn, NEW st, ConnOK(cn, st), StreamOK(u, stream, cn, st),
           NEW c \in Sources, ConnectedIn(cn, c, u),
           NEW tile \in Tiles, tile.source = c, tile.frame = cn[c].frame,
           NEW st2, st2 = [st EXCEPT ![c] = IF cn[c].phase = "joined" THEN @ \cup {tile} ELSE @]
    PROVE  LET stream2 == [stream EXCEPT !.buffer = Insert(@, c, tile)]
           IN  /\ StreamOK(u, stream2, cn, st2)
               /\ SourcesOf(stream2.buffer) # {}
<1> DEFINE sb == SourceAt(stream.buffer, c)
           sb2 == InsertTile(sb, tile)
           last == stream.buffer.last
<1>1. sb \in SourceBuffers /\ last \in Nat /\ SourceOK(u, c, sb, last, cn, st)
  BY SourceAtOK
<1>2. Len(sb.queue) \in Nat /\ Len(sb.queue) >= 1
  BY <1>1, LenProperties DEF SourceOK, SourceBuffers
<1>3. /\ sb2 \in SourceBuffers
      /\ sb2.back = sb.back
      /\ Len(sb2.queue) = Len(sb.queue)
      /\ \A n \in 1 .. Len(sb.queue) :
            sb2.queue[n] = IF n = Len(sb.queue) THEN sb.queue[n] \cup {tile} ELSE sb.queue[n]
  BY <1>1, <1>2, InsertTileLemma
<1>4. st[c] \subseteq Tiles /\ c \in DOMAIN st
  BY DEF ConnOK
<1> HIDE DEF sb, sb2
<1>5. SourceOK(u, c, sb2, last, cn, st2)
  <2>1. /\ ConnectedIn(cn, c, u)
        /\ Len(sb2.queue) \in 1 .. MaxQueueSize + 1
        /\ sb2.back + 1 <= last + Len(sb2.queue)
        /\ sb2.back + 1 <= cn[c].frame
    BY <1>1, <1>3 DEF SourceOK
  <2>2. \A n \in 1 .. Len(sb2.queue) : \A t \in sb2.queue[n] : t.source = c
    BY <1>1, <1>3 DEF SourceOK
  <2>3. ASSUME cn[c].phase = "joined"
        PROVE  /\ cn[c].frame = last + Len(sb2.queue)
               /\ \A n \in 1 .. Len(sb2.queue) :
                     sb2.queue[n] = {t \in st2[c] : t.frame = last + n}
    <3>1. /\ cn[c].frame = last + Len(sb.queue)
          /\ \A n \in 1 .. Len(sb.queue) : sb.queue[n] = {t \in st[c] : t.frame = last + n}
      BY <1>1, <2>3 DEF SourceOK
    <3>2. st2[c] = st[c] \cup {tile}
      BY <1>4, <2>3
    <3>3. ASSUME NEW n \in 1 .. Len(sb.queue)
          PROVE  sb2.queue[n] = {t \in st2[c] : t.frame = last + n}
      <4>1. CASE n = Len(sb.queue)
        BY <1>3, <3>1, <3>2, <4>1
      <4>2. CASE n # Len(sb.queue)
        <5>1. tile.frame # last + n
          BY <1>1, <1>2, <3>1, <4>2
        <5> QED BY <1>3, <3>1, <3>2, <4>2, <5>1
      <4> QED BY <4>1, <4>2
    <3> QED BY <1>3, <3>1, <3>3
  <2> QED BY <2>1, <2>2, <2>3 DEF SourceOK
<1>6. \A s \in SourcesOf(stream.buffer) \ {c} :
         SourceOK(u, s, stream.buffer.sources[s], last, cn, st2)
  <2>1. SourcesOf(stream.buffer) \subseteq Sources
    BY DEF StreamOK, StreamTypeOK, BufferTypeOK, IsPartialFunction, SourcesOf
  <2>2. \A s \in Sources \ {c} : st2[s] = st[s]
    BY DEF ConnOK
  <2> QED BY <2>1, <2>2 DEF StreamOK, SourceOK
<1>7. /\ StreamTypeOK(stream)
      /\ \A s \in Sources \ {c} : cn[s].phase = "joined" /\ cn[s].uri = u
                                   => s \in SourcesOf(stream.buffer)
      /\ stream.observers <= Cardinality(ObserversIn(cn, u))
  BY DEF StreamOK
<1>8. Insert(stream.buffer, c, tile) = WithSource(stream.buffer, c, sb2)
  BY DEF Insert, sb, sb2
<1>9. LET stream2 == [stream EXCEPT !.buffer = WithSource(@, c, sb2)]
      IN  /\ StreamOK(u, stream2, cn, st2)
          /\ SourcesOf(stream2.buffer) = SourcesOf(stream.buffer) \cup {c}
  <2>1. OthersOK(u, c, stream, cn, st2)
    BY <1>6, <1>7 DEF OthersOK
  <2> QED BY <1>3, <1>5, <2>1, ReplaceSource
<1> QED BY <1>8, <1>9

LEMMA FinishOK ==
    ASSUME NEW u, NEW stream, NEW cn, NEW st, ConnOK(cn, st), StreamOK(u, stream, cn, st),
           NEW c \in Sources, ConnectedIn(cn, c, u), cn[c].frame <= MaxFrames,
           ~ QueueExceeded(stream.buffer, c),
           NEW cn2, cn2 = [cn EXCEPT ![c].frame = @ + 1]
    PROVE  LET stream2 == [stream EXCEPT !.buffer = FinishFrame(@, c)]
           IN  /\ StreamOK(u, stream2, cn2, st)
               /\ SourcesOf(stream2.buffer) # {}
<1> DEFINE sb == SourceAt(stream.buffer, c)
           sb2 == PushFrame(sb)
           last == stream.buffer.last
<1>1. sb \in SourceBuffers /\ last \in Nat /\ SourceOK(u, c, sb, last, cn, st)
  BY SourceAtOK
<1>2. /\ Len(sb.queue) \in Nat /\ Len(sb.queue) >= 1 /\ sb.back \in Nat
      /\ Len(sb.queue) <= MaxQueueSize
  BY <1>1, LenProperties, BufferAssumption DEF SourceOK, SourceBuffers, QueueExceeded
<1>3. /\ cn2[c].phase = cn[c].phase
      /\ cn2[c].uri = cn[c].uri
      /\ cn2[c].frame = cn[c].frame + 1
      /\ cn[c].frame \in Nat
      /\ \A d \in Connections \ {c} : cn2[d] = cn[d]
  BY DispatcherAssumption DEF ConnectionStates, ConnOK, Connections
<1>4. sb.back + 1 <= MaxFrames
  BY <1>1, <1>2, <1>3, DispatcherAssumption DEF SourceOK
<1>5. /\ sb2 \in SourceBuffers
      /\ sb2.back = sb.back + 1
      /\ Len(sb2.queue) = Len(sb.queue) + 1
      /\ \A n \in 1 .. Len(sb.queue) : sb2.queue[n] = sb.queue[n]
      /\ sb2.queue[Len(sb.queue) + 1] = {}
  BY <1>1, <1>4, PushFrameLemma
<1>6. \A t \in st[c] : t.frame \in Nat /\ t.frame <= cn[c].frame
  BY DispatcherAssumption DEF ConnOK, Tiles
<1> HIDE DEF sb, sb2
<1>7. SourceOK(u, c, sb2, last, cn2, st)
  <2>1. /\ ConnectedIn(cn2, c, u)
        /\ Len(sb2.queue) \in 1 .. MaxQueueSize + 1
        /\ sb2.back + 1 <= last + Len(sb2.queue)
        /\ sb2.back + 1 <= cn2[c].frame
    <3>1. ConnectedIn(cn2, c, u)
      BY <1>3 DEF ConnectedIn
    <3>2. sb.back + 1 <= last + Len(sb.queue) /\ sb.back + 1 <= cn[c].frame
      BY <1>1 DEF SourceOK
    <3>3. Len(sb2.queue) \in 1 .. MaxQueueSize + 1
      BY <1>2, <1>5, BufferAssumption
    <3>4. sb2.back + 1 <= last + Len(sb2.queue)
      BY <1>1, <1>2, <1>5, <3>2
    <3>5. sb2.back + 1 <= cn2[c].frame
      BY <1>2, <1>3, <1>5, <3>2
    <3> QED BY <3>1, <3>3, <3>4, <3>5
  <2>2. \A n \in 1 .. Len(sb2.queue) : \A t \in sb2.queue[n] : t.source = c
    BY <1>1, <1>2, <1>5 DEF SourceOK
  <2>3. ASSUME cn2[c].phase = "joined"
        PROVE  /\ cn2[c].frame = last + Len(sb2.queue)
               /\ \A n \in 1 .. Len(sb2.queue) :
                     sb2.queue[n] = {t \in st[c] : t.frame = last + n}
    <3>1. /\ cn[c].frame = last + Len(sb.queue)
          /\ \A n \in 1 .. Len(sb.queue) : sb.queue[n] = {t \in st[c] : t.frame = last + n}
      BY <1>1, <1>3, <2>3 DEF SourceOK
    <3>2. {t \in st[c] : t.frame = last + (Len(sb.queue) + 1)} = {}
      BY <1>1, <1>2, <1>6, <3>1
    <3>3. ASSUME NEW n \in 1 .. Len(sb2.queue)
          PROVE  sb2.queue[n] = {t \in st[c] : t.frame = last + n}
      <4>1. CASE n = Len(sb.queue) + 1
        BY <1>5, <3>2, <4>1
      <4>2. CASE n # Len(sb.queue) + 1
        <5>1. n \in 1 .. Len(sb.queue)
          BY <1>2, <1>5, <4>2
        <5> QED BY <1>5, <3>1, <5>1
      <4> QED BY <4>1, <4>2
    <3>4. cn2[c].frame = last + Len(sb2.queue)
      <4>1. cn2[c].frame = (last + Len(sb.queue)) + 1
        BY <1>3, <3>1
      <4>2. ASSUME NEW i \in Nat, NEW j \in Nat PROVE (i + j) + 1 = i + (j + 1)
        OBVIOUS
      <4> QED BY <1>1, <1>2, <1>5, <4>1, <4>2
    <3> QED BY <3>3, <3>4
  <2> QED BY <2>1, <2>2, <2>3 DEF SourceOK
<1>8. \A s \in SourcesOf(stream.buffer) \ {c} :
         SourceOK(u, s, stream.buffer.sources[s], last, cn2, st)
  <2>1. SourcesOf(stream.buffer) \subseteq Sources
    BY DEF StreamOK, StreamTypeOK, BufferTypeOK, IsPartialFunction, SourcesOf
  <2> SUFFICES ASSUME NEW s \in SourcesOf(stream.buffer) \ {c}
               PROVE  SourceOK(u, s, stream.buffer.sources[s], last, cn2, st)
    OBVIOUS
  <2>2. SourceOK(u, s, stream.buffer.sources[s], last, cn, st)
    BY DEF StreamOK
  <2>3. cn2[s] = cn[s]
    BY <1>3, <2>1 DEF Connections
  <2> QED BY <2>2, <2>3 DEF SourceOK, ConnectedIn
<1>9. /\ StreamTypeOK(stream)
      /\ \A s \in Sources \ {c} : cn2[s].phase = "joined" /\ cn2[s].uri = u
                                   => s \in SourcesOf(stream.buffer)
  BY <1>3 DEF StreamOK, Connections
<1>10. ObserversIn(cn2, u) = ObserversIn(cn, u)
  BY <1>3 DEF ObserversIn, ConnectedIn, Connections
<1>11. stream.observers <= Cardinality(ObserversIn(cn2, u))
  BY <1>10 DEF StreamOK
<1>12. FinishFrame(stream.buffer, c) = WithSource(stream.buffer, c, sb2)
  BY DEF FinishFrame, sb, sb2
<1>13. LET stream2 == [stream EXCEPT !.buffer = WithSource(@, c, sb2)]
       IN  /\ StreamOK(u, stream2, cn2, st)
           /\ SourcesOf(stream2.buffer) = SourcesOf(stream.buffer) \cup {c}
  <2>1. OthersOK(u, c, stream, cn2, st)
    BY <1>8, <1>9, <1>11 DEF OthersOK
  <2> QED BY <1>5, <1>7, <2>1, ReplaceSource
<1> QED BY <1>12, <1>13

\* Connections of which only c changes.
LEMMA OnlyOneChanges ==
    ASSUME NEW cn \in [Connections -> ConnectionStates],
           NEW c \in Connections, NEW v, NEW cn2, cn2 = [cn EXCEPT ![c] = v]
    PROVE  cn2[c] = v /\ \A d \in Connections \ {c} : cn2[d] = cn[d]
OBVIOUS

LEMMA JoinedState ==
    ASSUME NEW u \in Uris
    PROVE  [phase |-> "joined", uri |-> u, frame |-> 1] \in ConnectionStates
BY DispatcherAssumption DEF ConnectionStates

\* The sources of a buffer are connected to its stream.
LEMMA SourcesConnected ==
    ASSUME NEW u, NEW stream, NEW cn, NEW st, StreamOK(u, stream, cn, st)
    PROVE  SourcesOf(stream.buffer) \subseteq {s \in Sources : ConnectedIn(cn, s, u)}
BY DEF StreamOK, StreamTypeOK, BufferTypeOK, IsPartialFunction, SourcesOf, SourceOK

LEMMA BufferReplaced ==
    ASSUME NEW stream, StreamTypeOK(stream), NEW b
    PROVE  /\ [stream EXCEPT !.buffer = b].buffer = b
           /\ [stream EXCEPT !.buffer = b].observers = stream.observers
BY DEF StreamTypeOK

LEMMA AddSourceSources ==
    ASSUME NEW stream, StreamTypeOK(stream), NEW c \in Sources
    PROVE  SourcesOf(AddSource(stream.buffer, c)) = SourcesOf(stream.buffer) \cup {c}
BY SourceAtType, WithSourceLemma DEF AddSource, StreamTypeOK

LEMMA AddSourceOK ==
    ASSUME NEW u, NEW stream, NEW cn, NEW st, ConnOK(cn, st), StreamOK(u, stream, cn, st),
           NEW c \in Sources, cn[c].phase = "closed", ~ RejectsSources(stream.buffer),
           NEW cn2, cn2 = [cn EXCEPT ![c] = [phase |-> "joined", uri |-> u, frame |-> 1]]
    PROVE  StreamOK(u, [stream EXCEPT !.buffer = AddSource(@, c)], cn2, st)
<1> DEFINE sb == SourceAt(stream.buffer, c)
<1>1. cn2[c] = [phase |-> "joined", uri |-> u, frame |-> 1]
      /\ \A d \in Connections \ {c} : cn2[d] = cn[d]
  BY OnlyOneChanges DEF ConnOK, Connections
<1>2. stream.buffer.last = 0
  BY DEF RejectsSources, StreamOK, StreamTypeOK, BufferTypeOK
<1>3. SourcesOf(stream.buffer) \subseteq Sources \ {c}
  BY DEF StreamOK, StreamTypeOK, BufferTypeOK, IsPartialFunction, SourcesOf,
         SourceOK, ConnectedIn
<1>4. sb \in SourceBuffers /\ sb.queue = << {} >> /\ sb.back = 0
  BY <1>3, SourceAtType DEF SourceAt, NewSourceBuffer, StreamOK, StreamTypeOK
<1>5. st[c] = {}
  BY DEF ConnOK
<1> HIDE DEF sb
<1>6. SourceOK(u, c, sb, stream.buffer.last, cn2, st)
  <2>1. Len(<< {} >>) = 1 /\ << {} >>[1] = {}
    OBVIOUS
  <2> QED BY <1>1, <1>2, <1>4, <1>5, <2>1, BufferAssumption DEF SourceOK, ConnectedIn
<1>7. OthersOK(u, c, stream, cn2, st)
  <2>1. ObserversIn(cn2, u) = ObserversIn(cn, u)
    BY <1>1, DispatcherAssumption DEF ObserversIn, ConnectedIn, Connections
  <2>2. \A s \in SourcesOf(stream.buffer) \ {c} :
           SourceOK(u, s, stream.buffer.sources[s], stream.buffer.last, cn2, st)
    BY <1>1, <1>3 DEF StreamOK, SourceOK, ConnectedIn, Connections
  <2>3. \A s \in Sources \ {c} : cn2[s].phase = "joined" /\ cn2[s].uri = u
                                  => s \in SourcesOf(stream.buffer)
    BY <1>1 DEF StreamOK, Connections
  <2> QED BY <2>1, <2>2, <2>3 DEF StreamOK, OthersOK
<1>8. AddSource(stream.buffer, c) = WithSource(stream.buffer, c, sb)
  BY DEF AddSource, sb
<1>9. LET stream2 == [stream EXCEPT !.buffer = WithSource(@, c, sb)]
      IN  /\ StreamOK(u, stream2, cn2, st)
          /\ SourcesOf(stream2.buffer) = SourcesOf(stream.buffer) \cup {c}
          /\ stream2.observers = stream.observers
  BY <1>4, <1>6, <1>7, ReplaceSource
<1> QED BY <1>8, <1>9

LEMMA ObserverCount ==
    ASSUME NEW cn, NEW u
    PROVE  IsFiniteSet(ObserversIn(cn, u)) /\ Cardinality(ObserversIn(cn, u)) \in Nat
<1>1. ObserversIn(cn, u) \in SUBSET Observers
  BY DEF ObserversIn
<1> QED BY <1>1, FS_Subset, FS_CardinalityType, DispatcherAssumption

LEMMA AddObserverOK ==
    ASSUME NEW u, NEW stream, NEW cn, NEW st, ConnOK(cn, st), StreamOK(u, stream, cn, st),
           NEW c \in Observers, cn[c].phase = "closed",
           NEW cn2, cn2 = [cn EXCEPT ![c] = [phase |-> "joined", uri |-> u, frame |-> 1]]
    PROVE  LET stream2 == [stream EXCEPT !.observers = @ + 1]
           IN  /\ StreamOK(u, stream2, cn2, st)
               /\ stream2.buffer = stream.buffer
               /\ stream2.observers = stream.observers + 1
<1>1. cn2[c] = [phase |-> "joined", uri |-> u, frame |-> 1]
      /\ \A d \in Connections \ {c} : cn2[d] = cn[d]
  BY OnlyOneChanges DEF ConnOK, Connections
<1>2. ObserversIn(cn2, u) = ObserversIn(cn, u) \cup {c} /\ c \notin ObserversIn(cn, u)
  BY <1>1 DEF ObserversIn, ConnectedIn, Connections
<1>3. Cardinality(ObserversIn(cn2, u)) = Cardinality(ObserversIn(cn, u)) + 1
  BY <1>2, ObserverCount, FS_AddElement
<1>4. stream \in [buffer : {stream.buffer}, observers : Nat] /\ BufferTypeOK(stream.buffer)
  BY DEF StreamOK, StreamTypeOK
<1> DEFINE stream2 == [stream EXCEPT !.observers = @ + 1]
<1>5. /\ stream2.buffer = stream.buffer
      /\ stream2.observers = stream.observers + 1
      /\ stream2 \in [buffer : {stream.buffer}, observers : Nat]
  BY <1>4
<1> HIDE DEF stream2
<1>6. SourcesOf(stream.buffer) \subseteq Sources
  BY <1>4 DEF BufferTypeOK, IsPartialFunction, SourcesOf
<1>7. \A s \in Sources : cn2[s] = cn[s]
  BY <1>1, DispatcherAssumption DEF Connections
<1>8. \A s \in SourcesOf(stream2.buffer) :
         SourceOK(u, s, stream2.buffer.sources[s], stream2.buffer.last, cn2, st)
  BY <1>5, <1>6, <1>7 DEF StreamOK, SourceOK, ConnectedIn
<1>9. stream2.observers <= Cardinality(ObserversIn(cn2, u))
  BY <1>3, <1>4, <1>5, ObserverCount DEF StreamOK
<1>10. StreamTypeOK(stream2)
  BY <1>4, <1>5 DEF StreamTypeOK
<1>11. \A s \in Sources : cn2[s].phase = "joined" /\ cn2[s].uri = u
                           => s \in SourcesOf(stream2.buffer)
  BY <1>5, <1>7 DEF StreamOK
<1>12. StreamOK(u, stream2, cn2, st)
  BY <1>8, <1>9, <1>10, <1>11 DEF StreamOK
<1> QED BY <1>5, <1>12 DEF stream2

LEMMA RemoveSourceOK ==
    ASSUME NEW u, NEW stream, NEW cn, NEW st, ConnOK(cn, st), StreamOK(u, stream, cn, st),
           NEW c \in Sources,
           NEW cn2, cn2 = [cn EXCEPT ![c] = Closed],
           NEW st2, \A d \in Sources \ {c} : st2[d] = st[d]
    PROVE  StreamOK(u, [stream EXCEPT !.buffer = RemoveSource(@, c)], cn2, st2)
<1> DEFINE b == stream.buffer
           b2 == RemoveSource(b, c)
           stream2 == [stream EXCEPT !.buffer = b2]
<1>1. cn2[c] = Closed /\ \A d \in Connections \ {c} : cn2[d] = cn[d]
  BY OnlyOneChanges DEF ConnOK, Connections
<1>2. /\ b \in [sources : {b.sources}, last : Nat, allowed : BOOLEAN]
      /\ IsPartialFunction(b.sources, Sources, SourceBuffers)
      /\ stream \in [buffer : {b}, observers : Nat]
  BY DEF StreamOK, StreamTypeOK, BufferTypeOK
<1>3. /\ SourcesOf(b2) = SourcesOf(b) \ {c}
      /\ b2.sources = [r \in SourcesOf(b) \ {c} |-> b.sources[r]]
      /\ b2.last = IF SourcesOf(b2) = {} THEN 0 ELSE b.last
      /\ b2 \in [sources : {b2.sources}, last : Nat, allowed : BOOLEAN]
  BY <1>2 DEF RemoveSource, SourcesOf
<1>4. /\ stream2.buffer = b2
      /\ stream2.observers = stream.observers
      /\ stream2 \in [buffer : {b2}, observers : Nat]
  <2> HIDE DEF b2
  <2> QED BY <1>2
<1> HIDE DEF b2, stream2
<1>5. BufferTypeOK(b2)
  <2>1. IsPartialFunction(b2.sources, Sources, SourceBuffers)
    BY <1>2, <1>3 DEF IsPartialFunction, SourcesOf
  <2> QED BY <1>3, <2>1 DEF BufferTypeOK
<1>6. StreamTypeOK(stream2)
  BY <1>4, <1>5 DEF StreamTypeOK
<1>7. \A s \in SourcesOf(b2) : SourceOK(u, s, b2.sources[s], b2.last, cn2, st2)
  <2> SUFFICES ASSUME NEW s \in SourcesOf(b2)
               PROVE  SourceOK(u, s, b2.sources[s], b2.last, cn2, st2)
    OBVIOUS
  <2>1. /\ s \in SourcesOf(b) /\ s # c /\ s \in Sources
        /\ b2.sources[s] = b.sources[s]
        /\ b2.last = b.last
    BY <1>2, <1>3 DEF IsPartialFunction, SourcesOf
  <2>2. SourceOK(u, s, b.sources[s], b.last, cn, st)
    BY <2>1 DEF StreamOK
  <2>3. cn2[s] = cn[s] /\ st2[s] = st[s]
    BY <1>1, <2>1 DEF Connections
  <2> QED BY <2>1, <2>2, <2>3 DEF SourceOK, ConnectedIn
<1>8. \A s \in Sources : cn2[s].phase = "joined" /\ cn2[s].uri = u => s \in SourcesOf(b2)
  BY <1>1, <1>3 DEF StreamOK, Closed, Connections
<1>9. ObserversIn(cn2, u) = ObserversIn(cn, u)
  BY <1>1, DispatcherAssumption DEF ObserversIn, ConnectedIn, Connections
<1>10. StreamOK(u, stream2, cn2, st2)
  BY <1>4, <1>6, <1>7, <1>8, <1>9 DEF StreamOK
<1> QED BY <1>10 DEF stream2, b2

LEMMA RemoveObserverOK ==
    ASSUME NEW u, NEW stream, NEW cn, NEW st, ConnOK(cn, st), StreamOK(u, stream, cn, st),
           NEW c \in Observers, ConnectedIn(cn, c, u),
           NEW cn2, cn2 = [cn EXCEPT ![c] = Closed]
    PROVE  StreamOK(u, [stream EXCEPT !.observers = IF @ > 0 THEN @ - 1 ELSE 0], cn2, st)
<1>1. cn2[c] = Closed /\ \A d \in Connections \ {c} : cn2[d] = cn[d]
  BY OnlyOneChanges DEF ConnOK, Connections
<1>2. ObserversIn(cn2, u) = ObserversIn(cn, u) \ {c} /\ c \in ObserversIn(cn, u)
  BY <1>1 DEF ObserversIn, ConnectedIn, Connections, Closed
<1>3. /\ Cardinality(ObserversIn(cn2, u)) = Cardinality(ObserversIn(cn, u)) - 1
      /\ Cardinality(ObserversIn(cn2, u)) \in Nat
  BY <1>2, ObserverCount, FS_RemoveElement
<1>4. stream \in [buffer : {stream.buffer}, observers : Nat] /\ BufferTypeOK(stream.buffer)
  BY DEF StreamOK, StreamTypeOK
<1> DEFINE stream2 == [stream EXCEPT !.observers = IF @ > 0 THEN @ - 1 ELSE 0]
<1>5. /\ stream2.buffer = stream.buffer
      /\ stream2.observers = IF stream.observers > 0 THEN stream.observers - 1 ELSE 0
      /\ stream2 \in [buffer : {stream.buffer}, observers : Nat]
  BY <1>4
<1> HIDE DEF stream2
<1>6. SourcesOf(stream.buffer) \subseteq Sources
  BY <1>4 DEF BufferTypeOK, IsPartialFunction, SourcesOf
<1>7. \A s \in Sources : cn2[s] = cn[s]
  BY <1>1, DispatcherAssumption DEF Connections
<1>8. \A s \in SourcesOf(stream2.buffer) :
         SourceOK(u, s, stream2.buffer.sources[s], stream2.buffer.last, cn2, st)
  BY <1>5, <1>6, <1>7 DEF StreamOK, SourceOK, ConnectedIn
<1>9. stream2.observers <= Cardinality(ObserversIn(cn2, u))
  BY <1>3, <1>4, <1>5, ObserverCount DEF StreamOK
<1>10. StreamTypeOK(stream2)
  BY <1>4, <1>5 DEF StreamTypeOK
<1>11. \A s \in Sources : cn2[s].phase = "joined" /\ cn2[s].uri = u
                           => s \in SourcesOf(stream2.buffer)
  BY <1>5, <1>7 DEF StreamOK
<1>12. StreamOK(u, stream2, cn2, st)
  BY <1>8, <1>9, <1>10, <1>11 DEF StreamOK
<1> QED BY <1>12 DEF stream2

LEMMA FrameArithmetic ==
    ASSUME NEW n \in Nat, NEW last \in Nat, NEW back \in Nat, NEW len \in Nat,
           NEW frame \in Nat, n > last, n <= back, back + 1 <= last + len, back + 1 <= frame
    PROVE  n - last \in 1 .. len - 1 /\ n < frame /\ n + (len - (n - last)) = last + len
OBVIOUS

\* The frame numbers that a complete frame can have, in each queue.
LEMMA LatestFrameLemma ==
    ASSUME NEW u, NEW stream, NEW cn, NEW st, ConnOK(cn, st), StreamOK(u, stream, cn, st),
           NEW n \in LatestFrame(stream.buffer)
    PROVE  /\ n \in Nat
           /\ n > stream.buffer.last
           /\ \A s \in SourcesOf(stream.buffer) :
                 /\ n - stream.buffer.last \in 1 .. Len(stream.buffer.sources[s].queue) - 1
                 /\ n < cn[s].frame
<1> DEFINE b == stream.buffer
<1>1. /\ b.last \in Nat
      /\ \A s \in SourcesOf(b) : /\ s \in Sources
                                 /\ b.sources[s].back \in Nat
                                 /\ b.sources[s].queue \in Seq(SUBSET Tiles)
  BY DEF StreamOK, StreamTypeOK, BufferTypeOK, IsPartialFunction, SourcesOf, SourceBuffers
<1>2. /\ n \in Nat
      /\ n > b.last
      /\ \A s \in SourcesOf(b) : n <= b.sources[s].back
  BY <1>1 DEF LatestFrame
<1>3. ASSUME NEW s \in SourcesOf(b)
      PROVE  n - b.last \in 1 .. Len(b.sources[s].queue) - 1 /\ n < cn[s].frame
  <2>1. /\ b.sources[s].back + 1 <= b.last + Len(b.sources[s].queue)
        /\ b.sources[s].back + 1 <= cn[s].frame
    BY DEF StreamOK, SourceOK
  <2>2. Len(b.sources[s].queue) \in Nat /\ cn[s].frame \in Nat
    BY <1>1, LenProperties, DispatcherAssumption DEF ConnectionStates, ConnOK, Connections
  <2>3. /\ n <= b.sources[s].back /\ b.sources[s].back \in Nat
        /\ n \in Nat /\ b.last \in Nat /\ n > b.last
    BY <1>1, <1>2
  <2>4. PICK back \in Nat, last \in Nat, len \in Nat, frame \in Nat :
           /\ back = b.sources[s].back
           /\ last = b.last
           /\ len = Len(b.sources[s].queue)
           /\ frame = cn[s].frame
    BY <2>2, <2>3
  <2>5. n \in Nat /\ n > last /\ n <= back /\ back + 1 <= last + len /\ back + 1 <= frame
    BY <2>1, <2>3, <2>4
  <2>6. n - last \in 1 .. len - 1 /\ n < frame
    BY <2>5, FrameArithmetic
  <2> QED BY <2>4, <2>6
<1> QED BY <1>2, <1>3

\* Consuming the latest frame keeps the frames of all the sources aligned.
LEMMA DrainOK ==
    ASSUME NEW u, NEW stream, NEW cn, NEW st, ConnOK(cn, st), StreamOK(u, stream, cn, st),
           NEW n \in LatestFrame(stream.buffer)
    PROVE  LET stream2 == [stream EXCEPT !.buffer = Drained(@, n)]
           IN  /\ StreamOK(u, stream2, cn, st)
               /\ SourcesOf(stream2.buffer) = SourcesOf(stream.buffer)
               /\ stream2.observers = stream.observers
<1> DEFINE b == stream.buffer
           b2 == Drained(b, n)
           d == n - b.last
           stream2 == [stream EXCEPT !.buffer = b2]
<1>1. /\ n \in Nat
      /\ n > b.last
      /\ \A s \in SourcesOf(b) : d \in 1 .. Len(b.sources[s].queue) - 1
  BY LatestFrameLemma
<1>2. /\ b \in [sources : {b.sources}, last : Nat, allowed : BOOLEAN]
      /\ b.sources \in [SourcesOf(b) -> SourceBuffers]
      /\ SourcesOf(b) \subseteq Sources
      /\ stream \in [buffer : {b}, observers : Nat]
  BY DEF StreamOK, StreamTypeOK, BufferTypeOK, IsPartialFunction, SourcesOf
<1>3. /\ SourcesOf(b2) = SourcesOf(b)
      /\ b2.last = n
      /\ b2.sources = [s \in SourcesOf(b) |->
                         [b.sources[s] EXCEPT !.queue = SubSeq(@, d + 1, Len(@))]]
      /\ b2 \in [sources : {b2.sources}, last : {n}, allowed : {FALSE}]
  BY DEF Drained, SourcesOf
<1>4. ASSUME NEW s \in SourcesOf(b)
      PROVE  LET sb  == b.sources[s]
                 sb2 == b2.sources[s]
             IN  /\ sb2 \in SourceBuffers
                 /\ sb2.back = sb.back
                 /\ Len(sb2.queue) = Len(sb.queue) - d
                 /\ \A i \in 1 .. Len(sb2.queue) : sb2.queue[i] = sb.queue[i + d]
  <2> DEFINE sb == b.sources[s]
             q  == sb.queue
             q2 == SubSeq(q, d + 1, Len(q))
  <2>1. sb \in [queue : Seq(SUBSET Tiles), back : Nat]
    BY <1>2 DEF SourceBuffers
  <2>2. q \in Seq(SUBSET Tiles) /\ Len(q) \in Nat /\ d \in 1 .. Len(q) - 1
    BY <1>1, <2>1, LenProperties
  <2>3. \A i \in d + 1 .. Len(q) : q[i] \in SUBSET Tiles
    BY <2>2, LenProperties
  <2> HIDE DEF d
  <2>4. /\ q2 \in Seq(SUBSET Tiles)
        /\ Len(q2) = Len(q) - d
        /\ \A i \in 1 .. Len(q) - d : q2[i] = q[i + d]
    <3> HIDE DEF q
    <3>1. d + 1 \in Int /\ Len(q) \in Int /\ d + 1 <= Len(q)
      BY <2>2
    <3>2. /\ q2 \in Seq(SUBSET Tiles)
          /\ Len(q2) = IF d + 1 <= Len(q) THEN Len(q) - (d + 1) + 1 ELSE 0
          /\ \A i \in 1 .. Len(q) - (d + 1) + 1 : q2[i] = q[(d + 1) + i - 1]
      BY <2>3, <3>1, SubSeqProperties
    <3> HIDE DEF q2
    <3> QED BY <2>2, <3>1, <3>2
  <2>5. b2.sources[s] = [sb EXCEPT !.queue = q2]
    BY <1>3 DEF d
  <2> HIDE DEF q2
  <2>6. /\ b2.sources[s] \in SourceBuffers
        /\ b2.sources[s].queue = q2
        /\ b2.sources[s].back = sb.back
    BY <2>1, <2>4, <2>5 DEF SourceBuffers
  <2> QED BY <2>4, <2>6
<1>5. /\ stream2.buffer = b2
      /\ stream2.observers = stream.observers
      /\ stream2 \in [buffer : {b2}, observers : Nat]
  <2> HIDE DEF b2
  <2> QED BY <1>2
<1> HIDE DEF b2, stream2
<1>6. BufferTypeOK(b2)
  <2>1. b2.sources \in [SourcesOf(b) -> SourceBuffers]
    BY <1>3, <1>4
  <2> QED BY <1>1, <1>2, <1>3, <2>1 DEF BufferTypeOK, IsPartialFunction, SourcesOf
<1>7. StreamTypeOK(stream2)
  BY <1>5, <1>6 DEF StreamTypeOK
<1>8. ASSUME NEW s \in SourcesOf(b2)
      PROVE  SourceOK(u, s, b2.sources[s], b2.last, cn, st)
  <2> DEFINE q  == b.sources[s].queue
             q2 == b2.sources[s].queue
  <2>1. s \in SourcesOf(b)
    BY <1>3
  <2>2. SourceOK(u, s, b.sources[s], b.last, cn, st)
    BY <2>1 DEF StreamOK
  <2>3. /\ b2.sources[s].back = b.sources[s].back
        /\ Len(q2) = Len(q) - d
        /\ \A i \in 1 .. Len(q2) : q2[i] = q[i + d]
    BY <1>4, <2>1
  <2>4. /\ d \in 1 .. Len(q) - 1
        /\ d \in Nat /\ Len(q) \in Nat /\ b.sources[s].back \in Nat /\ b.last \in Nat
        /\ n = b.last + d
    <3>1. b.sources[s] \in SourceBuffers /\ b.last \in Nat
      BY <1>2, <2>1
    <3>2. Len(q) \in Nat /\ b.sources[s].back \in Nat
      BY <3>1, LenProperties DEF SourceBuffers
    <3> QED BY <1>1, <2>1, <3>1, <3>2
  <2> HIDE DEF q, q2, d
  <2>5. \A i \in 1 .. Len(q2) : i + d \in 1 .. Len(q)
    BY <2>3, <2>4
  <2>6. \A i \in 1 .. Len(q2) : \A t \in q2[i] : t.source = s
    <3>1. \A i \in 1 .. Len(q) : \A t \in q[i] : t.source = s
      BY <2>2 DEF SourceOK, q
    <3> QED BY <2>3, <2>5, <3>1
  <2>7. ASSUME cn[s].phase = "joined"
        PROVE  /\ cn[s].frame = n + Len(q2)
               /\ \A i \in 1 .. Len(q2) : q2[i] = {t \in st[s] : t.frame = n + i}
    <3>1. /\ cn[s].frame = b.last + Len(q)
          /\ \A i \in 1 .. Len(q) : q[i] = {t \in st[s] : t.frame = b.last + i}
      BY <2>2, <2>7 DEF SourceOK, q
    <3>2. cn[s].frame = n + Len(q2)
      BY <2>3, <2>4, <3>1
    <3>3. ASSUME NEW i \in 1 .. Len(q2)
          PROVE  q2[i] = {t \in st[s] : t.frame = n + i}
      <4>1. i \in Nat /\ n + i = b.last + (i + d)
        BY <2>3, <2>4
      <4> QED BY <2>3, <2>5, <3>1, <4>1
    <3> QED BY <3>2, <3>3
  <2>8. /\ ConnectedIn(cn, s, u)
        /\ Len(q2) \in 1 .. MaxQueueSize + 1
        /\ b.sources[s].back + 1 <= n + Len(q2)
        /\ b.sources[s].back + 1 <= cn[s].frame
    <3>1. /\ ConnectedIn(cn, s, u)
          /\ Len(q) \in 1 .. MaxQueueSize + 1
          /\ b.sources[s].back + 1 <= b.last + Len(q)
          /\ b.sources[s].back + 1 <= cn[s].frame
      BY <2>2 DEF SourceOK, q
    <3>2. Len(q2) \in 1 .. MaxQueueSize + 1
      BY <2>3, <2>4, <3>1, BufferAssumption
    <3>3. n + Len(q2) = b.last + Len(q)
      <4>1. Len(q2) = Len(q) - d
        BY <2>3
      <4>2. d \in Nat /\ Len(q) \in Nat /\ b.last \in Nat /\ n = b.last + d
        BY <2>4
      <4> QED BY <4>1, <4>2
    <3> QED BY <3>1, <3>2, <3>3
  <2>9. b2.last = n /\ b2.sources[s].back = b.sources[s].back
    BY <1>3, <2>3
  <2> QED BY <2>6, <2>7, <2>8, <2>9 DEF SourceOK, q2
<1>9. StreamOK(u, stream2, cn, st)
  BY <1>3, <1>5, <1>7, <1>8 DEF StreamOK
<1> QED BY <1>3, <1>5, <1>9 DEF stream2, b2

\* What is consumed is what each source that joined sent for one frame number.
LEMMA FrameIsWhole ==
    ASSUME NEW u, NEW stream, NEW cn, NEW st, ConnOK(cn, st), StreamOK(u, stream, cn, st),
           NEW n \in LatestFrame(stream.buffer)
    PROVE  LET tiles == TilesOfFrame(stream.buffer, n)
           IN  /\ n \in Nat /\ n # 0
               /\ tiles \in SUBSET Tiles
               /\ \A c \in Sources : cn[c].phase = "joined" /\ cn[c].uri = u =>
                     /\ n < cn[c].frame
                     /\ {t \in tiles : t.source = c} = {t \in st[c] : t.frame = n}
<1> DEFINE b == stream.buffer
           d == n - b.last
           tiles == UNION {b.sources[s].queue[d] : s \in SourcesOf(b)}
<1>1. /\ n \in Nat
      /\ n > b.last
      /\ \A s \in SourcesOf(b) :
            d \in 1 .. Len(b.sources[s].queue) - 1 /\ n < cn[s].frame
  BY LatestFrameLemma
<1>2. /\ b.last \in Nat
      /\ b.sources \in [SourcesOf(b) -> SourceBuffers]
      /\ SourcesOf(b) \subseteq Sources
  BY DEF StreamOK, StreamTypeOK, BufferTypeOK, IsPartialFunction, SourcesOf
<1>3. ASSUME NEW s \in SourcesOf(b)
      PROVE  /\ b.sources[s].queue[d] \in SUBSET Tiles
             /\ d \in 1 .. Len(b.sources[s].queue)
             /\ \A t \in b.sources[s].queue[d] : t.source = s
  <2>1. b.sources[s].queue \in Seq(SUBSET Tiles)
    BY <1>2 DEF SourceBuffers
  <2>2. Len(b.sources[s].queue) \in Nat
    BY <2>1, LenProperties
  <2>3. d \in 1 .. Len(b.sources[s].queue)
    BY <1>1, <1>2, <2>2
  <2>4. b.sources[s].queue[d] \in SUBSET Tiles
    BY <2>1, <2>3, LenProperties
  <2> QED BY <2>3, <2>4 DEF StreamOK, SourceOK
<1>4. ASSUME NEW c \in Sources, cn[c].phase = "joined", cn[c].uri = u
      PROVE  /\ n < cn[c].frame
             /\ {t \in tiles : t.source = c} = {t \in st[c] : t.frame = n}
  <2>1. c \in SourcesOf(b)
    BY <1>4 DEF StreamOK
  <2>2. {t \in tiles : t.source = c} = b.sources[c].queue[d]
    BY <1>3, <2>1
  <2>3. b.sources[c].queue[d] = {t \in st[c] : t.frame = b.last + d}
    BY <1>3, <1>4, <2>1 DEF StreamOK, SourceOK
  <2>4. b.last + d = n
    BY <1>1, <1>2
  <2> QED BY <1>1, <2>1, <2>2, <2>3, <2>4
<1>5. tiles \in SUBSET Tiles
  BY <1>3
<1>6. TilesOfFrame(b, n) = tiles
  BY DEF TilesOfFrame
<1>7. n # 0
  BY <1>1, <1>2
<1> HIDE DEF tiles
<1> QED BY <1>1, <1>4, <1>5, <1>6, <1>7

-----------------------------------------------------------------------------
(* The two ways in which an action ends: the stream is stored, or deleted. *)

LEMMA NotClosed ==
    ASSUME NEW stream, SourcesOf(stream.buffer) # {} PROVE ~ AllConnectionsClosed(stream)
BY DEF AllConnectionsClosed

LEMMA SetStreamInv ==
    ASSUME Inv, NEW u \in Uris, NEW stream, SetStream(u, stream),
           StreamOK(u, stream, conn', sent'), ~ AllConnectionsClosed(stream),
           ConnOK(conn', sent'),
           \A c \in Connections :
              \/ conn'[c] = conn[c] /\ (c \in Sources => sent'[c] = sent[c])
              \/ /\ conn[c].phase = "closed" \/ conn[c].uri = u
                 /\ conn'[c].phase = "closed" \/ conn'[c].uri = u,
           opened' = IF Exists(u) THEN opened ELSE [opened EXCEPT ![u] = @ + 1],
           requested' \subseteq Uris,
           received' \in [uri : Uris \cup {NoUri}, index : Nat, tiles : SUBSET Tiles],
           WholeFrame'
    PROVE  Inv'
<1>1. /\ DOMAIN streams \subseteq Uris
      /\ streams' = [v \in DOMAIN streams \cup {u} |-> IF v = u THEN stream ELSE streams[v]]
  BY DEF Inv, IsPartialFunction, SetStream
<1>2. DOMAIN streams' = DOMAIN streams \cup {u}
      /\ streams'[u] = stream
      /\ \A v \in DOMAIN streams : v # u => streams'[v] = streams[v]
  BY <1>1
<1>3. IsPartialFunction(streams', Uris, {streams'[v] : v \in DOMAIN streams'})
  BY <1>1 DEF IsPartialFunction
<1>4. \A v \in DOMAIN streams' : /\ StreamOK(v, streams'[v], conn', sent')
                                 /\ ~ AllConnectionsClosed(streams'[v])
  <2>1. ASSUME NEW v \in DOMAIN streams, v # u
        PROVE  StreamOK(v, streams[v], conn', sent') /\ ~ AllConnectionsClosed(streams[v])
    <3>1. StreamOK(v, streams[v], conn, sent) /\ ~ AllConnectionsClosed(streams[v])
      BY DEF Inv
    <3>2. \A c \in Sources : ConnectedIn(conn, c, v) \/ ConnectedIn(conn', c, v)
                                => conn'[c] = conn[c] /\ sent'[c] = sent[c]
      BY <2>1 DEF ConnectedIn, Connections
    <3>3. \A o \in Observers : ConnectedIn(conn', o, v) <=> ConnectedIn(conn, o, v)
      BY <2>1 DEF ConnectedIn, Connections
    <3> QED BY <3>1, <3>2, <3>3, OtherStream
  <2> QED BY <1>2, <2>1
<1>5. \A c \in Sources, v \in Uris : Joined(c, v)' => Exists(v)'
  <2> SUFFICES ASSUME NEW c \in Sources, NEW v \in Uris, Joined(c, v)', v # u
               PROVE  Exists(v)'
    BY <1>2 DEF Exists
  <2>1. Joined(c, v)
    BY DEF Joined, Connections
  <2>2. Exists(v)
    BY <2>1 DEF Inv
  <2> QED BY <1>2, <2>2 DEF Exists
<1>6. opened' \in [Uris -> Int] /\ AppViewAccurate'
  <2>1. opened \in [Uris -> Int] /\ \A v \in Uris : opened[v] = IF Exists(v) THEN 1 ELSE 0
    BY DEF Inv, AppViewAccurate
  <2>2. \A v \in Uris : Exists(v)' <=> (Exists(v) \/ v = u)
    BY <1>2 DEF Exists
  <2>3. opened' \in [Uris -> Int] /\ \A v \in Uris : opened'[v] = IF Exists(v)' THEN 1 ELSE 0
    BY <2>1, <2>2
  <2> QED BY <2>3 DEF AppViewAccurate
<1> QED BY <1>3, <1>4, <1>5, <1>6 DEF Inv

LEMMA DeleteStreamInv ==
    ASSUME Inv, NEW u \in Uris, Exists(u), NEW others,
           others \in [Connections -> ConnectionStates],
           \A c \in Connections :
              \/ others[c] = conn[c]
              \/ /\ ConnectedIn(conn, c, u)
                 /\ others[c].phase = "closed" \/ others[c].uri = u,
           DeleteStream(u, others)
    PROVE  Inv'
<1>1. /\ DOMAIN streams' = DOMAIN streams \ {u}
      /\ streams' = [v \in DOMAIN streams \ {u} |-> streams[v]]
      /\ opened' = [opened EXCEPT ![u] = @ - 1]
      /\ requested' = requested \ {u}
      /\ received' = NoFrame
  BY DEF DeleteStream
<1>2. ASSUME NEW c \in Connections
      PROVE  conn'[c] = IF others[c].uri = u /\ others[c].phase = "joined"
                        THEN [others[c] EXCEPT !.phase = "stray"] ELSE others[c]
  BY DEF DeleteStream
<1>3. ASSUME NEW c \in Connections
      PROVE  /\ conn'[c].uri = others[c].uri
             /\ conn'[c].frame = others[c].frame
             /\ conn'[c].phase = "joined" <=> (others[c].phase = "joined" /\ others[c].uri # u)
             /\ others[c].uri # u => conn'[c] = others[c]
             /\ conn'[c] \in ConnectionStates
  BY <1>2 DEF ConnectionStates
<1>4. \A c \in Sources : sent'[c] = IF others[c].phase = "joined" /\ others[c].uri # u
                                    THEN sent[c] ELSE {}
  BY DEF DeleteStream
<1>5. ConnOK(conn, sent)
  BY DEF Inv
<1>6. ConnOK(conn', sent')
  <2>1. sent \in [Sources -> SUBSET Tiles]
    BY <1>5 DEF ConnOK
  <2>2. conn' \in [Connections -> ConnectionStates]
    <3>1. conn' = [c \in Connections |-> conn'[c]]
      BY DEF DeleteStream
    <3> QED BY <1>3, <3>1
  <2>3. sent' \in [Sources -> SUBSET Tiles]
    <3>1. sent' = [c \in Sources |-> sent'[c]]
      BY DEF DeleteStream
    <3> QED BY <1>4, <2>1, <3>1
  <2>4. ASSUME NEW c \in Sources, NEW t \in sent'[c]
        PROVE  conn'[c].phase = "joined" /\ t.source = c /\ t.frame <= conn'[c].frame
    <3>1. others[c].phase = "joined" /\ others[c].uri # u /\ t \in sent[c]
      BY <1>4
    <3>2. conn'[c] = others[c] /\ others[c] = conn[c]
      BY <1>3, <3>1 DEF Connections
    <3> QED BY <1>5, <3>1, <3>2 DEF ConnOK
  <2>5. ASSUME NEW c \in Connections, conn'[c].phase # "closed" PROVE conn'[c].uri \in Uris
    <3>1. others[c].phase # "closed" => others[c].uri \in Uris
      BY <1>5 DEF ConnOK
    <3>2. conn'[c].uri = others[c].uri /\ (others[c].phase = "closed" => conn'[c] = others[c])
      BY <1>2, <1>3
    <3> QED BY <2>5, <3>1, <3>2
  <2> QED BY <2>2, <2>3, <2>4, <2>5 DEF ConnOK
<1>7. IsPartialFunction(streams', Uris, {streams'[v] : v \in DOMAIN streams'})
  BY <1>1 DEF Inv, IsPartialFunction
<1>8. ASSUME NEW v \in DOMAIN streams'
      PROVE  StreamOK(v, streams'[v], conn', sent') /\ ~ AllConnectionsClosed(streams'[v])
  <2>1. v \in DOMAIN streams /\ v # u /\ streams'[v] = streams[v]
    BY <1>1
  <2>2. StreamOK(v, streams[v], conn, sent) /\ ~ AllConnectionsClosed(streams[v])
    BY <2>1 DEF Inv
  <2>3. ASSUME NEW c \in Connections, ConnectedIn(conn, c, v) \/ ConnectedIn(conn', c, v)
        PROVE  conn'[c] = conn[c] /\ others[c] = conn[c]
    <3>1. CASE ConnectedIn(conn, c, v)
      BY <1>3, <2>1, <3>1 DEF ConnectedIn
    <3>2. CASE ConnectedIn(conn', c, v)
      <4>1. others[c].uri = v /\ conn'[c] = others[c]
        BY <1>3, <2>1, <3>2 DEF ConnectedIn
      <4> QED BY <2>1, <3>2, <4>1 DEF ConnectedIn
    <3> QED BY <2>3, <3>1, <3>2
  <2>4. ASSUME NEW c \in Sources, ConnectedIn(conn, c, v) \/ ConnectedIn(conn', c, v)
        PROVE  conn'[c] = conn[c] /\ sent'[c] = sent[c]
    <3>1. conn'[c] = conn[c] /\ others[c] = conn[c] /\ conn[c].uri = v
      BY <2>3, <2>4 DEF ConnectedIn, Connections
    <3>2. CASE conn[c].phase = "joined"
      BY <1>4, <2>1, <3>1, <3>2
    <3>3. CASE conn[c].phase # "joined"
      <4>1. sent[c] = {}
        BY <1>5, <3>3 DEF ConnOK
      <4> QED BY <1>4, <3>1, <3>3, <4>1
    <3> QED BY <3>2, <3>3
  <2>5. \A o \in Observers : ConnectedIn(conn', o, v) <=> ConnectedIn(conn, o, v)
    BY <2>3 DEF ConnectedIn, Connections
  <2> QED BY <2>1, <2>2, <2>4, <2>5, OtherStream
<1>9. ASSUME NEW c \in Sources, NEW v \in Uris, Joined(c, v)'
      PROVE  Exists(v)'
  <2>1. others[c].phase = "joined" /\ others[c].uri # u /\ conn'[c] = others[c]
    BY <1>3, <1>9 DEF Joined, Connections
  <2>2. others[c] = conn[c]
    BY <2>1 DEF Connections
  <2>3. Joined(c, v) /\ v # u
    BY <1>9, <2>1, <2>2 DEF Joined
  <2>4. Exists(v)
    BY <2>3 DEF Inv
  <2> QED BY <1>1, <2>3, <2>4 DEF Exists
<1>10. opened' \in [Uris -> Int] /\ AppViewAccurate'
  <2>1. opened \in [Uris -> Int] /\ \A v \in Uris : opened[v] = IF Exists(v) THEN 1 ELSE 0
    BY DEF Inv, AppViewAccurate
  <2>2. \A v \in Uris : Exists(v)' <=> (Exists(v) /\ v # u)
    BY <1>1 DEF Exists
  <2>3. opened' \in [Uris -> Int] /\ \A v \in Uris : opened'[v] = IF Exists(v)' THEN 1 ELSE 0
    BY <1>1, <2>1, <2>2
  <2> QED BY <2>3 DEF AppViewAccurate
<1>11. /\ requested' \subseteq Uris
       /\ received' \in [uri : Uris \cup {NoUri}, index : Nat, tiles : SUBSET Tiles]
       /\ WholeFrame'
  BY <1>1 DEF Inv, NoFrame, WholeFrame
<1> QED BY <1>6, <1>7, <1>8, <1>9, <1>10, <1>11 DEF Inv

-----------------------------------------------------------------------------
(* Each action preserves the invariant.                                    *)

LEMMA StreamAtOK ==
    ASSUME Inv, NEW u \in Uris
    PROVE  /\ StreamOK(u, StreamAt(u), conn, sent)
           /\ Exists(u) => ~ AllConnectionsClosed(StreamAt(u))
           /\ ~ Exists(u) => AllConnectionsClosed(StreamAt(u)) /\ StreamAt(u) = NewStream
<1>1. CASE Exists(u)
  BY <1>1 DEF Inv, StreamAt, Exists
<1>2. CASE ~ Exists(u)
  <2>1. StreamAt(u) = NewStream /\ SourcesOf(NewStream.buffer) = {} /\ NewStream.observers = 0
    BY <1>2 DEF StreamAt, NewStream, NewReceiveBuffer, SourcesOf
  <2>2. StreamTypeOK(NewStream)
    <3>1. IsPartialFunction(<< >>, Sources, SourceBuffers)
      BY DEF IsPartialFunction
    <3> QED BY <3>1 DEF StreamTypeOK, BufferTypeOK, NewStream, NewReceiveBuffer
  <2>3. \A s \in Sources : ~ (conn[s].phase = "joined" /\ conn[s].uri = u)
    BY <1>2 DEF Inv, Joined
  <2>4. 0 <= Cardinality(ObserversIn(conn, u))
    BY ObserverCount
  <2> QED BY <1>2, <2>1, <2>2, <2>3, <2>4 DEF StreamOK, AllConnectionsClosed
<1> QED BY <1>1, <1>2

LEMMA ReceivedNoFrame ==
    ASSUME received' = NoFrame
    PROVE  /\ received' \in [uri : Uris \cup {NoUri}, index : Nat, tiles : SUBSET Tiles]
           /\ WholeFrame'
BY DEF NoFrame, WholeFrame

LEMMA AddSourceInv ==
    ASSUME Inv, NEW c \in Sources, NEW u \in Uris, AddSourceToStream(c, u)
    PROVE  Inv'
<1> DEFINE stream == StreamAt(u)
           stream2 == [stream EXCEPT !.buffer = AddSource(@, c)]
<1>1. /\ conn[c].phase = "closed"
      /\ ~ RejectsSources(stream.buffer)
      /\ SetStream(u, stream2)
      /\ opened' = IF stream.observers = 0 /\ SourcesOf(AddSource(stream.buffer, c)) = {c}
                   THEN [opened EXCEPT ![u] = @ + 1] ELSE opened
      /\ conn' = [conn EXCEPT ![c] = [phase |-> "joined", uri |-> u, frame |-> 1]]
      /\ received' = NoFrame /\ requested' = requested /\ sent' = sent
  BY DEF AddSourceToStream, EmitOpened, Connect
<1>2. ConnOK(conn, sent) /\ requested \subseteq Uris /\ StreamOK(u, stream, conn, sent)
  BY StreamAtOK DEF Inv
<1>3. /\ StreamOK(u, stream2, conn', sent)
      /\ SourcesOf(stream2.buffer) # {}
      /\ SourcesOf(AddSource(stream.buffer, c)) = {c} <=> SourcesOf(stream.buffer) = {}
  <2> HIDE DEF stream
  <2>1. /\ ConnOK(conn, sent) /\ StreamOK(u, stream, conn, sent)
        /\ conn[c].phase = "closed" /\ ~ RejectsSources(stream.buffer)
        /\ conn' = [conn EXCEPT ![c] = [phase |-> "joined", uri |-> u, frame |-> 1]]
    BY <1>1, <1>2
  <2>2. StreamOK(u, stream2, conn', sent)
    BY <2>1, AddSourceOK
  <2>3. SourcesOf(AddSource(stream.buffer, c)) = SourcesOf(stream.buffer) \cup {c}
    BY <2>1, AddSourceSources DEF StreamOK
  <2>4. c \notin SourcesOf(stream.buffer)
    BY <2>1, SourcesConnected DEF ConnectedIn
  <2>5. stream2.buffer = AddSource(stream.buffer, c)
    BY <2>1, BufferReplaced DEF StreamOK
  <2> QED BY <2>2, <2>3, <2>4, <2>5
<1>4. /\ conn'[c] = [phase |-> "joined", uri |-> u, frame |-> 1]
      /\ \A d \in Connections \ {c} : conn'[d] = conn[d]
  BY <1>1, <1>2, OnlyOneChanges DEF ConnOK, Connections
<1>5. ConnOK(conn', sent')
  <2>1. conn' \in [Connections -> ConnectionStates]
    BY <1>1, <1>2, JoinedState DEF ConnOK
  <2>2. sent[c] = {}
    BY <1>1, <1>2 DEF ConnOK
  <2>3. sent' \in [Sources -> SUBSET Tiles]
    BY <1>1, <1>2 DEF ConnOK
  <2>4. \A d \in Connections : conn'[d].phase # "closed" => conn'[d].uri \in Uris
    BY <1>2, <1>4 DEF ConnOK
  <2>5. \A d \in Sources : \A t \in sent'[d] :
           conn'[d].phase = "joined" /\ t.source = d /\ t.frame <= conn'[d].frame
    BY <1>1, <1>2, <1>4, <2>2 DEF ConnOK, Connections
  <2> QED BY <2>1, <2>3, <2>4, <2>5 DEF ConnOK
<1>6. opened' = IF Exists(u) THEN opened ELSE [opened EXCEPT ![u] = @ + 1]
  <2>1. (stream.observers = 0 /\ SourcesOf(stream.buffer) = {}) <=> ~ Exists(u)
    BY StreamAtOK DEF AllConnectionsClosed
  <2> QED BY <1>1, <1>3, <2>1
<1>7. ~ AllConnectionsClosed(stream2)
  BY <1>3, NotClosed
<1>8. \A d \in Connections :
         \/ conn'[d] = conn[d] /\ (d \in Sources => sent'[d] = sent[d])
         \/ /\ conn[d].phase = "closed" \/ conn[d].uri = u
            /\ conn'[d].phase = "closed" \/ conn'[d].uri = u
  BY <1>1, <1>4
<1> HIDE DEF stream2
<1> QED BY <1>1, <1>2, <1>3, <1>5, <1>6, <1>7, <1>8, ReceivedNoFrame, SetStreamInv

LEMMA AddObserverInv ==
    ASSUME Inv, NEW c \in Observers, NEW u \in Uris, AddObserver(c, u)
    PROVE  Inv'
<1> DEFINE stream == StreamAt(u)
           stream2 == [stream EXCEPT !.observers = @ + 1]
<1>1. /\ conn[c].phase = "closed"
      /\ SetStream(u, stream2)
      /\ opened' = IF stream.observers = 0 /\ SourcesOf(stream.buffer) = {}
                   THEN [opened EXCEPT ![u] = @ + 1] ELSE opened
      /\ conn' = [conn EXCEPT ![c] = [phase |-> "joined", uri |-> u, frame |-> 1]]
      /\ received' = NoFrame /\ requested' = requested /\ sent' = sent
  BY DEF AddObserver, EmitOpened, Connect, FirstObserver
<1>2. ConnOK(conn, sent) /\ requested \subseteq Uris /\ StreamOK(u, stream, conn, sent)
  BY StreamAtOK DEF Inv
<1>3. /\ StreamOK(u, stream2, conn', sent)
      /\ stream2.observers = stream.observers + 1
  <2> HIDE DEF stream, stream2
  <2>1. PICK s, cn2 : s = stream /\ cn2 = conn'
    OBVIOUS
  <2>2. /\ ConnOK(conn, sent) /\ StreamOK(u, s, conn, sent) /\ conn[c].phase = "closed"
        /\ cn2 = [conn EXCEPT ![c] = [phase |-> "joined", uri |-> u, frame |-> 1]]
    BY <1>1, <1>2, <2>1
  <2>3. /\ StreamOK(u, [s EXCEPT !.observers = @ + 1], cn2, sent)
        /\ [s EXCEPT !.observers = @ + 1].observers = s.observers + 1
    BY ONLY <2>2, c \in Observers, AddObserverOK
  <2> QED BY <2>1, <2>3 DEF stream2
<1>4. /\ conn'[c] = [phase |-> "joined", uri |-> u, frame |-> 1]
      /\ \A d \in Connections \ {c} : conn'[d] = conn[d]
  BY <1>1, <1>2, OnlyOneChanges DEF ConnOK, Connections
<1>5. ConnOK(conn', sent')
  <2>1. conn' \in [Connections -> ConnectionStates]
    BY <1>1, <1>2, JoinedState DEF ConnOK
  <2>2. sent' \in [Sources -> SUBSET Tiles] /\ c \notin Sources
    BY <1>1, <1>2, DispatcherAssumption DEF ConnOK
  <2>3. \A d \in Connections : conn'[d].phase # "closed" => conn'[d].uri \in Uris
    BY <1>2, <1>4 DEF ConnOK
  <2>4. \A d \in Sources : \A t \in sent'[d] :
           conn'[d].phase = "joined" /\ t.source = d /\ t.frame <= conn'[d].frame
    BY <1>1, <1>2, <1>4, <2>2 DEF ConnOK, Connections
  <2> QED BY <2>1, <2>2, <2>3, <2>4 DEF ConnOK
<1>6. opened' = IF Exists(u) THEN opened ELSE [opened EXCEPT ![u] = @ + 1]
  BY <1>1, StreamAtOK DEF AllConnectionsClosed
<1>7. ~ AllConnectionsClosed(stream2)
  <2>1. stream.observers \in Nat
    BY <1>2 DEF StreamOK, StreamTypeOK
  <2> QED BY <1>3, <2>1 DEF AllConnectionsClosed
<1>8. \A d \in Connections :
         \/ conn'[d] = conn[d] /\ (d \in Sources => sent'[d] = sent[d])
         \/ /\ conn[d].phase = "closed" \/ conn[d].uri = u
            /\ conn'[d].phase = "closed" \/ conn'[d].uri = u
  BY <1>1, <1>4
<1> HIDE DEF stream2
<1> QED BY <1>1, <1>2, <1>3, <1>5, <1>6, <1>7, <1>8, ReceivedNoFrame, SetStreamInv

\* Only connections change, and none of those that change is, or was, connected
\* to an existing stream as one of its sources or observers.
LEMMA NoStreamInv ==
    ASSUME Inv, NEW c \in Connections, NEW v \in ConnectionStates,
           conn[c].phase # "closed", ~ Exists(conn[c].uri),
           v.phase = "closed" \/ v.uri = conn[c].uri,
           c \in Sources => v.phase # "joined",
           conn' = [conn EXCEPT ![c] = v], received' = NoFrame,
           UNCHANGED << streams, opened, requested, sent >>
    PROVE  Inv'
<1>1. ConnOK(conn, sent)
  BY DEF Inv
<1>2. conn'[c] = v /\ \A d \in Connections \ {c} : conn'[d] = conn[d]
  BY <1>1, OnlyOneChanges DEF ConnOK
<1>3. c \in Sources => sent[c] = {}
  <2> SUFFICES ASSUME c \in Sources, NEW t \in sent[c] PROVE FALSE
    OBVIOUS
  <2>1. conn[c].phase = "joined" /\ conn[c].uri \in Uris
    BY <1>1 DEF ConnOK
  <2> QED BY <2>1 DEF Inv, Joined
<1>4. ConnOK(conn', sent')
  <2>1. conn' \in [Connections -> ConnectionStates]
    BY <1>1 DEF ConnOK
  <2>2. sent' \in [Sources -> SUBSET Tiles]
    BY <1>1 DEF ConnOK
  <2>3. \A d \in Connections : conn'[d].phase # "closed" => conn'[d].uri \in Uris
    BY <1>1, <1>2 DEF ConnOK
  <2>4. ASSUME NEW d \in Sources, NEW t \in sent'[d]
        PROVE  conn'[d].phase = "joined" /\ t.source = d /\ t.frame <= conn'[d].frame
    <3>1. d # c /\ conn'[d] = conn[d] /\ t \in sent[d]
      BY <1>2, <1>3 DEF Connections
    <3> QED BY <1>1, <3>1 DEF ConnOK
  <2> QED BY <2>1, <2>2, <2>3, <2>4 DEF ConnOK
<1>5. ASSUME NEW u \in DOMAIN streams'
      PROVE  StreamOK(u, streams'[u], conn', sent') /\ ~ AllConnectionsClosed(streams'[u])
  <2>1. StreamOK(u, streams[u], conn, sent) /\ ~ AllConnectionsClosed(streams[u])
    BY DEF Inv
  <2>2. u # conn[c].uri
    BY DEF Exists
  <2>3. \A d \in Sources : ConnectedIn(conn, d, u) \/ ConnectedIn(conn', d, u)
                              => conn'[d] = conn[d] /\ sent'[d] = sent[d]
    BY <1>2, <2>2 DEF ConnectedIn, Connections
  <2>4. \A o \in Observers : ConnectedIn(conn', o, u) <=> ConnectedIn(conn, o, u)
    BY <1>2, <2>2 DEF ConnectedIn, Connections
  <2>5. StreamOK(u, streams[u], conn', sent')
    BY <2>1, <2>3, <2>4, OtherStream
  <2> QED BY <2>1, <2>5
<1>6. ASSUME NEW d \in Sources, NEW u \in Uris, Joined(d, u)'
      PROVE  Exists(u)'
  <2>1. Joined(d, u)
    BY <1>2, <1>6 DEF Joined, Connections
  <2> QED BY <2>1 DEF Inv, Exists
<1>7. AppViewAccurate'
  BY DEF Inv, AppViewAccurate, Exists
<1>8. IsPartialFunction(streams', Uris, {streams'[u] : u \in DOMAIN streams'})
      /\ opened' \in [Uris -> Int] /\ requested' \subseteq Uris
  BY DEF Inv
<1> QED BY <1>4, <1>5, <1>6, <1>7, <1>8, ReceivedNoFrame DEF Inv

LEMMA ClosedState == Closed \in ConnectionStates
BY DispatcherAssumption DEF Closed, ConnectionStates

LEMMA RemoveFromNoStreamInv ==
    ASSUME Inv, NEW c \in Connections, RemoveFromNoStream(c)
    PROVE  Inv'
<1>1. Closed.phase = "closed"
  BY DEF Closed
<1> QED BY <1>1, ClosedState, NoStreamInv DEF RemoveFromNoStream

LEMMA NextFrameState ==
    ASSUME Inv, NEW c \in Connections, conn[c].frame <= MaxFrames
    PROVE  LET v == [conn[c] EXCEPT !.frame = @ + 1]
           IN  /\ v \in ConnectionStates
               /\ v.phase = conn[c].phase /\ v.uri = conn[c].uri
               /\ v.frame = conn[c].frame + 1
               /\ NextFrame(c) = [conn EXCEPT ![c] = v]
<1>1. conn \in [Connections -> ConnectionStates]
  BY DEF Inv, ConnOK
<1>2. conn[c] \in ConnectionStates
  BY <1>1
<1>3. conn[c].frame \in Nat /\ conn[c].frame >= 1
  BY <1>2, DispatcherAssumption DEF ConnectionStates
<1>4. conn[c].frame + 1 \in 1 .. MaxFrames + 1
  BY <1>3, DispatcherAssumption
<1>5. NextFrame(c) = [conn EXCEPT ![c] = [conn[c] EXCEPT !.frame = @ + 1]]
  BY DEF NextFrame
<1> QED BY <1>2, <1>4, <1>5 DEF ConnectionStates

LEMMA FinishInNoStreamInv ==
    ASSUME Inv, NEW c \in Sources, FinishInNoStream(c)
    PROVE  Inv'
<1> DEFINE v == [conn[c] EXCEPT !.frame = @ + 1]
<1>1. c \in Connections
  BY DEF Connections
<1>2. conn[c].phase # "closed" /\ conn[c].uri \in Uris /\ ~ Exists(conn[c].uri)
  BY <1>1 DEF FinishInNoStream, Inv, ConnOK
<1>3. conn[c].phase # "joined"
  BY <1>2 DEF Inv, Joined
<1>4. /\ v \in ConnectionStates
      /\ v.phase = conn[c].phase /\ v.uri = conn[c].uri
      /\ conn' = [conn EXCEPT ![c] = v]
  BY <1>1, NextFrameState DEF FinishInNoStream
<1>5. received' = NoFrame /\ UNCHANGED << streams, opened, requested, sent >>
  BY DEF FinishInNoStream
<1> HIDE DEF v
<1> QED BY <1>1, <1>2, <1>3, <1>4, <1>5, NoStreamInv

LEMMA RejectLateSourceInv ==
    ASSUME Inv, NEW c \in Sources, NEW u \in Uris, RejectLateSource(c, u)
    PROVE  Inv'
<1>1. /\ conn[c].phase = "closed"
      /\ RejectsSources(StreamAt(u).buffer)
      /\ conn' = [conn EXCEPT ![c] = [phase |-> "stray", uri |-> u, frame |-> 1]]
      /\ received' = NoFrame
      /\ UNCHANGED << streams, opened, requested, sent >>
  BY DEF RejectLateSource, Connect
<1>2. ConnOK(conn, sent) /\ requested \subseteq Uris
  BY DEF Inv
<1>3. /\ conn'[c] = [phase |-> "stray", uri |-> u, frame |-> 1]
      /\ \A d \in Connections \ {c} : conn'[d] = conn[d]
      /\ c \in Connections
  BY <1>1, <1>2, OnlyOneChanges DEF ConnOK, Connections
<1>4. Exists(u)
  BY <1>1 DEF StreamAt, NewStream, NewReceiveBuffer, RejectsSources
<1>5. StreamOK(u, streams[u], conn, sent) /\ ~ AllConnectionsClosed(streams[u])
  BY <1>4 DEF Inv, Exists
<1>6. SetStream(u, streams[u])
  <2>1. streams = [v \in DOMAIN streams |-> streams[v]]
    BY DEF Inv, IsPartialFunction
  <2>2. DOMAIN streams \cup {u} = DOMAIN streams
    BY <1>4 DEF Exists
  <2> QED BY <1>1, <2>1, <2>2 DEF SetStream
<1>7. ConnOK(conn', sent')
  <2>1. conn' \in [Connections -> ConnectionStates]
    <3>1. [phase |-> "stray", uri |-> u, frame |-> 1] \in ConnectionStates
      BY DispatcherAssumption DEF ConnectionStates
    <3> QED BY <1>1, <1>2, <3>1 DEF ConnOK
  <2>2. sent' \in [Sources -> SUBSET Tiles] /\ sent[c] = {}
    BY <1>1, <1>2 DEF ConnOK
  <2>3. \A d \in Connections : conn'[d].phase # "closed" => conn'[d].uri \in Uris
    BY <1>2, <1>3 DEF ConnOK
  <2>4. \A d \in Sources : \A t \in sent'[d] :
           conn'[d].phase = "joined" /\ t.source = d /\ t.frame <= conn'[d].frame
    BY <1>1, <1>2, <1>3, <2>2 DEF ConnOK, Connections
  <2> QED BY <2>1, <2>2, <2>3, <2>4 DEF ConnOK
<1>8. StreamOK(u, streams[u], conn', sent')
  <2> DEFINE b == streams[u].buffer
  <2>1. SourcesOf(b) \subseteq Sources \ {c}
    BY <1>1, <1>5, SourcesConnected DEF ConnectedIn
  <2>2. \A s \in SourcesOf(b) : SourceOK(u, s, b.sources[s], b.last, conn', sent')
    <3> SUFFICES ASSUME NEW s \in SourcesOf(b)
                 PROVE  SourceOK(u, s, b.sources[s], b.last, conn', sent')
      OBVIOUS
    <3>1. SourceOK(u, s, b.sources[s], b.last, conn, sent)
      BY <1>5 DEF StreamOK
    <3>2. conn'[s] = conn[s] /\ sent'[s] = sent[s]
      BY <1>1, <1>3, <2>1 DEF Connections
    <3> HIDE DEF b
    <3> QED BY <3>1, <3>2 DEF SourceOK, ConnectedIn
  <2>3. ObserversIn(conn', u) = ObserversIn(conn, u)
    BY <1>3, DispatcherAssumption DEF ObserversIn, ConnectedIn, Connections
  <2>4. \A s \in Sources : conn'[s].phase = "joined" /\ conn'[s].uri = u => s \in SourcesOf(b)
    BY <1>3, <1>5 DEF StreamOK, Connections
  <2> QED BY <1>5, <2>2, <2>3, <2>4 DEF StreamOK
<1>9. \A d \in Connections :
         \/ conn'[d] = conn[d] /\ (d \in Sources => sent'[d] = sent[d])
         \/ /\ conn[d].phase = "closed" \/ conn[d].uri = u
            /\ conn'[d].phase = "closed" \/ conn'[d].uri = u
  BY <1>1, <1>3
<1>10. opened' = IF Exists(u) THEN opened ELSE [opened EXCEPT ![u] = @ + 1]
  BY <1>1, <1>4
<1>11. requested' \subseteq Uris
  BY <1>1, <1>2
<1> QED BY <1>1, <1>5, <1>6, <1>7, <1>8, <1>9, <1>10, <1>11, ReceivedNoFrame, SetStreamInv

LEMMA KeepOrDeleteInv ==
    ASSUME Inv, NEW c \in Connections, NEW u \in Uris, ConnectedIn(conn, c, u), Exists(u),
           NEW stream,
           StreamOK(u, stream, [conn EXCEPT ![c] = Closed],
                    [d \in Sources |-> IF d = c THEN {} ELSE sent[d]]),
           KeepOrDelete(c, u, stream)
    PROVE  Inv'
<1> DEFINE others == [conn EXCEPT ![c] = Closed]
           left == [d \in Sources |-> IF d = c THEN {} ELSE sent[d]]
<1>1. ConnOK(conn, sent) /\ requested \subseteq Uris
  BY DEF Inv
<1>2. others[c] = Closed /\ \A d \in Connections \ {c} : others[d] = conn[d]
  BY <1>1, OnlyOneChanges DEF ConnOK
<1>3. others \in [Connections -> ConnectionStates]
  BY <1>1, ClosedState DEF ConnOK
<1>4. Closed.phase = "closed"
  BY DEF Closed
<1>5. CASE AllConnectionsClosed(stream) /\ DeleteStream(u, others)
  <2>1. \A d \in Connections : \/ others[d] = conn[d]
                               \/ /\ ConnectedIn(conn, d, u)
                                  /\ others[d].phase = "closed" \/ others[d].uri = u
    BY <1>2, <1>4
  <2> HIDE DEF others
  <2> QED BY <1>3, <1>5, <2>1, DeleteStreamInv
<1>6. CASE /\ ~ AllConnectionsClosed(stream)
           /\ SetStream(u, stream)
           /\ conn' = others
           /\ received' = NoFrame
           /\ UNCHANGED << opened, requested >>
           /\ sent' = left
  <2>1. ConnOK(conn', sent')
    <3>1. left \in [Sources -> SUBSET Tiles]
      BY <1>1 DEF ConnOK
    <3>2. \A d \in Connections : others[d].phase # "closed" => others[d].uri \in Uris
      BY <1>1, <1>2, <1>4 DEF ConnOK
    <3>3. ASSUME NEW d \in Sources, NEW t \in left[d]
          PROVE  others[d].phase = "joined" /\ t.source = d /\ t.frame <= others[d].frame
      <4>1. d # c /\ t \in sent[d]
        OBVIOUS
      <4>2. others[d] = conn[d]
        BY <1>2, <4>1 DEF Connections
      <4> QED BY <1>1, <4>1, <4>2 DEF ConnOK
    <3> HIDE DEF others, left
    <3> QED BY <1>3, <1>6, <3>1, <3>2, <3>3 DEF ConnOK
  <2>2. \A d \in Connections :
           \/ conn'[d] = conn[d] /\ (d \in Sources => sent'[d] = sent[d])
           \/ /\ conn[d].phase = "closed" \/ conn[d].uri = u
              /\ conn'[d].phase = "closed" \/ conn'[d].uri = u
    BY <1>2, <1>4, <1>6 DEF ConnectedIn
  <2>3. opened' = IF Exists(u) THEN opened ELSE [opened EXCEPT ![u] = @ + 1]
    BY <1>6
  <2>4. StreamOK(u, stream, conn', sent')
    BY <1>6
  <2>5. requested' \subseteq Uris /\ received' = NoFrame /\ SetStream(u, stream)
    BY <1>1, <1>6
  <2> QED BY <1>6, <2>1, <2>2, <2>3, <2>4, <2>5, ReceivedNoFrame, SetStreamInv
<1> QED BY <1>5, <1>6 DEF KeepOrDelete

LEMMA RemoveSourceInv ==
    ASSUME Inv, NEW c \in Sources, RemoveSourceFromStream(c)
    PROVE  Inv'
<1> DEFINE u == conn[c].uri
           others == [conn EXCEPT ![c] = Closed]
           left == [d \in Sources |-> IF d = c THEN {} ELSE sent[d]]
           stream == [streams[u] EXCEPT !.buffer = RemoveSource(@, c)]
<1>1. /\ conn[c].phase # "closed" /\ Exists(u) /\ KeepOrDelete(c, u, stream)
  BY DEF RemoveSourceFromStream
<1>2. c \in Connections /\ ConnOK(conn, sent)
  BY DEF Inv, Connections
<1>3. u \in Uris /\ ConnectedIn(conn, c, u)
  BY <1>1, <1>2 DEF ConnOK, ConnectedIn
<1>4. StreamOK(u, streams[u], conn, sent)
  BY <1>1 DEF Inv, Exists
<1>5. StreamOK(u, stream, others, left)
  <2>1. \A d \in Sources \ {c} : left[d] = sent[d]
    OBVIOUS
  <2> HIDE DEF u, left
  <2> QED BY <1>2, <1>4, <2>1, RemoveSourceOK
<1> HIDE DEF u, stream
<1> QED BY <1>1, <1>2, <1>3, <1>5, KeepOrDeleteInv

LEMMA RemoveObserverInv ==
    ASSUME Inv, NEW c \in Observers, RemoveObserver(c)
    PROVE  Inv'
<1> DEFINE u == conn[c].uri
           others == [conn EXCEPT ![c] = Closed]
           left == [d \in Sources |-> IF d = c THEN {} ELSE sent[d]]
           stream == [streams[u] EXCEPT !.observers = IF @ > 0 THEN @ - 1 ELSE 0]
<1>1. /\ conn[c].phase # "closed" /\ Exists(u) /\ KeepOrDelete(c, u, stream)
  BY DEF RemoveObserver, WithoutObserver
<1>2. c \in Connections /\ ConnOK(conn, sent)
  BY DEF Inv, Connections
<1>3. u \in Uris /\ ConnectedIn(conn, c, u)
  BY <1>1, <1>2 DEF ConnOK, ConnectedIn
<1>4. StreamOK(u, streams[u], conn, sent)
  BY <1>1 DEF Inv, Exists
<1>5. left = sent
  BY <1>2, DispatcherAssumption DEF ConnOK
<1>6. StreamOK(u, stream, others, sent)
  <2> HIDE DEF u
  <2> QED BY <1>2, <1>3, <1>4, RemoveObserverOK
<1>7. StreamOK(u, stream, others, left)
  BY <1>5, <1>6
<1> HIDE DEF u, stream
<1> QED BY <1>1, <1>2, <1>3, <1>7, KeepOrDeleteInv

LEMMA ProcessTileInv ==
    ASSUME Inv, NEW c \in Sources, NEW order \in RowOrders, ProcessTile(c, order)
    PROVE  Inv'
<1> DEFINE u == conn[c].uri
           tile == [source |-> c, frame |-> conn[c].frame, order |-> order]
           stream == [streams[u] EXCEPT !.buffer = Insert(@, c, tile)]
<1>1. /\ conn[c].phase # "closed" /\ conn[c].frame <= MaxFrames
      /\ received' = NoFrame /\ UNCHANGED << conn, opened, requested >>
      /\ sent' = [sent EXCEPT ![c] = IF conn[c].phase = "joined" THEN @ \cup {tile} ELSE @]
      /\ Exists(u) => SetStream(u, stream)
      /\ ~ Exists(u) => UNCHANGED streams
  BY DEF ProcessTile
<1>2. c \in Connections /\ ConnOK(conn, sent) /\ requested \subseteq Uris
  BY DEF Inv, Connections
<1>3. u \in Uris /\ ConnectedIn(conn, c, u)
  BY <1>1, <1>2 DEF ConnOK, ConnectedIn
<1>4. tile \in Tiles /\ tile.source = c /\ tile.frame = conn[c].frame
  <2>1. conn[c].frame \in 1 .. MaxFrames
    BY <1>1, <1>2, DispatcherAssumption DEF ConnOK, ConnectionStates
  <2> QED BY <2>1 DEF Tiles
<1> HIDE DEF tile
<1>5. CASE ~ Exists(u)
  <2>1. conn[c].phase # "joined"
    BY <1>3, <1>5 DEF Inv, Joined
  <2>2. sent' = sent
    BY <1>1, <1>2, <2>1 DEF ConnOK
  <2>3. UNCHANGED << streams, conn, opened, requested, sent >> /\ received' = NoFrame
    BY <1>1, <1>5, <2>2
  <2>4. ConnOK(conn', sent')
    BY <1>2, <2>3
  <2>5. \A v \in DOMAIN streams' : /\ StreamOK(v, streams'[v], conn', sent')
                                   /\ ~ AllConnectionsClosed(streams'[v])
    BY <2>3 DEF Inv
  <2>6. (\A d \in Sources, v \in Uris : Joined(d, v)' => Exists(v)') /\ AppViewAccurate'
    BY <2>3 DEF Inv, Joined, Exists, AppViewAccurate
  <2>7. /\ IsPartialFunction(streams', Uris, {streams'[v] : v \in DOMAIN streams'})
        /\ opened' \in [Uris -> Int] /\ requested' \subseteq Uris
    BY <2>3 DEF Inv
  <2> QED BY <2>3, <2>4, <2>5, <2>6, <2>7, ReceivedNoFrame DEF Inv
<1>6. CASE Exists(u)
  <2>1. StreamOK(u, streams[u], conn, sent)
    BY <1>6 DEF Inv, Exists
  <2>2. StreamOK(u, stream, conn, sent') /\ SourcesOf(stream.buffer) # {}
    <3>1. PICK v, s, st2 : v = u /\ s = streams[u] /\ st2 = sent'
      OBVIOUS
    <3>2. /\ ConnOK(conn, sent) /\ StreamOK(v, s, conn, sent) /\ ConnectedIn(conn, c, v)
          /\ tile \in Tiles /\ tile.source = c /\ tile.frame = conn[c].frame
          /\ st2 = [sent EXCEPT ![c] = IF conn[c].phase = "joined" THEN @ \cup {tile} ELSE @]
      BY <1>1, <1>2, <1>3, <1>4, <2>1, <3>1
    <3>3. /\ StreamOK(v, [s EXCEPT !.buffer = Insert(@, c, tile)], conn, st2)
          /\ SourcesOf([s EXCEPT !.buffer = Insert(@, c, tile)].buffer) # {}
      BY ONLY <3>2, c \in Sources, InsertOK
    <3> QED BY <3>1, <3>3
  <2>3. ~ AllConnectionsClosed(stream)
    BY <2>2, NotClosed
  <2>4. \A d \in Sources \ {c} : sent'[d] = sent[d]
    BY <1>1, <1>2 DEF ConnOK
  <2>5. sent'[c] = IF conn[c].phase = "joined" THEN sent[c] \cup {tile} ELSE sent[c]
    BY <1>1, <1>2 DEF ConnOK
  <2>6. ConnOK(conn', sent')
    <3>1. sent' \in [Sources -> SUBSET Tiles]
      BY <1>1, <1>2, <1>4 DEF ConnOK
    <3>2. ASSUME NEW d \in Sources, NEW t \in sent'[d]
          PROVE  conn[d].phase = "joined" /\ t.source = d /\ t.frame <= conn[d].frame
      <4>1. conn[c].frame <= conn[c].frame
        BY <1>2, DispatcherAssumption DEF ConnOK, ConnectionStates
      <4>2. CASE t \in sent[d]
        BY <1>2, <4>2 DEF ConnOK
      <4>3. CASE t \notin sent[d]
        BY <1>4, <2>4, <2>5, <4>1, <4>3
      <4> QED BY <4>2, <4>3
    <3>3. conn' = conn
      BY <1>1
    <3> QED BY <1>2, <3>1, <3>2, <3>3 DEF ConnOK
  <2>7. \A d \in Connections :
           \/ conn'[d] = conn[d] /\ (d \in Sources => sent'[d] = sent[d])
           \/ /\ conn[d].phase = "closed" \/ conn[d].uri = u
              /\ conn'[d].phase = "closed" \/ conn'[d].uri = u
    BY <1>1, <2>4
  <2>8. /\ opened' = IF Exists(u) THEN opened ELSE [opened EXCEPT ![u] = @ + 1]
        /\ StreamOK(u, stream, conn', sent')
        /\ requested' \subseteq Uris
        /\ SetStream(u, stream)
    BY <1>1, <1>2, <1>6, <2>2
  <2> HIDE DEF u, stream
  <2> QED BY <1>1, <1>3, <2>3, <2>6, <2>7, <2>8, ReceivedNoFrame, SetStreamInv
<1> QED BY <1>5, <1>6

LEMMA SendFrameInv ==
    ASSUME Inv, NEW u \in Uris, Exists(u),
           NEW connections \in [Connections -> ConnectionStates],
           ConnOK(connections, sent),
           \A c \in Connections : \/ connections[c] = conn[c]
                                 \/ /\ ConnectedIn(conn, c, u)
                                    /\ connections[c].uri = u,
           NEW stream, StreamOK(u, stream, connections, sent), SourcesOf(stream.buffer) # {},
           SendFrame(u, stream, connections)
    PROVE  Inv'
<1>1. PICK n \in LatestFrame(stream.buffer) :
         LET tiles == TilesOfFrame(stream.buffer, n)
         IN  \/ /\ Coherent(tiles)
                /\ SetStream(u, [stream EXCEPT !.buffer = Drained(@, n)])
                /\ received' = [uri |-> u, index |-> n, tiles |-> tiles]
                /\ requested' = requested \ {u}
                /\ conn' = connections
                /\ UNCHANGED << opened, sent >>
             \/ /\ ~ Coherent(tiles)
                /\ DeleteStream(u, connections)
  BY DEF SendFrame
<1> DEFINE tiles == TilesOfFrame(stream.buffer, n)
           stream2 == [stream EXCEPT !.buffer = Drained(@, n)]
<1>2. CASE DeleteStream(u, connections)
  <2>1. \A c \in Connections :
           \/ connections[c] = conn[c]
           \/ /\ ConnectedIn(conn, c, u)
              /\ connections[c].phase = "closed" \/ connections[c].uri = u
    OBVIOUS
  <2> QED BY <1>2, <2>1, DeleteStreamInv
<1>3. CASE /\ SetStream(u, stream2)
           /\ received' = [uri |-> u, index |-> n, tiles |-> tiles]
           /\ requested' = requested \ {u}
           /\ conn' = connections
           /\ UNCHANGED << opened, sent >>
  <2>1. StreamOK(u, stream2, connections, sent)
    BY DrainOK
  <2>2. SourcesOf(stream2.buffer) # {}
    <3>1. stream2.buffer = Drained(stream.buffer, n)
      BY BufferReplaced DEF StreamOK
    <3>2. SourcesOf(Drained(stream.buffer, n)) = SourcesOf(stream.buffer)
      BY DEF Drained, SourcesOf
    <3> QED BY <3>1, <3>2
  <2>3. ~ AllConnectionsClosed(stream2)
    BY <2>2, NotClosed
  <2>4. /\ n \in Nat /\ tiles \in SUBSET Tiles
        /\ \A c \in Sources : connections[c].phase = "joined" /\ connections[c].uri = u =>
              /\ n < connections[c].frame
              /\ {t \in tiles : t.source = c} = {t \in sent[c] : t.frame = n}
    BY FrameIsWhole
  <2> HIDE DEF tiles, stream2
  <2>5. received'.uri = u /\ received'.index = n /\ received'.tiles = tiles
        /\ conn' = connections /\ sent' = sent
    BY <1>3
  <2>6. WholeFrame'
    BY <2>4, <2>5 DEF WholeFrame, Joined
  <2>7. received' \in [uri : Uris \cup {NoUri}, index : Nat, tiles : SUBSET Tiles]
    BY <1>3, <2>4
  <2>8. requested' \subseteq Uris
    BY <1>3 DEF Inv
  <2>9. \A c \in Connections :
           \/ conn'[c] = conn[c] /\ (c \in Sources => sent'[c] = sent[c])
           \/ /\ conn[c].phase = "closed" \/ conn[c].uri = u
              /\ conn'[c].phase = "closed" \/ conn'[c].uri = u
    BY <2>5 DEF ConnectedIn
  <2>10. /\ opened' = IF Exists(u) THEN opened ELSE [opened EXCEPT ![u] = @ + 1]
         /\ StreamOK(u, stream2, conn', sent')
         /\ ConnOK(conn', sent')
         /\ SetStream(u, stream2)
    BY <1>3, <2>1, <2>5
  <2> QED BY <2>3, <2>6, <2>7, <2>8, <2>9, <2>10, SetStreamInv
<1> QED BY <1>1, <1>2, <1>3

LEMMA ProcessFrameFinishedInv ==
    ASSUME Inv, NEW c \in Sources, ProcessFrameFinished(c)
    PROVE  Inv'
<1> DEFINE u == conn[c].uri
           stream == [streams[u] EXCEPT !.buffer = FinishFrame(@, c)]
           v == [conn[c] EXCEPT !.frame = @ + 1]
           next == [conn EXCEPT ![c] = v]
<1>1. /\ conn[c].phase # "closed" /\ conn[c].frame <= MaxFrames /\ Exists(u)
      /\ \/ DeleteStream(u, NextFrame(c))
         \/ /\ ~ QueueExceeded(streams[u].buffer, c)
            /\ SendFrame(u, stream, NextFrame(c))
         \/ /\ ~ QueueExceeded(streams[u].buffer, c)
            /\ SetStream(u, stream)
            /\ conn' = NextFrame(c)
            /\ received' = NoFrame
            /\ UNCHANGED << opened, requested, sent >>
  BY DEF ProcessFrameFinished
<1>2. c \in Connections /\ ConnOK(conn, sent) /\ requested \subseteq Uris
  BY DEF Inv, Connections
<1>3. u \in Uris /\ ConnectedIn(conn, c, u)
  BY <1>1, <1>2 DEF ConnOK, ConnectedIn
<1>4. /\ v \in ConnectionStates
      /\ v.phase = conn[c].phase /\ v.uri = u /\ v.frame = conn[c].frame + 1
      /\ NextFrame(c) = next
  BY <1>1, <1>2, NextFrameState
<1>5. conn[c].frame \in Nat
  BY <1>2, DispatcherAssumption DEF ConnOK, ConnectionStates
<1> HIDE DEF v
<1>6. /\ next \in [Connections -> ConnectionStates]
      /\ next[c] = v
      /\ \A d \in Connections \ {c} : next[d] = conn[d]
  BY <1>2, <1>4 DEF ConnOK
<1>7. ConnOK(next, sent)
  <2>1. \A d \in Connections : next[d].phase # "closed" => next[d].uri \in Uris
    BY <1>2, <1>4, <1>6 DEF ConnOK
  <2>2. sent \in [Sources -> SUBSET Tiles]
    BY <1>2 DEF ConnOK
  <2>3. ASSUME NEW d \in Sources, NEW t \in sent[d]
        PROVE  next[d].phase = "joined" /\ t.source = d /\ t.frame <= next[d].frame
    <3>1. conn[d].phase = "joined" /\ t.source = d /\ t.frame <= conn[d].frame
      BY <1>2 DEF ConnOK
    <3>2. CASE d # c
      BY <1>6, <3>1, <3>2 DEF Connections
    <3>3. CASE d = c
      <4>1. t.frame \in Nat
        BY <2>2, DispatcherAssumption DEF Tiles
      <4>2. next[d].frame = conn[c].frame + 1 /\ next[d].phase = conn[c].phase
        BY <1>4, <1>6, <3>3
      <4>3. t.frame <= conn[c].frame
        BY <3>1, <3>3
      <4> QED BY <1>5, <3>1, <3>3, <4>1, <4>2, <4>3
    <3> QED BY <3>2, <3>3
  <2> QED BY <1>6, <2>1, <2>2, <2>3 DEF ConnOK
<1>8. \A d \in Connections : \/ next[d] = conn[d]
                             \/ /\ ConnectedIn(conn, d, u)
                                /\ next[d].uri = u
  BY <1>3, <1>4, <1>6
<1>9. CASE DeleteStream(u, NextFrame(c))
  <2>1. \A d \in Connections : \/ next[d] = conn[d]
                               \/ /\ ConnectedIn(conn, d, u)
                                  /\ next[d].phase = "closed" \/ next[d].uri = u
    BY <1>8
  <2>2. DeleteStream(u, next) /\ Exists(u) /\ next \in [Connections -> ConnectionStates]
    BY <1>1, <1>4, <1>6, <1>9
  <2> HIDE DEF next, u
  <2> QED BY <1>3, <2>1, <2>2, DeleteStreamInv
<1>10. ASSUME ~ QueueExceeded(streams[u].buffer, c)
       PROVE  StreamOK(u, stream, next, sent) /\ SourcesOf(stream.buffer) # {}
  <2>1. StreamOK(u, streams[u], conn, sent)
    BY <1>1 DEF Inv, Exists
  <2>2. next = [conn EXCEPT ![c].frame = @ + 1]
    BY DEF v
  <2> HIDE DEF next, u
  <2> QED BY <1>1, <1>2, <1>3, <1>10, <2>1, <2>2, FinishOK
<1>11. CASE ~ QueueExceeded(streams[u].buffer, c) /\ SendFrame(u, stream, NextFrame(c))
  <2>1. StreamOK(u, stream, next, sent) /\ SourcesOf(stream.buffer) # {}
    BY <1>10, <1>11
  <2>2. SendFrame(u, stream, next) /\ Exists(u)
    BY <1>1, <1>4, <1>11
  <2> HIDE DEF next, u, stream
  <2> QED BY <1>3, <1>6, <1>7, <1>8, <2>1, <2>2, SendFrameInv
<1>12. CASE /\ ~ QueueExceeded(streams[u].buffer, c)
            /\ SetStream(u, stream)
            /\ conn' = NextFrame(c)
            /\ received' = NoFrame
            /\ UNCHANGED << opened, requested, sent >>
  <2>1. StreamOK(u, stream, conn', sent') /\ ~ AllConnectionsClosed(stream)
    BY <1>4, <1>10, <1>12, NotClosed
  <2>2. ConnOK(conn', sent')
    BY <1>4, <1>7, <1>12
  <2>3. \A d \in Connections :
           \/ conn'[d] = conn[d] /\ (d \in Sources => sent'[d] = sent[d])
           \/ /\ conn[d].phase = "closed" \/ conn[d].uri = u
              /\ conn'[d].phase = "closed" \/ conn'[d].uri = u
    BY <1>4, <1>8, <1>12 DEF ConnectedIn
  <2>4. /\ opened' = IF Exists(u) THEN opened ELSE [opened EXCEPT ![u] = @ + 1]
        /\ requested' \subseteq Uris /\ received' = NoFrame /\ SetStream(u, stream)
    BY <1>1, <1>2, <1>12
  <2> HIDE DEF u, stream
  <2> QED BY <1>3, <2>1, <2>2, <2>3, <2>4, ReceivedNoFrame, SetStreamInv
<1> QED BY <1>1, <1>9, <1>11, <1>12

LEMMA AllowOK ==
    ASSUME NEW u, NEW stream, NEW cn, NEW st, StreamOK(u, stream, cn, st)
    PROVE  StreamOK(u, [stream EXCEPT !.buffer = AllowToSend(@)], cn, st)
<1> DEFINE b == stream.buffer
           b2 == AllowToSend(b)
           stream2 == [stream EXCEPT !.buffer = b2]
<1>1. BufferTypeOK(b) /\ stream \in [buffer : {b}, observers : Nat]
  BY DEF StreamOK, StreamTypeOK
<1>2. b2.sources = b.sources /\ b2.last = b.last /\ BufferTypeOK(b2)
  BY <1>1 DEF BufferTypeOK, AllowToSend
<1> HIDE DEF b2
<1>3. /\ stream2.buffer = b2
      /\ stream2.observers = stream.observers
      /\ stream2 \in [buffer : {b2}, observers : Nat]
  BY <1>1
<1> HIDE DEF stream2
<1>4. StreamTypeOK(stream2)
  BY <1>2, <1>3 DEF StreamTypeOK
<1>5. StreamOK(u, stream2, cn, st)
  BY <1>2, <1>3, <1>4 DEF StreamOK, SourcesOf
<1> QED BY <1>5 DEF stream2, b2

LEMMA RequestFrameInv ==
    ASSUME Inv, NEW u \in Uris, RequestFrame(u)
    PROVE  Inv'
<1> DEFINE stream == [streams[u] EXCEPT !.buffer = AllowToSend(@)]
<1>1. /\ Exists(u)
      /\ \/ SendFrame(u, stream, conn) /\ HasCompleteFrame(stream.buffer)
         \/ /\ SetStream(u, stream)
            /\ requested' = requested \cup {u}
            /\ received' = NoFrame
            /\ UNCHANGED << conn, opened, sent >>
  BY DEF RequestFrame
<1>2. ConnOK(conn, sent) /\ requested \subseteq Uris /\ conn \in [Connections -> ConnectionStates]
  BY DEF Inv, ConnOK
<1>3. StreamOK(u, streams[u], conn, sent) /\ ~ AllConnectionsClosed(streams[u])
  BY <1>1 DEF Inv, Exists
<1>4. StreamOK(u, stream, conn, sent)
  BY <1>3, AllowOK
<1>5. ~ AllConnectionsClosed(stream)
  <2>1. /\ stream.buffer = AllowToSend(streams[u].buffer)
        /\ stream.observers = streams[u].observers
    BY <1>3, BufferReplaced DEF StreamOK
  <2>2. AllowToSend(streams[u].buffer).sources = streams[u].buffer.sources
    BY <1>3 DEF AllowToSend, StreamOK, StreamTypeOK, BufferTypeOK
  <2> QED BY <1>3, <2>1, <2>2 DEF AllConnectionsClosed, SourcesOf
<1>6. CASE SendFrame(u, stream, conn) /\ HasCompleteFrame(stream.buffer)
  <2>1. SourcesOf(stream.buffer) # {}
    BY <1>6 DEF HasCompleteFrame
  <2>2. \A c \in Connections : \/ conn[c] = conn[c]
                               \/ ConnectedIn(conn, c, u) /\ conn[c].uri = u
    OBVIOUS
  <2> HIDE DEF stream
  <2> QED BY <1>1, <1>2, <1>4, <1>6, <2>1, <2>2, SendFrameInv
<1>7. CASE /\ SetStream(u, stream)
           /\ requested' = requested \cup {u}
           /\ received' = NoFrame
           /\ UNCHANGED << conn, opened, sent >>
  <2>1. /\ StreamOK(u, stream, conn', sent')
        /\ ConnOK(conn', sent')
        /\ opened' = IF Exists(u) THEN opened ELSE [opened EXCEPT ![u] = @ + 1]
        /\ requested' \subseteq Uris
        /\ received' = NoFrame
        /\ SetStream(u, stream)
    BY <1>1, <1>2, <1>4, <1>7
  <2>2. \A d \in Connections :
           \/ conn'[d] = conn[d] /\ (d \in Sources => sent'[d] = sent[d])
           \/ /\ conn[d].phase = "closed" \/ conn[d].uri = u
              /\ conn'[d].phase = "closed" \/ conn'[d].uri = u
    BY <1>7
  <2> HIDE DEF stream
  <2> QED BY <1>5, <2>1, <2>2, ReceivedNoFrame, SetStreamInv
<1> QED BY <1>1, <1>6, <1>7

LEMMA ClosePixelStreamInv ==
    ASSUME Inv, NEW u \in Uris, ClosePixelStream(u)
    PROVE  Inv'
<1>1. opened[u] > 0 /\ DeleteStream(u, conn)
  BY DEF ClosePixelStream
<1>2. Exists(u)
  BY <1>1 DEF Inv, AppViewAccurate
<1>3. conn \in [Connections -> ConnectionStates]
  BY DEF Inv, ConnOK
<1>4. \A c \in Connections : \/ conn[c] = conn[c]
                             \/ /\ ConnectedIn(conn, c, u)
                                /\ conn[c].phase = "closed" \/ conn[c].uri = u
  OBVIOUS
<1> QED BY <1>1, <1>2, <1>3, <1>4, DeleteStreamInv

-----------------------------------------------------------------------------
(* The invariant, and what follows from it.                                *)

LEMMA InitInv == Init => Inv
<1> SUFFICES ASSUME Init PROVE Inv
  OBVIOUS
<1>1. DOMAIN streams = {} /\ IsPartialFunction(streams, Uris, {streams[u] : u \in DOMAIN streams})
  BY DEF Init, IsPartialFunction
<1>2. ConnOK(conn, sent)
  <2>1. conn = [c \in Connections |-> Closed] /\ sent = [c \in Sources |-> {}]
    BY DEF Init
  <2>2. conn \in [Connections -> ConnectionStates]
    BY <2>1, ClosedState
  <2> QED BY <2>1, <2>2 DEF ConnOK, Closed
<1>3. \A c \in Sources, u \in Uris : ~ Joined(c, u)
  BY DEF Init, Joined, Closed, Connections
<1>4. received \in [uri : Uris \cup {NoUri}, index : Nat, tiles : SUBSET Tiles] /\ WholeFrame
  BY DEF Init, NoFrame, WholeFrame
<1>5. opened \in [Uris -> Int] /\ AppViewAccurate /\ requested \subseteq Uris
  BY <1>1 DEF Init, AppViewAccurate, Exists
<1> QED BY <1>1, <1>2, <1>3, <1>4, <1>5 DEF Inv

LEMMA NextInv == Inv /\ [Next]_vars => Inv'
<1> SUFFICES ASSUME Inv, [Next]_vars PROVE Inv'
  OBVIOUS
<1>1. CASE UNCHANGED vars
  <2>1. UNCHANGED << streams, conn, opened, requested, received, sent >>
    BY <1>1 DEF vars
  <2>2. ConnOK(conn', sent')
    BY <2>1 DEF Inv
  <2>3. \A u \in DOMAIN streams' : /\ StreamOK(u, streams'[u], conn', sent')
                                   /\ ~ AllConnectionsClosed(streams'[u])
    BY <2>1 DEF Inv
  <2>4. AppViewAccurate' /\ WholeFrame' /\ \A c \in Sources, u \in Uris : Joined(c, u)' => Exists(u)'
    BY <2>1 DEF Inv, AppViewAccurate, WholeFrame, Joined, Exists
  <2>5. /\ IsPartialFunction(streams', Uris, {streams'[u] : u \in DOMAIN streams'})
        /\ opened' \in [Uris -> Int] /\ requested' \subseteq Uris
        /\ received' \in [uri : Uris \cup {NoUri}, index : Nat, tiles : SUBSET Tiles]
    BY <2>1 DEF Inv
  <2> QED BY <2>2, <2>3, <2>4, <2>5 DEF Inv
<1>2. ASSUME NEW c \in Sources, NEW u \in Uris, AddSourceToStream(c, u) \/ RejectLateSource(c, u)
      PROVE  Inv'
  BY <1>2, AddSourceInv, RejectLateSourceInv
<1>3. ASSUME NEW c \in Observers, NEW u \in Uris, AddObserver(c, u) PROVE Inv'
  BY <1>3, AddObserverInv
<1>4. ASSUME NEW c \in Sources, RemoveSourceFromStream(c) PROVE Inv'
  BY <1>4, RemoveSourceInv
<1>5. ASSUME NEW c \in Observers, RemoveObserver(c) PROVE Inv'
  BY <1>5, RemoveObserverInv
<1>6. ASSUME NEW c \in Connections, RemoveFromNoStream(c) PROVE Inv'
  BY <1>6, RemoveFromNoStreamInv
<1>7. ASSUME NEW c \in Sources, NEW order \in RowOrders, ProcessTile(c, order) PROVE Inv'
  BY <1>7, ProcessTileInv
<1>8. ASSUME NEW c \in Sources, ProcessFrameFinished(c) \/ FinishInNoStream(c) PROVE Inv'
  BY <1>8, ProcessFrameFinishedInv, FinishInNoStreamInv
<1>9. ASSUME NEW u \in Uris, RequestFrame(u) \/ ClosePixelStream(u) PROVE Inv'
  BY <1>9, RequestFrameInv, ClosePixelStreamInv
<1> QED BY <1>1, <1>2, <1>3, <1>4, <1>5, <1>6, <1>7, <1>8, <1>9 DEF Next

\* In every state that the dispatcher reaches, with any number of connections and
\* streams, the inductive invariant holds.
THEOREM Invariance == Spec => []Inv
BY InitInv, NextInv, PTL DEF Spec

-----------------------------------------------------------------------------
(* The properties of the dispatcher, from the invariant.                   *)

\* The type invariant holds of every instance.
THEOREM TypeCorrect == Spec => []TypeOK
<1>1. Inv => TypeOK
  <2> SUFFICES ASSUME Inv PROVE TypeOK
    OBVIOUS
  <2>1. \A u \in DOMAIN streams : StreamTypeOK(streams[u])
    BY DEF Inv, StreamOK
  <2>2. conn \in [Connections -> ConnectionStates] /\ sent \in [Sources -> SUBSET Tiles]
    BY DEF Inv, ConnOK
  <2> QED BY <2>1, <2>2 DEF Inv, TypeOK
<1> QED BY <1>1, Invariance, PTL

\* No call of std::queue::front, back or pop meets an empty queue, and no source
\* fills the server's memory, however many sources there are.
THEOREM QueuesNeverEmpty == Spec => []QueuesSound
<1>1. Inv => QueuesSound
  BY DEF Inv, StreamOK, SourceOK, QueuesSound
<1> QED BY <1>1, Invariance, PTL

\* In every buffer, the queues of the joined sources stay aligned on one frame
\* number.
THEOREM AlignmentKept == Spec => []FramesAligned
<1>1. Inv => FramesAligned
  <2> SUFFICES ASSUME Inv, NEW c \in Sources, NEW u \in Uris, Joined(c, u)
               PROVE  /\ Exists(u)
                      /\ c \in SourcesOf(streams[u].buffer)
                      /\ LET b == streams[u].buffer
                             q == b.sources[c].queue
                         IN  /\ conn[c].frame = b.last + Len(q)
                             /\ \A n \in 1 .. Len(q) :
                                    q[n] = {t \in sent[c] : t.frame = b.last + n}
    BY DEF FramesAligned
  <2>1. Exists(u)
    BY DEF Inv
  <2>2. StreamOK(u, streams[u], conn, sent)
    BY <2>1 DEF Inv, Exists
  <2>3. c \in SourcesOf(streams[u].buffer)
    BY <2>2 DEF StreamOK, Joined
  <2>4. SourceOK(u, c, streams[u].buffer.sources[c], streams[u].buffer.last, conn, sent)
    BY <2>2, <2>3 DEF StreamOK
  <2> QED BY <2>1, <2>3, <2>4 DEF SourceOK, Joined
<1> QED BY <1>1, Invariance, PTL

\* A frame that the application receives is whole: for each source of the stream,
\* all and only the tiles of one frame number.
THEOREM FramesWhole == Spec => []WholeFrame
<1>1. Inv => WholeFrame
  BY DEF Inv
<1> QED BY <1>1, Invariance, PTL

\* The application's picture of the open streams is right.
THEOREM AppViewCorrect == Spec => []AppViewAccurate
<1>1. Inv => AppViewAccurate
  BY DEF Inv
<1> QED BY <1>1, Invariance, PTL

\* No stream outlives its connections, and none waits for a source that is gone.
THEOREM NoLeak == Spec => []NoLeakedStream
<1>1. Inv => NoLeakedStream
  <2> SUFFICES ASSUME Inv, NEW u \in DOMAIN streams
               PROVE  /\ ~ AllConnectionsClosed(streams[u])
                      /\ \A s \in SourcesOf(streams[u].buffer) : Connected(s, u)
                      /\ streams[u].observers
                           <= Cardinality({o \in Observers : Connected(o, u)})
    BY DEF NoLeakedStream
  <2>1. StreamOK(u, streams[u], conn, sent) /\ ~ AllConnectionsClosed(streams[u])
    BY DEF Inv
  <2>2. {o \in Observers : Connected(o, u)} = ObserversIn(conn, u)
    BY DEF Connected, ObserversIn, ConnectedIn
  <2>3. \A s \in SourcesOf(streams[u].buffer) : Connected(s, u)
    BY <2>1 DEF StreamOK, SourceOK, ConnectedIn, Connected
  <2> QED BY <2>1, <2>2, <2>3 DEF StreamOK
<1> QED BY <1>1, Invariance, PTL

-----------------------------------------------------------------------------
(* The loop of consumeLatestFrame: whatever the induction over its turns   *)
(* needs is that a set of numbers has a smallest one.                      *)

\* A set of numbers has a smallest one.
LEMMA Smallest ==
    ASSUME NEW S \in SUBSET Nat, S # {}
    PROVE  \E i \in S : \A j \in S : i <= j
<1> DEFINE R == {ss \in Nat \X Nat : ss[1] < ss[2]}
<1>1. IsWellFoundedOn(R, Nat)
  BY NatLessThanWellFounded, Zenon DEF OpToRel
<1>2. PICK i \in S : \A j \in S : << j, i >> \notin R
  <2> HIDE DEF R
  <2> QED
    BY <1>1, WFMin
<1>3. \A j \in S : ~ (j < i)
  BY <1>2
<1> QED
  BY <1>3

\* What is the first turn, and follows itself turn by turn, is the loop.
LEMMA TurnsOfTheLoop ==
    ASSUME NEW b, NEW g, g = [n \in 0 .. MaxFrames |-> g[n]],
           g[0] = [buffer |-> b, tiles |-> {}],
           \A n \in 1 .. MaxFrames : g[n] = PopTurn(g[n - 1])
    PROVE  LoopTurns(b) = g
<1> DEFINE Loop(f) == [n \in 0 .. MaxFrames |->
                          IF n = 0 THEN [buffer |-> b, tiles |-> {}] ELSE PopTurn(f[n - 1])]
<1>1. LoopTurns(b) = CHOOSE f : f = Loop(f)
  BY DEF LoopTurns
<1>2. g = Loop(g)
  <2>1. \A n \in 0 .. MaxFrames :
           g[n] = IF n = 0 THEN [buffer |-> b, tiles |-> {}] ELSE PopTurn(g[n - 1])
    <3>1. \A n \in 0 .. MaxFrames : n = 0 \/ n \in 1 .. MaxFrames
      BY DispatcherAssumption
    <3> QED BY <3>1
  <2> QED BY <2>1
<1>3. LoopTurns(b) = Loop(LoopTurns(b))
  <2> HIDE DEF Loop
  <2> QED BY <1>1, <1>2
<1> DEFINE f == LoopTurns(b)
           Wrong == {n \in 0 .. MaxFrames : f[n] # g[n]}
<1>4. f = [n \in 0 .. MaxFrames |-> f[n]] /\ f[0] = [buffer |-> b, tiles |-> {}]
  BY <1>3, DispatcherAssumption
<1>5. \A n \in 1 .. MaxFrames : f[n] = PopTurn(f[n - 1])
  <2>1. \A n \in 1 .. MaxFrames : n \in 0 .. MaxFrames /\ n # 0
    BY DispatcherAssumption
  <2>2. \A n \in 0 .. MaxFrames : n # 0 => f[n] = PopTurn(f[n - 1])
    BY <1>3
  <2> QED BY <2>1, <2>2
<1> HIDE DEF f
<1>6. ASSUME Wrong # {} PROVE FALSE
  <2>1. PICK n \in Wrong : \A m \in Wrong : n <= m
    <3>1. Wrong \subseteq Nat
      BY DispatcherAssumption
    <3> HIDE DEF Wrong
    <3> QED BY <1>6, <3>1, Smallest
  <2>2. n \in 1 .. MaxFrames /\ n - 1 \in 0 .. MaxFrames /\ n - 1 \notin Wrong
    <3>1. n \in 0 .. MaxFrames /\ n # 0
      BY <1>4, <2>1
    <3>2. n \in Nat /\ ~ (n <= n - 1) /\ n \in 1 .. MaxFrames /\ n - 1 \in 0 .. MaxFrames
      BY <3>1, DispatcherAssumption
    <3> HIDE DEF Wrong
    <3>3. n - 1 \notin Wrong
      BY <2>1, <3>2
    <3> QED BY <3>2, <3>3
  <2>3. f[n - 1] = g[n - 1]
    BY <2>2
  <2> QED BY <1>5, <2>1, <2>2, <2>3
<1>7. \A n \in 0 .. MaxFrames : f[n] = g[n]
  BY <1>6
<1> QED BY <1>4, <1>7 DEF f

\* The buffer b after n turns of the loop that find a complete frame, apart from
\* the bound on n.
Popped(b, n) ==
    [b EXCEPT !.sources = [s \in SourcesOf(b) |->
                              [queue |-> SubSeq(b.sources[s].queue, n + 1, Len(b.sources[s].queue)),
                               back  |-> b.sources[s].back]],
              !.last = b.last + n]

\* What the loop may be started with: sound queues, whose frames have numbers
\* that do not wrap around.
Poppable(b) ==
    /\ b \in [sources : {b.sources}, last : Nat, allowed : BOOLEAN]
    /\ b.sources = [s \in SourcesOf(b) |-> b.sources[s]]
    /\ \A s \in SourcesOf(b) :
          /\ b.sources[s] \in [queue : Seq(SUBSET Tiles), back : Nat]
          /\ b.sources[s].back + 1 <= b.last + Len(b.sources[s].queue)
          /\ b.sources[s].back <= MaxFrames

\* Nothing is popped in no turn.
LEMMA NothingPopped == ASSUME NEW b, Poppable(b) PROVE Popped(b, 0) = b
<1>1. ASSUME NEW s \in SourcesOf(b)
      PROVE  [queue |-> SubSeq(b.sources[s].queue, 0 + 1, Len(b.sources[s].queue)),
              back  |-> b.sources[s].back] = b.sources[s]
  <2>1. b.sources[s] \in [queue : Seq(SUBSET Tiles), back : Nat]
    BY DEF Poppable
  <2> DEFINE q == b.sources[s].queue
  <2>2. q \in Seq(SUBSET Tiles)
    BY <2>1
  <2>3. SubSeq(q, 0 + 1, Len(q)) = q
    <3> HIDE DEF q
    <3>1. Len(q) \in Nat /\ q = [i \in 1 .. Len(q) |-> q[i]]
      BY <2>2, LenProperties
    <3>2. \A i \in 1 .. Len(q) : q[i] \in SUBSET Tiles
      BY <2>2, LenProperties
    <3> QED BY <2>2, <3>1, <3>2
  <2> QED BY <2>1, <2>3
<1>2. [s \in SourcesOf(b) |->
         [queue |-> SubSeq(b.sources[s].queue, 0 + 1, Len(b.sources[s].queue)),
          back  |-> b.sources[s].back]] = b.sources
  BY <1>1 DEF Poppable
<1>3. Popped(b, 0) = [b EXCEPT !.sources = b.sources, !.last = b.last + 0]
  BY <1>2 DEF Popped
<1>4. b.last + 0 = b.last /\ b \in [sources : {b.sources}, last : Nat, allowed : BOOLEAN]
  BY DEF Poppable
<1> QED BY <1>3, <1>4

\* Replacing the queue of a source buffer.
LEMMA QueueReplaced ==
    ASSUME NEW sb, sb = [queue |-> sb.queue, back |-> sb.back], NEW q
    PROVE  [sb EXCEPT !.queue = q] = [queue |-> q, back |-> sb.back]
OBVIOUS

\* Popping a frame leaves the back index alone.
LEMMA PopFrontLemma ==
    ASSUME NEW sb, sb = [queue |-> sb.queue, back |-> sb.back]
    PROVE  PopFront(sb) = [queue |-> Tail(sb.queue), back |-> sb.back]
<1> DEFINE q == Tail(sb.queue)
<1>1. PopFront(sb) = [sb EXCEPT !.queue = q]
  BY DEF PopFront
<1> HIDE DEF q
<1>2. PopFront(sb) = [queue |-> q, back |-> sb.back]
  BY <1>1, QueueReplaced
<1> QED BY <1>2 DEF q

\* One turn, while each source has finished a frame that is not popped yet.
LEMMA PopOnce ==
    ASSUME NEW b, Poppable(b), SourcesOf(b) # {}, NEW n \in Nat,
           \A s \in SourcesOf(b) : b.sources[s].back > b.last + n
    PROVE  /\ HasCompleteFrame(Popped(b, n))
           /\ PopFrame(Popped(b, n)) = Popped(b, n + 1)
           /\ PoppedTiles(Popped(b, n)) = TilesOfFrame(b, b.last + (n + 1))
<1> DEFINE p == Popped(b, n)
<1>1. /\ SourcesOf(p) = SourcesOf(b)
      /\ p.last = b.last + n
      /\ p.allowed = b.allowed
      /\ p.sources = [s \in SourcesOf(b) |->
                        [queue |-> SubSeq(b.sources[s].queue, n + 1, Len(b.sources[s].queue)),
                         back  |-> b.sources[s].back]]
      /\ p \in [sources : {p.sources}, last : {p.last}, allowed : {p.allowed}]
  BY DEF Popped, Poppable, SourcesOf
<1>2. b.last \in Nat /\ b.allowed \in BOOLEAN
  BY DEF Poppable
<1> HIDE DEF p
<1>3. \A s \in SourcesOf(p) : p.sources[s].back > p.last
  BY <1>1
<1>4. HasCompleteFrame(p)
  BY <1>1, <1>3 DEF HasCompleteFrame
<1>5. ASSUME NEW s \in SourcesOf(b)
      PROVE  LET q == b.sources[s].queue
             IN  /\ Tail(SubSeq(q, n + 1, Len(q))) = SubSeq(q, n + 1 + 1, Len(q))
                 /\ Head(SubSeq(q, n + 1, Len(q))) = q[n + 1]
  <2> DEFINE q == b.sources[s].queue
             q1 == SubSeq(q, n + 1, Len(q))
             q2 == SubSeq(q, n + 1 + 1, Len(q))
  <2>1. /\ b.sources[s] \in [queue : Seq(SUBSET Tiles), back : Nat]
        /\ b.sources[s].back + 1 <= b.last + Len(q)
        /\ b.sources[s].back > b.last + n
    BY DEF Poppable
  <2>2. q \in Seq(SUBSET Tiles) /\ Len(q) \in Nat /\ b.sources[s].back \in Nat
    BY <2>1, LenProperties
  <2>3. n + 1 + 1 <= Len(q)
    BY <1>2, <2>1, <2>2
  <2>4. \A i \in 1 .. Len(q) : q[i] \in SUBSET Tiles
    BY <2>2, LenProperties
  <2> HIDE DEF q
  <2>5. /\ q1 \in Seq(SUBSET Tiles)
        /\ Len(q1) = Len(q) - n
        /\ \A i \in 1 .. Len(q) - n : q1[i] = q[i + n]
    <3>1. \A i \in n + 1 .. Len(q) : q[i] \in SUBSET Tiles
      BY <2>4
    <3>2. /\ q1 \in Seq(SUBSET Tiles)
          /\ Len(q1) = IF n + 1 <= Len(q) THEN Len(q) - (n + 1) + 1 ELSE 0
          /\ \A i \in 1 .. Len(q) - (n + 1) + 1 : q1[i] = q[(n + 1) + i - 1]
      BY <2>2, <3>1, SubSeqProperties
    <3> HIDE DEF q1
    <3> QED BY <2>2, <2>3, <3>2
  <2>6. /\ q2 \in Seq(SUBSET Tiles)
        /\ Len(q2) = Len(q) - (n + 1)
        /\ \A i \in 1 .. Len(q) - (n + 1) : q2[i] = q[i + (n + 1)]
    <3>1. \A i \in n + 1 + 1 .. Len(q) : q[i] \in SUBSET Tiles
      BY <2>4
    <3>2. /\ q2 \in Seq(SUBSET Tiles)
          /\ Len(q2) = IF n + 1 + 1 <= Len(q) THEN Len(q) - (n + 1 + 1) + 1 ELSE 0
          /\ \A i \in 1 .. Len(q) - (n + 1 + 1) + 1 : q2[i] = q[(n + 1 + 1) + i - 1]
      BY <2>2, <3>1, SubSeqProperties
    <3> HIDE DEF q2
    <3> QED BY <2>2, <2>3, <3>2
  <2> HIDE DEF q1, q2
  <2>7. q1 # << >> /\ Head(q1) = q1[1] /\ Len(q) - n >= 1
    BY <2>2, <2>3, <2>5, HeadTailProperties
  <2>8. /\ Tail(q1) \in Seq(SUBSET Tiles)
        /\ Len(Tail(q1)) = Len(q1) - 1
        /\ \A i \in 1 .. Len(Tail(q1)) : Tail(q1)[i] = q1[i + 1]
    BY <2>5, <2>7, HeadTailProperties
  <2>9. Tail(q1) = q2
    <3>1. Len(Tail(q1)) = Len(q2) /\ Len(q2) = Len(q) - (n + 1)
      BY <2>2, <2>5, <2>6, <2>8
    <3>2. ASSUME NEW i \in 1 .. Len(q2) PROVE Tail(q1)[i] = q2[i]
      <4>1. i + 1 \in 1 .. Len(q) - n /\ i + 1 + n = i + (n + 1)
        BY <2>2, <2>3, <3>1
      <4> QED BY <2>5, <2>6, <2>8, <3>1, <4>1
    <3> QED BY <2>6, <2>8, <3>1, <3>2, SeqEqual
  <2>10. Head(q1) = q[n + 1]
    <3>1. 1 \in 1 .. Len(q) - n /\ 1 + n = n + 1
      BY <2>2, <2>7
    <3> QED BY <2>5, <2>7, <3>1
  <2> QED BY <2>9, <2>10 DEF q1, q2, q
<1>6. b.last + n + 1 \in Nat /\ (b.last + n + 1) % FrameIndexSpan = b.last + n + 1
  <2>1. PICK s \in SourcesOf(b) : TRUE
    OBVIOUS
  <2>2. b.sources[s].back \in Nat /\ b.sources[s].back <= MaxFrames
    BY DEF Poppable
  <2>3. b.last + n + 1 \in Nat /\ b.last + n + 1 <= MaxFrames
    BY <1>2, <2>2, DispatcherAssumption
  <2> QED BY <2>3, NextIndex
<1> DEFINE NextQueue(s) == SubSeq(b.sources[s].queue, n + 1 + 1, Len(b.sources[s].queue))
<1>7. ASSUME NEW s \in SourcesOf(b)
      PROVE  /\ PopFront(p.sources[s])
                   = [queue |-> NextQueue(s), back |-> b.sources[s].back]
             /\ Head(p.sources[s].queue) = b.sources[s].queue[n + 1]
  <2> DEFINE q1 == SubSeq(b.sources[s].queue, n + 1, Len(b.sources[s].queue))
  <2>1. p.sources[s] = [queue |-> q1, back |-> b.sources[s].back]
    BY <1>1
  <2>2. Tail(q1) = NextQueue(s) /\ Head(q1) = b.sources[s].queue[n + 1]
    BY <1>5
  <2> HIDE DEF q1, NextQueue
  <2>3. /\ p.sources[s].queue = q1
        /\ p.sources[s].back = b.sources[s].back
        /\ p.sources[s] = [queue |-> p.sources[s].queue, back |-> p.sources[s].back]
    BY <2>1
  <2>4. PopFront(p.sources[s]) = [queue |-> Tail(q1), back |-> b.sources[s].back]
    BY <2>3, PopFrontLemma
  <2> QED BY <2>2, <2>3, <2>4
<1>8. PopFrame(p) = Popped(b, n + 1)
  <2> DEFINE rest == [s \in SourcesOf(b) |->
                        [queue |-> NextQueue(s), back |-> b.sources[s].back]]
             tails == [s \in DOMAIN p.sources |->
                         IF p.sources[s].back > p.last THEN PopFront(p.sources[s])
                                                       ELSE p.sources[s]]
  <2>1. Popped(b, n + 1) = [b EXCEPT !.sources = rest, !.last = b.last + (n + 1)]
    BY DEF Popped
  <2>2. PopFrame(p) = [p EXCEPT !.sources = tails, !.last = (p.last + 1) % FrameIndexSpan]
    BY DEF PopFrame
  <2> HIDE DEF NextQueue
  <2>3. tails = rest
    BY <1>1, <1>3, <1>7 DEF SourcesOf
  <2> HIDE DEF rest, tails
  <2>4. p.last + 1 = b.last + n + 1 /\ b.last + (n + 1) = b.last + n + 1
    <3>1. p.last = b.last + n
      BY <1>1
    <3> QED BY <1>2, <3>1
  <2>5. (p.last + 1) % FrameIndexSpan = b.last + (n + 1)
    BY <1>6, <2>4
  <2>6. PopFrame(p) = [sources |-> rest, last |-> b.last + (n + 1), allowed |-> b.allowed]
    BY <1>1, <2>2, <2>3, <2>5
  <2>7. Popped(b, n + 1) = [sources |-> rest, last |-> b.last + (n + 1), allowed |-> b.allowed]
    BY <2>1 DEF Poppable
  <2> QED BY <2>6, <2>7
<1>9. PoppedTiles(p) = TilesOfFrame(b, b.last + (n + 1))
  <2>1. {r \in SourcesOf(p) : p.sources[r].back > p.last} = SourcesOf(b)
    BY <1>1, <1>3
  <2>2. PoppedTiles(p) = UNION {Head(p.sources[s].queue) : s \in SourcesOf(b)}
    BY <2>1 DEF PoppedTiles
  <2>3. {Head(p.sources[s].queue) : s \in SourcesOf(b)}
          = {b.sources[s].queue[n + 1] : s \in SourcesOf(b)}
    <3>1. \A s \in SourcesOf(b) : Head(p.sources[s].queue) = b.sources[s].queue[n + 1]
      BY <1>7
    <3> QED BY <3>1
  <2>4. b.last + (n + 1) - b.last = n + 1
    BY <1>2
  <2>5. TilesOfFrame(b, b.last + (n + 1)) = UNION {b.sources[s].queue[n + 1] : s \in SourcesOf(b)}
    <3> DEFINE k == b.last + (n + 1)
    <3>1. k - b.last = n + 1
      BY <1>2
    <3> HIDE DEF k
    <3>2. TilesOfFrame(b, k) = UNION {b.sources[s].queue[n + 1] : s \in SourcesOf(b)}
      BY <3>1 DEF TilesOfFrame
    <3> QED BY <3>2 DEF k
  <2> QED BY <2>2, <2>3, <2>5
<1> HIDE DEF NextQueue
<1> QED BY <1>4, <1>8, <1>9 DEF p

\* The loop on a buffer without a complete frame.
LEMMA LoopRunsNot ==
    ASSUME NEW b, ~ HasCompleteFrame(b)
    PROVE  LoopTurns(b)[MaxFrames] = [buffer |-> b, tiles |-> {}]
<1> DEFINE start == [buffer |-> b, tiles |-> {}]
           g == [n \in 0 .. MaxFrames |-> start]
<1>1. PopTurn(start) = start
  BY DEF PopTurn
<1>2. /\ 0 \in 0 .. MaxFrames /\ MaxFrames \in 0 .. MaxFrames
      /\ \A n \in 1 .. MaxFrames : n \in 0 .. MaxFrames /\ n - 1 \in 0 .. MaxFrames
  BY DispatcherAssumption
<1> HIDE DEF start
<1>3. \A n \in 0 .. MaxFrames : g[n] = start
  OBVIOUS
<1>4. g = [n \in 0 .. MaxFrames |-> g[n]] /\ g[0] = start
  BY <1>2, <1>3
<1> HIDE DEF g
<1>5. \A n \in 1 .. MaxFrames : g[n] = PopTurn(g[n - 1])
  BY <1>1, <1>2, <1>3
<1>6. LoopTurns(b) = g
  BY <1>4, <1>5, TurnsOfTheLoop DEF start
<1> QED BY <1>2, <1>3, <1>6 DEF start

\* The loop on a buffer with a complete frame: as many turns as the source that
\* is the last has finished frames, and no more.
LEMMA LoopPops ==
    ASSUME NEW b, Poppable(b), NEW k \in Nat, k > b.last,
           NEW first \in SourcesOf(b), b.sources[first].back = k,
           \A s \in SourcesOf(b) : b.sources[s].back >= k
    PROVE  /\ LoopTurns(b)[MaxFrames] = [buffer |-> Popped(b, k - b.last), tiles |-> TilesOfFrame(b, k)]
           /\ ~ HasCompleteFrame(Popped(b, k - b.last))
<1> DEFINE d == k - b.last
           After(n) == IF n = 0 THEN [buffer |-> b, tiles |-> {}]
                       ELSE IF n <= d
                       THEN [buffer |-> Popped(b, n), tiles |-> TilesOfFrame(b, b.last + n)]
                       ELSE [buffer |-> Popped(b, d), tiles |-> TilesOfFrame(b, b.last + d)]
           g == [n \in 0 .. MaxFrames |-> After(n)]
<1>1. /\ b.last \in Nat /\ d \in 1 .. MaxFrames /\ b.last + d = k
      /\ \A s \in SourcesOf(b) : b.sources[s].back \in Nat
  <2>1. /\ b.last \in Nat
        /\ \A s \in SourcesOf(b) : b.sources[s].back \in Nat /\ b.sources[s].back <= MaxFrames
    BY DEF Poppable
  <2>2. k <= MaxFrames
    BY <2>1
  <2> QED BY <2>1, <2>2, DispatcherAssumption
<1>2. /\ 0 \in 0 .. MaxFrames /\ MaxFrames \in 0 .. MaxFrames
      /\ \A n \in 1 .. MaxFrames : n \in Nat /\ n # 0 /\ n \in 0 .. MaxFrames
                                   /\ n - 1 \in 0 .. MaxFrames /\ n - 1 \in Nat /\ n - 1 + 1 = n
  BY DispatcherAssumption
<1> HIDE DEF d
<1>3. ~ HasCompleteFrame(Popped(b, d))
  <2>1. /\ SourcesOf(Popped(b, d)) = SourcesOf(b)
        /\ Popped(b, d).last = b.last + d
        /\ Popped(b, d).sources[first].back = k
    BY DEF Popped, Poppable, SourcesOf
  <2>2. ~ (Popped(b, d).sources[first].back > Popped(b, d).last)
    BY <1>1, <2>1
  <2> QED BY <2>1, <2>2 DEF HasCompleteFrame
<1>4. ASSUME NEW n \in 1 .. MaxFrames PROVE After(n) = PopTurn(After(n - 1))
  <2>1. CASE n <= d
    <3>1. \A s \in SourcesOf(b) : b.sources[s].back > b.last + (n - 1)
      BY <1>1, <1>2, <2>1
    <3>2. /\ HasCompleteFrame(Popped(b, n - 1))
          /\ PopFrame(Popped(b, n - 1)) = Popped(b, n)
          /\ PoppedTiles(Popped(b, n - 1)) = TilesOfFrame(b, b.last + n)
      <4> DEFINE m == n - 1
      <4>1. m \in Nat /\ m + 1 = n
        BY <1>2
      <4>2. \A s \in SourcesOf(b) : b.sources[s].back > b.last + m
        BY <3>1
      <4> HIDE DEF m
      <4>3. /\ HasCompleteFrame(Popped(b, m))
            /\ PopFrame(Popped(b, m)) = Popped(b, m + 1)
            /\ PoppedTiles(Popped(b, m)) = TilesOfFrame(b, b.last + (m + 1))
        BY <4>1, <4>2, PopOnce
      <4> QED BY <4>1, <4>3 DEF m
    <3>3. After(n - 1).buffer = Popped(b, n - 1)
      <4>1. CASE n - 1 = 0
        BY <4>1, NothingPopped
      <4>2. CASE n - 1 # 0
        <5>1. n - 1 <= d
          BY <1>1, <1>2, <2>1
        <5> QED BY <4>2, <5>1
      <4> QED BY <4>1, <4>2
    <3>4. After(n) = [buffer |-> Popped(b, n), tiles |-> TilesOfFrame(b, b.last + n)]
      BY <1>2, <2>1
    <3> HIDE DEF After
    <3> QED BY <3>2, <3>3, <3>4 DEF PopTurn
  <2>2. CASE ~ (n <= d)
    <3> DEFINE end == [buffer |-> Popped(b, d), tiles |-> TilesOfFrame(b, b.last + d)]
    <3>1. After(n) = end
      BY <1>2, <2>2
    <3>2. After(n - 1) = end
      <4>1. n - 1 # 0 /\ (n - 1 <= d => n - 1 = d)
        BY <1>1, <1>2, <2>2
      <4> QED BY <4>1
    <3>3. PopTurn(end) = end
      BY <1>3 DEF PopTurn
    <3> QED BY <3>1, <3>2, <3>3
  <2> QED BY <2>1, <2>2
<1>5. After(0) = [buffer |-> b, tiles |-> {}]
  OBVIOUS
<1>6. After(MaxFrames) = [buffer |-> Popped(b, d), tiles |-> TilesOfFrame(b, k)]
  <2>1. MaxFrames # 0 /\ MaxFrames \in Nat /\ (MaxFrames <= d => MaxFrames = d)
    BY <1>1, DispatcherAssumption
  <2> QED BY <1>1, <2>1
<1> HIDE DEF After
<1>7. \A n \in 0 .. MaxFrames : g[n] = After(n)
  OBVIOUS
<1>8. g = [n \in 0 .. MaxFrames |-> g[n]] /\ g[0] = [buffer |-> b, tiles |-> {}]
  BY <1>2, <1>5, <1>7
<1> HIDE DEF g
<1>9. \A n \in 1 .. MaxFrames : g[n] = PopTurn(g[n - 1])
  BY <1>2, <1>4, <1>7
<1>10. LoopTurns(b) = g
  BY <1>8, <1>9, TurnsOfTheLoop
<1> QED BY <1>2, <1>3, <1>6, <1>7, <1>10 DEF d

\* What the invariant says of a stream lets the loop run on its buffer.
LEMMA StreamPoppable ==
    ASSUME NEW u, NEW stream, NEW cn, NEW st, ConnOK(cn, st), StreamOK(u, stream, cn, st)
    PROVE  Poppable(stream.buffer)
<1> DEFINE b == stream.buffer
<1>1. /\ b \in [sources : {b.sources}, last : Nat, allowed : BOOLEAN]
      /\ b.sources \in [SourcesOf(b) -> SourceBuffers]
      /\ SourcesOf(b) \subseteq Sources
  BY DEF StreamOK, StreamTypeOK, BufferTypeOK, IsPartialFunction, SourcesOf
<1> HIDE DEF b
<1>2. ASSUME NEW s \in SourcesOf(b)
      PROVE  /\ b.sources[s] \in [queue : Seq(SUBSET Tiles), back : Nat]
             /\ b.sources[s].back + 1 <= b.last + Len(b.sources[s].queue)
             /\ b.sources[s].back <= MaxFrames
  <2>1. b.sources[s] \in [queue : Seq(SUBSET Tiles), back : Nat]
    BY <1>1 DEF SourceBuffers
  <2>2. /\ b.sources[s].back + 1 <= b.last + Len(b.sources[s].queue)
        /\ b.sources[s].back + 1 <= cn[s].frame
    BY DEF StreamOK, SourceOK, b
  <2>3. cn[s].frame \in 1 .. MaxFrames + 1
    BY <1>1 DEF ConnOK, Connections, ConnectionStates
  <2>4. b.sources[s].back \in Nat
    BY <2>1
  <2>5. PICK back \in Nat, frame \in 1 .. MaxFrames + 1 :
           back = b.sources[s].back /\ frame = cn[s].frame
    BY <2>3, <2>4
  <2>6. back <= MaxFrames
    BY <2>2, <2>5, DispatcherAssumption
  <2> QED BY <2>1, <2>2, <2>5, <2>6
<1>3. b.sources = [s \in SourcesOf(b) |-> b.sources[s]]
  BY <1>1
<1> QED BY <1>1, <1>2, <1>3 DEF Poppable, b

\* The source that holds the others back determines the latest complete frame.
LEMMA OneLatestFrame ==
    ASSUME NEW b, Poppable(b)
    PROVE  \/ ~ HasCompleteFrame(b) /\ LatestFrame(b) = {}
           \/ /\ HasCompleteFrame(b)
              /\ \E first \in SourcesOf(b) :
                    /\ \A s \in SourcesOf(b) : b.sources[s].back >= b.sources[first].back
                    /\ b.sources[first].back \in Nat /\ b.sources[first].back > b.last
                    /\ LatestFrame(b) = {b.sources[first].back}
<1>1. b.last \in Nat /\ \A s \in SourcesOf(b) : b.sources[s].back \in Nat
  BY DEF Poppable
<1> DEFINE Backs == {b.sources[s].back : s \in SourcesOf(b)}
<1>2. CASE ~ HasCompleteFrame(b)
  <2>1. ASSUME NEW n \in LatestFrame(b) PROVE FALSE
    <3>1. PICK s \in SourcesOf(b) : n = b.sources[s].back
      BY DEF LatestFrame
    <3>2. \A r \in SourcesOf(b) : b.sources[r].back > b.last
      <4>1. n > b.last /\ \A r \in SourcesOf(b) : n <= b.sources[r].back
        BY DEF LatestFrame
      <4> QED BY <1>1, <3>1, <4>1
    <3> QED BY <1>2, <3>1, <3>2 DEF HasCompleteFrame
  <2> QED BY <1>2, <2>1
<1>3. CASE HasCompleteFrame(b)
  <2>1. Backs \subseteq Nat /\ Backs # {}
    BY <1>1, <1>3 DEF HasCompleteFrame
  <2>2. PICK n \in Backs : \A m \in Backs : n <= m
    <3> HIDE DEF Backs
    <3> QED BY <2>1, Smallest
  <2>3. PICK first \in SourcesOf(b) : n = b.sources[first].back
    BY <2>2
  <2>4. \A s \in SourcesOf(b) : b.sources[s].back >= n
    <3>1. \A s \in SourcesOf(b) : b.sources[s].back \in Backs /\ b.sources[s].back \in Nat
      BY <1>1
    <3>2. n \in Nat
      BY <2>1
    <3> HIDE DEF Backs
    <3> QED BY <2>2, <3>1, <3>2
  <2>5. n \in Nat /\ n > b.last
    BY <1>1, <1>3, <2>3 DEF HasCompleteFrame
  <2>6. LatestFrame(b) = {n}
    <3>1. n \in LatestFrame(b)
      BY <1>1, <2>3, <2>4, <2>5 DEF LatestFrame
    <3>2. ASSUME NEW m \in LatestFrame(b) PROVE m = n
      <4>1. PICK s \in SourcesOf(b) : m = b.sources[s].back
        BY DEF LatestFrame
      <4>2. m <= n
        BY <2>3 DEF LatestFrame
      <4>3. m \in Nat /\ n <= m
        BY <1>1, <2>4, <4>1
      <4> QED BY <2>5, <4>2, <4>3
    <3> QED BY <3>1, <3>2
  <2> QED BY <1>3, <2>3, <2>4, <2>5, <2>6
<1> QED BY <1>2, <1>3

\* What the loop leaves behind is what the model takes for it.
LEMMA PoppedIsDrained ==
    ASSUME NEW b, Poppable(b), NEW n \in Nat
    PROVE  [Popped(b, n - b.last) EXCEPT !.allowed = FALSE] = Drained(b, n)
<1> DEFINE rest == [s \in SourcesOf(b) |->
                      [queue |-> SubSeq(b.sources[s].queue, n - b.last + 1, Len(b.sources[s].queue)),
                       back  |-> b.sources[s].back]]
<1>1. b.last \in Nat /\ b.last + (n - b.last) = n
  BY DEF Poppable
<1>2. Popped(b, n - b.last) = [b EXCEPT !.sources = rest, !.last = b.last + (n - b.last)]
  BY DEF Popped
<1>3. \A s \in SourcesOf(b) :
         [b.sources[s] EXCEPT !.queue = SubSeq(@, n - b.last + 1, Len(@))]
           = [queue |-> SubSeq(b.sources[s].queue, n - b.last + 1, Len(b.sources[s].queue)),
              back  |-> b.sources[s].back]
  <2> TAKE s \in SourcesOf(b)
  <2> DEFINE sb == b.sources[s]
             q  == SubSeq(sb.queue, n - b.last + 1, Len(sb.queue))
  <2>1. sb = [queue |-> sb.queue, back |-> sb.back]
    BY DEF Poppable
  <2> HIDE DEF q, sb
  <2>2. [sb EXCEPT !.queue = q] = [queue |-> q, back |-> sb.back]
    BY <2>1, QueueReplaced
  <2> QED BY <2>2 DEF q, sb
<1>4. Drained(b, n) = [sources |-> rest, last |-> n, allowed |-> FALSE]
  BY <1>3 DEF Drained
<1> HIDE DEF rest
<1>5. [Popped(b, n - b.last) EXCEPT !.allowed = FALSE] = [sources |-> rest, last |-> n, allowed |-> FALSE]
  <2>1. b = [sources |-> b.sources, last |-> b.last, allowed |-> b.allowed]
    BY DEF Poppable
  <2> DEFINE p == Popped(b, n - b.last)
  <2>2. p = [sources |-> rest, last |-> n, allowed |-> b.allowed]
    BY <1>1, <1>2, <2>1
  <2> HIDE DEF p
  <2>3. \A flag : [p EXCEPT !.allowed = flag] = [sources |-> rest, last |-> n, allowed |-> flag]
    BY <2>2
  <2> QED BY <2>3 DEF p
<1> QED BY <1>4, <1>5

\* The loop on any buffer that it may be started with.
LEMMA LoopDrains ==
    ASSUME NEW b, Poppable(b)
    PROVE  /\ Cardinality(LatestFrame(b)) = IF HasCompleteFrame(b) THEN 1 ELSE 0
           /\ ~ HasCompleteFrame(LoopTurns(b)[MaxFrames].buffer)
           /\ \A n \in LatestFrame(b) :
                 /\ LoopTurns(b)[MaxFrames].tiles = TilesOfFrame(b, n)
                 /\ [LoopTurns(b)[MaxFrames].buffer EXCEPT !.allowed = FALSE] = Drained(b, n)
<1> DEFINE loop == LoopTurns(b)[MaxFrames]
<1>1. CASE ~ HasCompleteFrame(b)
  <2>1. LatestFrame(b) = {}
    BY <1>1, OneLatestFrame
  <2>2. loop = [buffer |-> b, tiles |-> {}]
    BY <1>1, LoopRunsNot
  <2>3. loop.buffer = b
    BY <2>2
  <2>4. ~ HasCompleteFrame(loop.buffer)
    BY <1>1, <2>3
  <2>5. Cardinality(LatestFrame(b)) = 0
    BY <2>1, FS_EmptySet
  <2> HIDE DEF loop
  <2> QED BY <1>1, <2>1, <2>4, <2>5 DEF loop
<1>2. CASE HasCompleteFrame(b)
  <2>1. PICK first \in SourcesOf(b) :
           /\ \A s \in SourcesOf(b) : b.sources[s].back >= b.sources[first].back
           /\ b.sources[first].back \in Nat /\ b.sources[first].back > b.last
           /\ LatestFrame(b) = {b.sources[first].back}
    BY <1>2, OneLatestFrame
  <2> DEFINE k == b.sources[first].back
  <2>2. /\ loop = [buffer |-> Popped(b, k - b.last), tiles |-> TilesOfFrame(b, k)]
        /\ ~ HasCompleteFrame(Popped(b, k - b.last))
    BY <2>1, LoopPops
  <2>3. [Popped(b, k - b.last) EXCEPT !.allowed = FALSE] = Drained(b, k)
    BY <2>1, PoppedIsDrained
  <2>4. LatestFrame(b) = {k} /\ Cardinality(LatestFrame(b)) = 1
    BY <2>1, FS_Singleton
  <2>5. loop.buffer = Popped(b, k - b.last) /\ loop.tiles = TilesOfFrame(b, k)
    BY <2>2
  <2> HIDE DEF loop, k
  <2>6. ~ HasCompleteFrame(loop.buffer)
    BY <2>2, <2>5
  <2>7. [loop.buffer EXCEPT !.allowed = FALSE] = Drained(b, k)
    BY <2>3, <2>5
  <2> QED BY <1>2, <2>4, <2>5, <2>6, <2>7 DEF loop
<1> QED BY <1>1, <1>2

\* The closed form in which the model consumes frames is the code's loop, in every
\* state: the loop ends, and leaves the same tiles and the same buffer.
THEOREM ClosedFormIsTheLoop == Spec => []DrainIsTheLoop
<1>1. Inv => DrainIsTheLoop
  <2> SUFFICES ASSUME Inv PROVE DrainIsTheLoop
    OBVIOUS
  <2>1. \A u \in DOMAIN streams : Poppable(streams[u].buffer)
    BY StreamPoppable DEF Inv
  <2> QED BY <2>1, LoopDrains DEF DrainIsTheLoop
<1> QED BY <1>1, Invariance, PTL

-----------------------------------------------------------------------------
(* One request, one frame                                                  *)

\* A buffer that may send belongs to a stream whose application waits.
Permitted == \A u \in DOMAIN streams : streams[u].buffer.allowed => u \in requested

\* The operators that leave the permission to send alone.
LEMMA AllowedKept ==
  ASSUME NEW b, NEW s, NEW tile, BufferTypeOK(b)
  PROVE  /\ AddSource(b, s).allowed = b.allowed
         /\ RemoveSource(b, s).allowed = b.allowed
         /\ Insert(b, s, tile).allowed = b.allowed
         /\ FinishFrame(b, s).allowed = b.allowed
<1>1. b = [sources |-> b.sources, last |-> b.last, allowed |-> b.allowed]
  BY DEF BufferTypeOK
<1> QED BY <1>1 DEF AddSource, RemoveSource, Insert, FinishFrame, WithSource

\* The streams that stay, and the new state of the one that a slot has updated.
LEMMA SetStreamPermitted ==
  ASSUME Permitted, NEW u, NEW stream, SetStream(u, stream),
         requested \subseteq requested',
         stream.buffer.allowed => u \in requested'
  PROVE  Permitted'
BY DEF Permitted, SetStream

\* A stream that goes takes its pending request with it.
LEMMA DeleteStreamPermitted ==
  ASSUME Permitted, NEW u, NEW others, DeleteStream(u, others)
  PROVE  Permitted' /\ received' = NoFrame
BY DEF Permitted, DeleteStream

LEMMA StreamAtPermitted ==
  ASSUME Inv, Permitted, NEW u \in Uris
  PROVE  /\ StreamTypeOK(StreamAt(u))
         /\ StreamAt(u).buffer.allowed => u \in requested
<1>1. StreamTypeOK(StreamAt(u))
  BY StreamAtOK DEF StreamOK
<1>2. CASE Exists(u)
  BY <1>1, <1>2 DEF StreamAt, Exists, Permitted
<1>3. CASE ~ Exists(u)
  BY <1>1, <1>3 DEF StreamAt, NewStream, NewReceiveBuffer
<1> QED BY <1>2, <1>3

\* A frame is passed on, or the stream goes.
LEMMA SendFramePermitted ==
  ASSUME Permitted, NEW u, NEW stream, NEW connections, SendFrame(u, stream, connections),
         DOMAIN stream = {"buffer", "observers"}
  PROVE  /\ Permitted'
         /\ received' # NoFrame => received'.uri = u
<1>1. PICK n \in LatestFrame(stream.buffer) :
          \/ /\ SetStream(u, [stream EXCEPT !.buffer = Drained(@, n)])
             /\ received' = [uri |-> u, index |-> n, tiles |-> TilesOfFrame(stream.buffer, n)]
             /\ requested' = requested \ {u}
          \/ DeleteStream(u, connections)
  BY DEF SendFrame
<1>2. CASE DeleteStream(u, connections)
  BY <1>2, DeleteStreamPermitted
<1>3. CASE /\ SetStream(u, [stream EXCEPT !.buffer = Drained(@, n)])
           /\ received' = [uri |-> u, index |-> n, tiles |-> TilesOfFrame(stream.buffer, n)]
           /\ requested' = requested \ {u}
  <2> DEFINE drained == [stream EXCEPT !.buffer = Drained(@, n)]
  <2>1. streams' = [v \in DOMAIN streams \cup {u} |-> IF v = u THEN drained ELSE streams[v]]
    BY <1>3 DEF SetStream
  <2>2. drained.buffer.allowed = FALSE
    BY DEF Drained
  <2> QED BY <1>3, <2>1, <2>2 DEF Permitted
<1> QED BY <1>1, <1>2, <1>3

\* A step keeps the permissions within the requests, and passes on a frame of a
\* stream only if its application has asked for one before or asks for it now.
RequestStep == /\ Permitted'
               /\ received' # NoFrame => \/ received'.uri \in requested
                                         \/ RequestFrame(received'.uri)

LEMMA SlotStep ==
  ASSUME Inv, Permitted, NEW u \in Uris, NEW stream, SetStream(u, stream),
         stream.buffer.allowed => u \in requested',
         requested \subseteq requested', received' = NoFrame
  PROVE  RequestStep
BY SetStreamPermitted DEF RequestStep

LEMMA DeleteStep ==
  ASSUME Permitted, NEW u, NEW others, DeleteStream(u, others)
  PROVE  RequestStep
BY DeleteStreamPermitted DEF RequestStep

LEMMA UnchangedStep ==
  ASSUME Permitted, UNCHANGED << streams, requested >>, received' = NoFrame
  PROVE  RequestStep
BY DEF RequestStep, Permitted

LEMMA ConnectionsRequestStep ==
  ASSUME Inv, Permitted, NEW c \in Connections, NEW u \in Uris,
         AddSourceToStream(c, u) \/ RejectLateSource(c, u) \/ AddObserver(c, u)
  PROVE  RequestStep
<1>1. StreamTypeOK(StreamAt(u)) /\ (StreamAt(u).buffer.allowed => u \in requested)
  BY StreamAtPermitted
<1>2. CASE AddSourceToStream(c, u)
  <2> DEFINE stream == [StreamAt(u) EXCEPT !.buffer = AddSource(StreamAt(u).buffer, c)]
  <2>1. SetStream(u, stream) /\ received' = NoFrame /\ requested' = requested
    BY <1>2 DEF AddSourceToStream
  <2>2. stream.buffer.allowed = StreamAt(u).buffer.allowed
    BY <1>1, AllowedKept DEF StreamTypeOK
  <2> HIDE DEF stream
  <2> QED BY <1>1, <2>1, <2>2, SlotStep
<1>3. CASE RejectLateSource(c, u)
  BY <1>3, UnchangedStep DEF RejectLateSource
<1>4. CASE AddObserver(c, u)
  <2> DEFINE stream == [StreamAt(u) EXCEPT !.observers = @ + 1]
  <2>1. SetStream(u, stream) /\ received' = NoFrame /\ requested' = requested
    BY <1>4 DEF AddObserver
  <2>2. stream.buffer = StreamAt(u).buffer
    BY <1>1 DEF StreamTypeOK
  <2> HIDE DEF stream
  <2> QED BY <1>1, <2>1, <2>2, SlotStep
<1> QED BY <1>2, <1>3, <1>4

LEMMA KeepOrDeleteRequestStep ==
  ASSUME Inv, Permitted, NEW c \in Connections, NEW u \in Uris, NEW stream,
         KeepOrDelete(c, u, stream), stream.buffer.allowed => u \in requested
  PROVE  RequestStep
<1> DEFINE others == [conn EXCEPT ![c] = Closed]
<1>1. \/ DeleteStream(u, others)
      \/ SetStream(u, stream) /\ received' = NoFrame /\ requested' = requested
  BY DEF KeepOrDelete
<1> HIDE DEF others
<1> QED BY <1>1, DeleteStep, SlotStep

LEMMA ExistingStream ==
  ASSUME Inv, Permitted, NEW c \in Connections, conn[c].phase # "closed", Exists(conn[c].uri)
  PROVE  /\ conn[c].uri \in Uris
         /\ StreamTypeOK(streams[conn[c].uri])
         /\ streams[conn[c].uri].buffer.allowed => conn[c].uri \in requested
BY DEF Inv, ConnOK, StreamOK, Exists, Permitted

LEMMA RemovalsRequestStep ==
  ASSUME Inv, Permitted, NEW c \in Connections,
         RemoveSourceFromStream(c) \/ RemoveObserver(c) \/ RemoveFromNoStream(c)
  PROVE  RequestStep
<1> DEFINE u == conn[c].uri
<1>1. CASE RemoveFromNoStream(c)
  BY <1>1, UnchangedStep DEF RemoveFromNoStream
<1>2. CASE RemoveSourceFromStream(c) \/ RemoveObserver(c)
  <2>1. conn[c].phase # "closed" /\ Exists(u)
    BY <1>2 DEF RemoveSourceFromStream, RemoveObserver
  <2>2. u \in Uris /\ StreamTypeOK(streams[u]) /\ (streams[u].buffer.allowed => u \in requested)
    BY <2>1, ExistingStream
  <2>3. CASE RemoveSourceFromStream(c)
    <3> DEFINE stream == [streams[u] EXCEPT !.buffer = RemoveSource(streams[u].buffer, c)]
    <3>1. KeepOrDelete(c, u, stream)
      BY <2>3 DEF RemoveSourceFromStream
    <3>2. stream.buffer.allowed = streams[u].buffer.allowed
      BY <2>2, AllowedKept DEF StreamTypeOK
    <3> HIDE DEF stream, u
    <3> QED BY <2>2, <3>1, <3>2, KeepOrDeleteRequestStep
  <2>4. CASE RemoveObserver(c)
    <3> DEFINE stream == [streams[u] EXCEPT !.observers = IF @ > 0 THEN @ - 1 ELSE 0]
    <3>1. KeepOrDelete(c, u, stream)
      BY <2>4 DEF RemoveObserver, WithoutObserver
    <3>2. stream.buffer = streams[u].buffer
      BY <2>2 DEF StreamTypeOK
    <3> HIDE DEF stream, u
    <3> QED BY <2>2, <3>1, <3>2, KeepOrDeleteRequestStep
  <2> QED BY <1>2, <2>3, <2>4
<1> QED BY <1>1, <1>2

LEMMA TilesRequestStep ==
  ASSUME Inv, Permitted, NEW c \in Sources, NEW order, ProcessTile(c, order)
  PROVE  RequestStep
<1> DEFINE u == conn[c].uri
           tile == [source |-> c, frame |-> conn[c].frame, order |-> order]
           stream == [streams[u] EXCEPT !.buffer = Insert(streams[u].buffer, c, tile)]
<1>1. /\ conn[c].phase # "closed" /\ received' = NoFrame /\ requested' = requested
      /\ IF Exists(u) THEN SetStream(u, stream) ELSE UNCHANGED streams
  BY DEF ProcessTile
<1>2. CASE Exists(u)
  <2>1. u \in Uris /\ StreamTypeOK(streams[u]) /\ (streams[u].buffer.allowed => u \in requested)
    BY <1>1, <1>2, ExistingStream DEF Connections
  <2>2. stream.buffer.allowed = streams[u].buffer.allowed
    BY <2>1, AllowedKept DEF StreamTypeOK
  <2> HIDE DEF stream, u
  <2> QED BY <1>1, <1>2, <2>1, <2>2, SlotStep
<1>3. CASE ~ Exists(u)
  BY <1>1, <1>3, UnchangedStep
<1> QED BY <1>2, <1>3

LEMMA FinishRequestStep ==
  ASSUME Inv, Permitted, NEW c \in Sources, ProcessFrameFinished(c) \/ FinishInNoStream(c)
  PROVE  RequestStep
<1> DEFINE u == conn[c].uri
           stream == [streams[u] EXCEPT !.buffer = FinishFrame(streams[u].buffer, c)]
<1>1. CASE FinishInNoStream(c)
  BY <1>1, UnchangedStep DEF FinishInNoStream
<1>2. CASE ProcessFrameFinished(c)
  <2>1. /\ conn[c].phase # "closed" /\ Exists(u)
        /\ \/ DeleteStream(u, NextFrame(c))
           \/ stream.buffer.allowed /\ SendFrame(u, stream, NextFrame(c))
           \/ SetStream(u, stream) /\ received' = NoFrame /\ requested' = requested
    BY <1>2 DEF ProcessFrameFinished
  <2>2. u \in Uris /\ StreamOK(u, streams[u], conn, sent) /\ c \in Connections
    BY <2>1 DEF Inv, ConnOK, Exists, Connections
  <2>3. StreamTypeOK(streams[u]) /\ (streams[u].buffer.allowed => u \in requested)
    BY <2>1, <2>2, ExistingStream
  <2>4. /\ stream.buffer.allowed = streams[u].buffer.allowed
        /\ DOMAIN stream = {"buffer", "observers"}
    BY <2>3, AllowedKept DEF StreamTypeOK
  <2> HIDE DEF stream, u
  <2>5. CASE stream.buffer.allowed /\ SendFrame(u, stream, NextFrame(c))
    BY <2>3, <2>4, <2>5, SendFramePermitted DEF RequestStep
  <2> QED BY <2>1, <2>2, <2>3, <2>4, <2>5, DeleteStep, SlotStep
<1> QED BY <1>1, <1>2

LEMMA ApplicationRequestStep ==
  ASSUME Inv, Permitted, NEW u \in Uris, RequestFrame(u) \/ ClosePixelStream(u)
  PROVE  RequestStep
<1>1. CASE ClosePixelStream(u)
  BY <1>1, DeleteStep DEF ClosePixelStream
<1>2. CASE RequestFrame(u)
  <2> DEFINE stream == [streams[u] EXCEPT !.buffer = AllowToSend(streams[u].buffer)]
  <2>1. /\ Exists(u)
        /\ \/ SendFrame(u, stream, conn)
           \/ /\ SetStream(u, stream) /\ received' = NoFrame
              /\ requested' = requested \cup {u}
    BY <1>2 DEF RequestFrame
  <2>2. StreamTypeOK(streams[u])
    BY <2>1 DEF Inv, Exists, StreamOK
  <2>3. DOMAIN stream = {"buffer", "observers"}
    BY <2>2 DEF StreamTypeOK
  <2> HIDE DEF stream
  <2>4. CASE SendFrame(u, stream, conn)
    BY <1>2, <2>3, <2>4, SendFramePermitted DEF RequestStep
  <2> QED BY <2>1, <2>4, SlotStep
<1> QED BY <1>1, <1>2

\* receivedFrame is emitted only for a stream whose application has signalled by
\* requestFrame that it is ready, and once per request.
THEOREM OneFramePerRequest == Spec => FrameOnlyOnRequest
<1>1. Init => Permitted
  BY DEF Init, Permitted
<1>2. Inv /\ Permitted /\ [Next]_vars => Permitted'
  <2> SUFFICES ASSUME Inv, Permitted, [Next]_vars PROVE Permitted'
    OBVIOUS
  <2>1. CASE UNCHANGED vars
    BY <2>1 DEF vars, Permitted
  <2>2. CASE Next
    BY <2>2, ConnectionsRequestStep, RemovalsRequestStep, TilesRequestStep, FinishRequestStep,
       ApplicationRequestStep DEF Next, Connections, RequestStep
  <2> QED BY <2>1, <2>2
<1>3. Inv /\ Permitted /\ [Next]_vars
        => [received' # NoFrame => \/ received'.uri \in requested
                                   \/ RequestFrame(received'.uri)]_vars
  <2> SUFFICES ASSUME Inv, Permitted, Next
               PROVE  received' # NoFrame => \/ received'.uri \in requested
                                             \/ RequestFrame(received'.uri)
    OBVIOUS
  <2> QED
    BY ConnectionsRequestStep, RemovalsRequestStep, TilesRequestStep, FinishRequestStep,
       ApplicationRequestStep DEF Next, Connections, RequestStep
<1> QED BY <1>1, <1>2, <1>3, Invariance, PTL DEF Spec, FrameOnlyOnRequest

-----------------------------------------------------------------------------
(* Who leaves a complete frame behind that the application waits for       *)

WaitsIn(stream) == stream.buffer.allowed /\ HasCompleteFrame(stream.buffer)

\* A step that leaves no such frame behind where there was none.
StrandsNone == \A v \in Uris : FrameWaits(v)' => FrameWaits(v)

\* A source that has not finished a frame completes none.
LEMMA SourceCompletesNone ==
  ASSUME NEW b, BufferTypeOK(b), NEW s \in Sources, NEW sb \in SourceBuffers,
         sb.back = SourceAt(b, s).back, HasCompleteFrame(WithSource(b, s, sb))
  PROVE  HasCompleteFrame(b)
<1> DEFINE b2 == WithSource(b, s, sb)
<1>1. /\ SourcesOf(b2) = SourcesOf(b) \cup {s}
      /\ b2.last = b.last /\ b.last \in Nat
      /\ b2.sources[s] = sb
      /\ \A r \in SourcesOf(b) : r # s => b2.sources[r] = b.sources[r]
  BY WithSourceLemma DEF BufferTypeOK
<1>2. \A r \in SourcesOf(b2) : b2.sources[r].back > b2.last
  BY DEF HasCompleteFrame
<1> HIDE DEF b2
<1>3. SourceAt(b, s).back > b.last
  BY <1>1, <1>2
<1>4. s \in SourcesOf(b)
  BY <1>1, <1>3 DEF SourceAt, NewSourceBuffer
<1> QED BY <1>1, <1>2, <1>3, <1>4 DEF HasCompleteFrame, SourceAt

LEMMA SetStreamStrands ==
  ASSUME NEW u \in Uris, NEW stream, SetStream(u, stream),
         WaitsIn(stream) => FrameWaits(u)
  PROVE  StrandsNone
BY DEF SetStream, StrandsNone, FrameWaits, WaitsIn, Exists

LEMMA DeleteStreamStrands ==
  ASSUME NEW u, NEW others, DeleteStream(u, others)
  PROVE  StrandsNone
BY DEF DeleteStream, StrandsNone, FrameWaits, Exists

LEMMA UnchangedStrands ==
  ASSUME UNCHANGED streams
  PROVE  StrandsNone
BY DEF StrandsNone, FrameWaits, Exists

LEMMA StreamAtWaits ==
  ASSUME NEW u, WaitsIn(StreamAt(u))
  PROVE  FrameWaits(u)
BY DEF WaitsIn, StreamAt, NewStream, NewReceiveBuffer, FrameWaits

LEMMA SendFrameStrands ==
  ASSUME NEW u \in Uris, NEW stream, NEW connections, SendFrame(u, stream, connections),
         DOMAIN stream = {"buffer", "observers"}
  PROVE  StrandsNone
<1>1. PICK n \in LatestFrame(stream.buffer) :
          \/ SetStream(u, [stream EXCEPT !.buffer = Drained(@, n)])
          \/ DeleteStream(u, connections)
  BY DEF SendFrame
<1> DEFINE drained == [stream EXCEPT !.buffer = Drained(@, n)]
<1>2. ~ WaitsIn(drained)
  BY DEF Drained, WaitsIn
<1> HIDE DEF drained
<1>3. CASE SetStream(u, drained)
  BY <1>2, <1>3, SetStreamStrands
<1> QED BY <1>1, <1>3, DeleteStreamStrands DEF drained

LEMMA ConnectionsStrand ==
  ASSUME Inv, NEW c \in Connections, NEW u \in Uris,
         \/ c \in Sources /\ AddSourceToStream(c, u)
         \/ RejectLateSource(c, u)
         \/ AddObserver(c, u)
  PROVE  StrandsNone
<1>1. StreamTypeOK(StreamAt(u))
  BY StreamAtOK DEF StreamOK
<1>2. CASE c \in Sources /\ AddSourceToStream(c, u)
  <2> DEFINE b == StreamAt(u).buffer
             stream == [StreamAt(u) EXCEPT !.buffer = AddSource(b, c)]
  <2>1. SetStream(u, stream)
    BY <1>2 DEF AddSourceToStream
  <2>2. BufferTypeOK(b) /\ SourceAt(b, c) \in SourceBuffers
    BY <1>1, <1>2, SourceAtType DEF StreamTypeOK
  <2>3. AddSource(b, c) = WithSource(b, c, SourceAt(b, c)) /\ AddSource(b, c).allowed = b.allowed
    BY <2>2, AllowedKept DEF AddSource
  <2>4. stream.buffer = AddSource(b, c)
    BY <1>1, BufferReplaced
  <2>5. WaitsIn(stream) => WaitsIn(StreamAt(u))
    BY <1>2, <2>2, <2>3, <2>4, SourceCompletesNone DEF WaitsIn
  <2> HIDE DEF stream
  <2> QED BY <2>1, <2>5, SetStreamStrands, StreamAtWaits
<1>3. CASE RejectLateSource(c, u)
  BY <1>3, UnchangedStrands DEF RejectLateSource
<1>4. CASE AddObserver(c, u)
  <2> DEFINE stream == [StreamAt(u) EXCEPT !.observers = @ + 1]
  <2>1. SetStream(u, stream)
    BY <1>4 DEF AddObserver
  <2>2. stream.buffer = StreamAt(u).buffer
    BY <1>1 DEF StreamTypeOK
  <2> HIDE DEF stream
  <2>3. WaitsIn(stream) => WaitsIn(StreamAt(u))
    BY <2>2 DEF WaitsIn
  <2> QED BY <2>1, <2>3, SetStreamStrands, StreamAtWaits
<1> QED BY <1>2, <1>3, <1>4

\* An observer that leaves takes no source with it.
LEMMA RemoveObserverStrands ==
  ASSUME Inv, NEW c \in Connections, RemoveObserver(c) \/ RemoveFromNoStream(c)
  PROVE  StrandsNone
<1>1. CASE RemoveFromNoStream(c)
  BY <1>1, UnchangedStrands DEF RemoveFromNoStream
<1>2. CASE RemoveObserver(c)
  <2> DEFINE u == conn[c].uri
             stream == [streams[u] EXCEPT !.observers = IF @ > 0 THEN @ - 1 ELSE 0]
             others == [conn EXCEPT ![c] = Closed]
  <2>1. Exists(u) /\ (DeleteStream(u, others) \/ SetStream(u, stream))
    BY <1>2 DEF RemoveObserver, WithoutObserver, KeepOrDelete
  <2>2. u \in Uris /\ StreamTypeOK(streams[u])
    BY <1>2 DEF RemoveObserver, Inv, ConnOK, StreamOK, Exists
  <2>3. stream.buffer = streams[u].buffer
    BY <2>2 DEF StreamTypeOK
  <2> HIDE DEF stream, others
  <2>4. WaitsIn(stream) => FrameWaits(u)
    BY <2>1, <2>3 DEF WaitsIn, FrameWaits
  <2> QED BY <2>1, <2>2, <2>4, SetStreamStrands, DeleteStreamStrands
<1> QED BY <1>1, <1>2

LEMMA FramesStrand ==
  ASSUME Inv, NEW c \in Sources,
         \/ \E order \in RowOrders : ProcessTile(c, order)
         \/ ProcessFrameFinished(c) \/ FinishInNoStream(c)
  PROVE  StrandsNone
<1> DEFINE u == conn[c].uri
           b == streams[u].buffer
<1>1. c \in Connections
  BY DEF Connections
<1>2. conn[c].phase # "closed" /\ Exists(u) => u \in Uris /\ StreamTypeOK(streams[u])
  BY <1>1 DEF Inv, ConnOK, StreamOK, Exists
<1>3. ASSUME NEW order \in RowOrders, ProcessTile(c, order)
      PROVE  StrandsNone
  <2> DEFINE tile == [source |-> c, frame |-> conn[c].frame, order |-> order]
             stream == [streams[u] EXCEPT !.buffer = Insert(b, c, tile)]
  <2>1. conn[c].phase # "closed"
        /\ IF Exists(u) THEN SetStream(u, stream) ELSE UNCHANGED streams
    BY <1>3 DEF ProcessTile
  <2>2. CASE Exists(u)
    <3>1. u \in Uris /\ StreamTypeOK(streams[u]) /\ BufferTypeOK(b)
      BY <1>2, <2>1, <2>2 DEF StreamTypeOK
    <3>2. SourceAt(b, c) \in SourceBuffers
      BY <3>1, SourceAtType
    <3>3. InsertTile(SourceAt(b, c), tile) \in SourceBuffers
          /\ InsertTile(SourceAt(b, c), tile).back = SourceAt(b, c).back
      <4>1. StreamOK(u, streams[u], conn, sent) /\ ConnOK(conn, sent) /\ ConnectedIn(conn, c, u)
        BY <2>1, <2>2 DEF Inv, Exists, ConnectedIn
      <4>2. Len(SourceAt(b, c).queue) >= 1
        <5>1. SourceOK(u, c, SourceAt(b, c), b.last, conn, sent)
          <6>1. PICK v, s : v = u /\ s = streams[u]
            OBVIOUS
          <6>2. StreamOK(v, s, conn, sent) /\ ConnOK(conn, sent) /\ ConnectedIn(conn, c, v)
            BY <4>1, <6>1
          <6>3. SourceOK(v, c, SourceAt(s.buffer, c), s.buffer.last, conn, sent)
            BY ONLY <6>2, c \in Sources, SourceAtOK
          <6> QED BY <6>1, <6>3
        <5>2. Len(SourceAt(b, c).queue) \in 1 .. MaxQueueSize + 1
          BY <5>1 DEF SourceOK
        <5> QED BY <5>2, BufferAssumption
      <4>3. tile \in Tiles
        BY <1>1, <1>3 DEF ProcessTile, Tiles, Inv, ConnOK, ConnectionStates
      <4> HIDE DEF tile
      <4> QED BY <3>2, <4>2, <4>3, InsertTileLemma
    <3>4. Insert(b, c, tile) = WithSource(b, c, InsertTile(SourceAt(b, c), tile))
          /\ Insert(b, c, tile).allowed = b.allowed
      BY <3>1, AllowedKept DEF Insert
    <3>5. stream.buffer = Insert(b, c, tile)
      BY <3>1, BufferReplaced
    <3>6. WaitsIn(stream) => FrameWaits(u)
      <4>1. WaitsIn(stream) =>
              b.allowed /\ HasCompleteFrame(WithSource(b, c, InsertTile(SourceAt(b, c), tile)))
        BY <3>4, <3>5 DEF WaitsIn
      <4>2. HasCompleteFrame(WithSource(b, c, InsertTile(SourceAt(b, c), tile)))
              => HasCompleteFrame(b)
        BY <3>1, <3>3, SourceCompletesNone
      <4> QED BY <2>2, <4>1, <4>2 DEF FrameWaits
    <3> HIDE DEF stream
    <3> QED BY <2>1, <2>2, <3>1, <3>6, SetStreamStrands
  <2> QED BY <2>1, <2>2, UnchangedStrands
<1>4. CASE FinishInNoStream(c)
  BY <1>4, UnchangedStrands DEF FinishInNoStream
<1>5. CASE ProcessFrameFinished(c)
  <2> DEFINE stream == [streams[u] EXCEPT !.buffer = FinishFrame(b, c)]
  <2>1. /\ conn[c].phase # "closed" /\ Exists(u)
        /\ \/ DeleteStream(u, NextFrame(c))
           \/ SendFrame(u, stream, NextFrame(c))
           \/ SetStream(u, stream) /\ ~ (stream.buffer.allowed /\ HasCompleteFrame(stream.buffer))
    BY <1>5 DEF ProcessFrameFinished
  <2>2. u \in Uris /\ DOMAIN stream = {"buffer", "observers"}
    BY <1>2, <2>1 DEF StreamTypeOK
  <2> HIDE DEF stream, u
  <2> QED BY <2>1, <2>2, DeleteStreamStrands, SendFrameStrands, SetStreamStrands DEF WaitsIn
<1> QED BY <1>3, <1>4, <1>5

LEMMA ApplicationStrands ==
  ASSUME Inv, NEW u \in Uris, RequestFrame(u) \/ ClosePixelStream(u)
  PROVE  StrandsNone
<1>1. CASE ClosePixelStream(u)
  BY <1>1, DeleteStreamStrands DEF ClosePixelStream
<1>2. CASE RequestFrame(u)
  <2> DEFINE stream == [streams[u] EXCEPT !.buffer = AllowToSend(streams[u].buffer)]
  <2>1. /\ Exists(u)
        /\ \/ SendFrame(u, stream, conn)
           \/ SetStream(u, stream) /\ ~ HasCompleteFrame(stream.buffer)
    BY <1>2 DEF RequestFrame
  <2>2. DOMAIN stream = {"buffer", "observers"}
    BY <2>1 DEF Inv, Exists, StreamOK, StreamTypeOK
  <2> HIDE DEF stream
  <2> QED BY <2>1, <2>2, SendFrameStrands, SetStreamStrands DEF WaitsIn
<1> QED BY <1>1, <1>2

LEMMA RemoveSourceStrands ==
  ASSUME Inv, NEW c \in Sources, RemoveSourceFromStream(c), NEW v \in Uris,
         FrameWaits(v)', ~ FrameWaits(v)
  PROVE  Connected(c, v)
<1> DEFINE u == conn[c].uri
           stream == [streams[u] EXCEPT !.buffer = RemoveSource(streams[u].buffer, c)]
           others == [conn EXCEPT ![c] = Closed]
<1>1. conn[c].phase # "closed" /\ (DeleteStream(u, others) \/ SetStream(u, stream))
  BY DEF RemoveSourceFromStream, KeepOrDelete
<1> HIDE DEF stream, others
<1>2. CASE DeleteStream(u, others)
  BY <1>2, DeleteStreamStrands DEF StrandsNone
<1>3. CASE SetStream(u, stream)
  <2>1. v # u => (FrameWaits(v)' => FrameWaits(v))
    BY <1>3 DEF SetStream, FrameWaits, Exists
  <2> QED BY <1>1, <2>1 DEF Connected
<1> QED BY <1>1, <1>2, <1>3

\* The one step that leaves behind a complete frame that the application waits for is
\* the removal of a source of that stream (FrameDispatcher::removeSource): whatever
\* other slot completes a frame, or asks for one, passes it on at once.
THEOREM OnlySourcesStrand == Spec => OnlyRemovalStrands
<1>1. Inv /\ [Next]_vars
        => [\A u \in Uris : FrameWaits(u)' /\ ~ FrameWaits(u) =>
              \E c \in Sources : Connected(c, u) /\ RemoveSourceFromStream(c)]_vars
  <2> SUFFICES ASSUME Inv, Next, NEW u \in Uris, FrameWaits(u)', ~ FrameWaits(u)
               PROVE  \E c \in Sources : Connected(c, u) /\ RemoveSourceFromStream(c)
    OBVIOUS
  <2>1. ~ StrandsNone
    BY DEF StrandsNone
  <2>2. \E c \in Sources : RemoveSourceFromStream(c)
    BY <2>1, ConnectionsStrand, RemoveObserverStrands, FramesStrand, ApplicationStrands
    DEF Next, Connections
  <2> QED BY <2>2, RemoveSourceStrands
<1> QED BY <1>1, Invariance, PTL DEF Spec, OnlyRemovalStrands

-----------------------------------------------------------------------------
(* FrameDispatcher implements StreamRegistry: frames apart, a slot of the  *)
(* dispatcher is a step of the registry, or none.                          *)

\* What the registry sees of the connections cn.
View(cn) == [c \in Connections |-> [phase |-> cn[c].phase, uri |-> cn[c].uri]]

RegistryStep == Registry!RegistryNext \/ UNCHANGED Registry!registryVars

LEMMA ViewStates ==
  ASSUME NEW cn \in [Connections -> ConnectionStates]
  PROVE  /\ \A c \in Connections : View(cn)[c].phase = cn[c].phase
         /\ \A c \in Connections : View(cn)[c].uri = cn[c].uri
         /\ \A c \in Connections : \A u : Registry!Connected(c, u) <=> Connected(c, u)
BY DEF View, Registry!Connected, Connected

\* Registry!Close(u, View(cn))
Closing(u, cn) ==
    /\ DOMAIN streams' = DOMAIN streams \ {u}
    /\ View(conn') = [c \in Connections |-> IF View(cn)[c] = [phase |-> "joined", uri |-> u]
                                           THEN [View(cn)[c] EXCEPT !.phase = "stray"]
                                           ELSE View(cn)[c]]

LEMMA CloseStep ==
  ASSUME NEW u, NEW cn \in [Connections -> ConnectionStates], DeleteStream(u, cn)
  PROVE  Closing(u, cn)
<1>1. DOMAIN streams' = DOMAIN streams \ {u}
  BY DEF DeleteStream
<1>2. conn' = [c \in Connections |-> IF cn[c].uri = u /\ cn[c].phase = "joined"
                                     THEN [cn[c] EXCEPT !.phase = "stray"] ELSE cn[c]]
  BY DEF DeleteStream
<1>3. ASSUME NEW c \in Connections
      PROVE  [phase |-> conn'[c].phase, uri |-> conn'[c].uri]
               = IF View(cn)[c] = [phase |-> "joined", uri |-> u]
                 THEN [View(cn)[c] EXCEPT !.phase = "stray"] ELSE View(cn)[c]
  <2>1. cn[c] \in ConnectionStates /\ View(cn)[c] = [phase |-> cn[c].phase, uri |-> cn[c].uri]
    BY DEF View
  <2>2. conn'[c] = IF cn[c].uri = u /\ cn[c].phase = "joined"
                   THEN [cn[c] EXCEPT !.phase = "stray"] ELSE cn[c]
    BY <1>2
  <2> QED BY <2>1, <2>2 DEF ConnectionStates
<1> QED BY <1>1, <1>3 DEF Closing, View

\* A slot that keeps the streams, and of the connections all but the frame number.
LEMMA NothingStep ==
  ASSUME DOMAIN streams' = DOMAIN streams, View(conn') = View(conn)
  PROVE  RegistryStep
BY DEF RegistryStep, Registry!registryVars, View

LEMMA SetStreamDomain ==
  ASSUME NEW u, NEW stream, SetStream(u, stream)
  PROVE  DOMAIN streams' = DOMAIN streams \cup {u}
BY DEF SetStream

\* Joining or being rejected, and staying in the registry whatever frame comes next.
LEMMA ConnectView ==
  ASSUME conn \in [Connections -> ConnectionStates], NEW c \in Connections, NEW u, NEW phase,
         Connect(c, u, phase)
  PROVE  View(conn') = [View(conn) EXCEPT ![c] = [phase |-> phase, uri |-> u]]
BY DEF View, Connect

LEMMA NextFrameView ==
  ASSUME conn \in [Connections -> ConnectionStates], NEW c \in Connections
  PROVE  View(NextFrame(c)) = View(conn)
<1>1. ASSUME NEW d \in Connections
      PROVE  /\ NextFrame(c)[d].phase = conn[d].phase
             /\ NextFrame(c)[d].uri = conn[d].uri
  BY DEF NextFrame, ConnectionStates
<1> QED BY <1>1 DEF View

LEMMA ClosedView ==
  ASSUME conn \in [Connections -> ConnectionStates], NEW c \in Connections
  PROVE  View([conn EXCEPT ![c] = Closed]) = [View(conn) EXCEPT ![c] = Registry!Closed]
BY DEF View, Closed, Registry!Closed, NoUri, Registry!NoUri

LEMMA JoinSteps ==
  ASSUME Inv, NEW c \in Connections, NEW u \in Uris,
         \/ c \in Sources /\ (AddSourceToStream(c, u) \/ RejectLateSource(c, u))
         \/ AddObserver(c, u)
  PROVE  RegistryStep
<1>1. conn \in [Connections -> ConnectionStates]
  BY DEF Inv, ConnOK
<1>2. View(conn)[c].phase = conn[c].phase
  BY <1>1, ViewStates
<1>3. CASE AddSourceToStream(c, u) \/ AddObserver(c, u)
  <2>1. /\ conn[c].phase = "closed"
        /\ Connect(c, u, "joined")
        /\ DOMAIN streams' = DOMAIN streams \cup {u}
    BY <1>3, SetStreamDomain DEF AddSourceToStream, AddObserver
  <2>2. View(conn') = [View(conn) EXCEPT ![c] = [phase |-> "joined", uri |-> u]]
    BY <1>1, <2>1, ConnectView
  <2>3. Registry!Join(c, u)
    BY <1>2, <2>1, <2>2 DEF Registry!Join, View
  <2> QED BY <2>3 DEF RegistryStep, Registry!RegistryNext, Registry!Connections, Connections
<1>4. CASE c \in Sources /\ RejectLateSource(c, u)
  <2>1. /\ conn[c].phase = "closed"
        /\ Connect(c, u, "stray")
        /\ RejectsSources(StreamAt(u).buffer)
        /\ streams' = streams
    BY <1>4 DEF RejectLateSource
  <2>2. View(conn') = [View(conn) EXCEPT ![c] = [phase |-> "stray", uri |-> u]]
    BY <1>1, <2>1, ConnectView
  <2>3. u \in DOMAIN streams
    BY <2>1 DEF RejectsSources, StreamAt, NewStream, NewReceiveBuffer, Exists
  <2>4. Registry!Reject(c, u)
    BY <1>2, <1>4, <2>1, <2>2, <2>3 DEF Registry!Reject, View
  <2> QED BY <2>4 DEF RegistryStep, Registry!RegistryNext, Registry!Connections, Connections
<1> QED BY <1>3, <1>4

LEMMA FrameSteps ==
  ASSUME Inv, NEW c \in Sources,
         \/ \E order \in RowOrders : ProcessTile(c, order)
         \/ ProcessFrameFinished(c)
         \/ FinishInNoStream(c)
  PROVE  RegistryStep
<1> DEFINE u == conn[c].uri
<1>1. conn \in [Connections -> ConnectionStates] /\ c \in Connections
  BY DEF Inv, ConnOK, Connections
<1>2. View(conn)[c].phase = conn[c].phase /\ View(conn)[c].uri = u
  BY <1>1, ViewStates
<1>3. View(NextFrame(c)) = View(conn)
  BY <1>1, NextFrameView
<1>4. CASE \E order \in RowOrders : ProcessTile(c, order)
  <2>1. PICK order \in RowOrders : ProcessTile(c, order)
    BY <1>4
  <2>2. conn' = conn /\ DOMAIN streams' = DOMAIN streams
    <3> DEFINE tile == [source |-> c, frame |-> conn[c].frame, order |-> order]
               stream == [streams[u] EXCEPT !.buffer = Insert(@, c, tile)]
    <3>1. /\ conn' = conn
          /\ IF Exists(u) THEN SetStream(u, stream) ELSE streams' = streams
      BY <2>1 DEF ProcessTile
    <3> HIDE DEF stream
    <3> QED BY <3>1, SetStreamDomain DEF Exists
  <2> QED BY <2>2, NothingStep
<1>5. CASE FinishInNoStream(c)
  BY <1>3, <1>5, NothingStep DEF FinishInNoStream
<1>6. CASE ProcessFrameFinished(c)
  <2>1. /\ conn[c].phase # "closed" /\ u \in DOMAIN streams
        /\ \/ DeleteStream(u, NextFrame(c))
           \/ DOMAIN streams' = DOMAIN streams /\ conn' = NextFrame(c)
    BY <1>6, SetStreamDomain DEF ProcessFrameFinished, SendFrame, Exists
  <2>2. CASE DeleteStream(u, NextFrame(c))
    <3>1. NextFrame(c) \in [Connections -> ConnectionStates]
      BY <1>1, <1>6, NextFrameState DEF ProcessFrameFinished
    <3>2. Closing(u, NextFrame(c))
      BY <2>2, <3>1, CloseStep
    <3>3. Closing(u, conn)
      BY <1>3, <3>2 DEF Closing
    <3>4. Registry!Send(c)
      BY <1>2, <2>1, <3>3
      DEF Registry!Send, Registry!Close, Registry!Connections, Connections, Closing, View
    <3> QED BY <1>1, <3>4 DEF RegistryStep, Registry!RegistryNext, Registry!Connections, Connections
  <2>3. CASE DOMAIN streams' = DOMAIN streams /\ conn' = NextFrame(c)
    BY <1>3, <2>3, NothingStep
  <2> QED BY <2>1, <2>2, <2>3
<1> QED BY <1>4, <1>5, <1>6

LEMMA ApplicationSteps ==
  ASSUME Inv, NEW u \in Uris, RequestFrame(u) \/ ClosePixelStream(u)
  PROVE  RegistryStep
<1>1. conn \in [Connections -> ConnectionStates]
  BY DEF Inv, ConnOK
<1>2. \/ DeleteStream(u, conn) /\ Exists(u)
      \/ DOMAIN streams' = DOMAIN streams /\ conn' = conn
  <2>1. CASE RequestFrame(u)
    <3> DEFINE stream == [streams[u] EXCEPT !.buffer = AllowToSend(streams[u].buffer)]
    <3>1. Exists(u) /\ (SendFrame(u, stream, conn) \/ (SetStream(u, stream) /\ conn' = conn))
      BY <2>1 DEF RequestFrame
    <3> HIDE DEF stream
    <3> QED BY <3>1, SetStreamDomain DEF SendFrame, Exists
  <2>2. CASE ClosePixelStream(u)
    BY <2>2 DEF ClosePixelStream, Inv, AppViewAccurate
  <2> QED BY <2>1, <2>2
<1>3. CASE DeleteStream(u, conn) /\ Exists(u)
  <2>1. Closing(u, conn)
    BY <1>1, <1>3, CloseStep
  <2>2. Registry!AppClose(u)
    BY <1>3, <2>1
    DEF Registry!AppClose, Registry!Close, Registry!Connections, Connections, Closing, View, Exists
  <2> QED BY <2>2 DEF RegistryStep, Registry!RegistryNext
<1>4. CASE DOMAIN streams' = DOMAIN streams /\ conn' = conn
  BY <1>4, NothingStep
<1> QED BY <1>2, <1>3, <1>4

\* Every stream there is has a connection.
LEMMA StreamHasConnection ==
  ASSUME NEW u, NEW stream, NEW cn, NEW st,
         StreamOK(u, stream, cn, st), ~ AllConnectionsClosed(stream)
  PROVE  \E d \in Connections : ConnectedIn(cn, d, u)
<1>1. CASE SourcesOf(stream.buffer) # {}
  <2>1. PICK s : s \in SourcesOf(stream.buffer)
    BY <1>1
  <2>2. s \in Sources /\ ConnectedIn(cn, s, u)
    BY <2>1 DEF StreamOK, SourceOK, StreamTypeOK, BufferTypeOK, IsPartialFunction, SourcesOf
  <2> QED BY <2>2 DEF Connections
<1>2. CASE SourcesOf(stream.buffer) = {}
  <2>1. stream.observers \in Nat /\ stream.observers # 0
    BY <1>2 DEF AllConnectionsClosed, StreamOK, StreamTypeOK
  <2>2. stream.observers <= Cardinality(ObserversIn(cn, u))
    BY DEF StreamOK
  <2>3. Cardinality(ObserversIn(cn, u)) # 0
    BY <2>1, <2>2, SMT
  <2>4. ObserversIn(cn, u) # {}
    BY <2>3, FS_EmptySet
  <2> QED BY <2>4 DEF ObserversIn, Connections
<1> QED BY <1>1, <1>2

\* Registry!Forget(c, {})
LEMMA AloneForgotten ==
  ASSUME NEW c \in Connections
  PROVE  /\ [d \in Connections |->
               IF d = c THEN Registry!Closed
               ELSE IF d \in {} /\ View(conn)[d] = [phase |-> "joined", uri |-> View(conn)[c].uri]
                    THEN [View(conn)[d] EXCEPT !.phase = "stray"]
                    ELSE View(conn)[d]]
             = [View(conn) EXCEPT ![c] = Registry!Closed]
         /\ Connections \ ({c} \cup {}) = Connections \ {c}
         /\ Sources \cap (Connections \ ({c} \cup {})) = Sources \ {c}
BY DEF View, Connections

LEMMA LeaveSteps ==
  ASSUME Inv, Inv', NEW c \in Connections,
         \/ c \in Sources /\ RemoveSourceFromStream(c)
         \/ c \in Observers /\ RemoveObserver(c)
         \/ RemoveFromNoStream(c)
  PROVE  RegistryStep
<1> DEFINE u == conn[c].uri
           others == [conn EXCEPT ![c] = Closed]
<1>1. conn \in [Connections -> ConnectionStates] /\ others \in [Connections -> ConnectionStates]
  BY ClosedState DEF Inv, ConnOK
<1>2. /\ conn[c].phase # "closed"
      /\ View(conn)[c].phase = conn[c].phase
      /\ View(conn)[c].uri = u
  BY <1>1, ViewStates DEF RemoveSourceFromStream, RemoveObserver, RemoveFromNoStream
<1>3. View(others) = [View(conn) EXCEPT ![c] = Registry!Closed]
  BY <1>1, ClosedView
<1>4. CASE /\ DOMAIN streams' = DOMAIN streams
           /\ conn' = others
           /\ u \in DOMAIN streams => \E d \in Connections \ {c} : Connected(d, u)
  <2>1. u \in DOMAIN streams => \E d \in Connections \ {c} : Registry!Connected(d, u)
    BY <1>1, <1>4, ViewStates
  <2>2. View(conn') = [View(conn) EXCEPT ![c] = Registry!Closed]
    BY <1>3, <1>4
  <2>3. Registry!Leave(c)
    BY <1>2, <1>4, <2>1, <2>2, AloneForgotten
    DEF Registry!Leave, Registry!Forget, Registry!Joined, Registry!Connections, Connections, View
  <2> QED BY <2>3 DEF RegistryStep, Registry!RegistryNext, Registry!Connections, Connections
<1>5. CASE /\ u \in DOMAIN streams
           /\ DeleteStream(u, others)
           /\ \A s \in Sources \ {c} : ~ Joined(s, u)
  <2>1. Closing(u, others)
    BY <1>1, <1>5, CloseStep
  <2>2. \A s \in Sources \ {c} : View(conn)[s] # [phase |-> "joined", uri |-> u]
    BY <1>5 DEF Joined, View, Connections
  <2>3. Registry!Leave(c)
    <3> DEFINE m == [View(conn) EXCEPT ![c] = Registry!Closed]
    <3>1. /\ DOMAIN streams' = DOMAIN streams \ {u}
          /\ View(conn') = [d \in Connections |-> IF m[d] = [phase |-> "joined", uri |-> u]
                                                  THEN [m[d] EXCEPT !.phase = "stray"]
                                                  ELSE m[d]]
      BY <1>3, <2>1 DEF Closing
    <3> QED BY <1>2, <1>5, <2>2, <3>1, AloneForgotten
            DEF Registry!Leave, Registry!Forget, Registry!Close, Registry!Joined, Registry!Connections,
                Connections, View
  <2> QED BY <2>3 DEF RegistryStep, Registry!RegistryNext, Registry!Connections, Connections
<1>6. CASE RemoveFromNoStream(c)
  BY <1>4, <1>6 DEF RemoveFromNoStream, Exists
<1>7. ASSUME NEW stream, Exists(u), KeepOrDelete(c, u, stream),
             SourcesOf(streams[u].buffer) \ {c} \subseteq SourcesOf(stream.buffer)
      PROVE  RegistryStep
  <2>1. CASE AllConnectionsClosed(stream) /\ DeleteStream(u, others)
    <3>1. SourcesOf(streams[u].buffer) \subseteq {c}
      BY <1>7, <2>1 DEF AllConnectionsClosed
    <3>2. \A s \in Sources \ {c} : ~ Joined(s, u)
      BY <1>7, <3>1 DEF Inv, StreamOK, Joined, Exists
    <3> QED BY <1>5, <1>7, <2>1, <3>2 DEF Exists
  <2>2. CASE SetStream(u, stream) /\ conn' = others
    <3>1. DOMAIN streams' = DOMAIN streams /\ u \in DOMAIN streams
      BY <1>7, <2>2, SetStreamDomain DEF Exists
    <3>2. PICK d \in Connections : ConnectedIn(conn', d, u)
      <4>1. StreamOK(u, streams'[u], conn', sent') /\ ~ AllConnectionsClosed(streams'[u])
        BY <3>1 DEF Inv
      <4> QED BY <4>1, StreamHasConnection
    <3>3. d # c
      BY <1>1, <2>2, <3>2 DEF ConnectedIn, Closed
    <3>4. Connected(d, u)
      BY <1>1, <2>2, <3>2, <3>3 DEF ConnectedIn, Connected
    <3> QED BY <1>4, <2>2, <3>1, <3>3, <3>4
  <2> QED BY <1>7, <2>1, <2>2 DEF KeepOrDelete
<1>8. CASE RemoveSourceFromStream(c)
  <2> DEFINE stream == [streams[u] EXCEPT !.buffer = RemoveSource(streams[u].buffer, c)]
  <2>1. Exists(u) /\ KeepOrDelete(c, u, stream)
    BY <1>8 DEF RemoveSourceFromStream
  <2>2. StreamTypeOK(streams[u])
    <3>1. u \in DOMAIN streams
      BY <2>1 DEF Exists
    <3>2. StreamOK(u, streams[u], conn, sent)
      BY <3>1 DEF Inv
    <3> QED BY <3>2 DEF StreamOK
  <2>3. SourcesOf(stream.buffer) = SourcesOf(streams[u].buffer) \ {c}
    BY <2>2 DEF StreamTypeOK, BufferTypeOK, RemoveSource, SourcesOf
  <2> HIDE DEF stream
  <2> QED BY <1>7, <2>1, <2>3
<1>9. CASE RemoveObserver(c)
  <2> DEFINE stream == WithoutObserver(streams[u])
  <2>1. Exists(u) /\ KeepOrDelete(c, u, stream)
    BY <1>9 DEF RemoveObserver
  <2>2. StreamTypeOK(streams[u])
    BY <2>1 DEF Exists, Inv, StreamOK
  <2>3. SourcesOf(stream.buffer) = SourcesOf(streams[u].buffer)
    BY <2>2 DEF StreamTypeOK, WithoutObserver
  <2> HIDE DEF stream
  <2> QED BY <1>7, <2>1, <2>3
<1> QED BY <1>6, <1>8, <1>9

\* Whatever frames do, streams open and close as StreamRegistry says, and as Server
\* relies on: FrameDispatcher implements StreamRegistry.
THEOREM DispatcherImplementsRegistry == Spec => ImplementsRegistry
<1>1. Init => Registry!RegistryInit
  <2> SUFFICES ASSUME Init PROVE Registry!RegistryInit
    OBVIOUS
  <2>1. DOMAIN streams = {}
    BY DEF Init
  <2>2. ASSUME NEW c \in Connections
        PROVE  [phase |-> conn[c].phase, uri |-> conn[c].uri] = Registry!Closed
    BY <2>2 DEF Init, Closed, Registry!Closed, NoUri, Registry!NoUri
  <2> QED BY <2>1, <2>2 DEF Registry!RegistryInit, Registry!Connections, Connections
<1>2. Inv /\ Inv' /\ [Next]_vars => [Registry!RegistryNext]_(Registry!registryVars)
  <2> SUFFICES ASSUME Inv, Inv', [Next]_vars PROVE RegistryStep
    BY DEF RegistryStep
  <2>1. CASE UNCHANGED vars
    BY <2>1, NothingStep DEF vars
  <2>2. ASSUME NEW c \in Sources, NEW u \in Uris, AddSourceToStream(c, u) \/ RejectLateSource(c, u)
        PROVE  RegistryStep
    BY <2>2, JoinSteps DEF Connections
  <2>3. ASSUME NEW c \in Observers, NEW u \in Uris, AddObserver(c, u)
        PROVE  RegistryStep
    BY <2>3, JoinSteps DEF Connections
  <2>4. ASSUME NEW c \in Sources, RemoveSourceFromStream(c)
        PROVE  RegistryStep
    BY <2>4, LeaveSteps DEF Connections
  <2>5. ASSUME NEW c \in Observers, RemoveObserver(c)
        PROVE  RegistryStep
    BY <2>5, LeaveSteps DEF Connections
  <2>6. ASSUME NEW c \in Connections, RemoveFromNoStream(c)
        PROVE  RegistryStep
    BY <2>6, LeaveSteps
  <2>7. ASSUME NEW c \in Sources,
               \/ \E order \in RowOrders : ProcessTile(c, order)
               \/ ProcessFrameFinished(c)
               \/ FinishInNoStream(c)
        PROVE  RegistryStep
    BY <2>7, FrameSteps
  <2>8. ASSUME NEW u \in Uris, RequestFrame(u) \/ ClosePixelStream(u)
        PROVE  RegistryStep
    BY <2>8, ApplicationSteps
  <2> QED BY <2>1, <2>2, <2>3, <2>4, <2>5, <2>6, <2>7, <2>8 DEF Next
<1> QED BY <1>1, <1>2, Invariance, PTL DEF Spec, ImplementsRegistry, Registry!RegistrySpec
=============================================================================
