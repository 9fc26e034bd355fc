------------------------------ MODULE ReceiveBuffer ------------------------------
(***************************************************************************)
(* The buffer in which the server gathers the tiles of one stream, from    *)
(* all its sources, until a frame is complete (deflect/server/             *)
(* ReceiveBuffer.cpp, over one SourceBuffer.cpp per source).               *)
(*                                                                         *)
(* A module of operators on values; FrameDispatcher holds the state.       *)
(*                                                                         *)
(*   source buffer   [queue |-> sequence of frames, back |-> FrameIndex]   *)
(*   buffer          [sources |-> partial function from source ids to      *)
(*                                source buffers,                          *)
(*                    last |-> _lastFrameComplete,                         *)
(*                    allowed |-> _allowedToSend]                          *)
(*                                                                         *)
(* A frame is the set of the tiles received for it: their order in the     *)
(* vector Tiles matters to nobody.  Assertions are compiled out, as in a   *)
(* release build: where the code then writes to an unknown source through  *)
(* std::map::operator[], so does the model.                                *)
(*                                                                         *)
(* An operator named X_Y is X with the defect Y: a wrong X that some       *)
(* property must notice.  No specification uses it.                        *)
(***************************************************************************)
EXTENDS Naturals, Sequences

CONSTANTS
    MaxQueueSize,      \* MAX_QUEUE_SIZE, 150 in the code
    FrameIndexSpan     \* number of values of FrameIndex, 2^32 in the code

ASSUME BufferAssumption == /\ MaxQueueSize \in Nat
                           /\ FrameIndexSpan \in Nat \ {0}

-----------------------------------------------------------------------------
(* SourceBuffer: what one source has sent and nobody has consumed.         *)

NewSourceBuffer == [queue |-> << {} >>, back |-> 0]

\* SourceBuffer::insert: a tile goes to the frame under construction.
InsertTile(sb, tile) ==
    [sb EXCEPT !.queue = [sb.queue EXCEPT ![Len(sb.queue)] = @ \cup {tile}]]

\* SourceBuffer::push: the frame is finished, the next one starts empty.
PushFrame(sb) == [queue |-> Append(sb.queue, {}),
                  back  |-> (sb.back + 1) % FrameIndexSpan]

\* SourceBuffer::pop
PopFront(sb) == [sb EXCEPT !.queue = Tail(@)]

-----------------------------------------------------------------------------
(* ReceiveBuffer                                                           *)

NewReceiveBuffer == [sources |-> << >>, last |-> 0, allowed |-> FALSE]

SourcesOf(b) == DOMAIN b.sources

\* std::map::operator[]: an unknown source is default-constructed.
SourceAt(b, s) == IF s \in SourcesOf(b) THEN b.sources[s] ELSE NewSourceBuffer

WithSource(b, s, sb) ==
    [b EXCEPT !.sources = [r \in DOMAIN @ \cup {s} |-> IF r = s THEN sb ELSE @[r]]]

RejectsSources_Never(b) == FALSE

\* addSource throws for these buffers.
RejectsSources(b) == b.last > 0

\* std::map::emplace has no effect when the source is known.
AddSource(b, s) == WithSource(b, s, SourceAt(b, s))

\* The next sources start with back index 0: so does the buffer, once empty.
RemoveSource(b, s) ==
    LET rest == SourcesOf(b) \ {s}
    IN  [b EXCEPT !.sources = [r \in rest |-> b.sources[r]],
                  !.last = IF rest = {} THEN 0 ELSE @]

Insert(b, s, tile) == WithSource(b, s, InsertTile(SourceAt(b, s), tile))

QueueExceeded_Late(b, s) == Len(SourceAt(b, s).queue) > MaxQueueSize + 1

\* finishFrameForSource throws "maximum queue size exceeded".
QueueExceeded(b, s) == Len(SourceAt(b, s).queue) > MaxQueueSize

FinishFrame(b, s) == WithSource(b, s, PushFrame(SourceAt(b, s)))

\* setAllowedToSend(true): the application is ready for the next frame.
AllowToSend(b) == [b EXCEPT !.allowed = TRUE]

HasCompleteFrame_AnySource(b) == \E s \in SourcesOf(b) : b.sources[s].back > b.last

HasCompleteFrame(b) == /\ SourcesOf(b) # {}
                       /\ \A s \in SourcesOf(b) : b.sources[s].back > b.last

\* One popFrame of a buffer with a complete frame.
PopFrame(b) ==
    [b EXCEPT !.sources = [s \in DOMAIN @ |-> IF @[s].back > b.last
                                              THEN PopFront(@[s])
                                              ELSE @[s]],
              !.last = (@ + 1) % FrameIndexSpan]

PoppedTiles(b) ==
    UNION {Head(b.sources[s].queue) : s \in {r \in SourcesOf(b) : b.sources[r].back > b.last}}

-----------------------------------------------------------------------------
(* consumeLatestFrame pops frames while the buffer has a complete one and  *)
(* keeps the last.  In closed form: the frames up to LatestFrame go, the   *)
(* tiles of LatestFrame are kept.  That this is what the loop does, turn   *)
(* by turn, is an invariant of the dispatcher (DrainIsTheLoop).            *)

\* while (buffer.hasCompleteFrame()) frame->tiles = buffer.popFrame(), once.
PopTurn(turn) == IF HasCompleteFrame(turn.buffer)
                 THEN [buffer |-> PopFrame(turn.buffer), tiles |-> PoppedTiles(turn.buffer)]
                 ELSE turn

\* The newest frame that all the sources have finished: a singleton when the
\* buffer has a complete frame, and empty otherwise.
LatestFrame(b) ==
    {n \in {b.sources[s].back : s \in SourcesOf(b)} :
        /\ n > b.last
        /\ \A s \in SourcesOf(b) : n <= b.sources[s].back}

TilesOfFrame_Accumulated(b, n) ==
    UNION {UNION {b.sources[s].queue[m] : m \in 1 .. n - b.last} : s \in SourcesOf(b)}

TilesOfFrame(b, n) ==
    UNION {b.sources[s].queue[n - b.last] : s \in SourcesOf(b)}

Drained_StillAllowed(b, n) ==
    [sources |-> [s \in SourcesOf(b) |->
                    [b.sources[s] EXCEPT !.queue = SubSeq(@, n - b.last + 1, Len(@))]],
     last    |-> n,
     allowed |-> b.allowed]

Drained(b, n) ==
    [sources |-> [s \in SourcesOf(b) |->
                    [b.sources[s] EXCEPT !.queue = SubSeq(@, n - b.last + 1, Len(@))]],
     last    |-> n,
     allowed |-> FALSE]
=============================================================================
