---------------------------- MODULE TileDecoder ----------------------------
(***************************************************************************)
(* A decoder of tiles (deflect/server/TileDecoder.cpp over                 *)
(* ImageJpegDecompressor.cpp), as an application that shows frames uses it:*)
(* its main thread decodes a tile itself, or starts the decoding in the    *)
(* pool's thread and waits for it later.                                   *)
(*                                                                         *)
(* One decompressor, with one handle of libjpeg-turbo, serves both threads.*)
(* The application is outside of the repository.  It keeps what the header *)
(* asks for: a tile is not touched until its decoding has completed; and,  *)
(* as the tests do, it decodes a tile itself only then.                    *)
(***************************************************************************)
EXTENDS Naturals

CONSTANTS
  Tiles,     \* where the application keeps the tiles of its frames
  Contents,  \* what a tile may be when the server hands it over
  Pool       \* the threads of Qt's global pool

ASSUME DecoderAssumption ==
    /\ "main" \notin Pool
    /\ \A content \in Contents :
         /\ content \in [width : Nat, height : Nat, format : {content.format},
                         imageData : {content.imageData}]
         /\ content.format = "jpeg" => /\ content.imageData.width \in Nat
                                       /\ content.imageData.height \in Nat

VARIABLES
  tiles,     \* each Tile: dimensions, format and image data
  calls,     \* the call to _decodeTile each thread is in, if any
  future,    \* decodingFuture
  started,   \* history: the tile whose decoding was started last, with its
             \* contents then
  waiting    \* is the main thread in waitDecoding?

decoderVars == <<tiles, calls, future, started, waiting>>

DecoderThreads == {"main"} \cup Pool

Idle == [at |-> "idle"]

DecoderInit ==
    /\ tiles \in [Tiles -> Contents]
    /\ calls = [t \in DecoderThreads |-> Idle]
    /\ future = "none"
    /\ started = <<>>
    /\ waiting = FALSE

-----------------------------------------------------------------------------
(* ImageJpegDecompressor                                                   *)

(* The chroma subsamplings that are known, and how many pixels share a     *)
(* sample.  A gray image has none of them.                                 *)
Samplings == {"yuv444", "yuv422", "yuv420"}

(* decompressHeader: it throws for data that is not JPEG, and for a        *)
(* subsampling that is not known.                                          *)
HeaderThrows(data) == ~data.header \/ data.sampling \notin Samplings

(* What decompress returns: four bytes a pixel.                            *)
Decompressed(data) == [kind |-> "rgba", size |-> 4 * data.width * data.height]

Half(n) == (n + 1) \div 2

(* What decompressToYUV returns: the planes of the colours are rounded up. *)
Planes(data) ==
    [kind |-> data.sampling,
     size |-> data.width * data.height + 2 *
       CASE data.sampling = "yuv444" -> data.width * data.height
         [] data.sampling = "yuv422" -> Half(data.width) * data.height
         [] data.sampling = "yuv420" -> Half(data.width) * Half(data.height)]

(* _getExpectedSize                                                        *)
ExpectedSize(format, tile) ==
    LET pixels == tile.width * tile.height IN
    CASE format = "rgba"   -> pixels * 4
      [] format = "yuv444" -> pixels * 3
      [] format = "yuv422" -> pixels * 2
      [] format = "yuv420" -> pixels + pixels \div 2
      [] OTHER             -> 0

-----------------------------------------------------------------------------
(* _decodeTile, in either thread                                           *)

Begin(t, tile, toYUV) ==
    calls' = [calls EXCEPT ![t] = [at |-> "begin", tile |-> tile,
                                   toYUV |-> toYUV]]

(* A thread of the pool keeps an exception in the future; the main thread gets*)
(* it at once.                                                             *)
(* Mutant: the future does not know of it.                                 *)
Throw_Swallowed(t) ==
    /\ calls' = [calls EXCEPT ![t] = Idle]
    /\ future' = IF t \in Pool THEN "finished" ELSE future
    /\ UNCHANGED tiles

Throw(t) ==
    /\ calls' = [calls EXCEPT ![t] = Idle]
    /\ future' = IF t \in Pool THEN "exception" ELSE future
    /\ UNCHANGED tiles

Return(t) ==
    /\ calls' = [calls EXCEPT ![t] = Idle]
    /\ future' = IF t \in Pool THEN "finished" ELSE future

Continue(t, next) ==
    /\ calls' = [calls EXCEPT ![t] = next]
    /\ UNCHANGED <<tiles, future>>

(* A tile that is not JPEG stays as it is.                                 *)
LookAtFormat(t) ==
    /\ calls[t].at = "begin"
    /\ IF tiles[calls[t].tile].format # "jpeg"
       THEN Return(t) /\ UNCHANGED tiles
       ELSE Continue(t, [calls[t] EXCEPT !.at = "header"])

DecompressHeader(t) ==
    /\ calls[t].at = "header"
    /\ IF HeaderThrows(tiles[calls[t].tile].imageData)
       THEN Throw(t)
       ELSE Continue(t, [calls[t] EXCEPT !.at = "image"])

DecompressImage(t) ==
    /\ calls[t].at = "image"
    /\ LET data == tiles[calls[t].tile].imageData IN
       IF ~data.image
       THEN Throw(t)
       ELSE Continue(t, [at |-> "store", tile |-> calls[t].tile,
                         decoded |-> IF calls[t].toYUV THEN Planes(data)
                                                       ELSE Decompressed(data)])

Store(t) ==
    /\ calls[t].at = "store"
    /\ LET decoded == calls[t].decoded
           tile == calls[t].tile IN
       IF decoded.size # ExpectedSize(decoded.kind, tiles[tile])
       THEN Throw(t)
       ELSE /\ tiles' = [tiles EXCEPT ![tile].imageData = decoded,
                                      ![tile].format = decoded.kind]
            /\ Return(t)

DecodeTile(t) ==
    /\ LookAtFormat(t) \/ DecompressHeader(t) \/ DecompressImage(t) \/ Store(t)
    /\ UNCHANGED <<started, waiting>>

-----------------------------------------------------------------------------
(* The main thread                                                         *)

IsRunning == future = "running"

MainIsFree == ~waiting /\ calls["main"] = Idle

Decode(tile) ==
    /\ MainIsFree /\ ~IsRunning
    /\ Begin("main", tile, FALSE)
    /\ UNCHANGED <<tiles, future, started, waiting>>

DecodeToYUV(tile) ==
    /\ MainIsFree /\ ~IsRunning
    /\ Begin("main", tile, TRUE)
    /\ UNCHANGED <<tiles, future, started, waiting>>

(* A request is dropped while another one is being processed.              *)
StartDecoding(tile) ==
    /\ MainIsFree
    /\ ~IsRunning
    /\ future' = "running"
    /\ \E t \in Pool : calls[t] = Idle /\ Begin(t, tile, FALSE)
    /\ started' = [tile |-> tile, was |-> tiles[tile]]
    /\ UNCHANGED <<tiles, waiting>>

WaitDecoding ==
    /\ MainIsFree
    /\ waiting' = TRUE
    /\ UNCHANGED <<tiles, calls, future, started>>

(* It throws each time when the future holds an exception.                 *)
WaitReturns ==
    /\ waiting /\ ~IsRunning
    /\ waiting' = FALSE
    /\ UNCHANGED <<tiles, calls, future, started>>

(* The next frame has another tile there.                                  *)
Receive(tile) ==
    /\ MainIsFree /\ ~IsRunning
    /\ \E content \in Contents : tiles' = [tiles EXCEPT ![tile] = content]
    /\ UNCHANGED <<calls, future, started, waiting>>

-----------------------------------------------------------------------------
Main == \E tile \in Tiles :
    Decode(tile) \/ DecodeToYUV(tile) \/ StartDecoding(tile) \/ Receive(tile)

DecoderNext ==
    \/ Main \/ WaitDecoding \/ WaitReturns
    \/ \E t \in DecoderThreads : DecodeTile(t)

DecoderSpec == DecoderInit /\ [][DecoderNext]_decoderVars

-----------------------------------------------------------------------------
(* waitDecoding says what has become of the tile: it throws just when the  *)
(* tile was a JPEG that cannot be decoded or has not the dimensions of the *)
(* tile.                                                                   *)
Decodable(tile) ==
    \/ tile.format # "jpeg"
    \/ LET data == tile.imageData IN
       /\ data.header /\ data.image /\ data.sampling \in Samplings
       /\ data.width * data.height = tile.width * tile.height

WaitTellsOutcome ==
    [][waiting /\ ~waiting' =>
         \/ future = "none"
         \/ future = "finished" /\ Decodable(started.was)
         \/ future = "exception" /\ ~Decodable(started.was)]_decoderVars
=============================================================================
