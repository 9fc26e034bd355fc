-------------------------- MODULE SegmentPipeline --------------------------
(***************************************************************************)
(* The way of an image's pixels, from Stream::send to the tiles of a frame *)
(* of the server.                                                          *)
(*                                                                         *)
(* The application's thread hands images to the send thread; a small one   *)
(* it compresses itself.  The send thread cuts a large image, lets the     *)
(* threads of the pool compress the segments, and sends them in the order  *)
(* in which they come out of a shared queue (ImageSegmenter::generate).    *)
(* View, row order and channel are not part of a segment's message: a      *)
(* message of its own changes them when they differ from the last ones, and*)
(* the server's worker applies the ones it heard last to every tile.       *)
(*                                                                         *)
(* Compression may fail for each segment; the connection may break.        *)
(***************************************************************************)
EXTENDS ImageSegmenter, SequencesExt, Bags

CONSTANTS Images,    \* what the application may send
          MaxImages, \* bound: images in a behaviour
          SmallSize  \* largest side of an image that is sent as one segment

(* An image has pixels: a small one is its first segment, without a look at*)
(* how many there are.                                                     *)
ASSUME ImagesAssumption ==
    Images \subseteq {im \in ImageWrapper : im.width > 0 /\ im.height > 0}

VARIABLES
  images,     \* history: the images the application has sent, in order
  answers,    \* of each image: what its future holds
  requests,   \* the queue of the send thread
  pc,         \* where the send thread is: idle, sending, discarding
  image,      \* the number of the image it generates
  waiting,    \* the segments of that image nobody has compressed yet
  sendQueue,  \* ImageSegmenter::_sendQueue
  left,       \* segments it still has to take from the queue
  result,     \* whether each was handled so far
  current,    \* _currentView, _currentRowOrder and _currentChannel
  connected,  \* the connection of the client to the server
  wire,       \* messages on their way
  active,     \* _activeView, _activeRowOrder and _activeChannel
  tiles       \* the tiles the server's worker has delivered

client == <<images, answers, requests>>
sender == <<pc, image, waiting, sendQueue, left, result, current>>
server == <<active, tiles>>
vars == <<client, sender, connected, wire, server>>

Attributes == [view : Views \ {"side_by_side"}, rowOrder : RowOrders,
               channel : Nat]

Fresh == [view |-> "mono", rowOrder |-> "top_down", channel |-> 0]

Init ==
    /\ images = <<>> /\ answers = <<>> /\ requests = <<>>
    /\ pc = "idle" /\ image = 0 /\ waiting = {} /\ sendQueue = <<>>
    /\ left = 0 /\ result = TRUE
    /\ current = Fresh /\ active = Fresh
    /\ connected = TRUE /\ wire = <<>> /\ tiles = EmptyBag

-----------------------------------------------------------------------------
(* The application's thread                                                *)

CheckParameters(im) ==
    IF im.policy = "on" THEN im.quality \in 1 .. 100
                        ELSE im.pixelFormat = "rgba"

(* A future that is ready when it is returned.                             *)
Ready(value) == answers' = Append(answers, value)

IsSmall(im) == im.width <= SmallSize /\ im.height <= SmallSize

(* A small image becomes a segment here and now; its future is fulfilled   *)
(* before anything is sent.  More than one segment is an error, and so is a*)
(* compression that fails.                                                 *)
SendSmall(im) ==
    IF OddStereo(im) \/ Len(SegmentTasks(im)) > 1
    THEN Ready("exception") /\ UNCHANGED requests
    ELSE \/ /\ Ready("true")
            /\ requests' = Append(requests,
                   [segment |-> SingleSegment(im), image |-> Len(images) + 1])
         \/ /\ im.policy # "off"
            /\ Ready("exception")
            /\ UNCHANGED requests

SendLarge ==
    /\ answers' = Append(answers, "pending")
    /\ requests' = Append(requests, [image |-> Len(images) + 1])

SendImage(im) ==
    /\ Len(images) < MaxImages
    /\ images' = Append(images, im)
    /\ IF ~CheckParameters(im) THEN Ready("exception") /\ UNCHANGED requests
       ELSE IF IsSmall(im) THEN SendSmall(im) ELSE SendLarge
    /\ UNCHANGED <<sender, connected, wire, server>>

-----------------------------------------------------------------------------
(* StreamSendWorker::_sendSegment                                          *)

(* The messages that change what differs from the current attributes.      *)
Change(attribute, to) ==
    IF current[attribute] = to THEN <<>> ELSE <<[set |-> attribute, to |-> to]>>

Changes(segment) ==
    Change("view", segment.view) \o Change("rowOrder", segment.rowOrder)
        \o Change("channel", segment.channel)

TileMessage(segment, k) ==
    [set |-> "tile", x |-> segment.parameters.x, y |-> segment.parameters.y,
     width |-> segment.parameters.width, height |-> segment.parameters.height,
     format |-> segment.format, data |-> segment.data,
     bytes |-> segment.bytes, of |-> k]

AttributesOf(segment) ==
    [view |-> segment.view, rowOrder |-> segment.rowOrder,
     channel |-> segment.channel]

(* A connection that is gone takes no message, and nothing is remembered.  *)
SendSegment(segment, k) ==
    IF connected
    THEN /\ wire' = wire \o Changes(segment) \o <<TileMessage(segment, k)>>
         /\ current' = AttributesOf(segment)
    ELSE UNCHANGED <<wire, current>>

-----------------------------------------------------------------------------
(* The send thread                                                         *)

Answer(k, value) == answers' = [answers EXCEPT ![k] = value]

Answered(value) == IF value THEN "true" ELSE "false"

SendPrepared ==
    /\ pc = "idle" /\ requests # <<>>
    /\ "segment" \in DOMAIN Head(requests)
    /\ SendSegment(Head(requests).segment, Head(requests).image)
    /\ requests' = Tail(requests)
    /\ UNCHANGED <<images, answers, pc, image, waiting, sendQueue, left,
                   result, connected, server>>

(* generate(): an image of two unequal halves throws before anything is    *)
(* started.                                                                *)
Tasks == SegmentTasks(images[image])

RefuseImage ==
    /\ pc = "idle" /\ requests # <<>>
    /\ "segment" \notin DOMAIN Head(requests)
    /\ OddStereo(images[Head(requests).image])
    /\ Answer(Head(requests).image, "exception")
    /\ requests' = Tail(requests)
    /\ UNCHANGED <<images, sender, connected, wire, server>>

(* Compression is asked for explicitly, and done by the threads of a pool. *)
Generate ==
    /\ pc = "idle" /\ requests # <<>>
    /\ "segment" \notin DOMAIN Head(requests)
    /\ image' = Head(requests).image
    /\ requests' = Tail(requests)
    /\ LET im == images[Head(requests).image]
           tasks == SegmentTasks(im) IN
        /\ ~OddStereo(im)
        /\ pc' = IF im.policy = "on" THEN "sending" ELSE "copying"
        /\ waiting' = IF im.policy = "on" THEN DOMAIN tasks ELSE {}
        /\ left' = Len(tasks)
    /\ result' = TRUE
    /\ UNCHANGED <<images, answers, sendQueue, current, connected, wire,
                   server>>

(* MTQueue: its mutex makes each call one step, and nothing limits it.     *)
Enqueue(value) == sendQueue' = Append(sendQueue, value)

Dequeue == sendQueue # <<>> /\ sendQueue' = Tail(sendQueue)

(* _computeJpeg in a thread of the pool, for any segment.                  *)
Compress(n) ==
    /\ n \in waiting
    /\ waiting' = waiting \ {n}
    /\ \E failed \in BOOLEAN : Enqueue([segment |-> n, failed |-> failed])
    /\ UNCHANGED <<client, pc, image, left, result, current, connected, wire,
                   server>>

(* What a finished image leaves behind.                                    *)
Finish(value) ==
    /\ pc' = "idle" /\ image' = 0 /\ result' = TRUE
    /\ Answer(image, value)

Continue ==
    /\ result' = (result /\ connected)
    /\ UNCHANGED <<pc, image, answers>>

(* The loop that handles segments as they arrive in the queue; it goes on  *)
(* when one could not be sent.                                             *)
SendNext ==
    /\ pc = "sending" /\ Dequeue
    /\ ~Head(sendQueue).failed
    /\ SendSegment(Jpeg(images[image], Tasks[Head(sendQueue).segment]), image)
    /\ left' = left - 1
    /\ IF left = 1 THEN Finish(Answered(result /\ connected)) ELSE Continue
    /\ UNCHANGED <<images, requests, waiting, connected, server>>

(* A failed segment is thrown, after the others have been taken out of the *)
(* queue.                                                                  *)
(* Mutant: the failed segment itself is not counted.                       *)
MeetFailure_NotCounted ==
    /\ pc = "sending" /\ Dequeue
    /\ Head(sendQueue).failed
    /\ pc' = "discarding"
    /\ UNCHANGED <<images, answers, requests, image, waiting, left, result,
                   current, connected, wire, server>>

MeetFailure ==
    /\ pc = "sending" /\ Dequeue
    /\ Head(sendQueue).failed
    /\ left' = left - 1
    /\ IF left = 1 THEN Finish("exception")
       ELSE pc' = "discarding" /\ UNCHANGED <<image, answers, result>>
    /\ UNCHANGED <<images, requests, waiting, current, connected, wire,
                   server>>

(* Mutant: the exception is passed on at once.                             *)
Discard_AtOnce ==
    /\ pc = "discarding"
    /\ left' = 0
    /\ Finish("exception")
    /\ UNCHANGED <<images, requests, waiting, sendQueue, current, connected,
                   wire, server>>

Discard ==
    /\ pc = "discarding" /\ Dequeue
    /\ left' = left - 1
    /\ IF left = 1 THEN Finish("exception")
       ELSE UNCHANGED <<pc, image, answers, result>>
    /\ UNCHANGED <<images, requests, waiting, current, connected, wire,
                   server>>

(* A raw image is copied and sent segment by segment, up to the first that *)
(* cannot be sent.                                                         *)
SendRaw ==
    /\ pc = "copying"
    /\ SendSegment(Raw(images[image], Tasks[Len(Tasks) - left + 1]), image)
    /\ left' = IF connected THEN left - 1 ELSE 0
    /\ IF connected /\ left > 1 THEN Continue ELSE Finish(Answered(connected))
    /\ UNCHANGED <<images, requests, waiting, sendQueue, connected, server>>

-----------------------------------------------------------------------------
(* The connection and the server's worker                                  *)

(* What was on its way arrives up to some point: the worker need not read  *)
(* the rest.                                                               *)
Break ==
    /\ connected
    /\ connected' = FALSE
    /\ UNCHANGED <<client, sender, wire, server>>

(* Mutant: right_eye is taken to be out of range.                          *)
KnownView_Exclusive(view) == view \in {"mono", "left_eye"}

KnownView(view) == view \in {"mono", "left_eye", "right_eye"}

KnownRowOrder(order) == order \in RowOrders

IsAttribute(m) ==
    \/ m.set = "view" /\ KnownView(m.to)
    \/ m.set = "rowOrder" /\ KnownRowOrder(m.to)
    \/ m.set = "channel"

ReceiveAttribute ==
    /\ wire # <<>> /\ Head(wire).set # "tile"
    /\ active' = IF IsAttribute(Head(wire))
                 THEN [active EXCEPT ![Head(wire).set] = Head(wire).to]
                 ELSE active
    /\ wire' = Tail(wire)
    /\ UNCHANGED <<client, sender, connected, tiles>>

ParseTile(m) ==
    [x |-> m.x, y |-> m.y, width |-> m.width, height |-> m.height,
     format |-> m.format, data |-> m.data, bytes |-> m.bytes, of |-> m.of,
     view |-> active.view, rowOrder |-> active.rowOrder,
     channel |-> active.channel]

Tiles ==
    [x : Nat, y : Nat, width : Nat, height : Nat, format : Formats,
     data : Nat, bytes : Seq({"r", "g", "b", "a", "x"}),
     of : 1 .. MaxImages, view : Views \ {"side_by_side"},
     rowOrder : RowOrders, channel : Nat]

ReceiveTile ==
    /\ wire # <<>> /\ Head(wire).set = "tile"
    /\ tiles' = tiles (+) SetToBag({ParseTile(Head(wire))})
    /\ wire' = Tail(wire)
    /\ UNCHANGED <<client, sender, connected, active>>

-----------------------------------------------------------------------------
SendThread ==
    \/ SendPrepared \/ RefuseImage \/ Generate
    \/ SendNext \/ MeetFailure \/ Discard \/ SendRaw

Pool == \E n \in waiting : Compress(n)

ServerWorker == ReceiveAttribute \/ ReceiveTile

Next ==
    \/ \E im \in Images : SendImage(im)
    \/ SendThread \/ Pool \/ Break \/ ServerWorker

(* The send thread and the pool's threads run as long as there is work.    *)
Spec == Init /\ [][Next]_vars /\ WF_vars(SendThread) /\ WF_vars(Pool)

-----------------------------------------------------------------------------
(* Every variable has its type.                                            *)
TypeOK ==
    /\ images \in Seq(Images)
    /\ DOMAIN answers = DOMAIN images
    /\ \A k \in DOMAIN answers :
         answers[k] \in {"pending", "true", "false", "exception"}
    /\ pc \in {"idle", "sending", "discarding", "copying"}
    /\ image \in 0 .. Len(images) /\ (pc = "idle") = (image = 0)
    /\ left \in Nat /\ Cardinality(waiting) + Len(sendQueue) \in {0, left}
    /\ result \in BOOLEAN /\ connected \in BOOLEAN
    /\ current \in Attributes /\ active \in Attributes
    /\ \A i \in DOMAIN requests :
         "segment" \in DOMAIN requests[i] => requests[i].segment \in Segments
    /\ IsABag(tiles) /\ BagToSet(tiles) \subseteq Tiles

(* Whatever comes out of the server's end of the connection shows the part *)
(* of the image it says it shows: the pixel at (x + a, y + b) of the stream*)
(* is that pixel of the image, seen by that eye, and each byte of it is    *)
(* taken for the colour that it is.  This is about the offsets of          *)
(* ImageSegmenter, the position the server parses from the message, the    *)
(* compressor's formats, and the check of an image's parameters.           *)
TakenFor(bytes, components) ==
    /\ Len(bytes) = Len(components)
    /\ \A i \in DOMAIN bytes : bytes[i] # "x" => bytes[i] = components[i]

InPlace ==
    \A tile \in BagToSet(tiles) :
      LET im == images[tile.of]
          eye == IF IsStereo(im) /\ tile.view = "right_eye"
                 THEN im.width \div 2 ELSE 0 IN
      /\ tile.data = (tile.y - im.y) * im.width + (tile.x - im.x) + eye
      /\ TakenFor(tile.bytes, Components(im.pixelFormat))

(* Each tile has the attributes of its image, though they travel in other  *)
(* messages than the pixels, are sent only when they change, and segments  *)
(* of two eyes mix in the queue.                                           *)
AttributesTravel ==
    \A tile \in BagToSet(tiles) :
      LET im == images[tile.of] IN
      /\ tile.rowOrder = im.rowOrder
      /\ tile.channel = im.channel
      /\ IF IsStereo(im) THEN tile.view # "mono" ELSE tile.view = im.view

(* The image whose future is true is complete, once the queues are empty   *)
(* and unless the connection broke: the tile that has a pixel of it, and no*)
(* other, is shown to each eye where that pixel belongs, and the frame has *)
(* the dimensions of the image.                                            *)
TilesOf(k, view) ==
    {t \in BagToSet(tiles) : t.of = k /\ t.view = view}

Eyes(im) == IF IsStereo(im) THEN {"left_eye", "right_eye"} ELSE {im.view}

Covers(tile, x, y) ==
    /\ tile.x <= x /\ x < tile.x + tile.width
    /\ tile.y <= y /\ y < tile.y + tile.height

(* Frame::computeDimensions, of the tiles of a channel.                    *)
Dimensions(ts) ==
    [width |-> Max({t.x + t.width : t \in ts} \cup {0}),
     height |-> Max({t.y + t.height : t \in ts} \cup {0})]

ChannelDimensions(channel, ts) ==
    Dimensions({t \in ts : t.channel = channel})

(* The tiles of a frame whose rows go from the bottom to the top change    *)
(* places, within their channel.                                           *)
MirrorTilesPositionsVertically(tile, ts) ==
    [tile EXCEPT !.y = ChannelDimensions(tile.channel, ts).height
                           - tile.y - tile.height]

Shown(tile, ts) ==
    IF tile.rowOrder = "bottom_up" THEN MirrorTilesPositionsVertically(tile, ts)
                                   ELSE tile

(* Where row y of an image is on the screen, if the image is all there is. *)
RowShown(im, y) ==
    IF im.rowOrder = "bottom_up" THEN im.height - 1 - y ELSE im.y + y

Complete ==
    connected /\ pc = "idle" /\ requests = <<>> /\ wire = <<>> =>
      \A k \in DOMAIN images : answers[k] = "true" =>
        LET im == images[k] IN
        \A view \in Eyes(im) :
          LET ts == TilesOf(k, view) IN
          /\ \A x \in 0 .. EyeWidth(im) - 1, y \in 0 .. im.height - 1 :
               \E tile \in ts :
                 /\ tiles[tile] = 1
                 /\ Covers(tile, im.x + x, im.y + y)
                 /\ \A other \in ts :
                      Covers(Shown(other, ts), im.x + x, RowShown(im, y))
                        <=> other = tile
          /\ Dimensions(ts) =
               [width |-> im.x + EyeWidth(im), height |-> im.y + im.height]

(* The two together: what the application sends is what can be shown.      *)
ImagesArrive == InPlace /\ Complete

(* Between two images nothing is left in the queue the pool fills, and no  *)
(* thread is still going to use the segments or the image of the last one, *)
(* also when a segment failed: both live only as long as generate() runs.  *)
NothingLeftBehind ==
    pc = "idle" => sendQueue = <<>> /\ waiting = {} /\ left = 0

(* Every image is answered: neither a failed compression nor a broken      *)
(* connection leaves the send thread waiting for a segment.                *)
GenerateReturns ==
    \A k \in 1 .. MaxImages :
      (k \in DOMAIN images /\ answers[k] = "pending") ~>
        (k \in DOMAIN answers /\ answers[k] # "pending")

=============================================================================
