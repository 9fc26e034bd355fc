------------------------ MODULE SegmentPipelineProofs ------------------------
(***************************************************************************)
(* Proofs about SegmentPipeline: the segments of an image partition it;    *)
(* nothing of an image is left behind when generate() returns              *)
(* (NothingLeftBehind); each tile comes out with the attributes of its     *)
(* image (AttributesTravel); and an image whose future is true is whole    *)
(* where the frame is shown (Complete, and ImagesArrive for the images     *)
(* that can be placed).                                                    *)
(*                                                                         *)
(* The proof has two inductive invariants.  IInv says what each request,   *)
(* segment, message and tile is a copy of: a segment n of an image k.      *)
(* JInv counts: each segment of an image that was taken is waited for, on  *)
(* the wire or arrived, once.  The first part, on the arithmetic of        *)
(* ImageSegmenter, does not depend on either.                              *)
(***************************************************************************)
EXTENDS SegmentPipeline, SequenceTheorems, FiniteSetTheorems, TLAPS

-----------------------------------------------------------------------------
(* The inductive invariant                                                 *)

AttributeNames == {"view", "rowOrder", "channel"}

TasksOf(k) == SegmentTasks(images[k])

\* An image that is cut into segments, and how each of them is sent.
Proper(im) == CheckParameters(im) /\ ~ OddStereo(im)

Copied(im) == im.policy = "off" \/ (im.policy = "auto" /\ ~ IsSmall(im))

SegmentOf(im, n) ==
    IF Copied(im) THEN Raw(im, SegmentTasks(im)[n]) ELSE Jpeg(im, SegmentTasks(im)[n])

\* The message and the tile of segment n of image k.
MessageOf(ims, k, n) == TileMessage(SegmentOf(ims[k], n), k)

TileOf(ims, k, n) ==
    LET s == SegmentOf(ims[k], n) IN
    [x |-> s.parameters.x, y |-> s.parameters.y,
     width |-> s.parameters.width, height |-> s.parameters.height,
     format |-> s.format, data |-> s.data, bytes |-> s.bytes, of |-> k,
     view |-> s.view, rowOrder |-> s.rowOrder, channel |-> s.channel]

IsSegment(ims, k, n) ==
    k \in 1 .. Len(ims) /\ Proper(ims[k]) /\ n \in 1 .. Len(SegmentTasks(ims[k]))

\* What the send thread has still to send: a small image, or one it has to cut.
RequestFits(ims, r) ==
    /\ r.image \in 1 .. Len(ims) /\ CheckParameters(ims[r.image])
    /\ IF "segment" \in DOMAIN r
       THEN /\ IsSegment(ims, r.image, 1) /\ Len(SegmentTasks(ims[r.image])) = 1
            /\ r.segment = SegmentOf(ims[r.image], 1)
       ELSE ~ IsSmall(ims[r.image])

RequestsFit ==
    /\ \E S : requests \in Seq(S)
    /\ \A i \in 1 .. Len(requests) : RequestFits(images, requests[i])

\* The image the send thread is at, the pool that compresses it, and the queue between:
\* what is neither compressed nor taken out of the queue is still to be waited for.
PoolFits ==
    /\ pc \in {"idle", "sending", "discarding", "copying"}
    /\ pc # "idle" => image \in 1 .. Len(images) /\ Proper(images[image])
    /\ pc \in {"sending", "discarding"} =>
          /\ ~ Copied(images[image])
          /\ waiting \in SUBSET (1 .. Len(TasksOf(image)))
          /\ sendQueue \in Seq([segment : 1 .. Len(TasksOf(image)), failed : BOOLEAN])
          /\ Cardinality(waiting) + Len(sendQueue) = left
    /\ pc \in {"idle", "copying"} => waiting = {} /\ sendQueue = << >>
    /\ pc = "copying" => Copied(images[image]) /\ left \in 1 .. Len(TasksOf(image))
    /\ pc = "idle" => left = 0

SetMessages ==
    [set : {"view"}, to : Views \ {"side_by_side"}]
      \cup [set : {"rowOrder"}, to : RowOrders] \cup [set : {"channel"}, to : Nat]

\* A worker with attributes act that has read n messages of w has, of attribute a, the
\* value v: that of the last message that set it, or the one it had.
Hears(act, w, a, n, v) ==
    \/ \E j \in 1 .. n : /\ w[j].set = a /\ w[j].to = v
                         /\ \A k \in j + 1 .. n : w[k].set # a
    \/ act[a] = v /\ \A k \in 1 .. n : w[k].set # a

\* Message i sets an attribute, or is a segment that is heard with its own.
ToldSegment(act, ims, w, i, k, n) ==
    /\ IsSegment(ims, k, n) /\ w[i] = MessageOf(ims, k, n)
    /\ \A a \in AttributeNames : Hears(act, w, a, i, SegmentOf(ims[k], n)[a])

Told(act, ims, w, i) ==
    \/ w[i] \in SetMessages
    \/ \E k \in Nat : \E n \in Nat : ToldSegment(act, ims, w, i, k, n)

\* After all messages of w the worker has the attributes in c.
Sound(act, ims, w, c) ==
    /\ \E S : w \in Seq(S)
    /\ \A i \in 1 .. Len(w) : Told(act, ims, w, i)
    /\ \A a \in AttributeNames : Hears(act, w, a, Len(w), c[a])

\* The send thread knows which attributes the worker will have.
WireFits ==
    /\ current \in Attributes /\ active \in Attributes
    /\ Sound(active, images, wire, current)

TilesFit ==
    \A tile \in BagToSet(tiles) :
        \E k \in Nat : \E n \in Nat : IsSegment(images, k, n) /\ tile = TileOf(images, k, n)

IInv == images \in Seq(Images) /\ RequestsFit /\ PoolFits /\ WireFits /\ TilesFit

-----------------------------------------------------------------------------
(* Arithmetic of a grid                                                    *)

LEMMA TimesMore ==
    ASSUME NEW a \in Nat, NEW b \in Nat, NEW c \in Nat, a < b
    PROVE  a * c + c <= b * c
<1>1. PICK d \in Nat : b = a + 1 + d
  <2>1. b - a - 1 \in Nat /\ b = a + 1 + (b - a - 1)
    OBVIOUS
  <2> QED BY <2>1
<1>2. d * c \in Nat
  OBVIOUS
<1>3. b * c = a * c + c + d * c
  BY <1>1
<1> QED BY <1>2, <1>3

\* A quotient and a remainder are those of the division.
LEMMA Division ==
    ASSUME NEW q \in Nat, NEW c \in Nat, NEW r \in 0 .. c - 1
    PROVE  (q * c + r) % c = r /\ (q * c + r) \div c = q
<1> DEFINE a == q * c + r
           q2 == a \div c
           r2 == a % c
<1>1. a \in Nat /\ c \in Nat \ {0} /\ a = q * c + r
  OBVIOUS
<1> HIDE DEF a
<1>2. q2 \in Nat /\ r2 \in 0 .. c - 1 /\ a = q2 * c + r2
  BY <1>1
<1> HIDE DEF q2, r2
<1>3. CASE q < q2
  <2>1. q * c + c <= q2 * c
    BY <1>2, <1>3, TimesMore
  <2>2. q * c \in Nat /\ q2 * c \in Nat
    BY <1>2
  <2> QED BY <1>1, <1>2, <2>1, <2>2
<1>4. CASE q2 < q
  <2>1. q2 * c + c <= q * c
    BY <1>2, <1>4, TimesMore
  <2>2. q * c \in Nat /\ q2 * c \in Nat
    BY <1>2
  <2> QED BY <1>1, <1>2, <2>1, <2>2
<1>5. CASE q = q2
  <2>1. q * c \in Nat
    OBVIOUS
  <2>2. r = r2
    BY <1>1, <1>2, <1>5, <2>1
  <2> QED BY <1>5, <2>2 DEF a, q2, r2
<1> QED BY <1>2, <1>3, <1>4, <1>5

\* A length cut into count pieces of the length nominal, the last of which may be shorter.
Cut(length, nominal, count, last) ==
    /\ length \in Nat \ {0} /\ nominal \in Nat /\ count \in Nat \ {0} /\ last \in Nat \ {0}
    /\ (count - 1) * nominal + last = length
    /\ count > 1 => nominal > 0 /\ last <= nominal

PieceLength(i, nominal, count, last) == IF i < count - 1 THEN nominal ELSE last

InPiece(x, i, nominal, count, last) ==
    i * nominal <= x /\ x < i * nominal + PieceLength(i, nominal, count, last)

LEMMA CutByCount ==
    ASSUME NEW length \in Nat \ {0}, NEW nominal \in Nat \ {0}
    PROVE  Cut(length, nominal, Count(length, nominal), LastLength(length, nominal))
<1> DEFINE q == length \div nominal
           r == length % nominal
<1>1. q \in Nat /\ r \in 0 .. nominal - 1 /\ length = nominal * q + r
  OBVIOUS
<1> DEFINE c == Count(length, nominal)
           l == LastLength(length, nominal)
<1>2. c \in Nat \ {0} /\ l \in Nat \ {0} /\ l <= nominal /\ c - 1 \in Nat
      /\ \/ r = 0 /\ c = q /\ l = nominal
         \/ r # 0 /\ c = q + 1 /\ l = r
  <2>1. CASE r = 0
    <3>1. c = q /\ l = nominal
      BY <1>1, <2>1 DEF Count, LastLength
    <3> HIDE DEF q, r, c, l
    <3>2. q # 0
      BY <1>1, <2>1
    <3> QED BY <1>1, <2>1, <3>1, <3>2
  <2>2. CASE r # 0
    <3>1. c = q + 1 /\ l = r
      BY <1>1, <2>2 DEF Count, LastLength
    <3> HIDE DEF q, r, c, l
    <3> QED BY <1>1, <2>2, <3>1
  <2> QED BY <2>1, <2>2
<1> HIDE DEF q, r, c, l
<1>3. (c - 1) * nominal + l = length
  <2>1. CASE r = 0
    BY <1>1, <1>2, <2>1
  <2>2. CASE r # 0
    BY <1>1, <1>2, <2>2
  <2> QED BY <2>1, <2>2
<1>4. Cut(length, nominal, c, l)
  BY <1>2, <1>3 DEF Cut
<1> QED BY <1>4 DEF c, l

LEMMA CutInOne ==
    ASSUME NEW length \in Nat \ {0}, NEW nominal \in Nat
    PROVE  Cut(length, nominal, 1, length)
<1>1. (1 - 1) * nominal = 0
  OBVIOUS
<1> QED BY <1>1 DEF Cut

\* Each piece lies within the length, and the last one ends where it ends.
LEMMA PieceInside ==
    ASSUME NEW length, NEW nominal, NEW count, NEW last, Cut(length, nominal, count, last),
           NEW i \in 0 .. count - 1
    PROVE  /\ i * nominal \in Nat /\ PieceLength(i, nominal, count, last) \in Nat \ {0}
           /\ i * nominal + PieceLength(i, nominal, count, last) <= length
           /\ i = count - 1 =>
                i * nominal + PieceLength(i, nominal, count, last) = length
<1>1. /\ length \in Nat \ {0} /\ nominal \in Nat /\ count \in Nat \ {0} /\ last \in Nat \ {0}
      /\ (count - 1) * nominal + last = length
      /\ count > 1 => nominal > 0 /\ last <= nominal
  BY DEF Cut
<1>2. i \in Nat /\ i * nominal \in Nat
  BY <1>1
<1>3. CASE i = count - 1
  BY <1>1, <1>2, <1>3 DEF PieceLength
<1>4. CASE i < count - 1
  <2>1. count - 1 \in Nat
    BY <1>1
  <2>2. i * nominal + nominal <= (count - 1) * nominal
    BY <1>1, <1>2, <1>4, <2>1, TimesMore
  <2>3. (count - 1) * nominal \in Nat
    BY <1>1, <2>1
  <2> QED BY <1>1, <1>2, <1>4, <2>2, <2>3 DEF PieceLength
<1> QED BY <1>1, <1>2, <1>3, <1>4

\* Each place is in a piece, and in one.
LEMMA PieceOf ==
    ASSUME NEW length, NEW nominal, NEW count, NEW last, Cut(length, nominal, count, last),
           NEW x \in 0 .. length - 1
    PROVE  \E i \in 0 .. count - 1 : InPiece(x, i, nominal, count, last)
<1>1. /\ length \in Nat \ {0} /\ nominal \in Nat /\ count \in Nat \ {0} /\ last \in Nat \ {0}
      /\ (count - 1) * nominal + last = length
      /\ count > 1 => nominal > 0 /\ last <= nominal
  BY DEF Cut
<1>2. (count - 1) * nominal \in Nat /\ count - 1 \in 0 .. count - 1 /\ count - 1 \in Nat
  BY <1>1
<1>3. CASE (count - 1) * nominal <= x
  <2>1. InPiece(x, count - 1, nominal, count, last)
    BY <1>1, <1>2, <1>3 DEF InPiece, PieceLength
  <2> QED BY <1>2, <2>1
<1>4. CASE x < (count - 1) * nominal
  <2>1. count > 1 /\ nominal > 0
    <3>1. CASE count = 1
      <4>1. (count - 1) * nominal = 0
        BY <1>1, <3>1
      <4> QED BY <1>4, <4>1
    <3> QED BY <1>1, <3>1
  <2> DEFINE i == x \div nominal
             r == x % nominal
  <2>2. i \in Nat /\ r \in 0 .. nominal - 1 /\ x = nominal * i + r
    BY <1>1, <2>1
  <2> HIDE DEF i, r
  <2>3. i * nominal \in Nat /\ nominal * i = i * nominal
    BY <1>1, <2>2
  <2>4. i < count - 1
    <3>1. CASE i = count - 1
      BY <1>1, <1>2, <1>4, <2>2, <2>3, <3>1
    <3>2. CASE count - 1 < i
      <4>1. (count - 1) * nominal + nominal <= i * nominal
        BY <1>1, <1>2, <2>2, <3>2, TimesMore
      <4> QED BY <1>1, <1>2, <1>4, <2>2, <2>3, <4>1
    <3> QED BY <1>2, <2>2, <3>1, <3>2
  <2>5. InPiece(x, i, nominal, count, last)
    BY <1>1, <2>2, <2>3, <2>4 DEF InPiece, PieceLength
  <2> QED BY <1>1, <2>2, <2>4, <2>5
<1> QED BY <1>2, <1>3, <1>4

LEMMA PiecesApart ==
    ASSUME NEW length, NEW nominal, NEW count, NEW last, Cut(length, nominal, count, last),
           NEW x \in Int, NEW i \in 0 .. count - 1, NEW j \in 0 .. count - 1,
           InPiece(x, i, nominal, count, last), InPiece(x, j, nominal, count, last)
    PROVE  i = j
<1>1. nominal \in Nat /\ count \in Nat \ {0} /\ i \in Nat /\ j \in Nat
  BY DEF Cut
<1>2. ASSUME NEW a \in 0 .. count - 1, NEW b \in 0 .. count - 1, a < b,
             InPiece(x, a, nominal, count, last), InPiece(x, b, nominal, count, last)
      PROVE  FALSE
  <2>1. a \in Nat /\ b \in Nat /\ a < count - 1
    BY <1>1, <1>2
  <2>2. a * nominal + nominal <= b * nominal
    BY <1>1, <1>2, <2>1, TimesMore
  <2>3. x < a * nominal + nominal /\ b * nominal <= x
    BY <1>2, <2>1 DEF InPiece, PieceLength
  <2>4. a * nominal \in Nat /\ b * nominal \in Nat
    BY <1>1, <2>1
  <2> QED BY <1>1, <2>2, <2>3, <2>4
<1>3. ~ (i < j) /\ ~ (j < i)
  BY <1>2
<1> QED BY <1>1, <1>3

-----------------------------------------------------------------------------
(* The segments of an image                                                *)

LEMMA ImageTyped ==
    ASSUME NEW im \in Images
    PROVE  im \in ImageWrapper /\ im.width \in Nat \ {0} /\ im.height \in Nat \ {0}
  BY ImagesAssumption DEF ImageWrapper

LEMMA ImageCut ==
    ASSUME NEW im \in Images, ~ OddStereo(im)
    PROVE  /\ Cut(EyeWidth(im), NominalWidth, CountX(im), LastWidth(im))
           /\ Cut(im.height, NominalHeight, CountY(im), LastHeight(im))
           /\ EyeWidth(im) \in Nat \ {0} /\ im.x \in Nat /\ im.y \in Nat
           /\ CountX(im) \in Nat \ {0} /\ CountY(im) \in Nat \ {0}
<1>1. EyeWidth(im) \in Nat \ {0} /\ im.height \in Nat \ {0}
  BY ImageTyped DEF EyeWidth, OddStereo
<1>2. Segmented => NominalWidth \in Nat \ {0} /\ NominalHeight \in Nat \ {0}
  BY NominalAssumption DEF Segmented
<1>3. /\ Cut(EyeWidth(im), NominalWidth, CountX(im), LastWidth(im))
      /\ Cut(im.height, NominalHeight, CountY(im), LastHeight(im))
  <2>1. CASE Segmented
    BY <1>1, <1>2, <2>1, CutByCount DEF CountX, CountY, LastWidth, LastHeight
  <2>2. CASE ~ Segmented
    BY <1>1, <2>2, CutInOne, NominalAssumption DEF CountX, CountY, LastWidth, LastHeight
  <2> QED BY <2>1, <2>2
<1> QED BY <1>1, <1>3, ImageTyped DEF Cut, ImageWrapper

\* How the rectangles of an eye are numbered, row after row.
Cells(im) == CountX(im) * CountY(im)

Column(im, m) == (m - 1) % CountX(im)

Row(im, m) == (m - 1) \div CountX(im)

LEMMA CellOf ==
    ASSUME NEW im \in Images, ~ OddStereo(im), NEW m \in 1 .. Cells(im)
    PROVE  /\ Column(im, m) \in 0 .. CountX(im) - 1 /\ Row(im, m) \in 0 .. CountY(im) - 1
           /\ m = Row(im, m) * CountX(im) + Column(im, m) + 1
<1> DEFINE cx == CountX(im)
           cy == CountY(im)
           i == Column(im, m)
           j == Row(im, m)
<1>1. cx \in Nat \ {0} /\ cy \in Nat \ {0} /\ cx * cy \in Nat /\ m \in 1 .. cx * cy
  BY ImageCut DEF Cells
<1>2. m - 1 \in Nat /\ i = (m - 1) % cx /\ j = (m - 1) \div cx
  BY <1>1 DEF Column, Row
<1> HIDE DEF cx, cy
<1>3. i \in 0 .. cx - 1 /\ j \in Nat /\ m - 1 = cx * j + i
  BY <1>1, <1>2
<1> HIDE DEF i, j
<1>4. j * cx \in Nat /\ cx * j = j * cx
  BY <1>1, <1>3
<1>5. j < cy
  <2>1. CASE cy < j
    <3>1. cy * cx + cx <= j * cx
      BY <1>1, <1>3, <2>1, TimesMore
    <3> QED BY <1>1, <1>3, <1>4, <3>1
  <2>2. CASE j = cy
    BY <1>1, <1>3, <1>4, <2>2
  <2> QED BY <1>1, <1>3, <2>1, <2>2
<1> QED BY <1>1, <1>3, <1>4, <1>5 DEF cx, cy, i, j

LEMMA CellAt ==
    ASSUME NEW im \in Images, ~ OddStereo(im),
           NEW i \in 0 .. CountX(im) - 1, NEW j \in 0 .. CountY(im) - 1
    PROVE  LET m == j * CountX(im) + i + 1 IN
           m \in 1 .. Cells(im) /\ Column(im, m) = i /\ Row(im, m) = j
<1> DEFINE cx == CountX(im)
           cy == CountY(im)
           a == j * cx + i
<1>1. /\ cx \in Nat \ {0} /\ cy \in Nat \ {0} /\ Cells(im) = cx * cy
      /\ i \in 0 .. cx - 1 /\ j \in 0 .. cy - 1
  BY ImageCut DEF Cells
<1>2. a % cx = i /\ a \div cx = j
  <2> HIDE DEF cx, cy
  <2>1. j \in Nat /\ cx \in Nat
    BY <1>1
  <2>2. (j * cx + i) % cx = i /\ (j * cx + i) \div cx = j
    BY ONLY <1>1, <2>1, Division
  <2> QED BY <2>2
<1>3. a \in Nat /\ a < cx * cy
  <2> HIDE DEF cx, cy
  <2>1. j * cx + cx <= cy * cx
    BY <1>1, TimesMore
  <2>2. j * cx \in Nat /\ cy * cx = cx * cy /\ cx * cy \in Nat
    BY <1>1
  <2> QED BY <1>1, <2>1, <2>2
<1>4. a + 1 - 1 = a /\ j * CountX(im) + i + 1 = a + 1
  BY <1>3
<1>5. a + 1 \in 1 .. Cells(im)
  <2> HIDE DEF a, cx
  <2> QED BY <1>1, <1>3
<1> HIDE DEF a
<1>6. Column(im, a + 1) = i /\ Row(im, a + 1) = j
  <2> DEFINE b == a + 1
  <2>1. b - 1 = a
    BY <1>3
  <2> HIDE DEF b
  <2>2. Column(im, b) = a % cx /\ Row(im, b) = a \div cx
    BY <2>1 DEF Column, Row
  <2> QED BY <1>2, <2>2 DEF b
<1> QED BY <1>4, <1>5, <1>6

\* What is to become segment m of an eye.
Task(im, m, view) ==
    [parameters |-> SegmentParameters(im, Column(im, m), Row(im, m)),
     format |-> "jpeg", data |-> 0, bytes |-> << >>, view |-> view,
     rowOrder |-> im.rowOrder, channel |-> im.channel]

LEMMA ViewTasks ==
    ASSUME NEW im \in Images, ~ OddStereo(im), NEW view
    PROVE  LET s == TasksOfView(im, view) IN
           /\ \E S : s \in Seq(S)
           /\ Len(s) = Cells(im) /\ Cells(im) \in Nat \ {0}
           /\ \A m \in 1 .. Cells(im) : s[m] = Task(im, m, view)
<1> DEFINE s == TasksOfView(im, view)
           S == {Task(im, m, view) : m \in 1 .. Cells(im)}
<1>1. Cells(im) \in Nat \ {0}
  BY ImageCut DEF Cells
<1>2. s = [m \in 1 .. Cells(im) |-> Task(im, m, view)]
  BY DEF TasksOfView, Cells, Task, Column, Row
<1> HIDE DEF s
<1>3. \A m \in 1 .. Cells(im) : s[m] = Task(im, m, view) /\ s[m] \in S
  BY <1>2
<1> HIDE DEF S
<1>4. s \in Seq(S) /\ Len(s) = Cells(im)
  BY <1>1, <1>2, <1>3, IsASeq
<1> QED BY <1>1, <1>3, <1>4 DEF s

\* The rectangle of segment n, and the eye it belongs to.
CellNumber(im, n) == IF n <= Cells(im) THEN n ELSE n - Cells(im)

EyeOf(im, n) ==
    IF ~ IsStereo(im) THEN im.view ELSE IF n <= Cells(im) THEN "left_eye" ELSE "right_eye"

LEMMA TasksAre ==
    ASSUME NEW im \in Images, ~ OddStereo(im)
    PROVE  LET s == SegmentTasks(im) IN
           /\ Cells(im) \in Nat \ {0}
           /\ Len(s) = IF IsStereo(im) THEN Cells(im) + Cells(im) ELSE Cells(im)
           /\ DOMAIN s = 1 .. Len(s)
           /\ \A n \in 1 .. Len(s) : /\ s[n] = Task(im, CellNumber(im, n), EyeOf(im, n))
                                     /\ CellNumber(im, n) \in 1 .. Cells(im)
<1>1. CASE ~ IsStereo(im)
  <2> DEFINE s == TasksOfView(im, im.view)
  <2>1. SegmentTasks(im) = s
    BY <1>1 DEF SegmentTasks
  <2>2. /\ \E S : s \in Seq(S)
        /\ Len(s) = Cells(im) /\ Cells(im) \in Nat \ {0}
        /\ \A m \in 1 .. Cells(im) : s[m] = Task(im, m, im.view)
    BY ViewTasks
  <2> HIDE DEF s
  <2> QED BY <1>1, <2>1, <2>2 DEF CellNumber, EyeOf
<1>2. CASE IsStereo(im)
  <2> DEFINE s == TasksOfView(im, "left_eye")
             r == TasksOfView(im, "right_eye")
             c == Cells(im)
  <2>1. SegmentTasks(im) = s \o r
    BY <1>2 DEF SegmentTasks
  <2>2. /\ \E S : s \in Seq(S)
        /\ Len(s) = c /\ c \in Nat \ {0}
        /\ \A m \in 1 .. c : s[m] = Task(im, m, "left_eye")
    BY ViewTasks
  <2>3. /\ \E S : r \in Seq(S)
        /\ Len(r) = c
        /\ \A m \in 1 .. c : r[m] = Task(im, m, "right_eye")
    BY ViewTasks
  <2> HIDE DEF s, r, c
  <2>4. PICK S : s \in Seq(S)
    BY <2>2
  <2>5. PICK R : r \in Seq(R)
    BY <2>3
  <2>6. s \in Seq(S \cup R) /\ r \in Seq(S \cup R)
    BY <2>4, <2>5
  <2>7. /\ Len(s \o r) = c + c /\ DOMAIN (s \o r) = 1 .. c + c
        /\ \A n \in 1 .. c + c : (s \o r)[n] = IF n <= c THEN s[n] ELSE r[n - c]
    BY <2>2, <2>3, <2>6, ConcatProperties
  <2>8. ASSUME NEW n \in 1 .. c + c
        PROVE  /\ (s \o r)[n] = Task(im, CellNumber(im, n), EyeOf(im, n))
               /\ CellNumber(im, n) \in 1 .. c
    <3>1. CASE n <= c
      <4>1. n \in 1 .. c /\ CellNumber(im, n) = n /\ EyeOf(im, n) = "left_eye"
        BY <1>2, <2>2, <3>1 DEF CellNumber, EyeOf, c
      <4> QED BY <2>2, <2>7, <3>1, <4>1
    <3>2. CASE ~ (n <= c)
      <4>1. n - c \in 1 .. c /\ CellNumber(im, n) = n - c /\ EyeOf(im, n) = "right_eye"
        BY <1>2, <2>2, <3>2 DEF CellNumber, EyeOf, c
      <4> QED BY <2>3, <2>7, <3>2, <4>1
    <3> QED BY <3>1, <3>2
  <2> QED BY <1>2, <2>1, <2>2, <2>7, <2>8 DEF c
<1> QED BY <1>1, <1>2

LEMMA CellCovers ==
    ASSUME NEW im \in Images, ~ OddStereo(im), NEW view, NEW m \in 1 .. Cells(im),
           NEW p, p = Task(im, m, view).parameters
    PROVE  /\ p \in Rectangles /\ p.width > 0 /\ p.height > 0
           /\ im.x <= p.x /\ p.x + p.width <= im.x + EyeWidth(im)
           /\ im.y <= p.y /\ p.y + p.height <= im.y + im.height
           /\ \A x \in Nat : \A y \in Nat :
                 Covers(p, im.x + x, im.y + y) <=>
                    /\ InPiece(x, Column(im, m), NominalWidth, CountX(im), LastWidth(im))
                    /\ InPiece(y, Row(im, m), NominalHeight, CountY(im), LastHeight(im))
<1> DEFINE i == Column(im, m)
           j == Row(im, m)
           nx == NominalWidth
           ny == NominalHeight
           cx == CountX(im)
           cy == CountY(im)
           lx == LastWidth(im)
           ly == LastHeight(im)
<1>1. /\ Cut(EyeWidth(im), nx, cx, lx) /\ Cut(im.height, ny, cy, ly)
      /\ i \in 0 .. cx - 1 /\ j \in 0 .. cy - 1
      /\ im.x \in Nat /\ im.y \in Nat /\ EyeWidth(im) \in Nat /\ im.height \in Nat
  BY ImageCut, CellOf, ImageTyped
<1>2. p = [x |-> im.x + i * nx, y |-> im.y + j * ny,
           width |-> PieceLength(i, nx, cx, lx), height |-> PieceLength(j, ny, cy, ly)]
  BY DEF Task, SegmentParameters, PieceLength
<1> HIDE DEF i, j, nx, ny, cx, cy, lx, ly
<1>3. /\ i * nx \in Nat /\ PieceLength(i, nx, cx, lx) \in Nat \ {0}
      /\ i * nx + PieceLength(i, nx, cx, lx) <= EyeWidth(im)
  BY <1>1, PieceInside
<1>4. /\ j * ny \in Nat /\ PieceLength(j, ny, cy, ly) \in Nat \ {0}
      /\ j * ny + PieceLength(j, ny, cy, ly) <= im.height
  BY <1>1, PieceInside
<1>5. PICK a \in Nat, b \in Nat, v \in Nat \ {0}, w \in Nat \ {0} :
          /\ a = i * nx /\ b = j * ny
          /\ v = PieceLength(i, nx, cx, lx) /\ w = PieceLength(j, ny, cy, ly)
  BY <1>3, <1>4
<1>6. p = [x |-> im.x + a, y |-> im.y + b, width |-> v, height |-> w]
  BY <1>2, <1>5
<1>7. a + v <= EyeWidth(im) /\ b + w <= im.height
  BY <1>3, <1>4, <1>5
<1>8. ASSUME NEW x \in Nat, NEW y \in Nat
      PROVE  Covers(p, im.x + x, im.y + y) <=>
                InPiece(x, i, nx, cx, lx) /\ InPiece(y, j, ny, cy, ly)
  <2>1. Covers(p, im.x + x, im.y + y) <=> a <= x /\ x < a + v /\ b <= y /\ y < b + w
    BY <1>1, <1>6 DEF Covers
  <2> QED BY <1>5, <2>1 DEF InPiece
<1>9. /\ p \in Rectangles /\ p.width > 0 /\ p.height > 0
      /\ im.x <= p.x /\ p.x + p.width <= im.x + EyeWidth(im)
      /\ im.y <= p.y /\ p.y + p.height <= im.y + im.height
  BY <1>1, <1>6, <1>7 DEF Rectangles
<1> QED BY <1>8, <1>9 DEF i, j, nx, ny, cx, cy, lx, ly

\* A segment of an image, with the part of it that it shows.
LEMMA SegmentsWithin ==
    ASSUME NEW im \in Images, ~ OddStereo(im), NEW n \in 1 .. Len(SegmentTasks(im)),
           NEW p, p = SegmentTasks(im)[n].parameters
    PROVE  /\ p \in Rectangles /\ p.width > 0 /\ p.height > 0
           /\ im.x <= p.x /\ p.x + p.width <= im.x + EyeWidth(im)
           /\ im.y <= p.y /\ p.y + p.height <= im.y + im.height
           /\ SegmentTasks(im)[n].view \in Eyes(im)
<1>1. /\ SegmentTasks(im)[n] = Task(im, CellNumber(im, n), EyeOf(im, n))
      /\ CellNumber(im, n) \in 1 .. Cells(im)
  BY TasksAre
<1>2. SegmentTasks(im)[n].view \in Eyes(im)
  BY <1>1 DEF Task, EyeOf, Eyes
<1> QED BY <1>1, <1>2, CellCovers

SegmentShows(im, n, view, x, y) ==
    /\ SegmentTasks(im)[n].view = view
    /\ Covers(SegmentTasks(im)[n].parameters, im.x + x, im.y + y)

\* Each pixel of each eye is in one segment, and in one only.
LEMMA SegmentsCover ==
    ASSUME NEW im \in Images, ~ OddStereo(im), NEW view \in Eyes(im),
           NEW x \in 0 .. EyeWidth(im) - 1, NEW y \in 0 .. im.height - 1
    PROVE  \E n \in 1 .. Len(SegmentTasks(im)) :
             \A o \in 1 .. Len(SegmentTasks(im)) :
                SegmentShows(im, o, view, x, y) <=> o = n
<1> DEFINE s == SegmentTasks(im)
           InX(i) == InPiece(x, i, NominalWidth, CountX(im), LastWidth(im))
           InY(j) == InPiece(y, j, NominalHeight, CountY(im), LastHeight(im))
           c == Cells(im)
<1>1. /\ Cut(EyeWidth(im), NominalWidth, CountX(im), LastWidth(im))
      /\ Cut(im.height, NominalHeight, CountY(im), LastHeight(im))
      /\ EyeWidth(im) \in Nat /\ im.height \in Nat /\ CountX(im) \in Nat
      /\ x \in Nat /\ y \in Nat /\ x \in Int /\ y \in Int
  BY ImageCut, ImageTyped
<1>2. PICK i \in 0 .. CountX(im) - 1 : InX(i)
  BY <1>1, PieceOf
<1>3. PICK j \in 0 .. CountY(im) - 1 : InY(j)
  BY <1>1, PieceOf
<1>4. PICK m \in 1 .. c : m = j * CountX(im) + i + 1 /\ Column(im, m) = i /\ Row(im, m) = j
  BY CellAt
<1>5. ASSUME NEW k \in 1 .. c, InX(Column(im, k)), InY(Row(im, k))
      PROVE  k = m
  <2>1. /\ Column(im, k) \in 0 .. CountX(im) - 1 /\ Row(im, k) \in 0 .. CountY(im) - 1
        /\ k = Row(im, k) * CountX(im) + Column(im, k) + 1
    BY CellOf
  <2>2. Column(im, k) = i
    BY <1>1, <1>2, <1>5, <2>1, PiecesApart
  <2>3. Row(im, k) = j
    BY <1>1, <1>3, <1>5, <2>1, PiecesApart
  <2> QED BY <1>4, <2>1, <2>2, <2>3
<1>6. /\ c \in Nat \ {0}
      /\ Len(s) = IF IsStereo(im) THEN c + c ELSE c
      /\ \A n \in 1 .. Len(s) : /\ s[n] = Task(im, CellNumber(im, n), EyeOf(im, n))
                                /\ CellNumber(im, n) \in 1 .. c
  BY TasksAre
<1>7. ASSUME NEW n \in 1 .. Len(s)
      PROVE  SegmentShows(im, n, view, x, y) <=> CellNumber(im, n) = m /\ EyeOf(im, n) = view
  <2> DEFINE k == CellNumber(im, n)
             p == Task(im, k, EyeOf(im, n)).parameters
  <2>1. s[n].view = EyeOf(im, n) /\ s[n].parameters = p /\ k \in 1 .. c
    <3>1. s[n] = Task(im, k, EyeOf(im, n)) /\ k \in 1 .. c
      BY <1>6
    <3> HIDE DEF k, s, c
    <3> QED BY <3>1 DEF Task
  <2>2. Covers(p, im.x + x, im.y + y) <=> InX(Column(im, k)) /\ InY(Row(im, k))
    <3> HIDE DEF k
    <3>1. k \in 1 .. Cells(im)
      BY <2>1
    <3> QED BY <1>1, <3>1, CellCovers
  <2> HIDE DEF k, p
  <2>3. InX(Column(im, k)) /\ InY(Row(im, k)) <=> k = m
    BY <1>2, <1>3, <1>4, <1>5, <2>1
  <2> QED BY <2>1, <2>2, <2>3 DEF SegmentShows, k
<1> DEFINE n0 == IF IsStereo(im) /\ view = "right_eye" THEN m + c ELSE m
<1>8. n0 \in 1 .. Len(s) /\ CellNumber(im, n0) = m /\ EyeOf(im, n0) = view
  <2> HIDE DEF s, InX, InY
  <2>1. m \in 1 .. Cells(im) /\ c = Cells(im) /\ c \in Nat \ {0}
    BY <1>6
  <2> QED BY <1>6, <2>1 DEF CellNumber, EyeOf, Eyes
<1>9. ASSUME NEW n \in 1 .. Len(s), CellNumber(im, n) = m, EyeOf(im, n) = view
      PROVE  n = n0
  <2> HIDE DEF s, InX, InY
  <2>1. m \in 1 .. Cells(im) /\ c = Cells(im) /\ c \in Nat \ {0}
    BY <1>6
  <2> QED BY <1>6, <1>9, <2>1 DEF CellNumber, EyeOf, Eyes
<1> HIDE DEF n0, s
<1>10. \A o \in 1 .. Len(s) : SegmentShows(im, o, view, x, y) <=> o = n0
  BY <1>7, <1>8, <1>9
<1> QED BY <1>8, <1>10 DEF s

\* So two segments of an image are at different places, or of different eyes.
LEMMA SegmentsDiffer ==
    ASSUME NEW im \in Images, ~ OddStereo(im),
           NEW n \in 1 .. Len(SegmentTasks(im)), NEW o \in 1 .. Len(SegmentTasks(im)),
           SegmentTasks(im)[n].view = SegmentTasks(im)[o].view,
           SegmentTasks(im)[n].parameters.x = SegmentTasks(im)[o].parameters.x,
           SegmentTasks(im)[n].parameters.y = SegmentTasks(im)[o].parameters.y
    PROVE  n = o
<1> DEFINE p == SegmentTasks(im)[n].parameters
           q == SegmentTasks(im)[o].parameters
           view == SegmentTasks(im)[n].view
           x == p.x - im.x
           y == p.y - im.y
<1>1. /\ p \in Rectangles /\ p.width > 0 /\ p.height > 0
      /\ im.x <= p.x /\ p.x + p.width <= im.x + EyeWidth(im)
      /\ im.y <= p.y /\ p.y + p.height <= im.y + im.height
      /\ view \in Eyes(im)
  BY SegmentsWithin
<1>2. q \in Rectangles /\ q.width > 0 /\ q.height > 0
  BY SegmentsWithin
<1>3. p.x = q.x /\ p.y = q.y /\ view = SegmentTasks(im)[o].view
  OBVIOUS
<1>4. im.x \in Nat /\ im.y \in Nat /\ EyeWidth(im) \in Nat /\ im.height \in Nat
  BY ImageCut, ImageTyped
<1> HIDE DEF p, q, view
<1>5. /\ x \in 0 .. EyeWidth(im) - 1 /\ y \in 0 .. im.height - 1
      /\ im.x + x = p.x /\ im.y + y = p.y
  <2>1. p.x \in Nat /\ p.y \in Nat /\ p.width \in Nat /\ p.height \in Nat
    BY <1>1 DEF Rectangles
  <2> DEFINE px == p.x
             py == p.y
             pw == p.width
             ph == p.height
             a == im.x
             b == im.y
             w == EyeWidth(im)
             h == im.height
  <2>2. /\ px \in Nat /\ py \in Nat /\ pw \in Nat \ {0} /\ ph \in Nat \ {0}
        /\ a \in Nat /\ b \in Nat /\ w \in Nat /\ h \in Nat
        /\ a <= px /\ px + pw <= a + w /\ b <= py /\ py + ph <= b + h
    BY ONLY <1>1, <1>4, <2>1
  <2>3. x = px - a /\ y = py - b
    OBVIOUS
  <2> HIDE DEF x, y, px, py, pw, ph, a, b, w, h
  <2>4. x \in 0 .. w - 1 /\ y \in 0 .. h - 1 /\ a + x = px /\ b + y = py
    BY <2>2, <2>3
  <2> QED BY <2>4 DEF px, py, a, b, w, h
<1> HIDE DEF x, y
<1>6. Covers(p, im.x + x, im.y + y) /\ Covers(q, im.x + x, im.y + y)
  <2>1. /\ p.x \in Nat /\ p.y \in Nat /\ p.width \in Nat /\ p.height \in Nat
        /\ q.x \in Nat /\ q.y \in Nat /\ q.width \in Nat /\ q.height \in Nat
    BY <1>1, <1>2 DEF Rectangles
  <2>2. Covers(p, p.x, p.y)
    BY ONLY <1>1, <2>1 DEF Covers
  <2>3. Covers(q, q.x, q.y)
    BY ONLY <1>2, <2>1 DEF Covers
  <2> QED
    BY <1>3, <1>5, <2>2, <2>3
<1>7. SegmentShows(im, n, view, x, y) /\ SegmentShows(im, o, view, x, y)
  BY <1>3, <1>6 DEF SegmentShows, p, q, view
<1> QED BY <1>1, <1>5, <1>7, SegmentsCover

-----------------------------------------------------------------------------
(* A segment and what is sent of it                                        *)

\* A segment has the place and the attributes of its task.
LEMMA SegmentIs ==
    ASSUME NEW im \in Images, Proper(im), NEW n \in 1 .. Len(SegmentTasks(im)),
           NEW s, s = SegmentOf(im, n), NEW task, task = SegmentTasks(im)[n]
    PROVE  /\ s.parameters = task.parameters /\ s.view = task.view
           /\ s.rowOrder = im.rowOrder /\ s.channel = im.channel
           /\ IF Copied(im) THEN s.data = RawOffset(im, task) /\ s.bytes = Components("rgba")
              ELSE s.data = JpegOffset(im, task) /\ s.bytes = TurboJpegFormat(im.pixelFormat)
           /\ task.view \in Eyes(im)
<1>1. /\ task = Task(im, CellNumber(im, n), EyeOf(im, n))
      /\ CellNumber(im, n) \in 1 .. Cells(im) /\ ~ OddStereo(im)
  BY TasksAre DEF Proper
<1>2. /\ task.rowOrder = im.rowOrder /\ task.channel = im.channel
      /\ {"parameters", "format", "data", "bytes", "view", "rowOrder", "channel"}
            \subseteq DOMAIN task
  BY <1>1 DEF Task
<1>3. task.view \in Eyes(im)
  BY <1>1, SegmentsWithin
<1>4. ASSUME NEW format, NEW data, NEW bytes,
             s = [task EXCEPT !.format = format, !.data = data, !.bytes = bytes]
      PROVE  /\ s.parameters = task.parameters /\ s.view = task.view
             /\ s.rowOrder = task.rowOrder /\ s.channel = task.channel
             /\ s.data = data /\ s.bytes = bytes
  BY <1>2, <1>4
<1>5. CASE Copied(im)
  <2>1. s = Raw(im, task)
    BY <1>5 DEF SegmentOf
  <2> QED BY <1>2, <1>3, <1>4, <1>5, <2>1 DEF Raw
<1>6. CASE ~ Copied(im)
  <2>1. s = Jpeg(im, task)
    BY <1>6 DEF SegmentOf
  <2> QED BY <1>2, <1>3, <1>4, <1>6, <2>1 DEF Jpeg
<1> QED BY <1>5, <1>6

LEMMA SegmentTyped ==
    ASSUME NEW im \in Images, Proper(im), NEW n \in 1 .. Len(SegmentTasks(im)),
           NEW s, s = SegmentOf(im, n)
    PROVE  /\ AttributesOf(s) \in Attributes
           /\ [set |-> "view", to |-> s.view] \in SetMessages
           /\ [set |-> "rowOrder", to |-> s.rowOrder] \in SetMessages
           /\ [set |-> "channel", to |-> s.channel] \in SetMessages
           /\ s.view \in Eyes(im) /\ s.rowOrder = im.rowOrder /\ s.channel = im.channel
<1>1. /\ s.view \in Eyes(im) /\ s.rowOrder = im.rowOrder /\ s.channel = im.channel
      /\ im \in ImageWrapper
  BY SegmentIs, ImageTyped
<1>2. s.view \in Views \ {"side_by_side"} /\ s.rowOrder \in RowOrders /\ s.channel \in Nat
  BY <1>1 DEF Eyes, ImageWrapper, IsStereo, Views
<1> QED
  BY <1>1, <1>2 DEF AttributesOf, Attributes, SetMessages

-----------------------------------------------------------------------------
(* What is on the wire                                                     *)

LEMMA HearsPrefix ==
    ASSUME NEW act, NEW w, NEW r, NEW n \in Nat, \A k \in 1 .. n : r[k] = w[k],
           NEW a, NEW v, Hears(act, w, a, n, v)
    PROVE  Hears(act, r, a, n, v)
  BY DEF Hears

LEMMA HearsNext ==
    ASSUME NEW act, NEW w, NEW n \in Nat, NEW a, NEW v, Hears(act, w, a, n, v)
    PROVE  Hears(act, w, a, n + 1, IF w[n + 1].set = a THEN w[n + 1].to ELSE v)
<1>1. CASE w[n + 1].set = a
  <2>1. n + 1 \in 1 .. n + 1 /\ \A k \in n + 1 + 1 .. n + 1 : w[k].set # a
    OBVIOUS
  <2> QED
    BY <1>1, <2>1 DEF Hears
<1>2. CASE w[n + 1].set # a
  <2>1. CASE \E j \in 1 .. n : /\ w[j].set = a /\ w[j].to = v
                               /\ \A k \in j + 1 .. n : w[k].set # a
    <3>1. PICK j \in 1 .. n : /\ w[j].set = a /\ w[j].to = v
                              /\ \A k \in j + 1 .. n : w[k].set # a
      BY <2>1
    <3>2. j \in 1 .. n + 1 /\ \A k \in j + 1 .. n + 1 : k \in j + 1 .. n \/ k = n + 1
      OBVIOUS
    <3>3. \A k \in j + 1 .. n + 1 : w[k].set # a
      BY <1>2, <3>1, <3>2
    <3> QED
      BY <1>2, <3>1, <3>2, <3>3 DEF Hears
  <2>2. CASE act[a] = v /\ \A k \in 1 .. n : w[k].set # a
    <3>1. \A k \in 1 .. n + 1 : k \in 1 .. n \/ k = n + 1
      OBVIOUS
    <3> QED
      BY <1>2, <2>2, <3>1 DEF Hears
  <2> QED
    BY <2>1, <2>2 DEF Hears
<1> QED
  BY <1>1, <1>2

\* The worker reads a message: what it will hear later stays the same.
LEMMA HearsRead ==
    ASSUME NEW S, NEW w \in Seq(S), w # << >>, NEW act, NEW new, NEW a, NEW v,
           NEW n \in 1 .. Len(w), Hears(act, w, a, n, v),
           new[a] = IF w[1].set = a THEN w[1].to ELSE act[a]
    PROVE  Hears(new, Tail(w), a, n - 1, v)
<1> DEFINE t == Tail(w)
<1>1. /\ Len(w) \in Nat /\ n \in Nat /\ n <= Len(w)
      /\ \A i \in 1 .. n - 1 : t[i] = w[i + 1]
  OBVIOUS
<1> HIDE DEF t
<1>2. CASE \E j \in 1 .. n : /\ w[j].set = a /\ w[j].to = v
                             /\ \A k \in j + 1 .. n : w[k].set # a
  <2>1. PICK j \in 1 .. n : /\ w[j].set = a /\ w[j].to = v
                            /\ \A k \in j + 1 .. n : w[k].set # a
    BY <1>2
  <2>2. CASE j = 1
    <3>1. \A k \in 1 .. n - 1 : k + 1 \in j + 1 .. n /\ t[k] = w[k + 1]
      BY <1>1, <2>2
    <3> QED
      BY <2>1, <2>2, <3>1 DEF Hears, t
  <2>3. CASE j > 1
    <3>1. j - 1 \in 1 .. n - 1 /\ t[j - 1] = w[j]
      BY <1>1, <2>3
    <3>2. \A k \in j - 1 + 1 .. n - 1 : k + 1 \in j + 1 .. n /\ t[k] = w[k + 1]
      BY <1>1, <2>3
    <3> QED
      BY <2>1, <3>1, <3>2 DEF Hears, t
  <2> QED
    BY <2>2, <2>3
<1>3. CASE act[a] = v /\ \A k \in 1 .. n : w[k].set # a
  <2>1. \A k \in 1 .. n - 1 : k + 1 \in 1 .. n /\ t[k] = w[k + 1]
    BY <1>1
  <2>2. 1 \in 1 .. n
    BY <1>1
  <2> QED
    BY <1>3, <2>1, <2>2 DEF Hears, t
<1> QED
  BY <1>2, <1>3 DEF Hears

\* What attributes c become with message m.
Sets(c, m, d) == \A a \in AttributeNames : d[a] = IF m.set = a THEN m.to ELSE c[a]

\* One more message, which sets an attribute or is a tile with those of its image.
Segment(ims, m, c, k, n) ==
    /\ IsSegment(ims, k, n) /\ m = MessageOf(ims, k, n)
    /\ \A a \in AttributeNames : SegmentOf(ims[k], n)[a] = c[a]

LEMMA MessageIs ==
    ASSUME NEW ims, NEW k, NEW n
    PROVE  MessageOf(ims, k, n).set = "tile" /\ MessageOf(ims, k, n).of = k
  BY DEF MessageOf, TileMessage

LEMMA SoundAppend ==
    ASSUME NEW act, NEW ims, NEW w, NEW c, Sound(act, ims, w, c), NEW m,
           NEW r, r = w \o << m >>, NEW d, Sets(c, m, d),
           \/ m \in SetMessages
           \/ \E k \in Nat : \E n \in Nat : Segment(ims, m, c, k, n)
    PROVE  Sound(act, ims, r, d)
<1> PICK S : w \in Seq(S)
  BY DEF Sound
<1>1. /\ Len(w) \in Nat /\ r \in Seq(S \cup {m}) /\ Len(r) = Len(w) + 1 /\ r[Len(w) + 1] = m
      /\ \A k \in 1 .. Len(w) : r[k] = w[k]
  <2>1. w \in Seq(S \cup {m}) /\ << m >> \in Seq(S \cup {m})
    OBVIOUS
  <2> QED
    BY <2>1, ConcatProperties
<1>2. \A a \in AttributeNames : Hears(act, r, a, Len(w), c[a])
  BY <1>1, HearsPrefix DEF Sound
<1>3. \A a \in AttributeNames : Hears(act, r, a, Len(r), d[a])
  <2> SUFFICES ASSUME NEW a \in AttributeNames
               PROVE  Hears(act, r, a, Len(r), d[a])
    OBVIOUS
  <2>1. Hears(act, r, a, Len(w) + 1,
              IF r[Len(w) + 1].set = a THEN r[Len(w) + 1].to ELSE c[a])
    BY <1>1, <1>2, HearsNext
  <2>2. d[a] = IF r[Len(w) + 1].set = a THEN r[Len(w) + 1].to ELSE c[a]
    BY <1>1 DEF Sets
  <2> QED
    BY <1>1, <2>1, <2>2
<1>4. ASSUME NEW i \in 1 .. Len(w)
      PROVE  Told(act, ims, r, i)
  <2>1. Told(act, ims, w, i) /\ r[i] = w[i] /\ i \in Nat /\ \A k \in 1 .. i : r[k] = w[k]
    BY <1>1 DEF Sound
  <2>2. \A a, v : Hears(act, w, a, i, v) => Hears(act, r, a, i, v)
    BY <2>1, HearsPrefix
  <2>3. \A k, n : ToldSegment(act, ims, w, i, k, n) => ToldSegment(act, ims, r, i, k, n)
    BY <2>1, <2>2 DEF ToldSegment
  <2> QED
    BY <2>1, <2>3 DEF Told
<1>5. Told(act, ims, r, Len(r))
  <2>1. CASE m \in SetMessages
    BY <1>1, <2>1 DEF Told
  <2>2. CASE \E k \in Nat : \E n \in Nat : Segment(ims, m, c, k, n)
    <3>1. PICK k \in Nat, n \in Nat : Segment(ims, m, c, k, n)
      BY <2>2
    <3> DEFINE s == SegmentOf(ims[k], n)
    <3>2. IsSegment(ims, k, n) /\ m = MessageOf(ims, k, n) /\ m.set = "tile"
      BY <3>1, MessageIs DEF Segment
    <3>3. \A a \in AttributeNames : s[a] = c[a]
      BY <3>1 DEF Segment
    <3> HIDE DEF s
    <3>4. \A a \in AttributeNames : d[a] = s[a]
      BY <3>2, <3>3 DEF AttributeNames, Sets
    <3>5. \A a \in AttributeNames : Hears(act, r, a, Len(r), s[a])
      BY <1>3, <3>4
    <3>6. ToldSegment(act, ims, r, Len(r), k, n)
      BY <1>1, <3>2, <3>5 DEF ToldSegment, s
    <3> QED
      BY <3>6 DEF Told
  <2> QED
    BY <2>1, <2>2
<1>6. \A i \in 1 .. Len(r) : Told(act, ims, r, i)
  <2>1. \A i \in 1 .. Len(r) : i \in 1 .. Len(w) \/ i = Len(r)
    BY <1>1
  <2> QED
    BY <1>4, <1>5, <2>1
<1> QED
  BY <1>1, <1>3, <1>6 DEF Sound


\* A message that is only sent when it says something new.
LEMMA SoundChange ==
    ASSUME NEW act, NEW ims, NEW w, NEW c, Sound(act, ims, w, c),
           NEW a \in AttributeNames, NEW v, c[a] = current[a],
           [set |-> a, to |-> v] \in SetMessages,
           NEW d, d[a] = v, \A b \in AttributeNames \ {a} : d[b] = c[b]
    PROVE  Sound(act, ims, w \o Change(a, v), d)
<1> DEFINE m == [set |-> a, to |-> v]
<1> PICK S : w \in Seq(S)
  BY DEF Sound
<1>1. CASE current[a] = v
  <2>1. w \o Change(a, v) = w
    BY <1>1, ConcatEmptySeq DEF Change
  <2>2. \A b \in AttributeNames : d[b] = c[b]
    BY <1>1
  <2> QED
    BY <2>1, <2>2 DEF Sound
<1>2. CASE current[a] # v
  <2>1. w \o Change(a, v) = w \o << m >>
    BY <1>2 DEF Change
  <2>2. m.set = a /\ m.to = v /\ m \in SetMessages
    OBVIOUS
  <2> HIDE DEF m
  <2>3. Sets(c, m, d)
    BY <2>2 DEF Sets
  <2> DEFINE r == w \o << m >>
  <2>4. r = w \o << m >>
    OBVIOUS
  <2> HIDE DEF r
  <2>5. Sound(act, ims, r, d)
    BY <2>2, <2>3, <2>4, SoundAppend
  <2> QED
    BY <2>1, <2>4, <2>5
<1> QED
  BY <1>1, <1>2

LEMMA SendSegmentFits ==
    ASSUME images \in Seq(Images), WireFits, NEW k, NEW n, IsSegment(images, k, n),
           NEW s, s = SegmentOf(images[k], n), SendSegment(s, k),
           UNCHANGED << images, active >>
    PROVE  WireFits'
<1>1. CASE ~ connected
  BY <1>1 DEF SendSegment, WireFits
<1>2. CASE connected
  <2> DEFINE c0 == current
             c1 == [current EXCEPT !.view = s.view]
             c2 == [c1 EXCEPT !.rowOrder = s.rowOrder]
             c3 == AttributesOf(s)
             u1 == Change("view", s.view)
             u2 == Change("rowOrder", s.rowOrder)
             u3 == Change("channel", s.channel)
             m == TileMessage(s, k)
             w1 == wire \o u1
             w2 == w1 \o u2
             w3 == w2 \o u3
  <2>1. /\ images[k] \in Images /\ Proper(images[k]) /\ k \in Nat /\ n \in Nat
        /\ n \in 1 .. Len(SegmentTasks(images[k]))
    BY DEF IsSegment
  <2>2. /\ c3 \in Attributes
        /\ [set |-> "view", to |-> s.view] \in SetMessages
        /\ [set |-> "rowOrder", to |-> s.rowOrder] \in SetMessages
        /\ [set |-> "channel", to |-> s.channel] \in SetMessages
    BY <2>1, SegmentTyped
  <2>3. /\ c0 \in Attributes /\ Sound(active, images, wire, c0)
    BY DEF WireFits
  <2>4. /\ c1["view"] = s.view /\ c1["rowOrder"] = c0["rowOrder"]
        /\ c1["channel"] = c0["channel"] /\ c2["view"] = s.view
        /\ c2["rowOrder"] = s.rowOrder /\ c2["channel"] = c0["channel"]
        /\ c3["view"] = s.view /\ c3["rowOrder"] = s.rowOrder /\ c3["channel"] = s.channel
    BY <2>3 DEF Attributes, AttributesOf
  <2>5. /\ m = MessageOf(images, k, n)
        /\ wire' = (wire \o ((u1 \o u2) \o u3)) \o << m >>
        /\ current' = c3
    BY <1>2 DEF SendSegment, Changes, MessageOf
  <2> HIDE DEF c1, c2, c3, m
  <2>6. Sound(active, images, w1, c1)
    <3>1. \A b \in AttributeNames \ {"view"} : c1[b] = c0[b]
      BY <2>4 DEF AttributeNames
    <3> QED
      BY <2>2, <2>3, <2>4, <3>1, SoundChange DEF AttributeNames
  <2>7. Sound(active, images, w2, c2)
    <3>1. \A b \in AttributeNames \ {"rowOrder"} : c2[b] = c1[b]
      BY <2>4 DEF AttributeNames
    <3> HIDE DEF w1
    <3> QED
      BY <2>2, <2>4, <2>6, <3>1, SoundChange DEF AttributeNames
  <2>8. Sound(active, images, w3, c3)
    <3>1. \A b \in AttributeNames \ {"channel"} : c3[b] = c2[b]
      BY <2>4 DEF AttributeNames
    <3> HIDE DEF w2
    <3> QED
      BY <2>2, <2>4, <2>7, <3>1, SoundChange DEF AttributeNames
  <2>9. w3 = wire \o ((u1 \o u2) \o u3)
    <3> PICK S : wire \in Seq(S)
      BY <2>3 DEF Sound
    <3> DEFINE T == S \cup SetMessages
    <3>0. \A a, v : [set |-> a, to |-> v] \in SetMessages => Change(a, v) \in Seq(T)
      <4> SUFFICES ASSUME NEW a, NEW v, NEW x, x = [set |-> a, to |-> v], x \in T
                   PROVE  (IF current[a] = v THEN << >> ELSE << x >>) \in Seq(T)
        BY DEF Change
      <4> HIDE DEF T
      <4>1. << >> \in Seq(T) /\ << x >> \in Seq(T)
        OBVIOUS
      <4> QED
        BY <4>1
    <3>1. wire \in Seq(T) /\ u1 \in Seq(T) /\ u2 \in Seq(T) /\ u3 \in Seq(T)
      <4>1. wire \in Seq(T)
        OBVIOUS
      <4> HIDE DEF T
      <4> QED
        BY ONLY <2>2, <3>0, <4>1
    <3> HIDE DEF T, u1, u2, u3
    <3>2. (wire \o u1) \o u2 = wire \o (u1 \o u2)
      BY ONLY <3>1
    <3>3. PICK w \in Seq(T), x \in Seq(T), z \in Seq(T) : w = wire /\ x = u1 \o u2 /\ z = u3
      BY <3>1, ConcatProperties
    <3>4. (w \o x) \o z = w \o (x \o z)
      OBVIOUS
    <3> QED
      BY <3>2, <3>3, <3>4
  <2> HIDE DEF w3
  <2>10. Sound(active, images, wire', c3)
    <3>1. Sets(c3, m, c3)
      BY <2>5, MessageIs DEF AttributeNames, Sets
    <3>2. wire' = w3 \o << m >>
      BY <2>5, <2>9
    <3>3. Segment(images, m, c3, k, n)
      BY <2>4, <2>5 DEF Segment, AttributeNames
    <3> QED
      BY <2>1, <2>8, <3>1, <3>2, <3>3, SoundAppend
  <2> QED
    BY <2>2, <2>5, <2>10 DEF WireFits
<1> QED
  BY <1>1, <1>2


\* The worker reads a message that sets an attribute, or a tile.
LEMMA ReadSound ==
    ASSUME NEW act, NEW ims, NEW w, w # << >>, NEW c, Sound(act, ims, w, c), NEW new,
           \A a \in AttributeNames : new[a] = IF w[1].set = a THEN w[1].to ELSE act[a]
    PROVE  Sound(new, ims, Tail(w), c)
<1> DEFINE t == Tail(w)
<1> PICK S : w \in Seq(S)
  BY DEF Sound
<1>1. /\ Len(w) \in Nat \ {0} /\ t \in Seq(S) /\ Len(t) = Len(w) - 1
      /\ \A i \in 1 .. Len(t) : t[i] = w[i + 1] /\ i + 1 \in 1 .. Len(w)
  BY EmptySeq
<1>2. ASSUME NEW a \in AttributeNames, NEW n \in 1 .. Len(w), NEW v, Hears(act, w, a, n, v)
      PROVE  Hears(new, t, a, n - 1, v)
  BY <1>2, HearsRead
<1> HIDE DEF t
<1>3. ASSUME NEW i \in 1 .. Len(t)
      PROVE  Told(new, ims, t, i)
  <2>1. Told(act, ims, w, i + 1) /\ t[i] = w[i + 1] /\ i + 1 \in 1 .. Len(w)
    BY <1>1 DEF Sound
  <2>2. i + 1 - 1 = i
    OBVIOUS
  <2>3. \A a \in AttributeNames : \A v : Hears(act, w, a, i + 1, v) => Hears(new, t, a, i, v)
    BY <1>2, <2>1, <2>2
  <2>4. \A k, n : ToldSegment(act, ims, w, i + 1, k, n) => ToldSegment(new, ims, t, i, k, n)
    BY <2>1, <2>3 DEF ToldSegment
  <2> QED
    BY <2>1, <2>4 DEF Told
<1>4. \A a \in AttributeNames : Hears(new, t, a, Len(t), c[a])
  <2>1. Len(w) \in 1 .. Len(w)
    BY <1>1
  <2> QED
    BY <1>1, <1>2, <2>1 DEF Sound
<1> QED
  BY <1>1, <1>3, <1>4 DEF Sound, t

LEMMA WireParts ==
    ASSUME WireFits, wire # << >>
    PROVE  /\ Head(wire) = wire[1] /\ Told(active, images, wire, 1)
           /\ \A a \in AttributeNames : \A v : Hears(active, wire, a, 1, v) =>
                 v = IF wire[1].set = a THEN wire[1].to ELSE active[a]
<1>1. PICK S : wire \in Seq(S)
  BY DEF WireFits, Sound
<1>2. 1 \in 1 .. Len(wire) /\ Head(wire) = wire[1]
  BY <1>1, EmptySeq
<1>3. Told(active, images, wire, 1)
  BY <1>2 DEF WireFits, Sound
<1> QED
  BY <1>2, <1>3 DEF Hears

LEMMA ReceiveAttributeFits ==
    ASSUME WireFits, ReceiveAttribute
    PROVE  WireFits'
<1> DEFINE m == wire[1]
<1>1. /\ wire # << >> /\ Head(wire) = m /\ Told(active, images, wire, 1)
      /\ active \in Attributes /\ Sound(active, images, wire, current)
  BY WireParts DEF ReceiveAttribute, WireFits
<1>2. m \in SetMessages
  BY <1>1, MessageIs DEF ReceiveAttribute, Told, ToldSegment
<1>3. IsAttribute(m)
  BY <1>2 DEF SetMessages, IsAttribute, KnownView, KnownRowOrder, Views
<1>4. /\ active' = [active EXCEPT ![m.set] = m.to] /\ wire' = Tail(wire)
      /\ UNCHANGED << images, current >>
  BY <1>1, <1>3 DEF ReceiveAttribute, client, sender
<1> HIDE DEF m
<1>5. active' \in Attributes
  BY <1>1, <1>2, <1>4 DEF SetMessages, Attributes
<1>6. \A a \in AttributeNames : active'[a] = IF m.set = a THEN m.to ELSE active[a]
  BY <1>1, <1>2, <1>4 DEF SetMessages, Attributes, AttributeNames
<1>7. Sound(active', images, Tail(wire), current)
  BY <1>1, <1>6, ReadSound DEF m
<1> QED
  BY <1>4, <1>5, <1>7 DEF WireFits

\* The tile that is heard next is a segment, with the attributes of its own.
LEMMA TileHeard ==
    ASSUME WireFits, ReceiveTile
    PROVE  \E k \in Nat : \E n \in Nat :
             /\ IsSegment(images, k, n) /\ wire[1] = MessageOf(images, k, n)
             /\ ParseTile(wire[1]) = TileOf(images, k, n)
<1> DEFINE m == wire[1]
           tile == ParseTile(m)
<1>1. /\ Told(active, images, wire, 1) /\ m.set = "tile" /\ active \in Attributes
  BY WireParts DEF ReceiveTile, WireFits
<1>2. PICK k \in Nat, n \in Nat : ToldSegment(active, images, wire, 1, k, n)
  BY <1>1 DEF Told, SetMessages
<1>3. /\ IsSegment(images, k, n) /\ m = MessageOf(images, k, n)
      /\ \A a \in AttributeNames : Hears(active, wire, a, 1, SegmentOf(images[k], n)[a])
  BY <1>2 DEF ToldSegment
<1>4. tile = TileOf(images, k, n)
  <2> DEFINE s == SegmentOf(images[k], n)
  <2>1. \A a \in AttributeNames : s[a] = active[a]
    BY <1>1, <1>3, WireParts DEF AttributeNames, ReceiveTile
  <2>2. s.view = active.view /\ s.rowOrder = active.rowOrder /\ s.channel = active.channel
    BY <2>1 DEF AttributeNames
  <2> QED
    BY <1>3, <2>2 DEF ParseTile, MessageOf, TileMessage, TileOf
<1> QED
  BY <1>3, <1>4

LEMMA ReceiveTileFits ==
    ASSUME WireFits, TilesFit, ReceiveTile
    PROVE  WireFits' /\ TilesFit'
<1> DEFINE m == wire[1]
           tile == ParseTile(m)
<1>1. /\ wire # << >> /\ Head(wire) = m /\ m.set = "tile"
      /\ active \in Attributes /\ Sound(active, images, wire, current)
      /\ wire' = Tail(wire) /\ tiles' = tiles (+) SetToBag({tile})
      /\ UNCHANGED << images, current, active >>
  BY WireParts DEF ReceiveTile, WireFits, client, sender
<1>4. PICK k \in Nat, n \in Nat : IsSegment(images, k, n) /\ tile = TileOf(images, k, n)
  BY TileHeard
<1> HIDE DEF m, tile
<1>5. BagToSet(tiles') = BagToSet(tiles) \cup {tile}
  BY <1>1 DEF BagToSet, SetToBag, (+)
<1>6. TilesFit'
  BY <1>1, <1>4, <1>5 DEF TilesFit
<1>7. Sound(active, images, Tail(wire), current)
  <2>1. \A a \in AttributeNames : active[a] = IF m.set = a THEN m.to ELSE active[a]
    BY <1>1 DEF AttributeNames
  <2> QED
    BY <1>1, <2>1, ReadSound DEF m
<1>8. WireFits'
  BY <1>1, <1>7 DEF WireFits
<1> QED
  BY <1>6, <1>8


-----------------------------------------------------------------------------
(* What the steps do to the invariant                                      *)

LEMMA SoundGrows ==
    ASSUME NEW act, NEW ims, NEW more, NEW w, NEW c, Sound(act, ims, w, c),
           1 .. Len(ims) \subseteq 1 .. Len(more), \A k \in 1 .. Len(ims) : more[k] = ims[k]
    PROVE  Sound(act, more, w, c)
<1>1. \A i \in 1 .. Len(w) : Told(act, ims, w, i)
  BY DEF Sound
<1>2. ASSUME NEW k, NEW n, IsSegment(ims, k, n)
      PROVE  IsSegment(more, k, n) /\ more[k] = ims[k]
  BY <1>2 DEF IsSegment
<1>3. \A i, k, n : ToldSegment(act, ims, w, i, k, n) => ToldSegment(act, more, w, i, k, n)
  BY <1>2 DEF ToldSegment, MessageOf
<1>4. \A i \in 1 .. Len(w) : Told(act, more, w, i)
  BY <1>1, <1>3 DEF Told
<1> QED
  BY <1>4 DEF Sound

\* What the application's thread queues for the send thread.
LEMMA SendImageKeeps ==
    ASSUME IInv, NEW im \in Images, SendImage(im)
    PROVE  IInv'
<1> DEFINE k == Len(images) + 1
<1>1. /\ images \in Seq(Images) /\ images' = Append(images, im)
      /\ RequestsFit /\ PoolFits /\ WireFits /\ TilesFit
      /\ UNCHANGED << pc, image, waiting, sendQueue, left, current, wire, active, tiles >>
  BY DEF IInv, SendImage, sender, server
<1>2. /\ images' \in Seq(Images) /\ k \in 1 .. Len(images') /\ images'[k] = im
      /\ 1 .. Len(images) \subseteq 1 .. Len(images')
      /\ \A i \in 1 .. Len(images) : images'[i] = images[i]
  BY <1>1
<1> HIDE DEF k
<1>3. \/ requests' = requests
      \/ \E r : requests' = Append(requests, r) /\ RequestFits(images', r)
  <2>1. CASE CheckParameters(im) /\ IsSmall(im) /\ SendSmall(im)
    <3> DEFINE r == [segment |-> SingleSegment(im), image |-> k]
    <3>1. CASE UNCHANGED requests
      BY <3>1
    <3>2. CASE requests' # requests
      <4>1. ~ OddStereo(im) /\ ~ (Len(SegmentTasks(im)) > 1) /\ requests' = Append(requests, r)
        BY <2>1, <3>2 DEF SendSmall, k
      <4>2. Len(SegmentTasks(im)) = 1
        <5>1. Len(SegmentTasks(im)) \in Nat \ {0}
          BY <4>1, TasksAre
        <5>2. \A n \in Nat \ {0} : ~ (n > 1) => n = 1
          OBVIOUS
        <5> QED
          BY <4>1, <5>1, <5>2
      <4>3. SingleSegment(im) = SegmentOf(im, 1)
        BY <2>1, ImageTyped DEF SingleSegment, SegmentOf, Copied, ImageWrapper
      <4>4. r.image = k /\ r.segment = SegmentOf(images'[k], 1) /\ "segment" \in DOMAIN r
        BY <1>2, <4>3
      <4> HIDE DEF r
      <4>5. IsSegment(images', k, 1) /\ Len(SegmentTasks(images'[k])) = 1
        BY <1>2, <2>1, <4>1, <4>2 DEF IsSegment, Proper
      <4>6. RequestFits(images', r)
        BY <1>2, <2>1, <4>4, <4>5 DEF RequestFits
      <4> QED
        BY <4>1, <4>6
    <3> QED
      BY <3>1, <3>2
  <2>2. CASE CheckParameters(im) /\ ~ IsSmall(im) /\ SendLarge
    <3> DEFINE r == [image |-> k]
    <3>1. requests' = Append(requests, r) /\ r.image = k /\ "segment" \notin DOMAIN r
      BY <2>2 DEF SendLarge, k
    <3> HIDE DEF r
    <3>2. RequestFits(images', r)
      BY <1>2, <2>2, <3>1 DEF RequestFits
    <3> QED
      BY <3>1, <3>2
  <2>3. CASE UNCHANGED requests
    BY <2>3
  <2> QED
    BY <2>1, <2>2, <2>3 DEF SendImage
<1>4. RequestsFit'
  <2> PICK S : requests \in Seq(S)
    BY <1>1 DEF RequestsFit
  <2>1. \A i \in 1 .. Len(requests) : RequestFits(images', requests[i])
    <3>1. \A i \in 1 .. Len(requests) : RequestFits(images, requests[i])
      BY <1>1 DEF RequestsFit
    <3>2. ASSUME NEW r, RequestFits(images, r)
          PROVE  RequestFits(images', r)
      <4>1. r.image \in 1 .. Len(images') /\ images'[r.image] = images[r.image]
        BY <1>2, <3>2 DEF RequestFits
      <4> QED
        BY <1>2, <3>2, <4>1 DEF RequestFits, IsSegment
    <3> QED
      BY <3>1, <3>2
  <2>2. CASE requests' = requests
    BY <1>1, <2>1, <2>2 DEF RequestsFit
  <2>3. CASE \E r : requests' = Append(requests, r) /\ RequestFits(images', r)
    <3> PICK r : requests' = Append(requests, r) /\ RequestFits(images', r)
      BY <2>3
    <3>1. requests \in Seq(S \cup {r}) /\ r \in S \cup {r}
      OBVIOUS
    <3>2. /\ requests' \in Seq(S \cup {r}) /\ Len(requests) \in Nat
          /\ Len(requests') = Len(requests) + 1 /\ requests'[Len(requests) + 1] = r
          /\ \A i \in 1 .. Len(requests) : requests'[i] = requests[i]
      BY <3>1
    <3>3. \A i \in 1 .. Len(requests') : i \in 1 .. Len(requests) \/ i = Len(requests) + 1
      BY <3>2
    <3>4. \A i \in 1 .. Len(requests') : RequestFits(images', requests'[i])
      BY <2>1, <3>2, <3>3
    <3> QED
      BY <3>2, <3>4 DEF RequestsFit
  <2> QED
    BY <1>3, <2>2, <2>3
<1>5. PoolFits'
  <2>1. image \in 1 .. Len(images) => TasksOf(image)' = TasksOf(image)
    BY <1>1, <1>2 DEF TasksOf
  <2>2. image \in 1 .. Len(images) => image \in 1 .. Len(images') /\ images'[image] = images[image]
    BY <1>2
  <2> QED
    BY <1>1, <2>1, <2>2 DEF PoolFits
<1>6. WireFits'
  <2>1. Sound(active, images', wire, current)
    BY <1>1, <1>2, SoundGrows DEF WireFits
  <2> QED
    BY <1>1, <2>1 DEF WireFits
<1>7. TilesFit'
  <2>1. ASSUME NEW i, NEW n, IsSegment(images, i, n)
        PROVE  IsSegment(images', i, n) /\ TileOf(images', i, n) = TileOf(images, i, n)
    BY <1>2, <2>1 DEF IsSegment, TileOf
  <2> QED
    BY <1>1, <2>1 DEF TilesFit
<1> QED
  BY <1>2, <1>4, <1>5, <1>6, <1>7 DEF IInv


\* What the send thread takes out of its queue.
LEMMA RequestTaken ==
    ASSUME IInv, requests # << >>
    PROVE  /\ Head(requests) = requests[1] /\ RequestFits(images, Head(requests))
           /\ images[Head(requests).image] \in Images
           /\ Len(requests) \in Nat \ {0} /\ Len(Tail(requests)) = Len(requests) - 1
           /\ \E S : Tail(requests) \in Seq(S)
           /\ \A i \in 1 .. Len(Tail(requests)) :
                 /\ Tail(requests)[i] = requests[i + 1] /\ i + 1 \in 1 .. Len(requests)
                 /\ RequestFits(images, Tail(requests)[i])
<1> PICK S : requests \in Seq(S)
  BY DEF IInv, RequestsFit
<1>1. /\ Head(requests) = requests[1] /\ 1 \in 1 .. Len(requests)
      /\ Tail(requests) \in Seq(S)
      /\ Len(requests) \in Nat \ {0} /\ Len(Tail(requests)) = Len(requests) - 1
      /\ \A i \in 1 .. Len(Tail(requests)) :
            Tail(requests)[i] = requests[i + 1] /\ i + 1 \in 1 .. Len(requests)
  BY EmptySeq
<1>2. /\ images \in Seq(Images)
      /\ \A i \in 1 .. Len(requests) : RequestFits(images, requests[i])
  BY DEF IInv, RequestsFit
<1>3. RequestFits(images, Head(requests))
  BY <1>1, <1>2
<1> QED
  BY <1>1, <1>2, <1>3 DEF RequestFits

LEMMA IdleStepsKeep ==
    ASSUME IInv, SendPrepared \/ RefuseImage \/ Generate
    PROVE  IInv'
<1> DEFINE k == Head(requests).image
<1>1. /\ images \in Seq(Images) /\ PoolFits /\ WireFits /\ TilesFit
      /\ pc = "idle" /\ waiting = {} /\ sendQueue = << >> /\ left = 0
      /\ requests # << >> /\ requests' = Tail(requests)
      /\ UNCHANGED << images, active, tiles >>
  BY DEF IInv, PoolFits, SendPrepared, RefuseImage, Generate, server
<1>2. /\ k \in 1 .. Len(images) /\ images[k] \in Images /\ CheckParameters(images[k])
      /\ IF "segment" \in DOMAIN Head(requests)
         THEN IsSegment(images, k, 1) /\ Head(requests).segment = SegmentOf(images[k], 1)
         ELSE ~ IsSmall(images[k])
  BY <1>1, RequestTaken DEF RequestFits
<1>3. RequestsFit'
  BY <1>1, RequestTaken DEF RequestsFit
<1>4. TilesFit'
  BY <1>1 DEF TilesFit
<1>5. CASE SendPrepared
  <2>1. /\ SendSegment(Head(requests).segment, k) /\ "segment" \in DOMAIN Head(requests)
        /\ UNCHANGED << pc, image, waiting, sendQueue, left >>
    BY <1>5 DEF SendPrepared
  <2>2. WireFits'
    BY <1>1, <1>2, <2>1, SendSegmentFits
  <2>3. PoolFits'
    BY <1>1, <2>1 DEF PoolFits
  <2> QED
    BY <1>1, <1>3, <1>4, <2>2, <2>3 DEF IInv
<1>6. CASE RefuseImage
  <2>1. UNCHANGED << pc, image, waiting, sendQueue, left, current, wire >>
    BY <1>6 DEF RefuseImage, sender
  <2>2. PoolFits'
    BY <1>1, <2>1 DEF PoolFits
  <2>3. WireFits'
    BY <1>1, <2>1 DEF WireFits
  <2> QED
    BY <1>1, <1>3, <1>4, <2>2, <2>3 DEF IInv
<1>7. CASE Generate
  <2> DEFINE im == images[k]
             n == Len(SegmentTasks(im))
  <2>1. /\ image' = k /\ ~ OddStereo(im) /\ left' = n
        /\ \/ pc' = "sending" /\ waiting' = DOMAIN SegmentTasks(im) /\ im.policy = "on"
           \/ pc' = "copying" /\ waiting' = {} /\ im.policy # "on"
        /\ UNCHANGED << sendQueue, current, wire >>
    BY <1>7 DEF Generate
  <2>2. /\ n \in Nat \ {0} /\ DOMAIN SegmentTasks(im) = 1 .. n
        /\ TasksOf(image)' = SegmentTasks(im)
    BY <1>1, <1>2, <2>1, TasksAre DEF TasksOf
  <2>3. Proper(images[image])' /\ (Copied(images[image])' <=> Copied(im))
    BY <1>1, <1>2, <2>1 DEF Proper
  <2>4. n = Len(TasksOf(image))'
    BY <2>2
  <2>5. image' \in 1 .. Len(images') /\ left' = n /\ sendQueue' = << >>
    BY <1>1, <1>2, <2>1
  <2>20. Copied(im) <=> im.policy # "on"
    <3>1. ~ IsSmall(im) /\ im.policy \in {"on", "off", "auto"}
      BY <1>2, <1>7, ImageTyped DEF Generate, ImageWrapper, CompressionPolicies
    <3> QED
      BY <3>1 DEF Copied
  <2> HIDE DEF n, im
  <2>6. PoolFits'
    <3>1. CASE pc' = "copying" /\ waiting' = {} /\ Copied(im)
      BY <2>2, <2>3, <2>4, <2>5, <3>1 DEF PoolFits
    <3>2. CASE pc' = "sending" /\ waiting' = 1 .. n /\ ~ Copied(im)
      <4>1. Cardinality(1 .. n) = n
        BY <2>2, FS_Interval
      <4>2. /\ waiting' \in SUBSET (1 .. n)
            /\ sendQueue' \in Seq([segment : 1 .. n, failed : BOOLEAN])
            /\ Cardinality(waiting)' + Len(sendQueue)' = left'
        BY <2>2, <2>5, <3>2, <4>1
      <4> QED
        BY <2>3, <2>4, <2>5, <3>2, <4>2 DEF PoolFits
    <3> QED
      BY <2>1, <2>2, <2>20, <3>1, <3>2
  <2>7. WireFits'
    BY <1>1, <2>1 DEF WireFits
  <2> QED
    BY <1>1, <1>3, <1>4, <2>6, <2>7 DEF IInv
<1> QED
  BY <1>5, <1>6, <1>7

\* The image the send thread is at, and its segments.
LEMMA ImageOfPool ==
    ASSUME IInv, pc # "idle"
    PROVE  /\ image \in 1 .. Len(images) /\ images[image] \in Images
           /\ Proper(images[image])
           /\ Tasks = TasksOf(image) /\ Len(TasksOf(image)) \in Nat \ {0}
           /\ IsFiniteSet(waiting) /\ Cardinality(waiting) \in Nat
           /\ \A n \in 1 .. Len(TasksOf(image)) : IsSegment(images, image, n)
<1>1. /\ image \in 1 .. Len(images) /\ images[image] \in Images /\ Proper(images[image])
      /\ Tasks = TasksOf(image) /\ TasksOf(image) = SegmentTasks(images[image])
  BY DEF IInv, PoolFits, Tasks, TasksOf
<1>2. Len(TasksOf(image)) \in Nat \ {0}
  BY <1>1, TasksAre DEF Proper
<1>3. IsFiniteSet(waiting)
  <2>1. IsFiniteSet(1 .. Len(TasksOf(image)))
    BY <1>2, FS_Interval
  <2>2. waiting \in SUBSET (1 .. Len(TasksOf(image)))
    BY DEF IInv, PoolFits
  <2> QED
    BY <2>1, <2>2, FS_Subset
<1>4. \A n \in 1 .. Len(TasksOf(image)) : IsSegment(images, image, n)
  BY <1>1 DEF IsSegment
<1> QED
  BY <1>1, <1>2, <1>3, <1>4, FS_CardinalityType

LEMMA CompressKeeps ==
    ASSUME IInv, NEW n \in waiting, Compress(n)
    PROVE  IInv'
<1> DEFINE l == Len(TasksOf(image))
           R == [segment : 1 .. l, failed : BOOLEAN]
<1>1. /\ images \in Seq(Images) /\ RequestsFit /\ PoolFits /\ WireFits /\ TilesFit
      /\ waiting' = waiting \ {n}
      /\ UNCHANGED << images, requests, pc, image, left, current, wire, active, tiles >>
  BY DEF IInv, Compress, client, server
<1>2. PICK failed \in BOOLEAN : sendQueue' = Append(sendQueue, [segment |-> n, failed |-> failed])
  BY DEF Compress, Enqueue
<1>3. /\ pc \in {"sending", "discarding"} /\ image \in 1 .. Len(images)
      /\ waiting \in SUBSET (1 .. l) /\ sendQueue \in Seq(R)
      /\ Cardinality(waiting) + Len(sendQueue) = left
  BY <1>1 DEF PoolFits
<1>4. Cardinality(waiting') = Cardinality(waiting) - 1 /\ Cardinality(waiting) \in Nat
  BY <1>1, <1>3, ImageOfPool, FS_RemoveElement
<1>5. TasksOf(image)' = TasksOf(image) /\ l' = l
  BY <1>1 DEF TasksOf
<1> HIDE DEF l
<1>6. sendQueue' \in Seq(R) /\ Len(sendQueue') = Len(sendQueue) + 1 /\ Len(sendQueue) \in Nat
  BY <1>2, <1>3
<1>7. Cardinality(waiting') + Len(sendQueue') = left'
  BY <1>1, <1>3, <1>4, <1>6
<1>8. PoolFits'
  BY <1>1, <1>3, <1>5, <1>6, <1>7 DEF PoolFits, l
<1> QED
  BY <1>1, <1>8 DEF IInv, RequestsFit, WireFits, TilesFit

\* A segment leaves the queue: SendNext, MeetFailure and Discard.
LEMMA DequeueKeeps ==
    ASSUME IInv, pc \in {"sending", "discarding"}, Dequeue, left' = left - 1,
           \/ left = 1 /\ pc' = "idle"
           \/ left # 1 /\ pc' \in {"sending", "discarding"} /\ image' = image,
           UNCHANGED << images, waiting >>
    PROVE  PoolFits'
<1> DEFINE l == Len(TasksOf(image))
           R == [segment : 1 .. l, failed : BOOLEAN]
<1>1. /\ image \in 1 .. Len(images) /\ Proper(images[image]) /\ ~ Copied(images[image])
      /\ waiting \in SUBSET (1 .. l) /\ sendQueue \in Seq(R)
      /\ Cardinality(waiting) + Len(sendQueue) = left
  BY DEF IInv, PoolFits
<1>2. IsFiniteSet(waiting) /\ Cardinality(waiting) \in Nat
  BY ImageOfPool
<1>3. image' = image => TasksOf(image)' = TasksOf(image) /\ l' = l
  BY DEF TasksOf
<1> HIDE DEF l
<1>4. /\ sendQueue' \in Seq(R) /\ Len(sendQueue') = Len(sendQueue) - 1
      /\ Len(sendQueue) \in Nat \ {0} /\ (sendQueue' = << >> <=> Len(sendQueue') = 0)
  <2>1. sendQueue \in Seq(R) /\ sendQueue # << >> /\ sendQueue' = Tail(sendQueue)
    BY <1>1 DEF Dequeue
  <2> HIDE DEF R
  <2>2. sendQueue' \in Seq(R) /\ Len(sendQueue') = Len(sendQueue) - 1
    BY <2>1, HeadTailProperties
  <2>3. Len(sendQueue) \in Nat \ {0}
    BY <2>1, EmptySeq, LenProperties
  <2>4. sendQueue' = << >> <=> Len(sendQueue') = 0
    BY <2>2, EmptySeq
  <2> QED
    BY <2>2, <2>3, <2>4
<1>5. Cardinality(waiting) + Len(sendQueue') = left'
  BY <1>1, <1>2, <1>4
<1>6. CASE left = 1
  <2>1. Cardinality(waiting) = 0 /\ Len(sendQueue') = 0
    BY <1>1, <1>2, <1>4, <1>6
  <2>2. waiting = {}
    BY <1>2, <2>1, FS_EmptySet
  <2> QED
    BY <1>4, <1>6, <2>1, <2>2 DEF PoolFits
<1>7. CASE left # 1
  BY <1>1, <1>3, <1>4, <1>5, <1>7 DEF PoolFits, l
<1> QED
  BY <1>6, <1>7

LEMMA SendingKeeps ==
    ASSUME IInv, SendNext \/ MeetFailure \/ Discard
    PROVE  IInv'
<1>1. /\ images \in Seq(Images) /\ RequestsFit /\ PoolFits /\ WireFits /\ TilesFit
      /\ pc \in {"sending", "discarding"} /\ Dequeue /\ left' = left - 1
      /\ \/ left = 1 /\ pc' = "idle"
         \/ left # 1 /\ pc' \in {"sending", "discarding"} /\ image' = image
      /\ UNCHANGED << images, requests, waiting, active, tiles >>
  BY DEF IInv, SendNext, MeetFailure, Discard, Finish, Continue, server
<1>2. PoolFits'
  BY <1>1, DequeueKeeps
<1>3. WireFits'
  <2>1. CASE SendNext
    <3> DEFINE n == Head(sendQueue).segment
    <3>1. n \in 1 .. Len(TasksOf(image))
      <4> DEFINE l == Len(TasksOf(image))
                 R == [segment : 1 .. l, failed : BOOLEAN]
      <4>1. sendQueue \in Seq(R) /\ sendQueue # << >>
        BY <1>1 DEF PoolFits, Dequeue
      <4> HIDE DEF l
      <4>2. Head(sendQueue) \in R
        <5> HIDE DEF R
        <5> QED
          BY <4>1, HeadTailProperties
      <4> QED
        BY <4>2 DEF l
    <3>2. SendSegment(Jpeg(images[image], Tasks[n]), image)
      BY <2>1 DEF SendNext
    <3> HIDE DEF n
    <3>3. IsSegment(images, image, n)
      BY <1>1, <3>1, ImageOfPool
    <3>4. Jpeg(images[image], Tasks[n]) = SegmentOf(images[image], n)
      BY <1>1 DEF SegmentOf, Tasks, PoolFits
    <3> QED
      BY <1>1, <3>2, <3>3, <3>4, SendSegmentFits
  <2>2. CASE MeetFailure \/ Discard
    <3>1. UNCHANGED << current, wire >>
      BY <2>2 DEF MeetFailure, Discard
    <3> QED
      BY <1>1, <3>1 DEF WireFits
  <2> QED
    BY <2>1, <2>2
<1> QED
  BY <1>1, <1>2, <1>3 DEF IInv, RequestsFit, TilesFit

LEMMA SendRawKeeps ==
    ASSUME IInv, SendRaw
    PROVE  IInv'
<1> DEFINE l == Len(TasksOf(image))
           n == Len(Tasks) - left + 1
<1>1. /\ images \in Seq(Images) /\ RequestsFit /\ PoolFits /\ WireFits /\ TilesFit
      /\ pc = "copying" /\ waiting = {} /\ sendQueue = << >> /\ left \in 1 .. l
      /\ image \in 1 .. Len(images) /\ Proper(images[image]) /\ Copied(images[image])
      /\ UNCHANGED << images, requests, waiting, sendQueue, active, tiles >>
  BY DEF IInv, PoolFits, SendRaw, server
<1>2. l \in Nat \ {0} /\ Len(Tasks) = l
  BY <1>1, ImageOfPool
<1>3. \/ pc' = "idle" /\ left' = 0
      \/ pc' = "copying" /\ image' = image /\ left > 1 /\ left' = left - 1
  BY <1>1, <1>2 DEF SendRaw, Finish, Continue
<1>4. image' = image => TasksOf(image)' = TasksOf(image) /\ l' = l
  BY <1>1 DEF TasksOf
<1>5. n \in 1 .. l
  BY <1>1, <1>2
<1>6. SendSegment(Raw(images[image], Tasks[n]), image)
  BY DEF SendRaw
<1> HIDE DEF n
<1>7. WireFits'
  <2>1. /\ IsSegment(images, image, n)
        /\ Raw(images[image], Tasks[n]) = SegmentOf(images[image], n)
    BY <1>1, <1>5, ImageOfPool DEF SegmentOf, Tasks
  <2> QED
    BY <1>1, <1>6, <2>1, SendSegmentFits
<1> HIDE DEF l
<1>8. PoolFits'
  <2>1. pc' = "copying" => left' \in 1 .. l
    BY <1>1, <1>2, <1>3
  <2> QED
    BY <1>1, <1>3, <1>4, <2>1 DEF PoolFits, l
<1> QED
  BY <1>1, <1>7, <1>8 DEF IInv, RequestsFit, TilesFit

LEMMA NextIInv ==
    IInv /\ [Next]_vars => IInv'
<1> SUFFICES ASSUME IInv, [Next]_vars
             PROVE  IInv'
  OBVIOUS
<1>1. CASE Break \/ UNCHANGED vars
  <2>1. /\ UNCHANGED << images, requests, pc, image, waiting, sendQueue, left >>
        /\ UNCHANGED << current, wire, active, tiles >>
    BY <1>1 DEF Break, vars, client, sender, server
  <2>2. TasksOf(image)' = TasksOf(image)
    BY <2>1 DEF TasksOf
  <2> QED
    BY <2>1, <2>2 DEF IInv, RequestsFit, PoolFits, WireFits, TilesFit
<1>2. CASE ServerWorker
  <2>1. /\ UNCHANGED << images, requests, pc, image, waiting, sendQueue, left >>
        /\ UNCHANGED << current >>
    BY <1>2 DEF ServerWorker, ReceiveAttribute, ReceiveTile, client, sender
  <2>2. TasksOf(image)' = TasksOf(image)
    BY <2>1 DEF TasksOf
  <2>3. CASE ReceiveAttribute
    <3>1. tiles' = tiles /\ WireFits'
      BY <2>3, ReceiveAttributeFits DEF IInv, ReceiveAttribute
    <3> QED
      BY <2>1, <2>2, <3>1 DEF IInv, RequestsFit, PoolFits, TilesFit
  <2>4. CASE ReceiveTile
    <3>1. WireFits' /\ TilesFit'
      BY <2>4, ReceiveTileFits DEF IInv
    <3> QED
      BY <2>1, <2>2, <3>1 DEF IInv, RequestsFit, PoolFits
  <2> QED
    BY <1>2, <2>3, <2>4 DEF ServerWorker
<1>3. CASE Pool
  BY <1>3, CompressKeeps DEF Pool
<1>4. CASE \E im \in Images : SendImage(im)
  BY <1>4, SendImageKeeps
<1>5. CASE SendThread
  BY <1>5, IdleStepsKeep, SendingKeeps, SendRawKeeps DEF SendThread
<1> QED
  BY <1>1, <1>2, <1>3, <1>4, <1>5 DEF Next

LEMMA InitIInv ==
    Init => IInv
<1> SUFFICES ASSUME Init
             PROVE  IInv
  OBVIOUS
<1>1. /\ images = << >> /\ requests = << >> /\ wire = << >> /\ tiles = EmptyBag
      /\ Len(<< >>) = 0 /\ current = Fresh /\ active = Fresh /\ Fresh \in Attributes
  BY DEF Init, Fresh, Attributes, Views, RowOrders
<1>2. images \in Seq(Images) /\ requests \in Seq({}) /\ wire \in Seq({})
  BY <1>1
<1>3. RequestsFit
  BY <1>1, <1>2 DEF RequestsFit
<1>4. PoolFits
  BY DEF Init, PoolFits
<1>5. WireFits
  <2>1. \A a \in AttributeNames : Hears(active, wire, a, 0, current[a])
    BY <1>1 DEF Hears
  <2>2. Sound(active, images, wire, current)
    BY <1>1, <1>2, <2>1 DEF Sound
  <2> QED
    BY <1>1, <2>2 DEF WireFits
<1>6. TilesFit
  BY <1>1 DEF TilesFit, BagToSet, EmptyBag, SetToBag
<1> QED
  BY <1>2, <1>3, <1>4, <1>5, <1>6 DEF IInv

LEMMA InvariantKept ==
    Spec => []IInv
<1>1. Init => IInv
  BY InitIInv
<1>2. IInv /\ [Next]_vars => IInv'
  BY NextIInv
<1> QED
  BY <1>1, <1>2, PTL DEF Spec

-----------------------------------------------------------------------------
(* Each segment once                                                       *)

\* The segments the send thread is done with: it has sent or dropped them.
Waits(k) == \E i \in 1 .. Len(requests) : requests[i].image = k

Pending(n) == n \in waiting \/ \E j \in 1 .. Len(sendQueue) : sendQueue[j].segment = n

Handled(k, n) ==
    /\ ~ Waits(k)
    /\ k = image /\ pc \in {"sending", "discarding"} => ~ Pending(n)
    /\ k = image /\ pc = "copying" => n <= Len(TasksOf(k)) - left

OnWire(k, n) == \E i \in 1 .. Len(wire) : wire[i] = MessageOf(images, k, n)

InBag(k, n) == TileOf(images, k, n) \in BagToSet(tiles)

\* An image waits for the send thread once, and a segment for one of the loop's turns.
WaitsOnce ==
    /\ \A i, j \in 1 .. Len(requests) : requests[i].image = requests[j].image => i = j
    /\ pc # "idle" => ~ Waits(image)
    /\ pc \in {"sending", "discarding"} =>
          /\ \A i, j \in 1 .. Len(sendQueue) : sendQueue[i].segment = sendQueue[j].segment => i = j
          /\ \A i \in 1 .. Len(sendQueue) : sendQueue[i].segment \notin waiting

\* The future of an image that is not sent yet is still to be set.
AnswersFit ==
    /\ \E S : answers \in Seq(S)
    /\ Len(answers) = Len(images)
    /\ pc # "idle" => answers[image] = "pending"
    /\ \A i \in 1 .. Len(requests) :
          "segment" \notin DOMAIN requests[i] => answers[requests[i].image] = "pending"
    /\ \A k \in 1 .. Len(images) : answers[k] = "true" => Proper(images[k])

\* What is on the wire is there once, and not yet a tile; a tile is there once.
ThereOnce ==
    /\ \A i, j \in 1 .. Len(wire) : wire[i].set = "tile" /\ wire[i] = wire[j] => i = j
    /\ \A tile \in BagToSet(tiles) : tiles[tile] = 1
    /\ \A k \in 1 .. Len(images) : \A n \in 1 .. Len(TasksOf(k)) :
          IsSegment(images, k, n) =>
             /\ OnWire(k, n) => Handled(k, n) /\ ~ InBag(k, n)
             /\ InBag(k, n) => Handled(k, n)

\* While the connection lasts, what the send thread is done with is sent.
Due(k) == answers[k] = "true" \/ (k = image /\ pc \in {"sending", "copying"})

Sent ==
    connected =>
      \A k \in 1 .. Len(images) : \A n \in 1 .. Len(TasksOf(k)) :
        IsSegment(images, k, n) /\ Due(k) /\ Handled(k, n) => OnWire(k, n) \/ InBag(k, n)

JInv == WaitsOnce /\ AnswersFit /\ ThereOnce /\ Sent

\* Segments of an image differ in what is sent of them, and in their tiles.
LEMMA MessagesDiffer ==
    ASSUME images \in Seq(Images), NEW k, NEW n, NEW l, NEW o,
           IsSegment(images, k, n), IsSegment(images, l, o),
           MessageOf(images, k, n) = MessageOf(images, l, o)
    PROVE  k = l /\ n = o
<1> DEFINE im == images[k]
           p == SegmentTasks(im)[n]
           q == SegmentTasks(im)[o]
           s == SegmentOf(im, n)
           r == SegmentOf(im, o)
<1>1. k = l
  BY MessageIs
<1>2. /\ im \in Images /\ Proper(im) /\ ~ OddStereo(im)
      /\ n \in 1 .. Len(SegmentTasks(im)) /\ o \in 1 .. Len(SegmentTasks(im))
  BY <1>1 DEF IsSegment, Proper
<1>3. s.parameters.x = r.parameters.x /\ s.parameters.y = r.parameters.y /\ s.data = r.data
  BY <1>1 DEF MessageOf, TileMessage
<1>4. /\ s.parameters = p.parameters /\ p.view \in Eyes(im)
      /\ IF Copied(im) THEN s.data = RawOffset(im, p) ELSE s.data = JpegOffset(im, p)
  BY <1>2, SegmentIs
<1>5. /\ r.parameters = q.parameters /\ q.view \in Eyes(im)
      /\ IF Copied(im) THEN r.data = RawOffset(im, q) ELSE r.data = JpegOffset(im, q)
  BY <1>2, SegmentIs
<1>6. p.parameters \in Rectangles
  BY <1>2, SegmentsWithin
<1>7. /\ im.width \in Nat \ {0} /\ im.x \in Nat /\ im.y \in Nat
      /\ IsStereo(im) => Len(SegmentTasks(im)) # 1 /\ im.width % 2 = 0
  <2>1. IsStereo(im) => Len(SegmentTasks(im)) # 1
    BY <1>2, TasksAre
  <2> QED
    BY <1>2, <2>1, ImageTyped DEF ImageWrapper, OddStereo
<1> HIDE DEF im, p, q, s, r
<1>8. p.view = q.view
  <2>1. CASE ~ IsStereo(im)
    BY <1>4, <1>5, <2>1 DEF Eyes
  <2>2. CASE IsStereo(im)
    <3> DEFINE a == p.parameters.x
               b == p.parameters.y
               w == im.width
               half == im.width \div 2
    <3>1. a \in Nat /\ b \in Nat /\ w \in Nat /\ half \in Nat \ {0}
      BY <1>6, <1>7, <2>2 DEF Rectangles
    <3>2. /\ RightHalf(im, p) = IF p.view = "right_eye" THEN half ELSE 0
          /\ RightHalf(im, q) = IF q.view = "right_eye" THEN half ELSE 0
      BY <2>2 DEF RightHalf, OnRightSide
    <3>3. q.parameters.x = a /\ q.parameters.y = b
      BY <1>3, <1>4, <1>5
    <3>4. PICK c \in Int : /\ s.data = c + RightHalf(im, p)
                           /\ r.data = c + RightHalf(im, q)
      <4>1. CASE Copied(im)
        <5>1. /\ s.data = b * w + a + RightHalf(im, p) /\ r.data = b * w + a + RightHalf(im, q)
          BY <1>4, <1>5, <1>7, <2>2, <3>3, <4>1 DEF RawOffset
        <5>2. b * w + a \in Int
          BY <3>1
        <5> QED
          BY <5>1, <5>2
      <4>2. CASE ~ Copied(im)
        <5> DEFINE c == (b - im.y) * w + (a - im.x)
        <5>1. s.data = c + RightHalf(im, p) /\ r.data = c + RightHalf(im, q)
          BY <1>4, <1>5, <3>3, <4>2 DEF JpegOffset
        <5>2. c \in Int
          BY <1>7, <3>1
        <5> HIDE DEF c
        <5> QED
          BY <5>1, <5>2
      <4> QED
        BY <4>1, <4>2
    <3> HIDE DEF half
    <3>5. RightHalf(im, p) = RightHalf(im, q)
      <4> DEFINE u == RightHalf(im, p)
                 v == RightHalf(im, q)
      <4>1. u \in Int /\ v \in Int
        BY <3>1, <3>2
      <4>2. c + u = c + v
        BY <1>3, <3>4
      <4> HIDE DEF u, v
      <4>3. u = v
        BY <4>1, <4>2
      <4> QED
        BY <4>3 DEF u, v
    <3>6. p.view \in {"left_eye", "right_eye"} /\ q.view \in {"left_eye", "right_eye"}
      BY <1>4, <1>5, <2>2 DEF Eyes
    <3> QED
      BY <3>1, <3>2, <3>5, <3>6
  <2> QED
    BY <2>1, <2>2
<1>9. n = o
  BY <1>2, <1>3, <1>4, <1>5, <1>8, SegmentsDiffer DEF p, q
<1> QED
  BY <1>1, <1>9

LEMMA TilesDiffer ==
    ASSUME images \in Seq(Images), NEW k, NEW n, NEW l, NEW o,
           IsSegment(images, k, n), IsSegment(images, l, o),
           TileOf(images, k, n) = TileOf(images, l, o)
    PROVE  k = l /\ n = o
<1> DEFINE im == images[k]
           p == SegmentTasks(im)[n]
           q == SegmentTasks(im)[o]
           s == SegmentOf(im, n)
           r == SegmentOf(im, o)
<1>1. k = l
  BY DEF TileOf
<1>2. /\ im \in Images /\ Proper(im) /\ ~ OddStereo(im)
      /\ n \in 1 .. Len(SegmentTasks(im)) /\ o \in 1 .. Len(SegmentTasks(im))
  BY <1>1 DEF IsSegment, Proper
<1>3. s.parameters.x = r.parameters.x /\ s.parameters.y = r.parameters.y /\ s.view = r.view
  BY <1>1 DEF TileOf
<1>4. s.parameters = p.parameters /\ s.view = p.view
  BY <1>2, SegmentIs
<1>5. r.parameters = q.parameters /\ r.view = q.view
  BY <1>2, SegmentIs
<1>6. n = o
  BY <1>2, <1>3, <1>4, <1>5, SegmentsDiffer
<1> QED
  BY <1>1, <1>6

\* The messages of segments, and those that are sent before one.
LEMMA WireIs ==
    ASSUME IInv
    PROVE  /\ \E S : wire \in Seq(S)
           /\ \A i \in 1 .. Len(wire) : wire[i].set = "tile" =>
                \E k \in Nat : \E n \in Nat :
                   IsSegment(images, k, n) /\ wire[i] = MessageOf(images, k, n)
<1>1. Sound(active, images, wire, current)
  BY DEF IInv, WireFits
<1>2. \A i \in 1 .. Len(wire) : Told(active, images, wire, i)
  BY <1>1 DEF Sound
<1>3. \A m \in SetMessages : m.set # "tile"
  BY DEF SetMessages
<1> QED
  BY <1>1, <1>2, <1>3 DEF Sound, Told, ToldSegment

LEMMA Appended ==
    ASSUME NEW S, NEW w \in Seq(S), NEW u \in Seq(S), NEW m,
           NEW r, r = w \o u \o << m >>
    PROVE  /\ Len(w) \in Nat /\ Len(u) \in Nat /\ Len(r) = Len(w) + Len(u) + 1
           /\ r[Len(r)] = m
           /\ \A i \in 1 .. Len(w) : r[i] = w[i]
           /\ \A i \in 1 .. Len(u) : r[i + Len(w)] = u[i]
<1> DEFINE T == S \cup {m}
<1>1. w \in Seq(T) /\ u \in Seq(T) /\ << m >> \in Seq(T)
  OBVIOUS
<1> HIDE DEF T
<1>2. /\ w \o u \in Seq(T) /\ Len(w \o u) = Len(w) + Len(u) /\ Len(w) \in Nat /\ Len(u) \in Nat
      /\ \A i \in 1 .. Len(w) + Len(u) :
            (w \o u)[i] = IF i <= Len(w) THEN w[i] ELSE u[i - Len(w)]
  BY <1>1, ConcatProperties
<1> DEFINE x == w \o u
<1>3. x \in Seq(T) /\ Len(x) = Len(w) + Len(u) /\ Len(<< m >>) = 1 /\ << m >>[1] = m
  BY <1>2
<1>4. r = x \o << m >>
  OBVIOUS
<1> HIDE DEF x
<1>5. /\ Len(r) = Len(x) + 1
      /\ \A i \in 1 .. Len(x) + 1 : r[i] = IF i <= Len(x) THEN x[i] ELSE << m >>[i - Len(x)]
  BY <1>1, <1>3, <1>4, ConcatProperties
<1>6. r[Len(r)] = m
  BY <1>2, <1>3, <1>5
<1>7. \A i \in 1 .. Len(x) : r[i] = x[i]
  BY <1>2, <1>3, <1>5
<1>8. ASSUME NEW i \in 1 .. Len(w)
      PROVE  r[i] = w[i]
  BY <1>2, <1>3, <1>7 DEF x
<1>9. ASSUME NEW i \in 1 .. Len(u)
      PROVE  r[i + Len(w)] = u[i]
  <2>1. /\ i + Len(w) \in 1 .. Len(w) + Len(u) /\ ~ (i + Len(w) <= Len(w))
        /\ i + Len(w) - Len(w) = i
    BY <1>2
  <2> QED
    BY <1>2, <1>3, <1>7, <2>1 DEF x
<1> QED
  BY <1>2, <1>3, <1>5, <1>6, <1>8, <1>9

\* The segments of the images the application has sent: a step keeps what is handled, and
\* adds no more to what has to be sent than segment n0 of image k0.
KeepsHandled ==
    \A k, n : IsSegment(images, k, n) /\ Handled(k, n) => Handled(k, n)'

AddsOnly(k0, n0) ==
    connected' =>
      /\ connected
      /\ \A k, n : IsSegment(images, k, n) /\ Due(k)' /\ Handled(k, n)' =>
           (k = k0 /\ n = n0) \/ (Due(k) /\ Handled(k, n))

LEMMA NothingSent ==
    ASSUME JInv, UNCHANGED << images, wire, tiles >>, KeepsHandled,
           connected' => AddsOnly(0, 0)
    PROVE  ThereOnce' /\ Sent'
<1> USE DEF JInv
<1>1. \A k, n : /\ OnWire(k, n)' <=> OnWire(k, n)
                /\ InBag(k, n)' <=> InBag(k, n)
                /\ IsSegment(images, k, n)' <=> IsSegment(images, k, n)
  BY DEF OnWire, InBag, MessageOf, TileOf, IsSegment, Proper
<1>2. \A k : TasksOf(k)' = TasksOf(k)
  BY DEF TasksOf
<1>3. ThereOnce'
  <2>1. \A k \in 1 .. Len(images) : \A n \in 1 .. Len(TasksOf(k)) :
          IsSegment(images, k, n) =>
             /\ OnWire(k, n) => Handled(k, n)' /\ ~ InBag(k, n)
             /\ InBag(k, n) => Handled(k, n)'
    BY DEF ThereOnce, KeepsHandled
  <2> QED
    BY <1>1, <1>2, <2>1 DEF ThereOnce
<1>4. Sent'
  <2> SUFFICES ASSUME connected', NEW k \in 1 .. Len(images), NEW n \in 1 .. Len(TasksOf(k)),
                      IsSegment(images, k, n), Due(k)', Handled(k, n)'
               PROVE  OnWire(k, n) \/ InBag(k, n)
    BY <1>1, <1>2 DEF Sent
  <2>1. Due(k) /\ Handled(k, n) /\ connected
    BY DEF AddsOnly
  <2> QED
    BY <2>1 DEF Sent
<1> QED
  BY <1>3, <1>4

LEMMA SegmentSent ==
    ASSUME IInv, JInv, UNCHANGED << images, tiles, connected >>, KeepsHandled,
           NEW k0, NEW n0, IsSegment(images, k0, n0), ~ Handled(k0, n0), Handled(k0, n0)',
           SendSegment(SegmentOf(images[k0], n0), k0), AddsOnly(k0, n0)
    PROVE  ThereOnce' /\ Sent'
<1>1. CASE ~ connected
  <2>1. wire' = wire /\ (connected' => AddsOnly(0, 0))
    BY <1>1 DEF SendSegment
  <2> QED
    BY <2>1, NothingSent
<1>2. CASE connected
  <2> DEFINE m == MessageOf(images, k0, n0)
             s == SegmentOf(images[k0], n0)
             u == Changes(s)
  <2>1. PICK S : wire \in Seq(S)
    BY WireIs
  <2>2. wire' = wire \o u \o << m >> /\ m.set = "tile"
    <3>1. m = TileMessage(s, k0)
      BY DEF MessageOf
    <3>2. m.set = "tile"
      BY MessageIs
    <3>3. SendSegment(s, k0)
      OBVIOUS
    <3> HIDE DEF s, m
    <3> QED
      BY <1>2, <3>1, <3>2, <3>3 DEF SendSegment
  <2>3. u \in Seq([set : AttributeNames, to : {s.view, s.rowOrder, s.channel}])
    <3> DEFINE T == [set : AttributeNames, to : {s.view, s.rowOrder, s.channel}]
    <3>1. ASSUME NEW a \in AttributeNames, NEW v \in {s.view, s.rowOrder, s.channel}
          PROVE  Change(a, v) \in Seq(T)
      <4>1. [set |-> a, to |-> v] \in T
        OBVIOUS
      <4> HIDE DEF T
      <4>2. << >> \in Seq(T) /\ << [set |-> a, to |-> v] >> \in Seq(T)
        BY <4>1
      <4> QED
        BY <4>2 DEF Change
    <3> HIDE DEF T, s
    <3>2. /\ Change("view", s.view) \in Seq(T) /\ Change("rowOrder", s.rowOrder) \in Seq(T)
          /\ Change("channel", s.channel) \in Seq(T)
      BY <3>1 DEF AttributeNames
    <3>3. Change("view", s.view) \o Change("rowOrder", s.rowOrder) \in Seq(T)
      BY <3>2, ConcatProperties
    <3>4. (Change("view", s.view) \o Change("rowOrder", s.rowOrder))
             \o Change("channel", s.channel) \in Seq(T)
      BY <3>2, <3>3, ConcatProperties
    <3> QED
      BY <3>4 DEF Changes, T
  <2> HIDE DEF m, s, u
  <2>4. \A i \in 1 .. Len(u) : u[i].set # "tile"
    <3> DEFINE T == [set : AttributeNames, to : {s.view, s.rowOrder, s.channel}]
    <3>1. u \in Seq(T) /\ \A c \in T : c.set # "tile"
      BY <2>3 DEF AttributeNames
    <3> HIDE DEF T
    <3> QED
      BY <3>1
  <2>5. /\ Len(wire) \in Nat /\ Len(u) \in Nat /\ Len(wire') = Len(wire) + Len(u) + 1
        /\ wire'[Len(wire')] = m
        /\ \A i \in 1 .. Len(wire) : wire'[i] = wire[i]
        /\ \A i \in 1 .. Len(u) : wire'[i + Len(wire)] = u[i]
    <3> DEFINE R == [set : AttributeNames, to : {s.view, s.rowOrder, s.channel}]
               T == S \cup R
    <3> HIDE DEF R
    <3>1. wire \in Seq(T) /\ u \in Seq(T)
      <4>1. u \in Seq(R)
        BY <2>3 DEF R
      <4> QED
        BY <2>1, <4>1
    <3> HIDE DEF T
    <3> QED
      BY <2>2, <3>1, Appended
  <2>6. ASSUME NEW i \in 1 .. Len(wire'), wire'[i].set = "tile"
        PROVE  \/ i \in 1 .. Len(wire) /\ wire'[i] = wire[i]
               \/ i = Len(wire) + Len(u) + 1 /\ wire'[i] = m
    <3>1. CASE i <= Len(wire)
      BY <2>5, <3>1
    <3>2. CASE Len(wire) < i /\ i <= Len(wire) + Len(u)
      <4>1. i - Len(wire) \in 1 .. Len(u) /\ i - Len(wire) + Len(wire) = i
        BY <2>5, <3>2
      <4> QED
        BY <2>4, <2>5, <2>6, <4>1
    <3>3. CASE i = Len(wire) + Len(u) + 1
      BY <2>5, <3>3
    <3>4. i \in Nat /\ i <= Len(wire) + Len(u) + 1
      BY <2>5
    <3>5. i <= Len(wire) \/ (Len(wire) < i /\ i <= Len(wire) + Len(u))
            \/ i = Len(wire) + Len(u) + 1
      BY <2>5, <3>4
    <3> QED
      BY <3>1, <3>2, <3>3, <3>5
  <2>7. \A k, n : /\ InBag(k, n)' <=> InBag(k, n)
                  /\ IsSegment(images, k, n)' <=> IsSegment(images, k, n)
                  /\ MessageOf(images, k, n)' = MessageOf(images, k, n)
    BY DEF InBag, MessageOf, TileOf, IsSegment, Proper
  <2>8. \A k : TasksOf(k)' = TasksOf(k)
    BY DEF TasksOf
  <2>9. ASSUME NEW k, NEW n, IsSegment(images, k, n)
        PROVE  OnWire(k, n)' <=> OnWire(k, n) \/ (k = k0 /\ n = n0)
    <3>1. MessageOf(images, k, n).set = "tile"
      BY MessageIs
    <3>2. MessageOf(images, k, n) = m => k = k0 /\ n = n0
      BY <2>9, MessagesDiffer DEF IInv, m
    <3>3. ASSUME OnWire(k, n)'
          PROVE  OnWire(k, n) \/ (k = k0 /\ n = n0)
      <4>1. PICK i \in 1 .. Len(wire') : wire'[i] = MessageOf(images, k, n)
        BY <2>7, <3>3 DEF OnWire
      <4> QED
        BY <2>6, <3>1, <3>2, <4>1 DEF OnWire
    <3>4. OnWire(k, n) => OnWire(k, n)'
      <4>1. \A i \in 1 .. Len(wire) : i \in 1 .. Len(wire')
        BY <2>5
      <4> QED
        BY <2>5, <2>7, <4>1 DEF OnWire
    <3>5. k = k0 /\ n = n0 => OnWire(k, n)'
      <4>1. Len(wire') \in 1 .. Len(wire')
        BY <2>5
      <4> QED
        BY <2>5, <2>7, <4>1 DEF OnWire, m
    <3> QED
      BY <3>3, <3>4, <3>5
  <2>10. k0 \in 1 .. Len(images) /\ n0 \in 1 .. Len(TasksOf(k0))
    BY DEF IsSegment, TasksOf
  <2>11. ~ OnWire(k0, n0) /\ ~ InBag(k0, n0)
    BY <2>10 DEF JInv, ThereOnce
  <2>12. ThereOnce'
    <3>1. \A i, j \in 1 .. Len(wire') : wire'[i].set = "tile" /\ wire'[i] = wire'[j] => i = j
      <4> SUFFICES ASSUME NEW i \in 1 .. Len(wire'), NEW j \in 1 .. Len(wire'),
                          wire'[i].set = "tile", wire'[i] = wire'[j]
                   PROVE  i = j
        OBVIOUS
      <4>1. \A l \in 1 .. Len(wire) : wire[l] # m
        BY <2>11 DEF OnWire, m
      <4>2. \A l, o \in 1 .. Len(wire) : wire[l].set = "tile" /\ wire[l] = wire[o] => l = o
        BY DEF JInv, ThereOnce
      <4> QED
        BY <2>6, <4>1, <4>2
    <3>2. \A tile \in BagToSet(tiles') : tiles'[tile] = 1
      BY DEF JInv, ThereOnce
    <3>3. ASSUME NEW k \in 1 .. Len(images), NEW n \in 1 .. Len(TasksOf(k)),
                 IsSegment(images, k, n)
          PROVE  /\ OnWire(k, n)' => Handled(k, n)' /\ ~ InBag(k, n)
                 /\ InBag(k, n) => Handled(k, n)'
      BY <2>9, <2>11, <3>3 DEF JInv, ThereOnce, KeepsHandled
    <3> QED
      BY <2>7, <2>8, <3>1, <3>2, <3>3 DEF ThereOnce
  <2>13. Sent'
    <3> SUFFICES ASSUME NEW k \in 1 .. Len(images), NEW n \in 1 .. Len(TasksOf(k)),
                        IsSegment(images, k, n), Due(k)', Handled(k, n)'
                 PROVE  OnWire(k, n)' \/ InBag(k, n)
      BY <2>7, <2>8 DEF Sent
    <3>1. (k = k0 /\ n = n0) \/ (Due(k) /\ Handled(k, n))
      BY <1>2 DEF AddsOnly
    <3> QED
      BY <1>2, <2>9, <3>1 DEF JInv, Sent
  <2> QED
    BY <2>12, <2>13
<1> QED
  BY <1>1, <1>2

\* The worker reads a message: what is sent stays sent.
LEMMA ReceiveKeeps ==
    ASSUME IInv, JInv, ServerWorker
    PROVE  JInv'
<1>1. UNCHANGED << images, answers, requests, pc, image, waiting, sendQueue, left, connected >>
  BY DEF ServerWorker, ReceiveAttribute, ReceiveTile, client, sender
<1>2. /\ \A k, n : /\ Handled(k, n)' <=> Handled(k, n)
                   /\ IsSegment(images, k, n)' <=> IsSegment(images, k, n)
                   /\ MessageOf(images, k, n)' = MessageOf(images, k, n)
                   /\ TileOf(images, k, n)' = TileOf(images, k, n)
      /\ \A k : TasksOf(k)' = TasksOf(k) /\ (Due(k)' <=> Due(k))
  BY <1>1 DEF Handled, Waits, Pending, IsSegment, MessageOf, TileOf, Proper, TasksOf, Due
<1>3. WaitsOnce' /\ AnswersFit'
  BY <1>1, <1>2 DEF JInv, WaitsOnce, Waits, AnswersFit, Proper
<1>4. PICK S : wire \in Seq(S)
  BY WireIs
<1>5. wire # << >> /\ wire' = Tail(wire) /\ Head(wire) = wire[1]
  BY <1>4 DEF ServerWorker, ReceiveAttribute, ReceiveTile
<1>6. /\ Len(wire) \in Nat \ {0} /\ Len(wire') = Len(wire) - 1
      /\ \A i \in 1 .. Len(wire') : wire'[i] = wire[i + 1] /\ i + 1 \in 1 .. Len(wire)
  BY <1>4, <1>5, EmptySeq
<1>7. \A i, j \in 1 .. Len(wire') : wire'[i].set = "tile" /\ wire'[i] = wire'[j] => i = j
  <2> SUFFICES ASSUME NEW i \in 1 .. Len(wire'), NEW j \in 1 .. Len(wire'),
                      wire'[i].set = "tile", wire'[i] = wire'[j]
               PROVE  i = j
    OBVIOUS
  <2>1. i + 1 = j + 1
    BY <1>6 DEF JInv, ThereOnce
  <2> QED
    BY <1>6, <2>1
<1>8. ASSUME NEW k, NEW n
      PROVE  /\ OnWire(k, n)' => OnWire(k, n)
             /\ OnWire(k, n) => OnWire(k, n)' \/ wire[1] = MessageOf(images, k, n)
  <2>1. ASSUME OnWire(k, n)'
        PROVE  OnWire(k, n)
    <3>1. PICK i \in 1 .. Len(wire') : wire'[i] = MessageOf(images, k, n)
      BY <1>2, <2>1 DEF OnWire
    <3> QED
      BY <1>6, <3>1 DEF OnWire
  <2>2. ASSUME OnWire(k, n), wire[1] # MessageOf(images, k, n)
        PROVE  OnWire(k, n)'
    <3>1. PICK i \in 1 .. Len(wire) : wire[i] = MessageOf(images, k, n)
      BY <2>2 DEF OnWire
    <3>2. i - 1 \in 1 .. Len(wire') /\ i - 1 + 1 = i
      BY <1>6, <2>2, <3>1
    <3>3. wire'[i - 1] = MessageOf(images, k, n)
      BY <1>6, <3>1, <3>2
    <3> QED
      BY <1>2, <3>2, <3>3 DEF OnWire
  <2> QED
    BY <2>1, <2>2
<1>9. CASE ReceiveAttribute
  <2>1. tiles' = tiles /\ wire[1].set # "tile"
    BY <1>5, <1>9 DEF ReceiveAttribute
  <2>2. \A k, n : wire[1] # MessageOf(images, k, n)
    BY <2>1, MessageIs
  <2>3. \A k, n : /\ OnWire(k, n)' <=> OnWire(k, n)
                  /\ InBag(k, n)' <=> InBag(k, n)
    BY <1>2, <1>8, <2>1, <2>2 DEF InBag
  <2>4. ThereOnce'
    BY <1>1, <1>2, <1>7, <2>1, <2>3 DEF JInv, ThereOnce
  <2>5. Sent'
    BY <1>1, <1>2, <2>3 DEF JInv, Sent
  <2> QED
    BY <1>3, <2>4, <2>5 DEF JInv
<1>10. CASE ReceiveTile
  <2> DEFINE tile == ParseTile(wire[1])
  <2>1. PICK k0 \in Nat, n0 \in Nat :
            /\ IsSegment(images, k0, n0) /\ wire[1] = MessageOf(images, k0, n0)
            /\ tile = TileOf(images, k0, n0)
    BY <1>10, TileHeard DEF IInv
  <2>2. tiles' = tiles (+) SetToBag({tile})
    BY <1>5, <1>10 DEF ReceiveTile
  <2> HIDE DEF tile
  <2>3. k0 \in 1 .. Len(images) /\ n0 \in 1 .. Len(TasksOf(k0)) /\ images \in Seq(Images)
    BY <2>1 DEF IsSegment, TasksOf, IInv
  <2>4. OnWire(k0, n0)
    <3>1. 1 \in 1 .. Len(wire)
      BY <1>6
    <3> QED
      BY <2>1, <3>1 DEF OnWire
  <2>5. Handled(k0, n0) /\ tile \notin BagToSet(tiles)
    BY <2>1, <2>3, <2>4 DEF JInv, ThereOnce, InBag
  <2>6. BagToSet(tiles') = BagToSet(tiles) \cup {tile}
    BY <2>2 DEF BagToSet, SetToBag, (+)
  <2>7. \A other \in BagToSet(tiles') : tiles'[other] = 1
    <3>1. \A other \in BagToSet(tiles) : tiles[other] = 1
      BY DEF JInv, ThereOnce
    <3>2. \A other \in BagToSet(tiles') :
             tiles'[other] = (IF other \in BagToSet(tiles) THEN tiles[other] ELSE 0)
                              + (IF other \in {tile} THEN 1 ELSE 0)
      BY <2>2, <2>6 DEF BagToSet, SetToBag, (+)
    <3> QED
      BY <2>5, <2>6, <3>1, <3>2
  <2>8. ~ OnWire(k0, n0)'
    <3> SUFFICES ASSUME OnWire(k0, n0)'
                 PROVE  FALSE
      OBVIOUS
    <3>1. PICK i \in 1 .. Len(wire') : wire'[i] = MessageOf(images, k0, n0)
      BY <1>2 DEF OnWire
    <3>2. i + 1 \in 1 .. Len(wire) /\ wire[i + 1] = wire[1] /\ 1 \in 1 .. Len(wire)
      BY <1>6, <2>1, <3>1
    <3>3. wire[1].set = "tile"
      BY <2>1, MessageIs
    <3>4. i + 1 = 1
      BY <3>2, <3>3 DEF JInv, ThereOnce
    <3> QED
      BY <3>1, <3>4
  <2>9. ASSUME NEW k, NEW n, IsSegment(images, k, n)
        PROVE  /\ OnWire(k, n) => OnWire(k, n)' \/ (k = k0 /\ n = n0)
               /\ InBag(k, n)' <=> InBag(k, n) \/ (k = k0 /\ n = n0)
    <3>1. OnWire(k, n) => OnWire(k, n)' \/ (k = k0 /\ n = n0)
      BY <1>8, <2>1, <2>3, <2>9, MessagesDiffer
    <3>2. TileOf(images, k, n) = tile <=> k = k0 /\ n = n0
      BY <2>1, <2>3, <2>9, TilesDiffer
    <3>3. InBag(k, n)' <=> TileOf(images, k, n) \in BagToSet(tiles')
      BY <1>2 DEF InBag
    <3> QED
      BY <2>6, <3>1, <3>2, <3>3 DEF InBag
  <2>10. ThereOnce'
    <3>1. ASSUME NEW k \in 1 .. Len(images), NEW n \in 1 .. Len(TasksOf(k)),
                 IsSegment(images, k, n)
          PROVE  /\ OnWire(k, n)' => Handled(k, n) /\ ~ InBag(k, n)'
                 /\ InBag(k, n)' => Handled(k, n)
      BY <1>8, <2>5, <2>8, <2>9, <3>1 DEF JInv, ThereOnce
    <3> QED
      BY <1>1, <1>2, <1>7, <2>7, <3>1 DEF ThereOnce
  <2>11. Sent'
    BY <1>1, <1>2, <2>9 DEF JInv, Sent
  <2> QED
    BY <1>3, <2>10, <2>11 DEF JInv
<1> QED
  BY <1>9, <1>10 DEF ServerWorker

\* A future is set.
LEMMA AnswerSet ==
    ASSUME AnswersFit, NEW k \in 1 .. Len(images), NEW v, Answer(k, v)
    PROVE  /\ \E S : answers' \in Seq(S)
           /\ Len(answers') = Len(images) /\ answers'[k] = v
           /\ \A l \in 1 .. Len(images) : l # k => answers'[l] = answers[l]
<1> PICK S : answers \in Seq(S)
  BY DEF AnswersFit
<1>1. answers \in Seq(S \cup {v}) /\ Len(answers) = Len(images) /\ v \in S \cup {v}
  BY DEF AnswersFit
<1>2. answers' = [answers EXCEPT ![k] = v]
  BY DEF Answer
<1> QED
  BY <1>1, <1>2

\* The send thread takes a request.
LEMMA RequestsLeft ==
    ASSUME IInv, JInv, requests # << >>, requests' = Tail(requests),
           NEW k0, k0 = Head(requests).image
    PROVE  /\ Waits(k0) /\ k0 \in 1 .. Len(images)
           /\ \A k : Waits(k)' <=> Waits(k) /\ k # k0
           /\ \A i, j \in 1 .. Len(requests') : requests'[i].image = requests'[j].image => i = j
           /\ \A i \in 1 .. Len(requests') : \E j \in 1 .. Len(requests) : requests'[i] = requests[j]
<1>1. /\ Head(requests) = requests[1] /\ k0 \in 1 .. Len(images)
      /\ Len(requests) \in Nat \ {0} /\ Len(requests') = Len(requests) - 1
      /\ \A i \in 1 .. Len(requests') :
            requests'[i] = requests[i + 1] /\ i + 1 \in 1 .. Len(requests)
  BY RequestTaken DEF RequestFits
<1>2. \A i, j \in 1 .. Len(requests) : requests[i].image = requests[j].image => i = j
  BY DEF JInv, WaitsOnce
<1>3. Waits(k0)
  <2>1. 1 \in 1 .. Len(requests)
    BY <1>1
  <2> QED
    BY <1>1, <2>1 DEF Waits
<1>4. ASSUME NEW k
      PROVE  Waits(k)' <=> Waits(k) /\ k # k0
  <2>1. ASSUME Waits(k)'
        PROVE  Waits(k) /\ k # k0
    <3>1. PICK i \in 1 .. Len(requests') : requests'[i].image = k
      BY <2>1 DEF Waits
    <3>2. i + 1 \in 1 .. Len(requests) /\ requests[i + 1].image = k /\ i + 1 # 1
      BY <1>1, <3>1
    <3>3. 1 \in 1 .. Len(requests)
      BY <1>1
    <3> QED
      BY <1>1, <1>2, <3>2, <3>3 DEF Waits
  <2>2. ASSUME Waits(k), k # k0
        PROVE  Waits(k)'
    <3>1. PICK i \in 1 .. Len(requests) : requests[i].image = k
      BY <2>2 DEF Waits
    <3>2. i # 1
      BY <1>1, <2>2, <3>1
    <3>3. i - 1 \in 1 .. Len(requests') /\ i - 1 + 1 = i
      BY <1>1, <3>1, <3>2
    <3>4. requests'[i - 1].image = k
      BY <1>1, <3>1, <3>3
    <3> QED
      BY <3>3, <3>4 DEF Waits
  <2> QED
    BY <2>1, <2>2
<1>5. \A i, j \in 1 .. Len(requests') : requests'[i].image = requests'[j].image => i = j
  <2> SUFFICES ASSUME NEW i \in 1 .. Len(requests'), NEW j \in 1 .. Len(requests'),
                      requests'[i].image = requests'[j].image
               PROVE  i = j
    OBVIOUS
  <2>1. i + 1 = j + 1
    BY <1>1, <1>2
  <2> QED
    BY <1>1, <2>1
<1> QED
  BY <1>1, <1>3, <1>4, <1>5

LEMMA IdleKeepsSent ==
    ASSUME IInv, JInv, SendPrepared \/ RefuseImage \/ Generate
    PROVE  JInv'
<1> PICK k0 : k0 = Head(requests).image
  OBVIOUS
<1>1. /\ pc = "idle" /\ requests # << >> /\ requests' = Tail(requests)
      /\ UNCHANGED << images, connected, tiles, sendQueue >> /\ sendQueue = << >>
  BY DEF IInv, PoolFits, SendPrepared, RefuseImage, Generate, server, sender
<1>2. /\ Waits(k0) /\ k0 \in 1 .. Len(images)
      /\ \A k : Waits(k)' <=> Waits(k) /\ k # k0
      /\ \A i, j \in 1 .. Len(requests') : requests'[i].image = requests'[j].image => i = j
      /\ \A i \in 1 .. Len(requests') : \E j \in 1 .. Len(requests) : requests'[i] = requests[j]
  BY <1>1, RequestsLeft
<1>3. RequestFits(images, Head(requests)) /\ images[k0] \in Images
  BY <1>1, RequestTaken
<1>4. AnswersFit /\ ThereOnce /\ Sent
  BY DEF JInv
<1>6. \A k, n : Handled(k, n) <=> ~ Waits(k)
  BY <1>1 DEF Handled
<1>7. CASE SendPrepared
  <2>1. /\ "segment" \in DOMAIN Head(requests)
        /\ SendSegment(Head(requests).segment, k0)
        /\ UNCHANGED << pc, image, answers >>
    BY <1>7 DEF SendPrepared
  <2>2. /\ IsSegment(images, k0, 1) /\ Len(SegmentTasks(images[k0])) = 1
        /\ Head(requests).segment = SegmentOf(images[k0], 1)
    BY <1>3, <2>1 DEF RequestFits
  <2>3. \A k, n : Handled(k, n)' <=> ~ Waits(k) \/ k = k0
    BY <1>1, <1>2, <2>1 DEF Handled
  <2>4. \A k : Due(k)' <=> Due(k)
    BY <2>1 DEF Due
  <2>5. KeepsHandled
    BY <1>6, <2>3 DEF KeepsHandled
  <2>6. AddsOnly(k0, 1)
    <3>1. \A n : IsSegment(images, k0, n) => n = 1
      BY <2>2 DEF IsSegment
    <3> QED
      BY <1>1, <1>6, <2>3, <2>4, <3>1 DEF AddsOnly
  <2>7. ThereOnce' /\ Sent'
    BY <1>1, <1>2, <1>6, <2>1, <2>2, <2>3, <2>5, <2>6, SegmentSent
  <2>8. WaitsOnce'
    BY <1>1, <1>2, <2>1 DEF WaitsOnce
  <2>9. AnswersFit'
    BY <1>1, <1>2, <1>4, <2>1 DEF AnswersFit, Proper
  <2> QED
    BY <2>7, <2>8, <2>9 DEF JInv
<1>8. CASE RefuseImage
  <2>1. /\ OddStereo(images[k0]) /\ Answer(k0, "exception")
        /\ UNCHANGED << pc, image, wire >>
    BY <1>8 DEF RefuseImage, sender
  <2>2. /\ \E S : answers' \in Seq(S)
        /\ Len(answers') = Len(images) /\ answers'[k0] = "exception"
        /\ \A l \in 1 .. Len(images) : l # k0 => answers'[l] = answers[l]
    BY <1>2, <1>4, <2>1, AnswerSet
  <2>3. \A k, n : Handled(k, n)' <=> ~ Waits(k) \/ k = k0
    BY <1>1, <1>2, <2>1 DEF Handled
  <2>4. KeepsHandled
    BY <1>6, <2>3 DEF KeepsHandled
  <2>5. connected' => AddsOnly(0, 0)
    <3>1. \A n : ~ IsSegment(images, k0, n)
      BY <2>1 DEF IsSegment, Proper
    <3>2. \A k, n : IsSegment(images, k, n) /\ k # k0 => (Due(k)' => Due(k))
      BY <1>1, <2>1, <2>2 DEF IsSegment, Due
    <3> QED
      BY <1>1, <1>6, <2>3, <3>1, <3>2 DEF AddsOnly
  <2>6. ThereOnce' /\ Sent'
    BY <1>1, <2>1, <2>4, <2>5, NothingSent
  <2>7. WaitsOnce'
    BY <1>1, <1>2, <2>1 DEF WaitsOnce
  <2>8. AnswersFit'
    <3>1. \A i \in 1 .. Len(requests') : /\ requests'[i].image \in 1 .. Len(images)
                                         /\ requests'[i].image # k0
      <4>1. \A i \in 1 .. Len(requests) : requests[i].image \in 1 .. Len(images)
        BY DEF IInv, RequestsFit, RequestFits
      <4>2. ~ Waits(k0)'
        BY <1>2
      <4> QED
        BY <1>2, <4>1, <4>2 DEF Waits
    <3>2. \A i \in 1 .. Len(requests') : "segment" \notin DOMAIN requests'[i] =>
             answers'[requests'[i].image] = "pending"
      BY <1>2, <1>4, <2>2, <3>1 DEF AnswersFit
    <3>3. \A k \in 1 .. Len(images) : answers'[k] = "true" => Proper(images[k])
      BY <1>4, <2>2 DEF AnswersFit
    <3> QED
      BY <1>1, <2>1, <2>2, <3>2, <3>3 DEF AnswersFit, Proper
  <2> QED
    BY <2>6, <2>7, <2>8 DEF JInv
<1>9. CASE Generate
  <2> DEFINE im == images[k0]
             l == Len(SegmentTasks(im))
  <2>1. /\ image' = k0 /\ ~ OddStereo(im) /\ left' = l
        /\ \/ pc' = "sending" /\ waiting' = DOMAIN SegmentTasks(im)
           \/ pc' = "copying" /\ waiting' = {}
        /\ UNCHANGED << answers, wire >> /\ "segment" \notin DOMAIN Head(requests)
    BY <1>9 DEF Generate
  <2>2. DOMAIN SegmentTasks(im) = 1 .. l /\ l \in Nat /\ Len(TasksOf(k0))' = l
    BY <1>1, <1>3, <2>1, TasksAre DEF TasksOf
  <2>3. \A n \in 1 .. l : ~ Handled(k0, n)'
    BY <1>1, <2>1, <2>2 DEF Handled, Pending
  <2>4. \A k, n : k # k0 => (Handled(k, n)' <=> Handled(k, n)) /\ (Due(k)' => Due(k))
    BY <1>2, <1>6, <2>1 DEF Handled, Due
  <2>5. KeepsHandled
    BY <1>2, <1>6, <2>4 DEF KeepsHandled
  <2>6. connected' => AddsOnly(0, 0)
    <3>1. \A n : IsSegment(images, k0, n) => ~ Handled(k0, n)'
      BY <2>3 DEF IsSegment
    <3> QED
      BY <1>1, <2>4, <3>1 DEF AddsOnly
  <2>7. ThereOnce' /\ Sent'
    BY <1>1, <2>1, <2>5, <2>6, NothingSent
  <2>8. WaitsOnce'
    <3>1. ~ Waits(image)'
      BY <1>2, <2>1
    <3>2. /\ \A i, j \in 1 .. Len(sendQueue') : sendQueue'[i].segment = sendQueue'[j].segment => i = j
          /\ \A i \in 1 .. Len(sendQueue') : sendQueue'[i].segment \notin waiting'
      BY <1>1
    <3> QED
      BY <1>2, <3>1, <3>2 DEF WaitsOnce
  <2>9. AnswersFit'
    <3>1. answers[k0] = "pending"
      <4>1. 1 \in 1 .. Len(requests) /\ requests[1] = Head(requests)
        BY <1>1, RequestTaken
      <4> QED
        BY <1>4, <2>1, <4>1 DEF AnswersFit
    <3> QED
      BY <1>1, <1>2, <1>4, <2>1, <3>1 DEF AnswersFit, Proper
  <2> QED
    BY <2>7, <2>8, <2>9 DEF JInv
<1> QED
  BY <1>7, <1>8, <1>9

LEMMA CompressKeepsSent ==
    ASSUME IInv, JInv, NEW n \in waiting, Compress(n)
    PROVE  JInv'
<1>1. /\ waiting' = waiting \ {n}
      /\ UNCHANGED << images, answers, requests, pc, image, left, connected, wire, tiles >>
  BY DEF Compress, client, server
<1>2. PICK failed \in BOOLEAN : sendQueue' = Append(sendQueue, [segment |-> n, failed |-> failed])
  BY DEF Compress, Enqueue
<1>3. pc \in {"sending", "discarding"} /\ \E R : sendQueue \in Seq(R)
  BY DEF IInv, PoolFits
<1>4. PICK R : sendQueue \in Seq(R)
  BY <1>3
<1>5. /\ Len(sendQueue) \in Nat /\ Len(sendQueue') = Len(sendQueue) + 1
      /\ sendQueue'[Len(sendQueue) + 1].segment = n
      /\ \A i \in 1 .. Len(sendQueue) : sendQueue'[i] = sendQueue[i]
  <2> DEFINE r == [segment |-> n, failed |-> failed]
             T == R \cup {r}
  <2>1. sendQueue \in Seq(T) /\ r \in T /\ r.segment = n
    BY <1>4
  <2>2. sendQueue' = Append(sendQueue, r)
    BY <1>2
  <2> HIDE DEF r, T
  <2> QED
    BY <2>1, <2>2
<1>6. \A i \in 1 .. Len(sendQueue') : i \in 1 .. Len(sendQueue) \/ i = Len(sendQueue) + 1
  BY <1>5
<1>7. /\ \A i, j \in 1 .. Len(sendQueue) : sendQueue[i].segment = sendQueue[j].segment => i = j
      /\ \A i \in 1 .. Len(sendQueue) : sendQueue[i].segment \notin waiting
  BY <1>3 DEF JInv, WaitsOnce
<1>8. ASSUME NEW o
      PROVE  Pending(o)' <=> Pending(o)
  <2>1. Pending(o) => Pending(o)'
    <3>1. ASSUME NEW j \in 1 .. Len(sendQueue)
          PROVE  j \in 1 .. Len(sendQueue') /\ sendQueue'[j] = sendQueue[j]
      BY <1>5
    <3>2. Len(sendQueue) + 1 \in 1 .. Len(sendQueue')
      BY <1>5
    <3>3. CASE o = n
      BY <1>5, <3>2, <3>3 DEF Pending
    <3>4. CASE o # n
      BY <1>1, <3>1, <3>4 DEF Pending
    <3> QED
      BY <3>3, <3>4
  <2>2. Pending(o)' => Pending(o)
    BY <1>1, <1>5, <1>6 DEF Pending
  <2> QED
    BY <2>1, <2>2
<1>9. /\ \A k, o : /\ Handled(k, o)' <=> Handled(k, o)
                   /\ IsSegment(images, k, o)' <=> IsSegment(images, k, o)
      /\ \A k : (Waits(k)' <=> Waits(k)) /\ (Due(k)' <=> Due(k)) /\ TasksOf(k)' = TasksOf(k)
  <2>1. \A k : (Waits(k)' <=> Waits(k)) /\ (Due(k)' <=> Due(k)) /\ TasksOf(k)' = TasksOf(k)
    BY <1>1 DEF Waits, Due, TasksOf
  <2> QED
    BY <1>1, <1>8, <2>1 DEF Handled, IsSegment, Proper
<1>10. ThereOnce' /\ Sent'
  <2>1. KeepsHandled /\ (connected' => AddsOnly(0, 0))
    BY <1>1, <1>9 DEF KeepsHandled, AddsOnly
  <2> QED
    BY <1>1, <2>1, NothingSent
<1>11. WaitsOnce'
  <2>1. \A i, j \in 1 .. Len(sendQueue') : sendQueue'[i].segment = sendQueue'[j].segment => i = j
    BY <1>5, <1>6, <1>7
  <2>2. \A i \in 1 .. Len(sendQueue') : sendQueue'[i].segment \notin waiting'
    BY <1>1, <1>5, <1>6, <1>7
  <2>3. ~ Waits(image) /\ (Waits(image)' <=> Waits(image))
    BY <1>1, <1>3 DEF JInv, WaitsOnce, Waits
  <2> QED
    BY <1>1, <2>1, <2>2, <2>3 DEF JInv, WaitsOnce
<1>12. AnswersFit'
  BY <1>1 DEF JInv, AnswersFit, Proper
<1> QED
  BY <1>10, <1>11, <1>12 DEF JInv

\* A segment leaves the queue, and is waited for no longer.
LEMMA Dequeued ==
    ASSUME IInv, JInv, pc \in {"sending", "discarding"}, Dequeue, UNCHANGED waiting,
           NEW n0, n0 = Head(sendQueue).segment
    PROVE  /\ n0 \in 1 .. Len(TasksOf(image)) /\ Pending(n0)
           /\ \A n : Pending(n)' <=> Pending(n) /\ n # n0
           /\ left = 1 => \A n : ~ Pending(n)'
           /\ \A i, j \in 1 .. Len(sendQueue') : sendQueue'[i].segment = sendQueue'[j].segment => i = j
           /\ \A i \in 1 .. Len(sendQueue') : sendQueue'[i].segment \notin waiting'
<1> DEFINE l == Len(TasksOf(image))
           R == [segment : 1 .. l, failed : BOOLEAN]
<1>1. /\ waiting \in SUBSET (1 .. l) /\ sendQueue \in Seq(R)
      /\ Cardinality(waiting) + Len(sendQueue) = left
      /\ IsFiniteSet(waiting) /\ Cardinality(waiting) \in Nat
  BY ImageOfPool DEF IInv, PoolFits
<1>2. sendQueue # << >> /\ sendQueue' = Tail(sendQueue)
  BY DEF Dequeue
<1>3. \A x \in R : x.segment \in 1 .. l
  OBVIOUS
<1> HIDE DEF l, R
<1>4. /\ Head(sendQueue) = sendQueue[1] /\ Head(sendQueue) \in R
      /\ Len(sendQueue) \in Nat \ {0} /\ Len(sendQueue') = Len(sendQueue) - 1
      /\ \A i \in 1 .. Len(sendQueue') :
            sendQueue'[i] = sendQueue[i + 1] /\ i + 1 \in 1 .. Len(sendQueue)
  BY <1>1, <1>2, EmptySeq
<1>5. /\ \A i, j \in 1 .. Len(sendQueue) : sendQueue[i].segment = sendQueue[j].segment => i = j
      /\ \A i \in 1 .. Len(sendQueue) : sendQueue[i].segment \notin waiting
  BY DEF JInv, WaitsOnce
<1>6. 1 \in 1 .. Len(sendQueue) /\ sendQueue[1].segment = n0
  BY <1>4
<1>7. ASSUME NEW n
      PROVE  Pending(n)' <=> Pending(n) /\ n # n0
  <2>1. ASSUME Pending(n)'
        PROVE  Pending(n) /\ n # n0
    <3>1. CASE n \in waiting
      BY <1>5, <1>6, <3>1 DEF Pending
    <3>2. CASE \E i \in 1 .. Len(sendQueue') : sendQueue'[i].segment = n
      <4>1. PICK i \in 1 .. Len(sendQueue') : sendQueue'[i].segment = n
        BY <3>2
      <4>2. i + 1 \in 1 .. Len(sendQueue) /\ sendQueue[i + 1].segment = n /\ i + 1 # 1
        BY <1>4, <4>1
      <4> QED
        BY <1>5, <1>6, <4>2 DEF Pending
    <3> QED
      BY <2>1, <3>1, <3>2 DEF Pending
  <2>2. ASSUME Pending(n), n # n0
        PROVE  Pending(n)'
    <3>1. CASE n \in waiting
      BY <3>1 DEF Pending
    <3>2. CASE \E i \in 1 .. Len(sendQueue) : sendQueue[i].segment = n
      <4>1. PICK i \in 1 .. Len(sendQueue) : sendQueue[i].segment = n
        BY <3>2
      <4>2. i - 1 \in 1 .. Len(sendQueue') /\ i - 1 + 1 = i
        BY <1>4, <1>6, <2>2, <4>1
      <4>3. sendQueue'[i - 1].segment = n
        BY <1>4, <4>1, <4>2
      <4> QED
        BY <4>2, <4>3 DEF Pending
    <3> QED
      BY <2>2, <3>1, <3>2 DEF Pending
  <2> QED
    BY <2>1, <2>2
<1>8. ASSUME left = 1
      PROVE  \A n : ~ Pending(n)'
  <2>1. Cardinality(waiting) = 0 /\ Len(sendQueue') = 0
    BY <1>1, <1>4, <1>8
  <2>2. waiting = {}
    BY <1>1, <2>1, FS_EmptySet
  <2> QED
    BY <2>1, <2>2 DEF Pending
<1>9. \A i, j \in 1 .. Len(sendQueue') : sendQueue'[i].segment = sendQueue'[j].segment => i = j
  <2> SUFFICES ASSUME NEW i \in 1 .. Len(sendQueue'), NEW j \in 1 .. Len(sendQueue'),
                      sendQueue'[i].segment = sendQueue'[j].segment
               PROVE  i = j
    OBVIOUS
  <2>1. i + 1 = j + 1
    BY <1>4, <1>5
  <2> QED
    BY <1>4, <2>1
<1>10. \A i \in 1 .. Len(sendQueue') : sendQueue'[i].segment \notin waiting'
  BY <1>4, <1>5
<1>11. n0 \in 1 .. l /\ Pending(n0)
  BY <1>3, <1>4, <1>6 DEF Pending
<1> QED
  BY <1>7, <1>8, <1>9, <1>10, <1>11 DEF l

\* The image that is finished is answered, and the others wait as before.
LEMMA FinishAnswers ==
    ASSUME IInv, JInv, pc # "idle", UNCHANGED << images, requests >>,
           NEW v \in {"true", "false", "exception"},
           \/ Answer(image, v) /\ pc' = "idle"
           \/ UNCHANGED << answers, image >>
    PROVE  AnswersFit' /\ \A k \in 1 .. Len(images) : k # image => answers'[k] = answers[k]
<1>1. AnswersFit /\ image \in 1 .. Len(images) /\ Proper(images[image]) /\ ~ Waits(image)
  BY ImageOfPool DEF JInv, WaitsOnce
<1>2. CASE UNCHANGED << answers, image >>
  BY <1>1, <1>2 DEF AnswersFit, Proper
<1>3. CASE Answer(image, v) /\ pc' = "idle"
  <2>1. /\ \E S : answers' \in Seq(S)
        /\ Len(answers') = Len(images) /\ answers'[image] = v
        /\ \A l \in 1 .. Len(images) : l # image => answers'[l] = answers[l]
    BY <1>1, <1>3, AnswerSet
  <2>2. \A i \in 1 .. Len(requests) : /\ requests[i].image \in 1 .. Len(images)
                                      /\ requests[i].image # image
    BY <1>1 DEF IInv, RequestsFit, RequestFits, Waits
  <2>3. \A i \in 1 .. Len(requests) : "segment" \notin DOMAIN requests[i] =>
           answers'[requests[i].image] = "pending"
    BY <1>1, <2>1, <2>2 DEF AnswersFit
  <2>4. \A k \in 1 .. Len(images) : answers'[k] = "true" => Proper(images[k])
    BY <1>1, <2>1 DEF AnswersFit
  <2> QED
    BY <1>3, <2>1, <2>3, <2>4 DEF AnswersFit, Proper
<1> QED
  BY <1>2, <1>3

\* The loop that sends what the pool has compressed, and what it does about a failure.
LEMMA SendingKeepsSent ==
    ASSUME IInv, JInv, SendNext \/ MeetFailure \/ Discard
    PROVE  JInv'
<1> PICK k0, n0 : k0 = image /\ n0 = Head(sendQueue).segment
  OBVIOUS
<1>1. /\ pc \in {"sending", "discarding"} /\ Dequeue
      /\ \/ left = 1 /\ pc' = "idle" /\ image' = 0
         \/ left # 1 /\ pc' \in {"sending", "discarding"} /\ image' = image
      /\ UNCHANGED << images, requests, waiting, connected, tiles >>
  BY DEF SendNext, MeetFailure, Discard, Finish, Continue, server
<1>2. /\ n0 \in 1 .. Len(TasksOf(image)) /\ Pending(n0)
      /\ \A n : Pending(n)' <=> Pending(n) /\ n # n0
      /\ left = 1 => \A n : ~ Pending(n)'
      /\ \A i, j \in 1 .. Len(sendQueue') : sendQueue'[i].segment = sendQueue'[j].segment => i = j
      /\ \A i \in 1 .. Len(sendQueue') : sendQueue'[i].segment \notin waiting'
  BY <1>1, Dequeued
<1>3. /\ k0 \in 1 .. Len(images) /\ ~ Waits(k0) /\ answers[k0] = "pending"
      /\ \A n \in 1 .. Len(TasksOf(image)) : IsSegment(images, k0, n)
  BY <1>1, ImageOfPool DEF JInv, WaitsOnce, AnswersFit
<1>4. \A k : Waits(k)' <=> Waits(k)
  BY <1>1 DEF Waits
<1>5. ASSUME NEW k, NEW n, IsSegment(images, k, n)
      PROVE  Handled(k, n)' <=> Handled(k, n) \/ (k = k0 /\ n = n0)
  <2>1. CASE k = k0
    <3>1. Handled(k, n) <=> ~ Pending(n)
      BY <1>1, <1>3, <2>1 DEF Handled
    <3>2. Handled(k, n)' <=> ~ Pending(n)'
      BY <1>1, <1>2, <1>3, <1>4, <2>1 DEF Handled
    <3> QED
      BY <1>2, <2>1, <3>1, <3>2
  <2>2. CASE k # k0
    BY <1>1, <1>4, <2>2 DEF Handled
  <2> QED
    BY <2>1, <2>2
<1>6. ~ Handled(k0, n0) /\ Handled(k0, n0)'
  <2>1. ~ Handled(k0, n0)
    BY <1>1, <1>2 DEF Handled
  <2> QED
    BY <1>2, <1>3, <1>5, <2>1
<1>7. KeepsHandled
  BY <1>5 DEF KeepsHandled
<1>8. WaitsOnce'
  <2>1. pc' # "idle" => ~ Waits(image)'
    BY <1>1, <1>3, <1>4
  <2> QED
    BY <1>1, <1>2, <2>1 DEF JInv, WaitsOnce
<1>9. PICK v \in {"true", "false", "exception"} :
          /\ \/ Answer(image, v) /\ pc' = "idle"
             \/ UNCHANGED << answers, image >> /\ pc' # "idle"
          /\ ~ SendNext => v = "exception"
  <2>1. CASE SendNext
    BY <1>1, <2>1 DEF SendNext, Finish, Continue, Answered
  <2>2. CASE MeetFailure \/ Discard
    BY <1>1, <2>2 DEF MeetFailure, Discard, Finish
  <2> QED
    BY <2>1, <2>2
<1>10. AnswersFit' /\ \A k \in 1 .. Len(images) : k # k0 => answers'[k] = answers[k]
  BY <1>1, <1>9, FinishAnswers
<1>11. ASSUME NEW k \in 1 .. Len(images), k # k0
       PROVE  Due(k)' => Due(k)
  BY <1>1, <1>10, <1>11 DEF Due
<1>12. ThereOnce' /\ Sent'
  <2>1. CASE SendNext
    <3>1. pc = "sending" /\ SendSegment(Jpeg(images[image], Tasks[n0]), k0)
      BY <2>1 DEF SendNext
    <3>2. Jpeg(images[image], Tasks[n0]) = SegmentOf(images[k0], n0)
      BY <3>1 DEF SegmentOf, Tasks, IInv, PoolFits
    <3>3. Due(k0)
      BY <3>1 DEF Due
    <3>4. AddsOnly(k0, n0)
      <4>1. ASSUME NEW k, NEW n, IsSegment(images, k, n), Due(k)', Handled(k, n)'
            PROVE  (k = k0 /\ n = n0) \/ (Due(k) /\ Handled(k, n))
        <5>1. k \in 1 .. Len(images)
          BY <4>1 DEF IsSegment
        <5> QED
          BY <1>5, <1>11, <3>3, <4>1, <5>1
      <4> QED
        BY <1>1, <4>1 DEF AddsOnly
    <3> QED
      BY <1>1, <1>2, <1>3, <1>6, <1>7, <3>1, <3>2, <3>4, SegmentSent
  <2>2. CASE (MeetFailure \/ Discard) /\ ~ SendNext
    <3>1. wire' = wire
      BY <2>2 DEF MeetFailure, Discard
    <3>2. ~ Due(k0)'
      <4>1. CASE left = 1
        <5>1. answers'[k0] = "exception"
          BY <1>1, <1>3, <1>9, <2>2, <4>1, AnswerSet DEF JInv
        <5> QED
          BY <1>1, <4>1, <5>1 DEF Due
      <4>2. CASE left # 1
        <5>1. pc' = "discarding" /\ answers' = answers
          BY <2>2, <4>2 DEF MeetFailure, Discard
        <5> QED
          BY <1>3, <5>1 DEF Due
      <4> QED
        BY <4>1, <4>2
    <3>3. connected' => AddsOnly(0, 0)
      <4>1. ASSUME NEW k, NEW n, IsSegment(images, k, n), Due(k)', Handled(k, n)'
            PROVE  Due(k) /\ Handled(k, n)
        <5>1. k \in 1 .. Len(images) /\ k # k0
          BY <3>2, <4>1 DEF IsSegment
        <5> QED
          BY <1>5, <1>11, <4>1, <5>1
      <4> QED
        BY <1>1, <4>1 DEF AddsOnly
    <3> QED
      BY <1>1, <1>7, <3>1, <3>3, NothingSent
  <2> QED
    BY <2>1, <2>2
<1> QED
  BY <1>8, <1>10, <1>12 DEF JInv

\* The loop that sends an image as it is.
LEMMA SendRawKeepsSent ==
    ASSUME IInv, JInv, SendRaw
    PROVE  JInv'
<1> PICK k0, n0 : k0 = image /\ n0 = Len(Tasks) - left + 1
  OBVIOUS
<1> DEFINE l == Len(TasksOf(k0))
<1>1. /\ pc = "copying" /\ left \in 1 .. l /\ Copied(images[image]) /\ images \in Seq(Images)
      /\ UNCHANGED << images, requests, waiting, sendQueue, connected, tiles >>
  BY DEF IInv, PoolFits, SendRaw, server
<1>2. /\ k0 \in 1 .. Len(images) /\ ~ Waits(k0) /\ answers[k0] = "pending"
      /\ Tasks = TasksOf(k0) /\ l \in Nat \ {0}
      /\ \A n \in 1 .. l : IsSegment(images, k0, n)
  BY <1>1, ImageOfPool DEF JInv, WaitsOnce, AnswersFit
<1>3. \A k : (Waits(k)' <=> Waits(k)) /\ TasksOf(k)' = TasksOf(k)
  BY <1>1 DEF Waits, TasksOf
<1>4. n0 \in 1 .. l /\ n0 = l - left + 1
  BY <1>1, <1>2
<1>5. \/ pc' = "idle" /\ image' = 0 /\ (connected => left = 1)
      \/ pc' = "copying" /\ image' = image /\ left > 1 /\ left' = left - 1
  BY <1>1, <1>2 DEF SendRaw, Finish, Continue
<1>6. PICK v \in {"true", "false", "exception"} :
          \/ Answer(image, v) /\ pc' = "idle"
          \/ UNCHANGED << answers, image >>
  BY DEF SendRaw, Finish, Continue, Answered
<1>7. AnswersFit' /\ \A k \in 1 .. Len(images) : k # k0 => answers'[k] = answers[k]
  BY <1>1, <1>6, FinishAnswers
<1>8. WaitsOnce'
  <2>1. pc' # "idle" => ~ Waits(image)'
    BY <1>2, <1>3, <1>5
  <2> QED
    BY <1>1, <1>5, <2>1 DEF JInv, WaitsOnce
<1>9. SendSegment(SegmentOf(images[k0], n0), k0)
  <2>1. SegmentOf(images[k0], n0) = Raw(images[image], Tasks[n0])
    BY <1>1 DEF SegmentOf, Tasks
  <2> QED
    BY <2>1 DEF SendRaw
<1>10. ASSUME NEW n
       PROVE  Handled(k0, n) <=> n <= l - left
  BY <1>1, <1>2 DEF Handled
<1>11. ASSUME NEW n \in 1 .. l
       PROVE  Handled(k0, n)' <=> pc' = "idle" \/ n <= l - left + 1
  <2>1. CASE pc' = "idle"
    BY <1>2, <1>3, <2>1 DEF Handled
  <2>2. CASE pc' # "idle"
    <3>1. Handled(k0, n)' <=> n <= l - left'
      BY <1>2, <1>3, <1>5, <2>2 DEF Handled
    <3> HIDE DEF l
    <3>2. left' = left - 1 /\ l - (left - 1) = l - left + 1
      BY <1>1, <1>2, <1>5, <2>2
    <3> QED
      BY <2>2, <3>1, <3>2
  <2> QED
    BY <2>1, <2>2
<1>12. ASSUME NEW k, NEW n, k # k0
       PROVE  Handled(k, n)' <=> Handled(k, n)
  BY <1>1, <1>3, <1>5, <1>12 DEF Handled
<1>13. \A k, n : IsSegment(images, k, n) => k \in 1 .. Len(images) /\ (k = k0 => n \in 1 .. l)
  BY DEF IsSegment, TasksOf
<1> HIDE DEF l
<1>14. KeepsHandled
  <2>1. ASSUME NEW n \in 1 .. l, Handled(k0, n)
        PROVE  Handled(k0, n)'
    <3>1. n <= l - left
      BY <1>10, <2>1
    <3>2. n <= l - left + 1
      BY <1>1, <1>2, <3>1
    <3> QED
      BY <1>11, <3>2
  <2> QED
    BY <1>12, <1>13, <2>1 DEF KeepsHandled
<1>15. ThereOnce' /\ Sent'
  <2>1. CASE ~ connected
    <3>1. wire' = wire /\ ~ connected'
      BY <1>1, <1>9, <2>1 DEF SendSegment
    <3> QED
      BY <1>1, <1>14, <3>1, NothingSent
  <2>2. CASE connected
    <3>1. ~ Handled(k0, n0)
      <4>1. ~ (n0 <= l - left)
        BY <1>1, <1>2, <1>4
      <4> QED
        BY <1>10, <4>1
    <3>2. Handled(k0, n0)'
      <4>1. n0 <= l - left + 1
        BY <1>1, <1>2, <1>4
      <4> QED
        BY <1>4, <1>11, <4>1
    <3>3. ASSUME NEW n \in 1 .. l, Handled(k0, n)', n # n0
          PROVE  Handled(k0, n)
      <4>1. pc' = "idle" => left = 1
        BY <1>5, <2>2
      <4>2. n <= l - left + 1
        BY <1>1, <1>2, <1>11, <3>3, <4>1
      <4>3. n <= l - left
        BY <1>1, <1>2, <1>4, <3>3, <4>2
      <4> QED
        BY <1>10, <4>3
    <3>4. Due(k0) /\ \A k \in 1 .. Len(images) : k # k0 => (Due(k)' => Due(k))
      BY <1>1, <1>5, <1>7 DEF Due
    <3>5. AddsOnly(k0, n0)
      <4>1. ASSUME NEW k, NEW n, IsSegment(images, k, n), Due(k)', Handled(k, n)'
            PROVE  (k = k0 /\ n = n0) \/ (Due(k) /\ Handled(k, n))
        BY <1>12, <1>13, <3>3, <3>4, <4>1
      <4> QED
        BY <1>1, <2>2, <4>1 DEF AddsOnly
    <3> QED
      BY <1>1, <1>2, <1>4, <1>9, <1>14, <3>1, <3>2, <3>5, SegmentSent
  <2> QED
    BY <2>1, <2>2
<1> QED
  BY <1>7, <1>8, <1>15 DEF JInv

\* The application's thread adds an image, with what it is answered at once.
LEMMA SendImageKeepsSent ==
    ASSUME IInv, JInv, NEW im \in Images, SendImage(im)
    PROVE  JInv'
<1> PICK k0 : k0 = Len(images) + 1
  OBVIOUS
<1>1. /\ images \in Seq(Images) /\ images' = Append(images, im)
      /\ UNCHANGED << pc, image, waiting, sendQueue, left, connected, wire, tiles >>
  BY DEF IInv, SendImage, sender, server
<1>2. /\ Len(images) \in Nat /\ Len(images') = k0 /\ k0 \in Nat /\ images'[k0] = im
      /\ \A i \in 1 .. Len(images) : images'[i] = images[i] /\ i # k0 /\ i \in 1 .. Len(images')
      /\ \A i \in 1 .. Len(images') : i \in 1 .. Len(images) \/ i = k0
  BY <1>1
<1>3. PICK v \in {"pending", "true", "exception"} :
          /\ answers' = Append(answers, v) /\ (v = "true" => Proper(im))
          /\ \/ requests' = requests /\ v = "exception"
             \/ \E r : /\ requests' = Append(requests, r) /\ r.image = k0
                       /\ "segment" \notin DOMAIN r => v = "pending"
  <2>1. CASE CheckParameters(im) /\ SendSmall(im)
    <3> DEFINE r == [segment |-> SingleSegment(im), image |-> k0]
    <3>1. r.image = k0 /\ "segment" \in DOMAIN r
      OBVIOUS
    <3>2. \/ /\ ~ OddStereo(im) /\ answers' = Append(answers, "true")
             /\ requests' = Append(requests, r)
          \/ answers' = Append(answers, "exception") /\ requests' = requests
      BY <2>1 DEF SendSmall, Ready
    <3> HIDE DEF r
    <3> QED
      BY <2>1, <3>1, <3>2 DEF Proper
  <2>2. CASE SendLarge
    <3> DEFINE r == [image |-> k0]
    <3>1. r.image = k0 /\ requests' = Append(requests, r) /\ answers' = Append(answers, "pending")
      BY <2>2 DEF SendLarge
    <3> HIDE DEF r
    <3> QED
      BY <3>1
  <2>3. CASE Ready("exception") /\ UNCHANGED requests
    BY <2>3 DEF Ready
  <2> QED
    BY <2>1, <2>2, <2>3 DEF SendImage
<1>4. /\ \E S : answers' \in Seq(S)
      /\ Len(answers') = k0 /\ answers'[k0] = v
      /\ \A k \in 1 .. Len(images) : answers'[k] = answers[k]
  <2> PICK S : answers \in Seq(S)
    BY DEF JInv, AnswersFit
  <2>1. Len(answers) = Len(images) /\ answers \in Seq(S \cup {v}) /\ v \in S \cup {v}
    BY DEF JInv, AnswersFit
  <2> QED
    BY <1>2, <1>3, <2>1
<1>5. \A i \in 1 .. Len(requests) : requests[i].image \in 1 .. Len(images)
  BY DEF IInv, RequestsFit, RequestFits
<1>6. /\ \A k \in 1 .. Len(images) : Waits(k)' <=> Waits(k)
      /\ v = "true" => Waits(k0)'
      /\ \A i, j \in 1 .. Len(requests') : requests'[i].image = requests'[j].image => i = j
      /\ \A i \in 1 .. Len(requests') : "segment" \notin DOMAIN requests'[i] =>
             answers'[requests'[i].image] = "pending"
  <2> PICK S : requests \in Seq(S)
    BY DEF IInv, RequestsFit
  <2>1. /\ \A i, j \in 1 .. Len(requests) : requests[i].image = requests[j].image => i = j
        /\ \A i \in 1 .. Len(requests) : "segment" \notin DOMAIN requests[i] =>
             answers[requests[i].image] = "pending"
    BY DEF JInv, WaitsOnce, AnswersFit
  <2>2. CASE requests' = requests /\ v = "exception"
    BY <1>4, <1>5, <2>1, <2>2 DEF Waits
  <2>3. CASE \E r : /\ requests' = Append(requests, r) /\ r.image = k0
                    /\ "segment" \notin DOMAIN r => v = "pending"
    <3> PICK r : /\ requests' = Append(requests, r) /\ r.image = k0
                 /\ "segment" \notin DOMAIN r => v = "pending"
      BY <2>3
    <3>1. requests \in Seq(S \cup {r}) /\ r \in S \cup {r}
      OBVIOUS
    <3>2. /\ Len(requests) \in Nat
          /\ Len(requests') = Len(requests) + 1 /\ requests'[Len(requests) + 1] = r
          /\ \A i \in 1 .. Len(requests) : requests'[i] = requests[i] /\ i \in 1 .. Len(requests')
      BY <3>1
    <3>3. /\ \A i \in 1 .. Len(requests') : i \in 1 .. Len(requests) \/ i = Len(requests) + 1
          /\ Len(requests) + 1 \in 1 .. Len(requests')
      BY <3>2
    <3>4. Waits(k0)'
      BY <3>2, <3>3 DEF Waits
    <3>5. \A k \in 1 .. Len(images) : Waits(k)' <=> Waits(k)
      BY <1>2, <3>2, <3>3 DEF Waits
    <3>6. \A i, j \in 1 .. Len(requests') : requests'[i].image = requests'[j].image => i = j
      BY <1>2, <1>5, <2>1, <3>2, <3>3
    <3>7. \A i \in 1 .. Len(requests') : "segment" \notin DOMAIN requests'[i] =>
             answers'[requests'[i].image] = "pending"
      BY <1>4, <1>5, <2>1, <3>2, <3>3
    <3> QED
      BY <3>4, <3>5, <3>6, <3>7
  <2> QED
    BY <1>3, <2>2, <2>3
<1>7. pc # "idle" => image \in 1 .. Len(images) /\ ~ Waits(image)
  BY DEF IInv, PoolFits, JInv, WaitsOnce
<1>8. WaitsOnce'
  <2>1. pc # "idle" => ~ Waits(image)'
    <3>1. pc # "idle" => \A k : k = image => ~ Waits(k)'
      BY <1>6, <1>7
    <3> QED
      BY <1>1, <3>1 DEF Waits
  <2> QED
    BY <1>1, <1>6, <2>1 DEF JInv, WaitsOnce
<1>9. AnswersFit'
  <2>1. pc # "idle" => answers'[image] = "pending"
    BY <1>4, <1>7 DEF JInv, AnswersFit
  <2>2. \A k \in 1 .. Len(images') : answers'[k] = "true" => Proper(images'[k])
    BY <1>2, <1>3, <1>4 DEF JInv, AnswersFit
  <2> QED
    BY <1>1, <1>2, <1>4, <1>6, <2>1, <2>2 DEF AnswersFit, Proper
<1>10. ASSUME NEW k \in 1 .. Len(images), NEW n
       PROVE  /\ Handled(k, n)' <=> Handled(k, n)
              /\ IsSegment(images, k, n)' <=> IsSegment(images, k, n)
              /\ TasksOf(k)' = TasksOf(k) /\ (Due(k)' <=> Due(k))
              /\ OnWire(k, n)' <=> OnWire(k, n)
              /\ InBag(k, n)' <=> InBag(k, n)
  <2>1. k \in 1 .. Len(images') /\ images'[k] = images[k] /\ (Waits(k)' <=> Waits(k))
    BY <1>2, <1>6
  <2>2. /\ MessageOf(images, k, n)' = MessageOf(images, k, n)
        /\ TileOf(images, k, n)' = TileOf(images, k, n)
        /\ TasksOf(k)' = TasksOf(k)
    BY <2>1 DEF MessageOf, TileOf, TasksOf
  <2>3. Pending(n)' <=> Pending(n)
    BY <1>1 DEF Pending
  <2>4. Handled(k, n)' <=> Handled(k, n)
    BY <1>1, <2>1, <2>2, <2>3 DEF Handled
  <2> QED
    BY <1>1, <1>4, <2>1, <2>2, <2>4 DEF IsSegment, Proper, Due, OnWire, InBag
<1>11. ASSUME NEW n
       PROVE  ~ OnWire(k0, n)' /\ ~ InBag(k0, n)'
  <2>1. ~ OnWire(k0, n)'
    <3> SUFFICES ASSUME OnWire(k0, n)'
                 PROVE  FALSE
      OBVIOUS
    <3>1. PICK i \in 1 .. Len(wire) : wire[i] = MessageOf(images', k0, n)
      BY <1>1 DEF OnWire, MessageOf
    <3>2. wire[i].set = "tile" /\ wire[i].of = k0
      BY <3>1, MessageIs
    <3>3. PICK k \in Nat, o \in Nat :
              IsSegment(images, k, o) /\ wire[i] = MessageOf(images, k, o)
      BY <3>2, WireIs
    <3>4. wire[i].of = k /\ k \in 1 .. Len(images)
      BY <3>3, MessageIs DEF IsSegment
    <3> QED
      BY <1>2, <3>2, <3>4
  <2>2. ~ InBag(k0, n)'
    <3> SUFFICES ASSUME InBag(k0, n)'
                 PROVE  FALSE
      OBVIOUS
    <3>1. TileOf(images', k0, n) \in BagToSet(tiles)
      BY <1>1 DEF InBag, TileOf
    <3>2. PICK k \in Nat, o \in Nat :
              IsSegment(images, k, o) /\ TileOf(images', k0, n) = TileOf(images, k, o)
      BY <3>1 DEF IInv, TilesFit
    <3>3. k0 = k /\ k \in 1 .. Len(images)
      BY <3>2 DEF TileOf, IsSegment
    <3> QED
      BY <1>2, <3>3
  <2> QED
    BY <2>1, <2>2
<1>12. ThereOnce'
  <2>1. ASSUME NEW k \in 1 .. Len(images'), NEW n \in 1 .. Len(TasksOf(k)'),
               IsSegment(images, k, n)'
        PROVE  /\ OnWire(k, n)' => Handled(k, n)' /\ ~ InBag(k, n)'
               /\ InBag(k, n)' => Handled(k, n)'
    <3>1. CASE k \in 1 .. Len(images)
      BY <1>10, <2>1, <3>1 DEF JInv, ThereOnce
    <3>2. CASE k = k0
      BY <1>11, <3>2
    <3> QED
      BY <1>2, <3>1, <3>2
  <2> QED
    BY <1>1, <2>1 DEF JInv, ThereOnce
<1>13. Sent'
  <2>1. ASSUME connected, NEW k \in 1 .. Len(images'), NEW n \in 1 .. Len(TasksOf(k)'),
               IsSegment(images, k, n)', Due(k)', Handled(k, n)'
        PROVE  OnWire(k, n)' \/ InBag(k, n)'
    <3>1. CASE k \in 1 .. Len(images)
      BY <1>10, <2>1, <3>1 DEF JInv, Sent
    <3>2. CASE k = k0
      <4>1. k0 # image \/ pc = "idle"
        BY <1>2, <1>7
      <4>2. v = "true"
        BY <1>1, <1>4, <2>1, <3>2, <4>1 DEF Due
      <4> QED
        BY <1>6, <2>1, <3>2, <4>2 DEF Handled
    <3> QED
      BY <1>2, <3>1, <3>2
  <2> QED
    BY <1>1, <2>1 DEF Sent
<1> QED
  BY <1>8, <1>9, <1>12, <1>13 DEF JInv

LEMMA NextJInv ==
    IInv /\ JInv /\ [Next]_vars => JInv'
<1> SUFFICES ASSUME IInv, JInv, [Next]_vars
             PROVE  JInv'
  OBVIOUS
<1>1. CASE Break \/ UNCHANGED vars
  <2>1. /\ UNCHANGED << images, answers, requests, pc, image, waiting, sendQueue, left >>
        /\ UNCHANGED << wire, tiles >> /\ (connected' => connected)
    BY <1>1 DEF Break, vars, client, sender, server
  <2>2. \A k : /\ Waits(k)' <=> Waits(k)
               /\ Pending(k)' <=> Pending(k)
               /\ Due(k)' <=> Due(k)
               /\ TasksOf(k)' = TasksOf(k)
    BY <2>1 DEF Waits, Pending, Due, TasksOf
  <2>3. \A k, n : Handled(k, n)' <=> Handled(k, n)
    BY <2>1, <2>2 DEF Handled
  <2>4. KeepsHandled /\ (connected' => AddsOnly(0, 0))
    BY <2>1, <2>2, <2>3 DEF KeepsHandled, AddsOnly
  <2>5. ThereOnce' /\ Sent'
    BY <2>1, <2>4, NothingSent
  <2>6. WaitsOnce'
    BY <2>1 DEF JInv, WaitsOnce, Waits
  <2>7. AnswersFit'
    BY <2>1 DEF JInv, AnswersFit, Proper
  <2> QED
    BY <2>5, <2>6, <2>7 DEF JInv
<1>2. CASE ServerWorker
  BY <1>2, ReceiveKeeps
<1>3. CASE Pool
  BY <1>3, CompressKeepsSent DEF Pool
<1>4. CASE \E im \in Images : SendImage(im)
  BY <1>4, SendImageKeepsSent
<1>5. CASE SendThread
  BY <1>5, IdleKeepsSent, SendingKeepsSent, SendRawKeepsSent DEF SendThread
<1> QED
  BY <1>1, <1>2, <1>3, <1>4, <1>5 DEF Next

LEMMA InitJInv ==
    Init => JInv
<1> SUFFICES ASSUME Init
             PROVE  JInv
  OBVIOUS
<1>1. /\ images = << >> /\ answers = << >> /\ requests = << >> /\ wire = << >>
      /\ tiles = EmptyBag /\ pc = "idle" /\ Len(<< >>) = 0 /\ << >> \in Seq({})
  BY DEF Init
<1>2. BagToSet(tiles) = {}
  BY <1>1 DEF BagToSet, EmptyBag, SetToBag
<1> QED
  BY <1>1, <1>2 DEF JInv, WaitsOnce, AnswersFit, ThereOnce, Sent

LEMMA SentOnceKept ==
    Spec => [](IInv /\ JInv)
<1>1. Init => IInv /\ JInv
  BY InitIInv, InitJInv
<1>2. IInv /\ JInv /\ [Next]_vars => (IInv /\ JInv)'
  BY NextIInv, NextJInv
<1> QED
  BY <1>1, <1>2, PTL DEF Spec

-----------------------------------------------------------------------------
(* What the tiles show                                                     *)

\* An image whose raw segments are at the places where they are read from.
Placeable(im) ==
    ~ Copied(im) \/ Len(SegmentTasks(im)) = 1 \/ (im.x = 0 /\ im.y = 0)

\* The bytes of a pixel are taken for what they are, or skipped.
LEMMA FormatsFit ==
    ASSUME NEW format \in PixelFormats
    PROVE  TakenFor(TurboJpegFormat(format), Components(format))
<1>1. ASSUME NEW a, NEW b, NEW c, NEW d
      PROVE  /\ TakenFor(<< a, b, c >>, << a, b, c >>)
             /\ TakenFor(<< "x", b, c, d >>, << a, b, c, d >>)
             /\ TakenFor(<< a, b, c, "x" >>, << a, b, c, d >>)
  BY DEF TakenFor
<1>2. /\ Components("rgb") = << "r", "g", "b" >> /\ TurboJpegFormat("rgb") = << "r", "g", "b" >>
      /\ Components("bgr") = << "b", "g", "r" >> /\ TurboJpegFormat("bgr") = << "b", "g", "r" >>
  BY DEF TurboJpegFormat, Components
<1>3. /\ Components("rgba") = << "r", "g", "b", "a" >>
      /\ TurboJpegFormat("rgba") = << "r", "g", "b", "x" >>
      /\ Components("bgra") = << "b", "g", "r", "a" >>
      /\ TurboJpegFormat("bgra") = << "b", "g", "r", "x" >>
  BY DEF TurboJpegFormat, Components
<1>4. /\ Components("argb") = << "a", "r", "g", "b" >>
      /\ TurboJpegFormat("argb") = << "x", "r", "g", "b" >>
      /\ Components("abgr") = << "a", "b", "g", "r" >>
      /\ TurboJpegFormat("abgr") = << "x", "b", "g", "r" >>
  BY DEF TurboJpegFormat, Components
<1> QED
  BY <1>1, <1>2, <1>3, <1>4 DEF PixelFormats

\* The fields of a tile are those of its segment.
LEMMA TileIs ==
    ASSUME images \in Seq(Images), NEW k, NEW n, IsSegment(images, k, n),
           NEW t, t = TileOf(images, k, n), NEW im, im = images[k],
           NEW p, p = SegmentTasks(im)[n].parameters
    PROVE  /\ im \in Images /\ Proper(im) /\ ~ OddStereo(im)
           /\ n \in 1 .. Len(SegmentTasks(im)) /\ t.of = k
           /\ t.x = p.x /\ t.y = p.y /\ t.width = p.width /\ t.height = p.height
           /\ t.view = SegmentTasks(im)[n].view
           /\ t.rowOrder = im.rowOrder /\ t.channel = im.channel
           /\ t.data = SegmentOf(im, n).data /\ t.bytes = SegmentOf(im, n).bytes
           /\ "y" \in DOMAIN t
<1>1. /\ im \in Images /\ Proper(im) /\ ~ OddStereo(im)
      /\ n \in 1 .. Len(SegmentTasks(im))
  BY DEF IsSegment, Proper
<1> DEFINE s == SegmentOf(im, n)
<1>2. /\ s.parameters = p /\ s.view = SegmentTasks(im)[n].view
      /\ s.rowOrder = im.rowOrder /\ s.channel = im.channel
  BY <1>1, SegmentIs
<1>3. t = [x |-> s.parameters.x, y |-> s.parameters.y,
           width |-> s.parameters.width, height |-> s.parameters.height,
           format |-> s.format, data |-> s.data, bytes |-> s.bytes, of |-> k,
           view |-> s.view, rowOrder |-> s.rowOrder, channel |-> s.channel]
  BY DEF TileOf
<1> HIDE DEF s
<1> QED
  BY <1>1, <1>2, <1>3 DEF s

LEMMA TilesInPlace ==
    ASSUME IInv, \A im \in Images : Placeable(im)
    PROVE  InPlace
<1> SUFFICES ASSUME NEW tile \in BagToSet(tiles), NEW im, im = images[tile.of], NEW eye,
                    eye = IF IsStereo(im) /\ tile.view = "right_eye" THEN im.width \div 2 ELSE 0
             PROVE  /\ tile.data = (tile.y - im.y) * im.width + (tile.x - im.x) + eye
                    /\ TakenFor(tile.bytes, Components(im.pixelFormat))
  BY DEF InPlace
<1>1. PICK k \in Nat, n \in Nat : IsSegment(images, k, n) /\ tile = TileOf(images, k, n)
  BY DEF IInv, TilesFit
<1> DEFINE task == SegmentTasks(im)[n]
           p == task.parameters
<1>2. tile.of = k
  BY <1>1 DEF TileOf
<1>3. /\ im \in Images /\ Proper(im) /\ ~ OddStereo(im) /\ n \in 1 .. Len(SegmentTasks(im))
      /\ tile.x = p.x /\ tile.y = p.y /\ tile.view = task.view
      /\ tile.data = SegmentOf(im, n).data /\ tile.bytes = SegmentOf(im, n).bytes
  BY <1>1, <1>2, TileIs DEF IInv
<1>4. IF Copied(im) THEN tile.data = RawOffset(im, task) /\ tile.bytes = Components("rgba")
      ELSE tile.data = JpegOffset(im, task) /\ tile.bytes = TurboJpegFormat(im.pixelFormat)
  BY <1>3, SegmentIs
<1>5. RightHalf(im, task) = eye
  BY <1>3 DEF RightHalf, OnRightSide
<1>6. im \in ImageWrapper /\ im.width \in Nat /\ im.x \in Nat /\ im.y \in Nat
  BY <1>3, ImageTyped DEF ImageWrapper
<1>7. CASE ~ Copied(im)
  <2>1. im.pixelFormat \in PixelFormats
    BY <1>6 DEF ImageWrapper
  <2>2. TakenFor(tile.bytes, Components(im.pixelFormat))
    BY <1>4, <1>7, <2>1, FormatsFit
  <2>3. tile.data = (p.y - im.y) * im.width + (p.x - im.x) + RightHalf(im, task)
    BY <1>4, <1>7 DEF JpegOffset
  <2> HIDE DEF task
  <2> QED
    BY <1>3, <1>5, <2>2, <2>3
<1>8. CASE Copied(im)
  <2>1. im.policy # "on" /\ im.pixelFormat = "rgba"
    BY <1>3, <1>8 DEF Copied, Proper, CheckParameters
  <2>2. TakenFor(tile.bytes, Components(im.pixelFormat))
    BY <1>4, <1>8, <2>1 DEF TakenFor
  <2>3. p.x \in Nat /\ p.y \in Nat
    BY <1>3, SegmentsWithin DEF Rectangles
  <2>4. CASE Len(SegmentTasks(im)) = 1
    <3>1. /\ tile.data = 0 /\ n = 1
      BY <1>3, <1>4, <1>8, <2>4 DEF RawOffset
    <3>2. /\ Cells(im) \in Nat \ {0}
          /\ Len(SegmentTasks(im)) = IF IsStereo(im) THEN Cells(im) + Cells(im) ELSE Cells(im)
          /\ task = Task(im, CellNumber(im, n), EyeOf(im, n))
      BY <1>3, TasksAre
    <3>3. ~ IsStereo(im) /\ CellNumber(im, n) = 1
      <4>1. \A c \in Nat \ {0} : c + c # 1 /\ 1 <= c
        OBVIOUS
      <4>2. ~ IsStereo(im)
        BY <2>4, <3>2, <4>1
      <4>3. 1 <= Cells(im)
        BY <3>2, <4>1
      <4> QED
        BY <3>1, <4>2, <4>3 DEF CellNumber
    <3>4. Column(im, 1) = 0 /\ Row(im, 1) = 0
      <4>1. CountX(im) \in Nat \ {0} /\ CountY(im) \in Nat \ {0}
        BY <1>3, ImageCut
      <4>2. 0 \in 0 .. CountX(im) - 1 /\ 0 \in 0 .. CountY(im) - 1 /\ 0 * CountX(im) + 0 + 1 = 1
        BY <4>1
      <4> QED
        BY <1>3, <4>2, CellAt
    <3>5. p = SegmentParameters(im, 0, 0)
      BY <3>2, <3>3, <3>4 DEF Task
    <3>6. p.x = im.x /\ p.y = im.y
      <4>1. 0 * NominalWidth = 0 /\ 0 * NominalHeight = 0
        BY NominalAssumption
      <4> QED
        BY <1>6, <3>5, <4>1 DEF SegmentParameters
    <3>7. eye = 0
      BY <3>3
    <3> HIDE DEF task
    <3>8. (tile.y - im.y) * im.width + (tile.x - im.x) + eye = 0
      BY <1>3, <1>6, <3>6, <3>7
    <3> QED
      BY <2>2, <3>1, <3>8
  <2>5. CASE Len(SegmentTasks(im)) # 1
    <3>1. im.x = 0 /\ im.y = 0
      BY <1>3, <1>8, <2>5 DEF Placeable
    <3>2. tile.data = p.y * im.width + p.x + eye
      BY <1>4, <1>5, <1>8, <2>5 DEF RawOffset
    <3> HIDE DEF task
    <3>3. p.y - im.y = p.y /\ p.x - im.x = p.x
      BY <2>3, <3>1
    <3> QED
      BY <1>3, <2>2, <3>2, <3>3
  <2> QED
    BY <2>4, <2>5
<1> QED
  BY <1>7, <1>8

LEMMA MaxIs ==
    ASSUME NEW S \in SUBSET Int, NEW m \in S, \A e \in S : e <= m
    PROVE  Max(S) = m
<1>1. \A x \in S : (\A y \in S : x >= y) => x = m
  OBVIOUS
<1>2. \A y \in S : m >= y
  OBVIOUS
<1> QED
  BY <1>1, <1>2 DEF Max

\* All that was sent has arrived: the tiles of an eye are the segments of it.
LEMMA TilesOfImage ==
    ASSUME IInv, JInv, connected, pc = "idle", requests = << >>, wire = << >>,
           NEW k \in 1 .. Len(images), answers[k] = "true", NEW view
    PROVE  /\ images[k] \in Images /\ Proper(images[k])
           /\ \A n \in 1 .. Len(TasksOf(k)) :
                 /\ IsSegment(images, k, n)
                 /\ InBag(k, n) /\ tiles[TileOf(images, k, n)] = 1
                 /\ TasksOf(k)[n].view = view => TileOf(images, k, n) \in TilesOf(k, view)
           /\ \A t \in TilesOf(k, view) :
                 \E n \in 1 .. Len(TasksOf(k)) :
                    t = TileOf(images, k, n) /\ TasksOf(k)[n].view = view
<1>1. images \in Seq(Images) /\ images[k] \in Images /\ Proper(images[k])
  BY DEF IInv, JInv, AnswersFit
<1>2. ASSUME NEW n \in 1 .. Len(TasksOf(k))
      PROVE  /\ IsSegment(images, k, n)
             /\ InBag(k, n) /\ tiles[TileOf(images, k, n)] = 1
             /\ TasksOf(k)[n].view = view => TileOf(images, k, n) \in TilesOf(k, view)
  <2>1. IsSegment(images, k, n)
    BY <1>1 DEF IsSegment, TasksOf
  <2>2. Handled(k, n) /\ ~ OnWire(k, n) /\ Due(k)
    BY DEF Handled, Waits, OnWire, Due
  <2>3. InBag(k, n) /\ tiles[TileOf(images, k, n)] = 1
    BY <2>1, <2>2 DEF JInv, Sent, ThereOnce, InBag
  <2>4. /\ TileOf(images, k, n).of = k
        /\ TileOf(images, k, n).view = TasksOf(k)[n].view
    BY <1>1, <2>1, TileIs DEF TasksOf
  <2> QED
    BY <2>1, <2>3, <2>4 DEF TilesOf, InBag
<1>3. ASSUME NEW t \in TilesOf(k, view)
      PROVE  \E n \in 1 .. Len(TasksOf(k)) :
                t = TileOf(images, k, n) /\ TasksOf(k)[n].view = view
  <2>1. t \in BagToSet(tiles) /\ t.of = k /\ t.view = view
    BY DEF TilesOf
  <2>2. PICK l \in Nat, n \in Nat : IsSegment(images, l, n) /\ t = TileOf(images, l, n)
    BY <2>1 DEF IInv, TilesFit
  <2>3. /\ t.of = l /\ t.view = SegmentTasks(images[l])[n].view
        /\ n \in 1 .. Len(SegmentTasks(images[l]))
    BY <1>1, <2>2, TileIs
  <2> QED
    BY <2>1, <2>2, <2>3 DEF TasksOf
<1> QED
  BY <1>1, <1>2, <1>3

LEMMA EyeDimensions ==
    ASSUME NEW im \in Images, ~ OddStereo(im), NEW view \in Eyes(im), NEW ts,
           \A n \in 1 .. Len(SegmentTasks(im)) : SegmentTasks(im)[n].view = view =>
              \E t \in ts : LET p == SegmentTasks(im)[n].parameters IN
                 t.x = p.x /\ t.y = p.y /\ t.width = p.width /\ t.height = p.height,
           \A t \in ts : \E n \in 1 .. Len(SegmentTasks(im)) :
              LET p == SegmentTasks(im)[n].parameters IN
              t.x = p.x /\ t.y = p.y /\ t.width = p.width /\ t.height = p.height
    PROVE  Dimensions(ts) = [width |-> im.x + EyeWidth(im), height |-> im.y + im.height]
<1> DEFINE P(n) == SegmentTasks(im)[n].parameters
           l == Len(SegmentTasks(im))
           w == im.x + EyeWidth(im)
           h == im.y + im.height
           X == {t.x + t.width : t \in ts} \cup {0}
           Y == {t.y + t.height : t \in ts} \cup {0}
<1>1. /\ im.x \in Nat /\ im.y \in Nat /\ EyeWidth(im) \in Nat \ {0} /\ im.height \in Nat \ {0}
      /\ w \in Nat /\ h \in Nat
  BY ImageCut, ImageTyped
<1>2. ASSUME NEW n \in 1 .. l
      PROVE  /\ P(n).x \in Nat /\ P(n).y \in Nat /\ P(n).width \in Nat /\ P(n).height \in Nat
             /\ P(n).x + P(n).width \in Nat /\ P(n).x + P(n).width <= w
             /\ P(n).y + P(n).height \in Nat /\ P(n).y + P(n).height <= h
  <2>1. /\ P(n) \in Rectangles
        /\ P(n).x + P(n).width <= im.x + EyeWidth(im)
        /\ P(n).y + P(n).height <= im.y + im.height
    BY SegmentsWithin
  <2> QED
    BY <2>1 DEF Rectangles
<1>3. PICK n \in 1 .. l : SegmentShows(im, n, view, EyeWidth(im) - 1, im.height - 1)
  <2>1. EyeWidth(im) - 1 \in 0 .. EyeWidth(im) - 1 /\ im.height - 1 \in 0 .. im.height - 1
    BY <1>1
  <2> QED
    BY <2>1, SegmentsCover
<1>4. P(n).x + P(n).width = w /\ P(n).y + P(n).height = h /\ SegmentTasks(im)[n].view = view
  <2>1. /\ im.x + (EyeWidth(im) - 1) < P(n).x + P(n).width
        /\ im.y + (im.height - 1) < P(n).y + P(n).height
        /\ SegmentTasks(im)[n].view = view
    BY <1>3 DEF SegmentShows, Covers
  <2> DEFINE a == P(n).x + P(n).width
             b == P(n).y + P(n).height
  <2>2. a \in Nat /\ a <= w /\ b \in Nat /\ b <= h
    BY <1>2
  <2>3. im.x + (EyeWidth(im) - 1) < a /\ im.y + (im.height - 1) < b
    BY <2>1
  <2>4. /\ im.x + (EyeWidth(im) - 1) = w - 1
        /\ im.y + (im.height - 1) = h - 1
    <3>1. ASSUME NEW i \in Nat, NEW j \in Nat
          PROVE  i + (j - 1) = (i + j) - 1
      OBVIOUS
    <3> QED
      BY <1>1, <3>1
  <2> HIDE DEF w, h, a, b
  <2>5. a = w /\ b = h
    BY <1>1, <2>2, <2>3, <2>4
  <2> QED
    BY <2>1, <2>5 DEF a, b
<1> HIDE DEF w, h
<1>5. \A t \in ts : /\ t.x + t.width \in Nat /\ t.x + t.width <= w
                    /\ t.y + t.height \in Nat /\ t.y + t.height <= h
  BY <1>2
<1>6. w \in X /\ h \in Y
  <2>1. PICK t \in ts : /\ t.x = P(n).x /\ t.y = P(n).y
                        /\ t.width = P(n).width /\ t.height = P(n).height
    BY <1>4
  <2>2. t.x + t.width = w /\ t.y + t.height = h
    BY <1>4, <2>1
  <2> QED
    BY <2>2
<1>7. X \in SUBSET Int /\ Y \in SUBSET Int /\ (\A e \in X : e <= w) /\ (\A e \in Y : e <= h)
  BY <1>1, <1>5
<1> HIDE DEF X, Y
<1>8. Max(X) = w /\ Max(Y) = h
  BY <1>6, <1>7, MaxIs
<1> QED
  BY <1>8 DEF Dimensions, X, Y, w, h

\* Where a row of a mirrored image is shown.
LEMMA ShownThere ==
    ASSUME NEW im \in Images, NEW t, "y" \in DOMAIN t, t.rowOrder = im.rowOrder,
           t.x \in Nat, t.y \in Nat, t.width \in Nat, t.height \in Nat, NEW ts,
           ChannelDimensions(t.channel, ts).height = im.y + im.height,
           NEW x \in Nat, NEW y \in Nat
    PROVE  Covers(Shown(t, ts), im.x + x, RowShown(im, y)) <=> Covers(t, im.x + x, im.y + y)
<1>1. im.rowOrder \in RowOrders /\ im.y \in Nat /\ im.height \in Nat /\ im.x \in Nat
  BY ImageTyped DEF ImageWrapper
<1>2. CASE im.rowOrder = "top_down"
  BY <1>2 DEF Shown, RowShown
<1>3. CASE im.rowOrder = "bottom_up"
  <2> DEFINE top == im.y + im.height - t.y - t.height
             s == [t EXCEPT !.y = top]
  <2>1. Shown(t, ts) = s /\ RowShown(im, y) = im.height - 1 - y
    <3> DEFINE H == ChannelDimensions(t.channel, ts).height
    <3>1. H = im.y + im.height
      OBVIOUS
    <3> DEFINE u == H - t.y - t.height
    <3>2. /\ Shown(t, ts) = [t EXCEPT !.y = u]
          /\ RowShown(im, y) = im.height - 1 - y
      BY <1>3 DEF Shown, MirrorTilesPositionsVertically, RowShown
    <3> HIDE DEF H
    <3>3. u = top
      BY <1>1, <3>1
    <3> HIDE DEF u, top
    <3> QED
      BY <3>2, <3>3
  <2>2. top \in Int
    BY <1>1
  <2> HIDE DEF top
  <2>3. s.x = t.x /\ s.width = t.width /\ s.height = t.height /\ s.y = top
    OBVIOUS
  <2> HIDE DEF s
  <2>4. /\ top <= im.height - 1 - y <=> im.y + y < t.y + t.height
        /\ im.height - 1 - y < top + t.height <=> t.y <= im.y + y
    BY <1>1, <2>2 DEF top
  <2> QED
    BY <2>1, <2>3, <2>4 DEF Covers
<1> QED
  BY <1>1, <1>2, <1>3 DEF RowOrders

LEMMA ImagesComplete ==
    ASSUME IInv, JInv
    PROVE  Complete
<1> SUFFICES ASSUME connected, pc = "idle", requests = << >>, wire = << >>,
                    NEW k \in 1 .. Len(images), answers[k] = "true",
                    NEW im, im = images[k], NEW view \in Eyes(im), NEW ts, ts = TilesOf(k, view)
             PROVE  /\ \A x \in 0 .. EyeWidth(im) - 1, y \in 0 .. im.height - 1 :
                         \E tile \in ts :
                           /\ tiles[tile] = 1
                           /\ Covers(tile, im.x + x, im.y + y)
                           /\ \A other \in ts :
                                Covers(Shown(other, ts), im.x + x, RowShown(im, y))
                                  <=> other = tile
                    /\ Dimensions(ts) =
                         [width |-> im.x + EyeWidth(im), height |-> im.y + im.height]
  <2>1. images \in Seq(Images) /\ DOMAIN images = 1 .. Len(images)
    BY DEF IInv
  <2> QED
    BY <2>1 DEF Complete
<1> DEFINE s == SegmentTasks(im)
           l == Len(s)
<1>1. /\ im \in Images /\ Proper(im) /\ ~ OddStereo(im) /\ images \in Seq(Images)
      /\ \A n \in 1 .. l :
            /\ IsSegment(images, k, n) /\ tiles[TileOf(images, k, n)] = 1
            /\ s[n].view = view => TileOf(images, k, n) \in ts
      /\ \A t \in ts : \E n \in 1 .. l : t = TileOf(images, k, n) /\ s[n].view = view
  BY TilesOfImage DEF TasksOf, Proper, IInv
<1>2. ASSUME NEW n \in 1 .. l, NEW t, t = TileOf(images, k, n), NEW p, p = s[n].parameters
      PROVE  /\ t.x = p.x /\ t.y = p.y /\ t.width = p.width /\ t.height = p.height
             /\ t.rowOrder = im.rowOrder /\ t.channel = im.channel /\ "y" \in DOMAIN t
             /\ t.x \in Nat /\ t.y \in Nat /\ t.width \in Nat /\ t.height \in Nat
  <2>1. /\ t.x = p.x /\ t.y = p.y /\ t.width = p.width /\ t.height = p.height
        /\ t.rowOrder = im.rowOrder /\ t.channel = im.channel /\ "y" \in DOMAIN t
    BY <1>1, <1>2, TileIs
  <2>2. p \in Rectangles
    BY <1>1, <1>2, SegmentsWithin
  <2> QED
    BY <2>1, <2>2 DEF Rectangles
<1> HIDE DEF s
<1>3. Dimensions(ts) = [width |-> im.x + EyeWidth(im), height |-> im.y + im.height]
  <2>1. \A n \in 1 .. l : s[n].view = view =>
           \E t \in ts : LET p == s[n].parameters IN
              t.x = p.x /\ t.y = p.y /\ t.width = p.width /\ t.height = p.height
    <3> SUFFICES ASSUME NEW n \in 1 .. l, s[n].view = view, NEW p, p = s[n].parameters
                 PROVE  \E t \in ts : /\ t.x = p.x /\ t.y = p.y
                                      /\ t.width = p.width /\ t.height = p.height
      OBVIOUS
    <3>1. PICK t \in ts : t = TileOf(images, k, n)
      BY <1>1
    <3>2. t.x = p.x /\ t.y = p.y /\ t.width = p.width /\ t.height = p.height
      BY <1>2, <3>1
    <3> QED
      BY <3>2
  <2>2. \A t \in ts : \E n \in 1 .. l : LET p == s[n].parameters IN
           t.x = p.x /\ t.y = p.y /\ t.width = p.width /\ t.height = p.height
    <3> SUFFICES ASSUME NEW t \in ts
                 PROVE  \E n \in 1 .. l : LET p == s[n].parameters IN
                           t.x = p.x /\ t.y = p.y /\ t.width = p.width /\ t.height = p.height
      OBVIOUS
    <3>1. PICK n \in 1 .. l : t = TileOf(images, k, n)
      BY <1>1
    <3>2. LET p == s[n].parameters IN
           t.x = p.x /\ t.y = p.y /\ t.width = p.width /\ t.height = p.height
      BY <1>2, <3>1
    <3> QED
      BY <3>2
  <2> QED
    BY <1>1, <2>1, <2>2, EyeDimensions DEF s
<1>4. \A t \in ts : ChannelDimensions(t.channel, ts).height = im.y + im.height
  <2> SUFFICES ASSUME NEW t \in ts
               PROVE  ChannelDimensions(t.channel, ts).height = im.y + im.height
    OBVIOUS
  <2>1. \A o \in ts : o.channel = im.channel
    BY <1>1, <1>2
  <2>2. {o \in ts : o.channel = t.channel} = ts
    BY <2>1
  <2>3. ChannelDimensions(t.channel, ts) = Dimensions(ts)
    BY <2>2 DEF ChannelDimensions
  <2> QED
    BY <1>3, <2>3
<1>5. ASSUME NEW x \in 0 .. EyeWidth(im) - 1, NEW y \in 0 .. im.height - 1
      PROVE  \E tile \in ts :
               /\ tiles[tile] = 1
               /\ Covers(tile, im.x + x, im.y + y)
               /\ \A other \in ts :
                    Covers(Shown(other, ts), im.x + x, RowShown(im, y)) <=> other = tile
  <2>1. PICK n \in 1 .. l : \A o \in 1 .. l : SegmentShows(im, o, view, x, y) <=> o = n
    BY <1>1, SegmentsCover DEF s
  <2>2. ASSUME NEW o \in 1 .. l, s[o].view = view, NEW t, t = TileOf(images, k, o)
        PROVE  /\ Covers(t, im.x + x, im.y + y) <=> o = n
               /\ t \in ts => (Covers(Shown(t, ts), im.x + x, RowShown(im, y)) <=> o = n)
    <3>1. Covers(t, im.x + x, im.y + y) <=> Covers(s[o].parameters, im.x + x, im.y + y)
      <4>1. PICK p : p = s[o].parameters
        OBVIOUS
      <4>2. t.x = p.x /\ t.y = p.y /\ t.width = p.width /\ t.height = p.height
        BY <1>2, <2>2, <4>1
      <4>3. Covers(t, im.x + x, im.y + y) <=> Covers(p, im.x + x, im.y + y)
        BY <4>2 DEF Covers
      <4> QED
        BY <4>1, <4>3
    <3>2. Covers(t, im.x + x, im.y + y) <=> o = n
      BY <2>1, <2>2, <3>1 DEF SegmentShows, s
    <3>3. x \in Nat /\ y \in Nat
      BY <1>1, ImageCut, ImageTyped
    <3>4. t \in ts => (Covers(Shown(t, ts), im.x + x, RowShown(im, y))
                        <=> Covers(t, im.x + x, im.y + y))
      BY <1>1, <1>2, <1>4, <2>2, <3>3, ShownThere
    <3> QED
      BY <3>2, <3>4
  <2> DEFINE tile == TileOf(images, k, n)
  <2>3. s[n].view = view
    BY <2>1 DEF SegmentShows, s
  <2>4. tile \in ts /\ tiles[tile] = 1
    BY <1>1, <2>3
  <2>5. Covers(tile, im.x + x, im.y + y)
    BY <2>2, <2>3
  <2>6. \A other \in ts :
           Covers(Shown(other, ts), im.x + x, RowShown(im, y)) <=> other = tile
    <3> SUFFICES ASSUME NEW other \in ts
                 PROVE  Covers(Shown(other, ts), im.x + x, RowShown(im, y)) <=> other = tile
      OBVIOUS
    <3>1. PICK o \in 1 .. l : other = TileOf(images, k, o) /\ s[o].view = view
      BY <1>1
    <3>2. Covers(Shown(other, ts), im.x + x, RowShown(im, y)) <=> o = n
      BY <2>2, <3>1
    <3>3. other = tile => o = n
      BY <1>1, <3>1, TilesDiffer
    <3> QED
      BY <3>1, <3>2, <3>3
  <2> QED
    BY <2>4, <2>5, <2>6
<1> QED
  BY <1>3, <1>5

-----------------------------------------------------------------------------
(* The theorems                                                            *)

\* When ImageSegmenter::generate returns or throws, the queue of compressed segments is
\* empty and the pool has none left to compress, whatever failed in whatever order.
THEOREM NothingIsLeftBehind ==
    Spec => []NothingLeftBehind
<1>1. IInv => NothingLeftBehind
  BY DEF IInv, PoolFits, NothingLeftBehind
<1> QED
  BY <1>1, InvariantKept, PTL

\* Each tile the server's worker delivers has the view, row order and channel of its
\* image, though these are only sent when they change.
THEOREM AttributesAlwaysTravel ==
    Spec => []AttributesTravel
<1>1. IInv => AttributesTravel
  <2> SUFFICES ASSUME IInv, NEW tile \in BagToSet(tiles), NEW im, im = images[tile.of]
               PROVE  /\ tile.rowOrder = im.rowOrder /\ tile.channel = im.channel
                      /\ IF IsStereo(im) THEN tile.view # "mono" ELSE tile.view = im.view
    BY DEF AttributesTravel
  <2>1. PICK k \in Nat, n \in Nat : IsSegment(images, k, n) /\ tile = TileOf(images, k, n)
    BY DEF IInv, TilesFit
  <2>2. /\ tile.of = k /\ im \in Images /\ Proper(im) /\ n \in 1 .. Len(SegmentTasks(im))
        /\ tile.view = SegmentOf(im, n).view /\ tile.rowOrder = SegmentOf(im, n).rowOrder
        /\ tile.channel = SegmentOf(im, n).channel
    BY <2>1 DEF IsSegment, TileOf, IInv
  <2> DEFINE s == SegmentOf(im, n)
  <2>3. s.view \in Eyes(im) /\ s.rowOrder = im.rowOrder /\ s.channel = im.channel
    BY <2>2, SegmentTyped
  <2>4. IF IsStereo(im) THEN s.view # "mono" ELSE s.view = im.view
    BY <2>3 DEF Eyes
  <2> QED
    BY <2>2, <2>3, <2>4
<1> QED
  BY <1>1, InvariantKept, PTL

\* Each pixel of each eye of an image that ImageSegmenter does not refuse is in one segment,
\* and in one only, whatever the sizes of the image and of a segment; and no segment has
\* pixels that are not the image's.
THEOREM SegmentsPartitionTheImage ==
    ASSUME NEW im \in Images, ~ OddStereo(im)
    PROVE  /\ \A view \in Eyes(im) :
                \A x \in 0 .. EyeWidth(im) - 1 : \A y \in 0 .. im.height - 1 :
                   \E n \in DOMAIN SegmentTasks(im) :
                      \A o \in DOMAIN SegmentTasks(im) :
                         SegmentShows(im, o, view, x, y) <=> o = n
           /\ \A n \in DOMAIN SegmentTasks(im) :
                LET p == SegmentTasks(im)[n].parameters IN
                /\ p.width > 0 /\ p.height > 0
                /\ im.x <= p.x /\ p.x + p.width <= im.x + EyeWidth(im)
                /\ im.y <= p.y /\ p.y + p.height <= im.y + im.height
<1>1. DOMAIN SegmentTasks(im) = 1 .. Len(SegmentTasks(im))
  BY TasksAre
<1> QED
  BY <1>1, SegmentsCover, SegmentsWithin

\* The image whose future is true is complete once the queues are empty, unless the
\* connection broke: each pixel is shown to its eye by one tile, where it belongs, and the
\* frame has the dimensions of the image.
THEOREM AnsweredImagesAreComplete ==
    Spec => []Complete
<1>1. IInv /\ JInv => Complete
  BY ImagesComplete
<1> QED
  BY <1>1, SentOnceKept, PTL

\* What the application sends is what can be shown.  It is not for an image that is copied
\* in several segments from a place other than the origin: ImageSegmenter.cpp:206 reads
\* such segments from where they are in the stream.
THEOREM ImagesAlwaysArrive ==
    ASSUME \A im \in Images : Placeable(im)
    PROVE  Spec => []ImagesArrive
<1>1. IInv /\ JInv => ImagesArrive
  BY ImagesComplete, TilesInPlace DEF ImagesArrive
<1> QED
  BY <1>1, SentOnceKept, PTL
=============================================================================
