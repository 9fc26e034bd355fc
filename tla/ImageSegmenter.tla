--------------------------- MODULE ImageSegmenter ---------------------------
(***************************************************************************)
(* How an image is cut into segments (deflect/ImageSegmenter.cpp): the     *)
(* rectangles, their order, the eye each belongs to, and the place in the  *)
(* image's buffer its pixels are read from.                                *)
(*                                                                         *)
(* Lengths are in pixels; a buffer is addressed by pixel, row by row.  The *)
(* data of a segment is the index of its first pixel, since both ways to   *)
(* read it, raw and JPEG, advance by the width of the image from one row   *)
(* to the next.                                                            *)
(***************************************************************************)
EXTENDS Integers, Sequences

CONSTANTS NominalWidth,  \* desired size of a segment; one segment when
          NominalHeight  \* one of them is 0

ASSUME NominalAssumption == NominalWidth \in Nat /\ NominalHeight \in Nat

Views == {"mono", "left_eye", "right_eye", "side_by_side"}
RowOrders == {"top_down", "bottom_up"}
PixelFormats == {"rgb", "rgba", "argb", "bgr", "bgra", "abgr"}
CompressionPolicies == {"auto", "on", "off"}

Formats == {"rgba", "jpeg", "yuv444", "yuv422", "yuv420"}

(* What an application says of an image; the pixels are its own.           *)
ImageWrapper ==
    [x : Nat, y : Nat, width : Nat, height : Nat,
     pixelFormat : PixelFormats, policy : CompressionPolicies, quality : Nat,
     view : Views, rowOrder : RowOrders, channel : Nat]

(* The bytes of a pixel, as the application has laid them out.             *)
Components(format) ==
    [rgb  |-> <<"r", "g", "b">>,      bgr  |-> <<"b", "g", "r">>,
     rgba |-> <<"r", "g", "b", "a">>, bgra |-> <<"b", "g", "r", "a">>,
     argb |-> <<"a", "r", "g", "b">>, abgr |-> <<"a", "b", "g", "r">>][format]

(* Parameters of a segment, but for the format of its data.                *)
Rectangles == [x : Nat, y : Nat, width : Nat, height : Nat]

(* A segment: its data are the first pixel that was read, and the bytes for*)
(* which each pixel was taken.                                             *)
Segments ==
    [parameters : Rectangles, format : Formats,
     data : Nat, bytes : Seq({"r", "g", "b", "a", "x"}),
     view : Views \ {"side_by_side"}, rowOrder : RowOrders, channel : Nat]

IsStereo(image) == image.view = "side_by_side"

(* The width of one eye's half, or of the whole image.                     *)
EyeWidth(image) ==
    IF IsStereo(image) THEN image.width \div 2 ELSE image.width

(* How many segments of the nominal length, and how long the last one is.  *)
Count(length, nominal) ==
    length \div nominal + (IF length % nominal = 0 THEN 0 ELSE 1)

LastLength(length, nominal) ==
    IF length % nominal = 0 THEN nominal ELSE length % nominal

Segmented == NominalWidth # 0 /\ NominalHeight # 0

CountX(image) ==
    IF Segmented THEN Count(EyeWidth(image), NominalWidth) ELSE 1

CountY(image) ==
    IF Segmented THEN Count(image.height, NominalHeight) ELSE 1

LastWidth(image) ==
    IF Segmented THEN LastLength(EyeWidth(image), NominalWidth)
                 ELSE EyeWidth(image)

LastHeight(image) ==
    IF Segmented THEN LastLength(image.height, NominalHeight)
                 ELSE image.height

(* The rectangle in column i of row j, in the coordinates of the stream.   *)
SegmentParameters(image, i, j) ==
    [x |-> image.x + i * NominalWidth,
     y |-> image.y + j * NominalHeight,
     width |-> IF i < CountX(image) - 1 THEN NominalWidth
                                        ELSE LastWidth(image),
     height |-> IF j < CountY(image) - 1 THEN NominalHeight
                                         ELSE LastHeight(image)]

(* The segments of one eye, row after row, before there are data in them.  *)
TasksOfView(image, view) ==
    [k \in 1 .. CountX(image) * CountY(image) |->
        [parameters |-> SegmentParameters(image, (k - 1) % CountX(image),
                                          (k - 1) \div CountX(image)),
         format |-> "jpeg", data |-> 0, bytes |-> <<>>, view |-> view,
         rowOrder |-> image.rowOrder, channel |-> image.channel]]

(* An image of two eyes whose halves cannot be equal is refused.           *)
OddStereo(image) == IsStereo(image) /\ image.width % 2 # 0

SegmentTasks(image) ==
    IF IsStereo(image)
    THEN TasksOfView(image, "left_eye") \o TasksOfView(image, "right_eye")
    ELSE TasksOfView(image, image.view)

OnRightSide(image, task) == IsStereo(image) /\ task.view = "right_eye"

(* Mutant: the right eye is shown the left half.                           *)
RightHalf_Ignored(image, task) == 0

RightHalf(image, task) ==
    IF OnRightSide(image, task) THEN image.width \div 2 ELSE 0

(* The first pixel the compressor reads.                                   *)
JpegOffset(image, task) ==
    (task.parameters.y - image.y) * image.width
        + (task.parameters.x - image.x) + RightHalf(image, task)

(* The first pixel that is copied when the image is sent as it is.         *)
RawOffset(image, task) ==
    IF Len(SegmentTasks(image)) = 1 THEN 0
    ELSE task.parameters.y * image.width
            + task.parameters.x + RightHalf(image, task)

(* What the compressor takes a pixel for: it has no use for transparency,  *)
(* and skips that byte.                                                    *)
TurboJpegFormat(pixelFormat) ==
    [rgb  |-> <<"r", "g", "b">>,      bgr  |-> <<"b", "g", "r">>,
     rgba |-> <<"r", "g", "b", "x">>, bgra |-> <<"b", "g", "r", "x">>,
     argb |-> <<"x", "r", "g", "b">>, abgr |-> <<"x", "b", "g", "r">>]
    [pixelFormat]

Jpeg(image, task) ==
    [task EXCEPT !.format = "jpeg", !.data = JpegOffset(image, task),
                 !.bytes = TurboJpegFormat(image.pixelFormat)]

(* What is copied is taken for RGBA by whoever receives it.                *)
Raw(image, task) ==
    [task EXCEPT !.format = "rgba", !.data = RawOffset(image, task),
                 !.bytes = Components("rgba")]

(* The way of a small image: compressed, or copied, where it is sent.  The *)
(* caller has made sure that it has one segment.                           *)
SingleSegment(image) ==
    LET task == SegmentTasks(image)[1] IN
    IF image.policy = "off" THEN Raw(image, task) ELSE Jpeg(image, task)
=============================================================================
