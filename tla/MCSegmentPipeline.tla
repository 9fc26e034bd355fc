-------------------------- MODULE MCSegmentPipeline --------------------------
(***************************************************************************)
(* SegmentPipeline on small images: segments of 2 x 2 pixels.              *)
(***************************************************************************)
EXTENDS SegmentPipeline

Image(x, y, width, height, view, policy, rowOrder, channel) ==
    [x |-> x, y |-> y, width |-> width, height |-> height, view |-> view,
     policy |-> policy, pixelFormat |-> "rgba", quality |-> 75,
     rowOrder |-> rowOrder, channel |-> channel]

(* Several segments, an exact multiple, a remainder; one or two eyes;      *)
(* compressed or not; at the origin or elsewhere; small ones.              *)
Compressed == {
    [Image(1, 2, 5, 1, "mono", "on", "bottom_up", 1)
        EXCEPT !.pixelFormat = "argb"],
    [Image(3, 1, 4, 2, "side_by_side", "on", "top_down", 0)
        EXCEPT !.pixelFormat = "bgr"]}

Small == {
    Image(5, 1, 1, 2, "left_eye", "auto", "top_down", 1),
    Image(0, 0, 2, 2, "side_by_side", "on", "top_down", 0)}

Odd == {Image(0, 0, 3, 2, "side_by_side", "on", "top_down", 0)}

RawAtOrigin == {Image(0, 0, 6, 3, "side_by_side", "auto", "bottom_up", 0)}

RawElsewhere == {Image(2, 0, 3, 1, "mono", "off", "top_down", 0)}

Refused == {
    [im EXCEPT !.pixelFormat = "bgra"] : im \in RawAtOrigin}
      \cup {[im EXCEPT !.quality = 0] : im \in Odd}

SomeImages == Compressed \cup Small \cup Odd \cup RawAtOrigin \cup Refused

AllImages == SomeImages \cup RawElsewhere
=============================================================================
