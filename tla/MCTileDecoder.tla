---------------------------- MODULE MCTileDecoder ----------------------------
(* Tiles of the dimensions at which planes are rounded or not; intact and   *)
(* broken JPEG data, also of other dimensions than the tile, and raw data.  *)
EXTENDS TileDecoder, TLC

Jpeg(w, h, sampling, header, image) ==
    [width |-> w, height |-> h, sampling |-> sampling,
     header |-> header, image |-> image]

Received(w, h, data) ==
    [width |-> w, height |-> h, format |-> "jpeg", imageData |-> data]

MCContents ==
    {Received(w, 2, Jpeg(w, 2, s, TRUE, TRUE)) : w \in {2, 3}, s \in Samplings}
      \cup
    {Received(3, 3, Jpeg(3, 3, "yuv420", TRUE, TRUE)),
     Received(2, 2, Jpeg(2, 2, "gray", TRUE, TRUE)),
     Received(2, 2, Jpeg(2, 2, "yuv444", FALSE, FALSE)),
     Received(2, 2, Jpeg(2, 2, "yuv444", TRUE, FALSE)),
     Received(2, 2, Jpeg(3, 3, "yuv444", TRUE, TRUE)),
     [width |-> 2, height |-> 2, format |-> "rgba",
      imageData |-> [kind |-> "raw", size |-> 16]]}

MCSymmetry == Permutations(Tiles) \cup Permutations(Pool)
=============================================================================
