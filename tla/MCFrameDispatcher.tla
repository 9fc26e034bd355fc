--------------------------- MODULE MCFrameDispatcher ---------------------------
(***************************************************************************)
(* FrameDispatcher on small instances: descriptors are interchangeable.    *)
(***************************************************************************)
EXTENDS FrameDispatcher, TLC

SourceSymmetry == Permutations(Sources)
=============================================================================
