-------------------------------- MODULE MCServer --------------------------------
(***************************************************************************)
(* Instances of Server for TLC.  The sources get one descriptor, one after *)
(* the other, and observers another: the two kinds are there together.     *)
(***************************************************************************)
EXTENDS Server, TLC

MCDescriptor == [c \in Connections |-> IF c \in Sources THEN 1 ELSE 2]

SourceSymmetry == Permutations(Sources)
=============================================================================
