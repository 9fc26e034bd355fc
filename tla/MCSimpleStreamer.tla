-------------------------- MODULE MCSimpleStreamer --------------------------
(* One application of each kind, and pairs that share a stream.             *)
EXTENDS SimpleStreamer, TLC

CONSTANTS a1, a2

MCArguments == (a1 :> {{"l", "i"}, {}} @@ a2 :> {{"r"}, {"s"}, {"2", "c"}})

MCMaxFinished == (a1 :> 3 @@ a2 :> 2)
=============================================================================
