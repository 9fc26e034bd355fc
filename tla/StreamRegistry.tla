----------------------------- MODULE StreamRegistry -----------------------------
(***************************************************************************)
(* What the dispatcher of frames promises about streams, without frames:   *)
(* which streams there are, and who is connected to which                  *)
(* (deflect/server/FrameDispatcher.cpp).  FrameDispatcher implements this  *)
(* specification, and Server composes it with the threads that call it.    *)
(*                                                                         *)
(* A connection joins a stream, or is rejected, sends its frames and       *)
(* leaves.  A connection whose stream was closed under it, or that was     *)
(* rejected, is a stray until its removal.                                 *)
(***************************************************************************)
CONSTANTS
    Uris,          \* the names of streams
    Sources,       \* connections that send tiles
    Observers      \* connections that only observe

ASSUME RegistryAssumption == Sources \cap Observers = {}

VARIABLES
    open,      \* the uris of the streams there are
    member     \* per connection: its phase, and its uri unless it is closed

registryVars == << open, member >>

Connections == Sources \cup Observers

NoUri == "no uri"
Closed == [phase |-> "closed", uri |-> NoUri]

RegistryInit ==
    /\ open = {}
    /\ member = [c \in Connections |-> Closed]

Joined(c, u) == member[c] = [phase |-> "joined", uri |-> u]

Connected(c, u) == member[c].phase # "closed" /\ member[c].uri = u

-----------------------------------------------------------------------------
\* deleteStream, with the connections as the caller has updated them.
Close(u, others) ==
    /\ open' = open \ {u}
    /\ member' = [c \in Connections |-> IF others[c] = [phase |-> "joined", uri |-> u]
                                        THEN [others[c] EXCEPT !.phase = "stray"]
                                        ELSE others[c]]

\* addSource, addObserver
Join(c, u) ==
    /\ member[c].phase = "closed"
    /\ open' = open \cup {u}
    /\ member' = [member EXCEPT ![c] = [phase |-> "joined", uri |-> u]]

\* addSource: a source that joins when the others have sent frames.
Reject(c, u) ==
    /\ c \in Sources
    /\ member[c].phase = "closed"
    /\ u \in open
    /\ member' = [member EXCEPT ![c] = [phase |-> "stray", uri |-> u]]
    /\ UNCHANGED open

\* removeSource, removeObserver.  A source keeps its stream open.  Other observers
\* need not: a stray may be counted for one of them.  What the buffer has of c is also
\* what it has of other sources under the same identifier.
Forget(c, same) ==
    LET u == member[c].uri
        rest == Connections \ ({c} \cup same)
        others == [d \in Connections |->
                      IF d = c THEN Closed
                      ELSE IF d \in same /\ Joined(d, u) THEN [member[d] EXCEPT !.phase = "stray"]
                      ELSE member[d]]
    IN  /\ member[c].phase # "closed"
        /\ \/ /\ u \in open
              /\ \A s \in Sources \cap rest : ~ Joined(s, u)
              /\ Close(u, others)
           \/ /\ u \in open => \E d \in rest : Connected(d, u)
              /\ member' = others
              /\ UNCHANGED open

\* No two sources have one identifier, as ReceiveBuffer.h asks.
Leave(c) == Forget(c, {})

\* processTile, processFrameFinished: too many frames, or bad ones, close the stream.
Send(c) ==
    LET u == member[c].uri
    IN  /\ c \in Sources
        /\ member[c].phase # "closed"
        /\ \/ u \in open /\ Close(u, member)
           \/ UNCHANGED registryVars

\* closePixelStream by the application, or a frame it requests that is in error.
AppClose(u) ==
    /\ u \in open
    /\ Close(u, member)

RegistryNext ==
    \/ \E c \in Connections, u \in Uris : Join(c, u) \/ Reject(c, u)
    \/ \E c \in Connections : Leave(c) \/ Send(c)
    \/ \E u \in Uris : AppClose(u)

RegistrySpec == RegistryInit /\ [][RegistryNext]_registryVars

=============================================================================
