------------------------------ MODULE FreeList ------------------------------
(***************************************************************************)
(* The lock-free free list of the request queue's blocks                   *)
(* (moodycamel::ConcurrentQueue::FreeList): a stack whose nodes count the  *)
(* threads that look at them, so that a thread that was too slow neither   *)
(* takes a node twice nor links one that is in use.                        *)
(*                                                                         *)
(* One action is one access to the shared memory, in the order of the code *)
(* (a load and the CAS that fails if it is out of date are one).  A thread *)
(* that calls TryGet is "got" or "empty" in the end, one that calls Add is *)
(* "added"; its caller takes it from there.                                *)
(***************************************************************************)
EXTENDS Naturals, FiniteSets

CONSTANTS Threads, MaxBlocks
ASSUME FreeListAssumption == IsFiniteSet(Threads) /\ MaxBlocks \in Nat

Blocks == 1 .. MaxBlocks  \* 0 is the null pointer

VARIABLES
  freeListHead,
  freeListRefs,  \* of each block: its references, and its flag
  freeListNext,  \* of each block
  call           \* of each thread: what it does with the list

freeListVars == <<freeListHead, freeListRefs, freeListNext, call>>

(* The flag is the highest bit of the counter.                             *)
SHOULD_BE_ON_FREELIST == 2 * Cardinality(Threads) + 2
Refs(node) == freeListRefs[node] % SHOULD_BE_ON_FREELIST

NoCall == [at |-> "out", gets |-> FALSE, node |-> 0, head |-> 0, next |-> 0]

(* The first n blocks are on the list.                                     *)
FreeListInit(n) ==
    /\ freeListHead = n
    /\ freeListRefs = [b \in Blocks |-> IF b <= n THEN 1 ELSE 0]
    /\ freeListNext = [b \in Blocks |-> IF b <= n THEN b - 1 ELSE 0]
    /\ call = [t \in Threads |-> NoCall]

Goto(t, at) == call' = [call EXCEPT ![t].at = at]

(* The thread goes on with this head of the list, unless it is empty.      *)
TryHead(t, head) ==
    call' = [call EXCEPT ![t] =
      [NoCall EXCEPT !.at = IF head = 0 THEN "empty" ELSE "refs",
                     !.gets = TRUE, !.head = head]]

-----------------------------------------------------------------------------
(* try_get                                                                 *)

TryGet(t) ==
    call' = [call EXCEPT ![t] = [NoCall EXCEPT !.at = "load", !.gets = TRUE]]

LoadHead(t) ==
    /\ call[t].at = "load"
    /\ TryHead(t, freeListHead)
    /\ UNCHANGED <<freeListHead, freeListRefs, freeListNext>>

(* Nobody may look at a node that has no references.                       *)
Reference(t) ==
    /\ call[t].at = "refs"
    /\ IF Refs(call[t].head) = 0
       THEN Goto(t, "load") /\ UNCHANGED freeListRefs
       ELSE /\ freeListRefs' = [freeListRefs EXCEPT ![call[t].head] = @ + 1]
            /\ Goto(t, "next")
    /\ UNCHANGED <<freeListHead, freeListNext>>

LoadNext(t) ==
    /\ call[t].at = "next"
    /\ call' = [call EXCEPT ![t].at = "take",
                            ![t].next = freeListNext[call[t].head]]
    /\ UNCHANGED <<freeListHead, freeListRefs, freeListNext>>

(* A CAS that fails loads the head for the next turn.                      *)
TakeHead(t) ==
    /\ call[t].at = "take"
    /\ IF freeListHead = call[t].head
       THEN /\ freeListHead' = call[t].next
            /\ call' = [call EXCEPT ![t].at = "took", ![t].next = 0]
       ELSE /\ call' = [call EXCEPT ![t].at = "release", ![t].next = 0,
                          ![t].node = call[t].head, ![t].head = freeListHead]
            /\ UNCHANGED freeListHead
    /\ UNCHANGED <<freeListRefs, freeListNext>>

(* The reference of the thread and the one of the list.                    *)
Took(t) ==
    /\ call[t].at = "took"
    /\ freeListRefs' = [freeListRefs EXCEPT ![call[t].head] = @ - 2]
    /\ Goto(t, "got")
    /\ UNCHANGED <<freeListHead, freeListNext>>

(* The last one that looked at a node that was to be added adds it.        *)
(* Mutant: it does not.                                                    *)
Release_Forgets(t) ==
    /\ call[t].at = "release"
    /\ LET node == call[t].node IN
       /\ freeListRefs' = [freeListRefs EXCEPT ![node] = @ - 1]
       /\ TryHead(t, call[t].head)
    /\ UNCHANGED <<freeListHead, freeListNext>>

Release(t) ==
    /\ call[t].at = "release"
    /\ LET node == call[t].node IN
       /\ freeListRefs' = [freeListRefs EXCEPT ![node] = @ - 1]
       /\ IF freeListRefs[node] = SHOULD_BE_ON_FREELIST + 1
          THEN Goto(t, "addLoad")
          ELSE TryHead(t, call[t].head)
    /\ UNCHANGED <<freeListHead, freeListNext>>

-----------------------------------------------------------------------------
(* add, and add_knowing_refcount_is_zero                                   *)

Add(t, node) ==
    call' = [call EXCEPT ![t] = [NoCall EXCEPT !.at = "add", !.node = node]]

(* The thread has added its node: its call returns, or try_get goes on.    *)
Added(t) ==
    IF call[t].gets
    THEN TryHead(t, call[t].head)
    ELSE call' = [call EXCEPT ![t] = [NoCall EXCEPT !.at = "added"]]

(* Whoever looks at the node meanwhile adds it.                            *)
FlagNode(t) ==
    /\ call[t].at = "add"
    /\ LET node == call[t].node IN
       /\ freeListRefs' = [freeListRefs EXCEPT ![node] =
                             @ + SHOULD_BE_ON_FREELIST]
       /\ IF freeListRefs[node] = 0 THEN Goto(t, "addLoad") ELSE Added(t)
    /\ UNCHANGED <<freeListHead, freeListNext>>

AddLoad(t) ==
    /\ call[t].at = "addLoad"
    /\ call' = [call EXCEPT ![t].at = "addLink", ![t].next = freeListHead]
    /\ UNCHANGED <<freeListHead, freeListRefs, freeListNext>>

AddLink(t) ==
    /\ call[t].at = "addLink"
    /\ freeListNext' = [freeListNext EXCEPT ![call[t].node] = call[t].next]
    /\ Goto(t, "addCount")
    /\ UNCHANGED <<freeListHead, freeListRefs>>

AddCount(t) ==
    /\ call[t].at = "addCount"
    /\ freeListRefs' = [freeListRefs EXCEPT ![call[t].node] = 1]
    /\ Goto(t, "addPush")
    /\ UNCHANGED <<freeListHead, freeListNext>>

AddPush(t) ==
    /\ call[t].at = "addPush"
    /\ IF freeListHead = call[t].next
       THEN freeListHead' = call[t].node /\ Added(t)
       ELSE /\ call' = [call EXCEPT ![t].at = "addRetry",
                                    ![t].next = freeListHead]
            /\ UNCHANGED freeListHead
    /\ UNCHANGED <<freeListRefs, freeListNext>>

(* The head has changed: one may try again when nobody looks at the node.  *)
AddRetry(t) ==
    /\ call[t].at = "addRetry"
    /\ LET node == call[t].node IN
       /\ freeListRefs' = [freeListRefs EXCEPT ![node] =
                             @ + SHOULD_BE_ON_FREELIST - 1]
       /\ IF freeListRefs[node] = 1 THEN Goto(t, "addLink") ELSE Added(t)
    /\ UNCHANGED <<freeListHead, freeListNext>>

FreeListStep(t) ==
    \/ LoadHead(t) \/ Reference(t) \/ LoadNext(t) \/ TakeHead(t) \/ Took(t)
    \/ Release(t)
    \/ FlagNode(t) \/ AddLoad(t) \/ AddLink(t) \/ AddCount(t) \/ AddPush(t)
    \/ AddRetry(t)

-----------------------------------------------------------------------------
(* The list as it is read when nobody changes it: head_unsafe.             *)
OnFreeList ==
    LET chain[n \in 0 .. MaxBlocks] ==
          IF n = 0 THEN {freeListHead}
          ELSE chain[n - 1] \cup
                 {freeListNext[b] : b \in chain[n - 1] \ {0}}
    IN  chain[MaxBlocks] \ {0}

(* A node that is not linked, but will be by who looks at it.              *)
Owed == {b \in Blocks : freeListRefs[b] >= SHOULD_BE_ON_FREELIST}
=============================================================================
