------------------------ MODULE MCCoroutineScheduler ------------------------
(***************************************************************************)
(* Small instances of CoroutineScheduler for TLC, and the pointers of      *)
(* IntrusiveList checked against every value the lists take in them.       *)
(***************************************************************************)
EXTENDS CoroutineScheduler, IntrusiveList

(***************************************************************************)
(* IntrusiveListRemove and IntrusiveListInsert on the rings that hold the  *)
(* lists do what moveTo says, for every node and every list, the list the  *)
(* node is on already included: no slot is lost, shared or left in a loop  *)
(* without a head, and the next and prev pointers stay mirror images.      *)
(* What the constructor builds holds the free list.  The lists take every  *)
(* value at the top of some iteration of run().                            *)
(***************************************************************************)
PointersAgree ==
    phase = "top" =>
    LET heap == Rings(lists)
    IN  /\ \A c \in Coros, l \in ListNames :
              Holds(IntrusiveListInsert(IntrusiveListRemove(heap, c), l, c), moveTo(lists, c, l))
        /\ lists["free"] # <<>> => IntrusiveListFront(heap, "free") = Head(lists["free"])
        /\ Len(lists["free"]) = Cardinality(Coros) => Holds(FreeList(lists["free"]), lists)
=============================================================================
