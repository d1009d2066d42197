--------------------------- MODULE CoroutineLists ---------------------------
(***************************************************************************)
(* The four intrusive lists of a CoroutineScheduler as sequences, the head *)
(* of a sequence being head->next.  IntrusiveList shows the pointers that  *)
(* represent them.                                                         *)
(***************************************************************************)
EXTENDS SequencesExt

CONSTANT Coros   \* the slots of coros_ (10240 in the program)

ASSUME CorosAssumption == IsFiniteSet(Coros)

\* freeListHead_, yieldListHead_, suspendListHead_ and resumeListHead_.
ListNames == {"free", "yield", "suspend", "resume"}

(***************************************************************************)
(* A definition Op_Fault, here and in the other modules, is Op as a        *)
(* plausible mistake would have left it.  No specification uses one: it is *)
(* put in place of Op to see that the properties notice the mistake.       *)
(*                                                                         *)
(* moveToSuspend, moveToResume, moveToYield and the lambda endFunc_:       *)
(* IntrusiveListRemove from whatever list holds the node, then             *)
(* IntrusiveListInsert at the head of the list l.                          *)
(***************************************************************************)
moveTo_NoRemove(ls, c, l) == [ls EXCEPT ![l] = Cons(c, @)]

moveTo(ls, c, l) ==
    [m \in ListNames |->
        IF m = l THEN Cons(c, RemoveFirst(ls[m], c)) ELSE RemoveFirst(ls[m], c)]

\* Every element of S is on exactly one list, once.
Partition(ls, S) ==
    /\ \A l \in ListNames : IsInjective(ls[l])
    /\ \A l, m \in ListNames : l # m => Range(ls[l]) \cap Range(ls[m]) = {}
    /\ \A c \in S : \E l \in ListNames : c \in Range(ls[l])
=============================================================================
