---------------------------- MODULE IntrusiveList ----------------------------
(***************************************************************************)
(* The scheduler's lists at the level of their pointers.  A heap gives the *)
(* next and prev of every node; a list is named by its head node.          *)
(***************************************************************************)
EXTENDS Integers, CoroutineLists

\* The heads are objects of their own.
ASSUME HeadsAssumption == Coros \cap ListNames = {}

Nodes == Coros \cup ListNames

-----------------------------------------------------------------------------
(* The stores of IntrusiveListRemove(node) and IntrusiveListInsert(head,   *)
(* node), in the order of the code.                                        *)

Remove1(m, n) == [m EXCEPT !.next[m.prev[n]] = m.next[n]]
Remove2(m, n) == [m EXCEPT !.prev[m.next[n]] = m.prev[n]]
Insert1(m, h, n) == [m EXCEPT !.prev[n] = h]
Insert2(m, h, n) == [m EXCEPT !.next[n] = m.next[h]]
Insert3(m, h, n) == [m EXCEPT !.prev[m.next[h]] = n]
Insert4(m, h, n) == [m EXCEPT !.next[h] = n]

IntrusiveListRemove(m, n) == Remove2(Remove1(m, n), n)

IntrusiveListInsert_SwapsLast(m, h, n) ==
    Insert3(Insert4(Insert2(Insert1(m, h, n), h, n), h, n), h, n)

IntrusiveListInsert(m, h, n) ==
    Insert4(Insert3(Insert2(Insert1(m, h, n), h, n), h, n), h, n)

\* A head points to itself.  A slot's pointers are null before it is inserted;
\* nothing reads them, and the model lets them point to the slot.
IntrusiveListInit == [next |-> [n \in Nodes |-> n], prev |-> [n \in Nodes |-> n]]

\* IntrusiveListFront: head->next, or the head itself for nullptr.
IntrusiveListFront(m, h) == m.next[h]

(***************************************************************************)
(* IntrusiveListGetAllNodes: follow next until the head comes back.  On a  *)
(* list that never comes back the code fills its vector without end; here  *)
(* the result is then longer than any list.                                *)
(***************************************************************************)
Nth(m, h) ==
    LET nth[k \in 0..Cardinality(Coros)] ==
            IF k = 0 THEN m.next[h] ELSE m.next[nth[k - 1]]
    IN  nth

IntrusiveListGetAllNodes(m, h) ==
    LET nth == Nth(m, h)
        stops == {k \in DOMAIN nth : nth[k] = h}
    IN  IF stops = {} THEN [i \in 1..Cardinality(Nodes) |-> nth[0]]
        ELSE [i \in 1..Min(stops) |-> nth[i - 1]]

-----------------------------------------------------------------------------
(* The constructor inserts every slot at the head of the free list.        *)

FreeList(order) ==
    LET built[k \in 0..Len(order)] ==
            IF k = 0 THEN IntrusiveListInit
            ELSE IntrusiveListInsert(built[k - 1], "free", order[Len(order) - k + 1])
    IN  built[Len(order)]

\* prev undoes next: the pointers form rings.
Ring(m) == \A n \in Nodes : m.prev[m.next[n]] = n /\ m.next[m.prev[n]] = n

\* The heap m holds the lists ls: following next from a head visits exactly the
\* nodes of its list, in order, and prev is its mirror image.
Holds(m, ls) ==
    /\ Ring(m)
    /\ \A l \in ListNames : IntrusiveListGetAllNodes(m, l) = ls[l]

\* The node at place i of the list s, whose head l is before its first and after
\* its last element.
NodeAt(l, s, i) == IF i \in 1..Len(s) THEN s[i] ELSE l

\* The rings that hold ls: every list with its head, as a cycle.
Rings(ls) ==
    LET follows(n, x) ==
            \E l \in ListNames : \E i \in 0..Len(ls[l]) :
                n = NodeAt(l, ls[l], i) /\ x = NodeAt(l, ls[l], i + 1)
    IN  [next |-> [n \in Nodes |-> CHOOSE x \in Nodes : follows(n, x)],
         prev |-> [n \in Nodes |-> CHOOSE x \in Nodes : follows(x, n)]]
=============================================================================
