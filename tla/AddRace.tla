------------------------------- MODULE AddRace -------------------------------
(***************************************************************************)
(* Two threads work on the lists of a scheduler, one store at a time: the  *)
(* scheduler's own, which moves the coroutine that runs (yield, suspend,   *)
(* endFunc_) without mtx_ and drains the resume queue under mtx_, and one  *)
(* that calls addCoroutine, under mtx_.                                    *)
(***************************************************************************)
EXTENDS IntrusiveList

VARIABLES
    heap,    \* the next and prev pointers of every node
    lists,   \* what the lists should hold
    todo     \* the stores each thread has still to make

vars == <<heap, lists, todo>>

Actors == {"scheduler", "adder"}

Init ==
    /\ \E order \in SetToSeqs(Coros) :
          /\ heap = FreeList(order)
          /\ lists = [l \in ListNames |-> IF l = "free" THEN order ELSE <<>>]
    /\ todo = [a \in Actors |-> <<>>]

\* What store number i of a move of node n to the list of head h does.
store(i, m, h, n) ==
    CASE i = 1 -> Remove1(m, n)
      [] i = 2 -> Remove2(m, n)
      [] i = 3 -> Insert1(m, h, n)
      [] i = 4 -> Insert2(m, h, n)
      [] i = 5 -> Insert3(m, h, n)
      [] i = 6 -> Insert4(m, h, n)

Move(n, l) == [i \in 1..6 |-> [store |-> i, node |-> n, head |-> l]]

Idle(a) == todo[a] = <<>>
Quiet == \A a \in Actors : Idle(a)

\* Thread a sets out to move the node n to the list l.
begin(a, n, l) ==
    /\ Idle(a)
    /\ todo' = [todo EXCEPT ![a] = Move(n, l)]
    /\ UNCHANGED <<heap, lists>>

\* yield, suspend or the end of the coroutine that runs: mtx_ is not taken.
switchBack ==
    \E c \in Range(lists["yield"]) \cup Range(lists["resume"]) :
    \E l \in {"yield", "suspend", "free"} : begin("scheduler", c, l)

\* run() drains resumeQueue_: mtx_ keeps addCoroutine out.
drain ==
    /\ Idle("adder")
    /\ \E c \in Range(lists["suspend"]) : begin("scheduler", c, "resume")

(***************************************************************************)
(* addCoroutine that finds a free slot.  It may begin between two stores   *)
(* of yield, suspend or endFunc_, but not of drain.                        *)
(***************************************************************************)
addCoroutine ==
    /\ \A i \in 1..Len(todo["scheduler"]) : todo["scheduler"][i].head # "resume"
    /\ IntrusiveListFront(heap, "free") # "free"
    /\ begin("adder", IntrusiveListFront(heap, "free"), "yield")

\* The next store of thread a; the last one puts the node on its new list.
step(a) ==
    /\ ~Idle(a)
    /\ LET s == Head(todo[a])
       IN  /\ heap' = store(s.store, heap, s.head, s.node)
           /\ lists' = IF s.store = 6 THEN moveTo(lists, s.node, s.head) ELSE lists
    /\ todo' = [todo EXCEPT ![a] = Tail(@)]

Next == switchBack \/ drain \/ addCoroutine \/ \E a \in Actors : step(a)

Spec == Init /\ [][Next]_vars

-----------------------------------------------------------------------------
(***************************************************************************)
(* Between two operations every slot can be reached from some head, so     *)
(* that a task that was added is run and a slot that was freed is used     *)
(* again.                                                                  *)
(***************************************************************************)
NoSlotLost ==
    Quiet => \A c \in Coros : \E l \in ListNames, k \in 0..Cardinality(Coros) :
                /\ Nth(heap, l)[k] = c
                /\ \A j \in 0..k : Nth(heap, l)[j] # l
=============================================================================
