---------------------------- MODULE HandoffLock ----------------------------
(***************************************************************************)
(* What CoMutex promises: a lock with a queue.  A caller takes the lock    *)
(* when it is free or joins the queue behind its owner, and an owner that  *)
(* leaves passes the lock to the head of the queue: there is no instant at *)
(* which the lock is free and somebody is queued.                          *)
(***************************************************************************)
EXTENDS Sequences

CONSTANTS Callers, Nobody

VARIABLES owner, queue

vars == <<owner, queue>>

Init == owner = Nobody /\ queue = <<>>

Acquire(c) ==
    /\ owner = Nobody /\ queue = <<>>
    /\ owner' = c
    /\ UNCHANGED queue

Enqueue(c) ==
    /\ owner # Nobody /\ owner # c
    /\ queue' = Append(queue, c)
    /\ UNCHANGED owner

Release ==
    /\ owner # Nobody
    /\ IF queue = <<>>
       THEN owner' = Nobody /\ UNCHANGED queue
       ELSE owner' = Head(queue) /\ queue' = Tail(queue)

Next == Release \/ \E c \in Callers : Acquire(c) \/ Enqueue(c)

Spec == Init /\ [][Next]_vars
=============================================================================
