----------------------------- MODULE ByteQueue -----------------------------
(***************************************************************************)
(* What a Buffer promises its users: a queue of bytes.  What was pushed    *)
(* comes out in order, each byte once, unless the queue is cleared.  A     *)
(* socket that blocks makes the queue repeat: one byte is put in front.    *)
(* How many bytes a step moves shows in the lengths of the queue.          *)
(***************************************************************************)
EXTENDS Naturals, Sequences

VARIABLES queue, out   \* what is inside, and what has been taken out

vars == <<queue, out>>

Init == queue = <<>> /\ out = <<>>

Push ==
    /\ Len(queue') > Len(queue)
    /\ SubSeq(queue', 1, Len(queue)) = queue
    /\ UNCHANGED out

Take ==
    /\ Len(queue') < Len(queue)
    /\ out' \o queue' = out \o queue

Clear ==
    /\ queue' = <<>>
    /\ UNCHANGED out

Repeat ==
    /\ Len(queue') = Len(queue) + 1
    /\ Tail(queue') = queue
    /\ UNCHANGED out

Spec == Init /\ [][Push \/ Take \/ Clear \/ Repeat]_vars
=============================================================================
