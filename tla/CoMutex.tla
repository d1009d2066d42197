------------------------------ MODULE CoMutex ------------------------------
(***************************************************************************)
(* CoMutex: a lock for coroutines of any number of schedulers.  lock()     *)
(* tries a compare-and-swap outside the internal mutex, and unlock() hands *)
(* the lock to the oldest waiter without clearing isLock_.  The runtime is *)
(* reduced to what CoroutineScheduler shows of it: a coroutine that is     *)
(* resumed after it queued itself, before or after it suspends, runs again *)
(* once.  A plain thread may call lock() too: it has no scheduler.         *)
(***************************************************************************)
EXTENDS Sequences, Functions

CONSTANTS
    Callers,   \* everybody who uses the lock
    Plain,     \* the callers that are threads without a scheduler
    Nobody

ASSUME CallersAssumption == Plain \subseteq Callers /\ Nobody \notin Callers

VARIABLES
    isLock,    \* isLock_
    mtx,       \* who holds mtx_
    waiters,   \* waiters_, oldest first
    resumed,   \* callers whose scheduler has been asked to resume them
    pc

vars == <<isLock, mtx, waiters, resumed, pc>>

(***************************************************************************)
(* "out"; in lock(): "contend" after the first compare-and-swap failed,    *)
(* "retry" holding mtx_, "push" after the second one failed, "wait" queued *)
(* and mtx_ released, "relock" resumed and on the way to mtx_, "leave"     *)
(* holding mtx_; "in" the critical section; in unlock(): "unlock" before   *)
(* mtx_, "notify" holding it; "threw" after the exception.                 *)
(***************************************************************************)
Places == {"out", "contend", "retry", "push", "wait", "relock", "leave",
           "in", "unlock", "notify", "threw"}

TypeOK ==
    /\ isLock \in BOOLEAN
    /\ mtx \in Callers \cup {Nobody}
    /\ waiters \in Seq(Callers)
    /\ resumed \subseteq Callers
    /\ pc \in [Callers -> Places]

Init ==
    /\ isLock = FALSE
    /\ mtx = Nobody
    /\ waiters = <<>>
    /\ resumed = {}
    /\ pc = [c \in Callers |-> "out"]

goto(c, from, to) == pc[c] = from /\ pc' = [pc EXCEPT ![c] = to]

-----------------------------------------------------------------------------
(* lock() *)

\* if (!setLock(true)), the compare-and-swap outside mtx_.
fastLock(c) ==
    /\ IF isLock THEN goto(c, "out", "contend") ELSE goto(c, "out", "in")
    /\ isLock' = TRUE
    /\ UNCHANGED <<mtx, waiters, resumed>>

takeMtx(c) ==
    /\ goto(c, "contend", "retry")
    /\ mtx = Nobody /\ mtx' = c
    /\ UNCHANGED <<isLock, waiters, resumed>>

\* The second compare-and-swap, under mtx_; on success lock() returns.
retryLock_Skipped(c) ==
    /\ goto(c, "retry", "push")
    /\ UNCHANGED <<isLock, mtx, waiters, resumed>>

retryLock(c) ==
    /\ IF isLock
       THEN goto(c, "retry", "push") /\ UNCHANGED mtx
       ELSE goto(c, "retry", "in") /\ mtx' = Nobody
    /\ isLock' = TRUE
    /\ UNCHANGED <<waiters, resumed>>

\* waiters_.push(waiter); lock.unlock().
push(c) ==
    /\ goto(c, "push", "wait")
    /\ waiters' = Append(waiters, c)
    /\ mtx' = Nobody
    /\ UNCHANGED <<isLock, resumed>>

\* waiter.wait() of a coroutine: suspend() returns once it has been resumed.
suspend(c) ==
    /\ c \notin Plain
    /\ goto(c, "wait", "relock")
    /\ c \in resumed
    /\ resumed' = resumed \ {c}
    /\ UNCHANGED <<isLock, mtx, waiters>>

\* waiter.wait() of a plain thread throws, and its waiter stays in the queue.
throw(c) ==
    /\ c \in Plain
    /\ goto(c, "wait", "threw")
    /\ UNCHANGED <<isLock, mtx, waiters, resumed>>

relock(c) ==
    /\ goto(c, "relock", "leave")
    /\ mtx = Nobody /\ mtx' = c
    /\ UNCHANGED <<isLock, waiters, resumed>>

leave(c) ==
    /\ goto(c, "leave", "in")
    /\ mtx' = Nobody
    /\ UNCHANGED <<isLock, waiters, resumed>>

-----------------------------------------------------------------------------
(* unlock() *)

callUnlock(c) ==
    /\ goto(c, "in", "unlock")
    /\ UNCHANGED <<isLock, mtx, waiters, resumed>>

takeMtxToNotify(c) ==
    /\ goto(c, "unlock", "notify")
    /\ mtx = Nobody /\ mtx' = c
    /\ UNCHANGED <<isLock, waiters, resumed>>

\* notify_nolock(false), and setLock(false) if it woke nobody.
notify_AlsoClears(c) ==
    /\ goto(c, "notify", "out")
    /\ mtx' = Nobody
    /\ isLock' = FALSE
    /\ IF waiters = <<>>
       THEN UNCHANGED <<waiters, resumed>>
       ELSE /\ resumed' = resumed \cup {Head(waiters)}
            /\ waiters' = Tail(waiters)

\* wakeup() of a plain thread's waiter does nothing: its sched_ is null.
notify(c) ==
    /\ goto(c, "notify", "out")
    /\ mtx' = Nobody
    /\ IF waiters = <<>>
       THEN isLock' = FALSE /\ UNCHANGED <<waiters, resumed>>
       ELSE /\ resumed' = resumed \cup ({Head(waiters)} \ Plain)
            /\ waiters' = Tail(waiters)
            /\ UNCHANGED isLock

-----------------------------------------------------------------------------
lock(c) ==
    \/ fastLock(c) \/ takeMtx(c) \/ retryLock(c) \/ push(c)
    \/ suspend(c) \/ throw(c) \/ relock(c) \/ leave(c)

unlock(c) == callUnlock(c) \/ takeMtxToNotify(c) \/ notify(c)

Next == \E c \in Callers : lock(c) \/ unlock(c)

Spec == Init /\ [][Next]_vars

(***************************************************************************)
(* Every thread that runs a caller makes progress, and who has the lock    *)
(* gives it back.  Nobody has to ask for it, and no fairness of mtx_       *)
(* beyond that of its caller's thread is assumed.                          *)
(***************************************************************************)
Fairness ==
    \A c \in Callers :
        WF_vars((lock(c) /\ pc[c] # "out") \/ unlock(c))

-----------------------------------------------------------------------------
(***************************************************************************)
(* Who the lock belongs to: a caller in its critical section or on its way *)
(* out, and from the moment of the hand-off the caller that was handed it. *)
(* A plain thread whose exception came after the push is handed the lock   *)
(* like anybody else, and keeps it: nothing will call unlock().            *)
(***************************************************************************)
Swallowed(t) == t \in Plain /\ pc[t] \in {"wait", "threw"} /\ t \notin Range(waiters)

HoldsLock(c) ==
    \/ pc[c] \in {"relock", "leave", "in", "unlock", "notify"}
    \/ c \in resumed
    \/ Swallowed(c)

\* Two callers are never both between a lock() that returned and their unlock().
MutualExclusion ==
    \A c, d \in Callers : pc[c] = "in" /\ pc[d] = "in" => c = d

(***************************************************************************)
(* The hand-off leaves no gap and loses nothing: the lock has at most one  *)
(* owner, the flag is set exactly while it has one, and a queue has an     *)
(* owner in front of it, through every race of the compare-and-swap        *)
(* outside mtx_ with unlock() and whatever plain threads' exceptions do.   *)
(***************************************************************************)
HandOff ==
    /\ \A c, d \in Callers : HoldsLock(c) /\ HoldsLock(d) => c = d
    /\ isLock <=> \E c \in Callers : HoldsLock(c)
    /\ waiters # <<>> => isLock

(***************************************************************************)
(* A caller is queued once and waits while it is queued; mtx_ protects the *)
(* window between the second compare-and-swap and the push.                *)
(***************************************************************************)
QueueSound ==
    /\ IsInjective(waiters)
    /\ \A c \in Callers \ Plain :
          pc[c] = "wait" <=> c \in Range(waiters) \cup resumed
    /\ Range(waiters) \cap resumed = {} /\ resumed \cap Plain = {}
    /\ \A t \in Plain : t \in Range(waiters) => pc[t] \in {"wait", "threw"}
    /\ \A c \in Callers : mtx = c <=> pc[c] \in {"retry", "push", "leave", "notify"}
    /\ \A c \in Callers : pc[c] = "push" => isLock

(***************************************************************************)
(* Every coroutine that queued gets the lock, unless a plain thread's      *)
(* exception swallowed it: no wake-up is lost between the push and the     *)
(* suspend, and the queue is first in, first out.                          *)
(***************************************************************************)
QueuedGetsLock ==
    \A c \in Callers \ Plain :
        (pc[c] = "wait") ~> (pc[c] = "in" \/ \E t \in Plain : Swallowed(t))

-----------------------------------------------------------------------------
(***************************************************************************)
(* CoMutex implements HandoffLock: the owner is the caller that holds the  *)
(* lock, in the sense above, and the queue is waiters_.                    *)
(***************************************************************************)
Owner == IF \E c \in Callers : HoldsLock(c)
         THEN CHOOSE c \in Callers : HoldsLock(c)
         ELSE Nobody

Abstract == INSTANCE HandoffLock WITH owner <- Owner, queue <- waiters

\* Every step of lock() and unlock() is a step of the hand-off lock or none.
ImplementsHandoffLock == Abstract!Spec
=============================================================================
