------------------------------- MODULE Mutex -------------------------------
(***************************************************************************)
(* Mutex: a lock that threads and coroutines share.  It keeps a flag and a *)
(* count of waiters under an internal std::mutex and blocks on a           *)
(* ConditionVariable, which is a CoConditionVariable for coroutines and a  *)
(* std::condition_variable for threads.                                    *)
(*                                                                         *)
(* Everything lock() and unlock() do between taking mtx_ and releasing or  *)
(* waiting on it is one step: no state is reached outside mtx_.            *)
(***************************************************************************)
EXTENDS Integers, FiniteSets, Sequences, Functions

CONSTANTS
    Coros,    \* the coroutines that use the lock, of any scheduler
    Threads   \* the plain threads that use it

Users == Coros \cup Threads

ASSUME UsersAssumption ==
    IsFiniteSet(Coros) /\ IsFiniteSet(Threads) /\ Coros \cap Threads = {}

VARIABLES
    taken,     \* isLock
    waitings,  \* waitings_
    coCv,      \* cond_.coCv_.waiters_, oldest first
    cv,        \* the threads blocked in cond_.cv_
    woken,     \* callers that were notified and are on their way back to mtx_
    at         \* "out", "wait" (in cond_.wait), "in" (lock() returned)

mutexVars == <<taken, waitings, coCv, cv, woken, at>>

MutexTypeOK ==
    /\ taken \in BOOLEAN
    /\ waitings \in Int
    /\ coCv \in Seq(Coros)
    /\ cv \subseteq Threads
    /\ woken \subseteq Users
    /\ at \in [Users -> {"out", "wait", "in"}]

MutexInit ==
    /\ taken = FALSE
    /\ waitings = 0
    /\ coCv = <<>>
    /\ cv = {}
    /\ woken = {}
    /\ at = [c \in Users |-> "out"]

-----------------------------------------------------------------------------
(* ConditionVariable, called with mtx_ held. *)

\* wait: a coroutine queues a waiter, a thread blocks in cv_.
condWait(c) ==
    IF c \in Coros
    THEN coCv' = Append(coCv, c) /\ UNCHANGED cv
    ELSE cv' = cv \cup {c} /\ UNCHANGED coCv

(***************************************************************************)
(* notify_one: the oldest coroutine if there is one, else some thread.     *)
(***************************************************************************)
notify_one_CorosOnly ==
    IF coCv # <<>>
    THEN /\ woken' = woken \cup {Head(coCv)}
         /\ coCv' = Tail(coCv) /\ UNCHANGED cv
    ELSE UNCHANGED <<woken, coCv, cv>>

notify_one ==
    IF coCv # <<>>
    THEN /\ woken' = woken \cup {Head(coCv)}
         /\ coCv' = Tail(coCv) /\ UNCHANGED cv
    ELSE IF cv # {}
    THEN \E t \in cv : woken' = woken \cup {t} /\ cv' = cv \ {t} /\ UNCHANGED coCv
    ELSE UNCHANGED <<woken, coCv, cv>>

-----------------------------------------------------------------------------
\* lock() from its first line: take the lock or go to wait.
mutexLock(c) ==
    /\ at[c] = "out"
    /\ IF taken
       THEN /\ waitings' = waitings + 1
            /\ condWait(c)
            /\ at' = [at EXCEPT ![c] = "wait"]
            /\ UNCHANGED taken
       ELSE /\ taken' = TRUE
            /\ at' = [at EXCEPT ![c] = "in"]
            /\ UNCHANGED <<waitings, coCv, cv>>
    /\ UNCHANGED woken

\* cond_.wait returned with mtx_ held: waitings_-- and once more round the loop.
mutexLockAgain_NoLoop(c) ==
    /\ c \in woken
    /\ woken' = woken \ {c}
    /\ taken' = TRUE
    /\ at' = [at EXCEPT ![c] = "in"]
    /\ waitings' = waitings - 1
    /\ UNCHANGED <<coCv, cv>>

mutexLockAgain_NoRecount(c) ==
    /\ c \in woken
    /\ woken' = woken \ {c}
    /\ IF taken
       THEN /\ condWait(c)
            /\ waitings' = waitings - 1
            /\ UNCHANGED <<taken, at>>
       ELSE /\ taken' = TRUE
            /\ at' = [at EXCEPT ![c] = "in"]
            /\ waitings' = waitings - 1
            /\ UNCHANGED <<coCv, cv>>

mutexLockAgain(c) ==
    /\ c \in woken
    /\ woken' = woken \ {c}
    /\ IF taken
       THEN /\ condWait(c)
            /\ UNCHANGED <<taken, waitings, at>>   \* waitings_-- and waitings_++
       ELSE /\ taken' = TRUE
            /\ at' = [at EXCEPT ![c] = "in"]
            /\ waitings' = waitings - 1
            /\ UNCHANGED <<coCv, cv>>

mutexUnlock(c) ==
    /\ at[c] = "in"
    /\ at' = [at EXCEPT ![c] = "out"]
    /\ taken' = FALSE
    /\ IF waitings > 0 THEN notify_one ELSE UNCHANGED <<coCv, cv, woken>>
    /\ UNCHANGED waitings

\* std::condition_variable may wake a thread that nobody notified.
spuriousWakeup(t) ==
    /\ t \in cv
    /\ cv' = cv \ {t}
    /\ woken' = woken \cup {t}
    /\ UNCHANGED <<taken, waitings, coCv, at>>

-----------------------------------------------------------------------------
MutexNext ==
    \/ \E c \in Users : mutexLock(c) \/ mutexLockAgain(c) \/ mutexUnlock(c)
    \/ \E t \in Threads : spuriousWakeup(t)

MutexSpec == MutexInit /\ [][MutexNext]_mutexVars

(***************************************************************************)
(* Who has the lock gives it back, and who was notified comes back to      *)
(* mtx_.  Nobody has to ask for the lock or to wake up without a reason.   *)
(***************************************************************************)
MutexFairness ==
    \A c \in Users : WF_mutexVars(mutexLockAgain(c)) /\ WF_mutexVars(mutexUnlock(c))

-----------------------------------------------------------------------------
Sleeping == Range(coCv) \cup cv

(***************************************************************************)
(* The flag is exactly the presence of one caller between lock() and       *)
(* unlock(), whatever mixture of threads and coroutines asks for it and    *)
(* however many of them wake up without having been notified.              *)
(***************************************************************************)
OneHolder ==
    /\ \A c, d \in Users : at[c] = "in" /\ at[d] = "in" => c = d
    /\ taken <=> \E c \in Users : at[c] = "in"

(***************************************************************************)
(* A caller in cond_.wait is either still asleep in the queue of its own   *)
(* kind, once, or on its way back, never both.                             *)
(***************************************************************************)
WaitersAccounted ==
    /\ IsInjective(coCv)
    /\ Sleeping \cap woken = {}
    /\ {c \in Users : at[c] = "wait"} = Sleeping \cup woken

\* waitings_ is the number of callers inside cond_.wait.
WaitingsExact == waitings = Cardinality({c \in Users : at[c] = "wait"})

(***************************************************************************)
(* No wake-up is lost: while the lock is free nobody sleeps unless someone *)
(* who was notified is on the way to take the lock, even though a          *)
(* newcomer may have taken and released it in between and notify_one       *)
(* passes threads over while a coroutine waits.                            *)
(***************************************************************************)
NoLostWakeup == ~taken /\ Sleeping # {} => woken # {}

\* A free lock that somebody sleeps for is taken in the end: no deadlock.
FreeLockTaken == (~taken /\ Sleeping # {}) ~> taken
=============================================================================
