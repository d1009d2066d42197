------------------------------ MODULE MCLocks ------------------------------
(***************************************************************************)
(* Small instances, for TLC, of what coroutine_mutex.h offers: its two     *)
(* locks, and the futures of Async.  They share nothing, so a behaviour    *)
(* uses one of them: while one is in use the others are as their           *)
(* constructors left them.                                                 *)
(***************************************************************************)
EXTENDS CoMutex, Mutex, Async

LocksInit == Init /\ MutexInit /\ AsyncInit

LocksNext ==
    \/ Next /\ MutexInit /\ AsyncInit /\ UNCHANGED <<mutexVars, asyncVars>>
    \/ MutexNext /\ Init /\ AsyncInit /\ UNCHANGED <<vars, asyncVars>>
    \/ AsyncNext /\ Init /\ MutexInit /\ UNCHANGED <<vars, mutexVars>>

LocksSpec ==
    /\ LocksInit /\ [][LocksNext]_<<vars, mutexVars, asyncVars>>
    /\ Fairness /\ MutexFairness /\ AsyncFairness
=============================================================================
