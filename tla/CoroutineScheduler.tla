------------------------- MODULE CoroutineScheduler -------------------------
(***************************************************************************)
(* The coroutine runtime: one CoroutineScheduler with its thread, its pool *)
(* of CoroutineInfo slots, its four intrusive lists, the resume queue that *)
(* other threads feed, the sleep queue, and one CoConditionVariable that   *)
(* its coroutines block on.                                                *)
(*                                                                         *)
(* A list is a sequence whose head is head->next.  Only the control of a   *)
(* coroutine's body is kept: what it may ask of the runtime.  addCoroutine *)
(* and resume may be called by the coroutine that runs, by a callback of   *)
(* the event loop or by another thread; the three differ only in when they *)
(* may happen, and the actions allow every moment at which mtx_ is free.   *)
(* addCoroutine is one step here; IntrusiveList looks inside it.           *)
(***************************************************************************)
EXTENDS Integers, CoroutineLists

CONSTANTS
    NoCoro,      \* no coroutine is running: the thread is in run() itself
    MaxSleep,    \* bound: the longest sleep, in ticks
    MaxWaiters,  \* bound: the length of waiters_
    MaxTimed     \* bound: how many calls of wait(lock, milliseconds) there are

ASSUME NoCoroAssumption == NoCoro \notin Coros
ASSUME BoundsAssumption == MaxSleep \in Nat /\ MaxWaiters \in Nat /\ MaxTimed \in Nat

VARIABLES
    lists,        \* freeListHead_, yieldListHead_, suspendListHead_, resumeListHead_
    resumeQueue,  \* resumeQueue_, guarded by mtx_
    sleepQueue,   \* sleepQueue_: who sleeps and how many ticks are left
    waiters,      \* waiters_ of the condition variable, oldest first
    phase,        \* where run() is: "top", "drain", "resume", "yield", "stopped"
    batch,        \* the rest of the vector that run() is iterating over
    cur,          \* the coroutine that runs, or NoCoro
    pc,           \* where a coroutine's context will continue
    isRunning,    \* isRunning_
    timedWaits    \* how many timed waits have begun

vars == <<lists, resumeQueue, sleepQueue, waiters, phase, batch, cur, pc, isRunning,
          timedWaits>>

Phases == {"top", "drain", "resume", "yield", "stopped"}

(***************************************************************************)
(* "none": the slot has no context to continue (never registered, or past  *)
(* endFunc_); "body": somewhere in func_; "wait" and "timedWait": inside   *)
(* CoConditionVariable::wait, the waiter pushed and the lock released, but *)
(* not yet suspended.                                                      *)
(***************************************************************************)
Places == {"none", "body", "wait", "timedWait"}

Sleepers == {e.coro : e \in sleepQueue}

TypeOK ==
    /\ lists \in [ListNames -> Seq(Coros)]
    /\ resumeQueue \in Seq(Coros)
    /\ sleepQueue \subseteq [coro : Coros, left : 0..MaxSleep]
    /\ waiters \in Seq(Coros)
    /\ phase \in Phases
    /\ batch \in Seq(Coros)
    /\ cur \in Coros \cup {NoCoro}
    /\ pc \in [Coros -> Places]
    /\ isRunning \in BOOLEAN
    /\ timedWaits \in 0..MaxTimed

(***************************************************************************)
(* The constructor threads every slot on the free list, in some order.     *)
(***************************************************************************)
Init ==
    /\ \E order \in SetToSeqs(Coros) :
          lists = [l \in ListNames |-> IF l = "free" THEN order ELSE <<>>]
    /\ resumeQueue = <<>>
    /\ sleepQueue = {}
    /\ waiters = <<>>
    /\ phase = "top"
    /\ batch = <<>>
    /\ cur = NoCoro
    /\ pc = [c \in Coros |-> "none"]
    /\ isRunning = TRUE
    /\ timedWaits = 0

-----------------------------------------------------------------------------
MutexFree == phase # "drain"

-----------------------------------------------------------------------------
(* The steps of run(), on the scheduler's own stack.                       *)

(***************************************************************************)
(* wakeUpSleep: everything whose deadline has passed is handed to resume.  *)
(* Ticks that are due together are popped in address order, which the      *)
(* model leaves open; a slot that is due twice is in one drain either way. *)
(* resume takes mtx_ for each of them and run() takes it again to drain; a *)
(* resume from another thread in between only changes the order in which   *)
(* resumeQueue is filled, which is open too.                               *)
(***************************************************************************)
Due == {e \in sleepQueue : e.left = 0}

wakeUpSleep_NoPop ==
    /\ phase = "top" /\ isRunning
    /\ \E order \in SetToSeqs({e.coro : e \in Due}) :
          resumeQueue' = resumeQueue \o order
    /\ phase' = "drain"
    /\ UNCHANGED <<lists, sleepQueue, waiters, batch, cur, pc, isRunning, timedWaits>>

wakeUpSleep ==
    /\ phase = "top" /\ isRunning
    /\ \E order \in SetToSeqs({e.coro : e \in Due}) :
          resumeQueue' = resumeQueue \o order
    /\ sleepQueue' = sleepQueue \ Due
    /\ phase' = "drain"
    /\ UNCHANGED <<lists, waiters, batch, cur, pc, isRunning, timedWaits>>

\* One turn of the loop over resumeQueue_, mtx_ held from the first to the last.
drainOne ==
    /\ phase = "drain" /\ resumeQueue # <<>>
    /\ lists' = moveTo(lists, Head(resumeQueue), "resume")
    /\ resumeQueue' = Tail(resumeQueue)
    /\ UNCHANGED <<sleepQueue, waiters, phase, batch, cur, pc, isRunning, timedWaits>>

\* The queue is empty: mtx_ is released and the resume list is copied.
startResume ==
    /\ phase = "drain" /\ resumeQueue = <<>>
    /\ phase' = "resume"
    /\ batch' = lists["resume"]
    /\ UNCHANGED <<lists, resumeQueue, sleepQueue, waiters, cur, pc, isRunning, timedWaits>>

switchTo ==
    /\ phase \in {"resume", "yield"} /\ cur = NoCoro /\ batch # <<>>
    /\ cur' = Head(batch)
    /\ batch' = Tail(batch)
    /\ UNCHANGED <<lists, resumeQueue, sleepQueue, waiters, phase, pc, isRunning, timedWaits>>

\* The yield list is copied only after the resumed coroutines have run.
startYield_OnlyWhenIdle ==
    /\ phase = "resume" /\ cur = NoCoro /\ batch = <<>>
    /\ IF resumeQueue = <<>> /\ Due = {}
       THEN phase' = "yield" /\ batch' = lists["yield"]
       ELSE phase' = "top" /\ batch' = <<>>
    /\ UNCHANGED <<lists, resumeQueue, sleepQueue, waiters, cur, pc, isRunning, timedWaits>>

startYield ==
    /\ phase = "resume" /\ cur = NoCoro /\ batch = <<>>
    /\ phase' = "yield"
    /\ batch' = lists["yield"]
    /\ UNCHANGED <<lists, resumeQueue, sleepQueue, waiters, cur, pc, isRunning, timedWaits>>

endIteration ==
    /\ phase = "yield" /\ cur = NoCoro /\ batch = <<>>
    /\ phase' = "top"
    /\ UNCHANGED <<lists, resumeQueue, sleepQueue, waiters, batch, cur, pc, isRunning, timedWaits>>

leaveRun ==
    /\ phase = "top" /\ ~isRunning
    /\ phase' = "stopped"
    /\ UNCHANGED <<lists, resumeQueue, sleepQueue, waiters, batch, cur, pc, isRunning, timedWaits>>

-----------------------------------------------------------------------------
(* What the running coroutine may ask for.                                 *)

InBody == cur # NoCoro /\ pc[cur] = "body"

yield ==
    /\ InBody
    /\ lists' = moveTo(lists, cur, "yield")
    /\ cur' = NoCoro
    /\ UNCHANGED <<resumeQueue, sleepQueue, waiters, phase, batch, pc, isRunning, timedWaits>>

sleep(ms) ==
    /\ InBody
    /\ sleepQueue' = sleepQueue \cup {[coro |-> cur, left |-> ms]}
    /\ lists' = moveTo(lists, cur, "suspend")
    /\ cur' = NoCoro
    /\ UNCHANGED <<resumeQueue, waiters, phase, batch, pc, isRunning, timedWaits>>

\* CoConditionVariable::wait up to lock.unlock(): a copy of the waiter is queued.
waitPush ==
    /\ InBody /\ Len(waiters) < MaxWaiters
    /\ waiters' = Append(waiters, cur)
    /\ \/ pc' = [pc EXCEPT ![cur] = "wait"] /\ UNCHANGED timedWaits
       \/ /\ timedWaits < MaxTimed
          /\ pc' = [pc EXCEPT ![cur] = "timedWait"]
          /\ timedWaits' = timedWaits + 1
    /\ UNCHANGED <<lists, resumeQueue, sleepQueue, phase, batch, cur, isRunning>>

\* CoroutineWaiter::wait without a timeout: suspend().
waitSuspend ==
    /\ cur # NoCoro /\ pc[cur] = "wait"
    /\ lists' = moveTo(lists, cur, "suspend")
    /\ pc' = [pc EXCEPT ![cur] = "body"]
    /\ cur' = NoCoro
    /\ UNCHANGED <<resumeQueue, sleepQueue, waiters, phase, batch, isRunning, timedWaits>>

\* CoroutineWaiter::wait with a timeout: sleep(milliseconds).
waitSleep(ms) ==
    /\ cur # NoCoro /\ pc[cur] = "timedWait"
    /\ sleepQueue' = sleepQueue \cup {[coro |-> cur, left |-> ms]}
    /\ lists' = moveTo(lists, cur, "suspend")
    /\ pc' = [pc EXCEPT ![cur] = "body"]
    /\ cur' = NoCoro
    /\ UNCHANGED <<resumeQueue, waiters, phase, batch, isRunning, timedWaits>>

\* func_ returned or threw: endFunc_ runs and the context jumps back for good.
endFunc ==
    /\ InBody
    /\ lists' = moveTo(lists, cur, "free")
    /\ pc' = [pc EXCEPT ![cur] = "none"]
    /\ cur' = NoCoro
    /\ UNCHANGED <<resumeQueue, sleepQueue, waiters, phase, batch, isRunning, timedWaits>>

-----------------------------------------------------------------------------
(* What any thread may do while mtx_ is free.                              *)

\* addCoroutine that finds a free slot; without one it returns false.
addCoroutine ==
    /\ MutexFree
    /\ lists["free"] # <<>>
    /\ LET info == Head(lists["free"])
       IN  /\ lists' = moveTo(lists, info, "yield")
           /\ pc' = [pc EXCEPT ![info] = "body"]
    /\ UNCHANGED <<resumeQueue, sleepQueue, waiters, phase, batch, cur, isRunning, timedWaits>>

\* notify_one: the oldest waiter is resumed and forgotten.
notify_one ==
    /\ MutexFree
    /\ waiters # <<>>
    /\ resumeQueue' = Append(resumeQueue, Head(waiters))
    /\ waiters' = Tail(waiters)
    /\ UNCHANGED <<lists, sleepQueue, phase, batch, cur, pc, isRunning, timedWaits>>

notify_all ==
    /\ MutexFree
    /\ waiters # <<>>
    /\ resumeQueue' = resumeQueue \o waiters
    /\ waiters' = <<>>
    /\ UNCHANGED <<lists, sleepQueue, phase, batch, cur, pc, isRunning, timedWaits>>

stop ==
    /\ isRunning
    /\ isRunning' = FALSE
    /\ UNCHANGED <<lists, resumeQueue, sleepQueue, waiters, phase, batch, cur, pc, timedWaits>>

\* UnixTimeMilliSecond() advances.
Tick ==
    /\ \E e \in sleepQueue : e.left > 0
    /\ sleepQueue' = {[e EXCEPT !.left = IF @ > 0 THEN @ - 1 ELSE 0] : e \in sleepQueue}
    /\ UNCHANGED <<lists, resumeQueue, waiters, phase, batch, cur, pc, isRunning, timedWaits>>

-----------------------------------------------------------------------------
run == wakeUpSleep \/ drainOne \/ startResume \/ switchTo \/ startYield
          \/ endIteration \/ leaveRun

Coroutine ==
    \/ yield \/ waitPush \/ waitSuspend \/ endFunc
    \/ \E ms \in 0..MaxSleep : sleep(ms) \/ waitSleep(ms)

AnyThread == addCoroutine \/ notify_one \/ notify_all \/ stop

Next == run \/ Coroutine \/ AnyThread \/ Tick

(***************************************************************************)
(* The scheduler thread is scheduled by the kernel, the code it runs gives *)
(* control back, and time passes.  Nothing obliges anyone to notify, to    *)
(* add a coroutine or to stop the scheduler.                               *)
(***************************************************************************)
Spec == Init /\ [][Next]_vars
FairSpec == Spec /\ WF_vars(run \/ Coroutine) /\ WF_vars(Tick)

-----------------------------------------------------------------------------
(***************************************************************************)
(* Every slot is on exactly one of the four lists, once: a slot is never   *)
(* lost from the pool and never linked twice, however yield, suspend,      *)
(* sleep, resume, the end of a body and addCoroutine alternate.            *)
(***************************************************************************)
ListsPartition == Partition(lists, Coros)

(***************************************************************************)
(* The assert(false) after the last jump of initContext: a context that    *)
(* has run its endFunc_ is never switched to again.                        *)
(***************************************************************************)
NeverSwitchToFinished == cur # NoCoro => pc[cur] # "none"

(***************************************************************************)
(* As long as no timed wait has begun that assertion cannot fail.          *)
(***************************************************************************)
Untimed == timedWaits = 0

UntimedNeverFinished == Untimed => NeverSwitchToFinished

(***************************************************************************)
(* The vector that run() iterates over is never stale: what is still to be *)
(* switched to is on the list the vector was copied from, although         *)
(* coroutines ran, ended and were added after the copy.                    *)
(***************************************************************************)
FreshBatch ==
    /\ IsInjective(batch)
    /\ cur \notin Range(batch)
    /\ batch # <<>> => phase \in {"resume", "yield"}
    /\ phase \in {"resume", "yield"} => Range(batch) \subseteq Range(lists[phase])

BatchFresh == Untimed => FreshBatch

(***************************************************************************)
(* Wake-ups are neither lost nor repeated: a coroutine that blocks, or is  *)
(* about to, is known to exactly one of the condition variable, the sleep  *)
(* queue and the resume queue, and those know of no other coroutine.  A    *)
(* timed wait is known to two of them, so this is for as long as no timed  *)
(* wait has begun.                                                         *)
(***************************************************************************)
Blocking(c) == c \in Range(lists["suspend"]) \/ pc[c] = "wait"

SoleWaker ==
    /\ IsInjective(waiters) /\ IsInjective(resumeQueue)
    /\ Range(waiters) \cap Range(resumeQueue) = {}
    /\ Sleepers \cap (Range(waiters) \cup Range(resumeQueue)) = {}
    /\ \A e, f \in sleepQueue : e.coro = f.coro => e = f
    /\ \A c \in Coros :
          Blocking(c) <=> c \in Sleepers \cup Range(waiters) \cup Range(resumeQueue)

OneWaker == Untimed => SoleWaker

(***************************************************************************)
(* A coroutine that yielded, that was resumed or whose sleep runs is       *)
(* switched to in the end, unless the scheduler is stopped first or the    *)
(* assertion of initContext aborts the program: neither of the two lists   *)
(* starves the other and no sleeper is forgotten.                          *)
(***************************************************************************)
Awaited(c) == c \in Range(lists["yield"]) \cup Range(resumeQueue) \cup Sleepers

Aborted == cur # NoCoro /\ pc[cur] = "none"

EventuallySwitchedTo ==
    \A c \in Coros : Awaited(c) ~> (cur = c \/ phase = "stopped" \/ Aborted)
=============================================================================
