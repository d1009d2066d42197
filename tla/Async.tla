------------------------------- MODULE Async -------------------------------
(***************************************************************************)
(* Async, Promise, Future and the SharedState between them: tasks are      *)
(* dealt out to schedulers in turn, and threads or other tasks wait for    *)
(* their results.  A scheduler is reduced to its pool of slots and to what *)
(* CoroutineScheduler shows of it: a coroutine that was added or resumed   *)
(* runs, until the scheduler is stopped.                                   *)
(***************************************************************************)
EXTENDS Integers, FiniteSets

CONSTANTS
    Calls,          \* bound: how often async() is called
    NSchedulers,    \* the threads of the Async object
    Slots,          \* slots of one scheduler (10240 in the program)
    FutureThreads,  \* plain threads that wait for futures
    VoidTasks       \* the calls whose f returns void

Tasks == 1..Calls
Schedulers == 0..(NSchedulers - 1)
Waiters == Tasks \cup FutureThreads
NoTask == 0

ASSUME AsyncAssumption ==
    /\ Calls \in Nat /\ NSchedulers \in Nat \ {0} /\ Slots \in Nat
    /\ IsFiniteSet(FutureThreads) /\ FutureThreads \cap (0..Calls) = {}
    /\ VoidTasks \subseteq Tasks

VARIABLES
    index,    \* the static counter of getIndex
    task,     \* how far a call has got, see AsyncInit
    home,     \* the scheduler a call was dealt to
    free,     \* how many slots of a scheduler are free
    thrown,   \* whether the task's f threw: the shared state's eptr_
    isReady,  \* isReady_ of the task's shared state
    waitsOn,  \* the future a waiter is inside wait() of
    asleep,   \* the waiters in a cond_ of some shared state
    got,      \* what a waiter's last wait() gave: a result, or its exception
    stopped   \* the schedulers that have been stopped

asyncVars == <<index, task, home, free, thrown, isReady, waitsOn, asleep, got, stopped>>

(***************************************************************************)
(* "none": async was not called yet; "dropped": addCoroutine returned      *)
(* false; "added"; "running": f was entered; "ending": the promise is set, *)
(* endFunc_ is still to come; "finished".                                  *)
(***************************************************************************)
AsyncInit ==
    /\ index = 0
    /\ task = [t \in Tasks |-> "none"]
    /\ home = [t \in Tasks |-> 0]
    /\ free = [s \in Schedulers |-> Slots]
    /\ thrown = {} /\ isReady = {}
    /\ waitsOn = [w \in Waiters |-> NoTask]
    /\ asleep = {}
    /\ got = [w \in Waiters |-> [of |-> NoTask, result |-> "none"]]
    /\ stopped = {}

-----------------------------------------------------------------------------
(***************************************************************************)
(* async(): the next scheduler in turn gets the coroutine.  The answer of  *)
(* addCoroutine is not looked at: without a free slot the call still       *)
(* returns a future.                                                       *)
(***************************************************************************)
async ==
    /\ index < Calls /\ stopped = {}
    /\ LET t == index + 1
           s == index % NSchedulers
       IN  /\ home' = [home EXCEPT ![t] = s]
           /\ IF free[s] > 0
              THEN /\ task' = [task EXCEPT ![t] = "added"]
                   /\ free' = [free EXCEPT ![s] = @ - 1]
              ELSE /\ task' = [task EXCEPT ![t] = "dropped"]
                   /\ UNCHANGED free
    /\ index' = index + 1
    /\ UNCHANGED <<thrown, isReady, waitsOn, asleep, got, stopped>>

\* The coroutine is switched to for the first time.
enter(t) ==
    /\ task[t] = "added" /\ home[t] \notin stopped
    /\ task' = [task EXCEPT ![t] = "running"]
    /\ UNCHANGED <<index, home, free, thrown, isReady, waitsOn, asleep, got, stopped>>

Runs(t) == task[t] = "running" /\ waitsOn[t] = NoTask /\ home[t] \notin stopped

WaitersOf(t) == {w \in Waiters : waitsOn[w] = t}

\* setValue or setException: everything under mtx_, notify_all included.
setReady(t, threw) ==
    /\ Runs(t)
    /\ task' = [task EXCEPT ![t] = "ending"]
    /\ thrown' = IF threw THEN thrown \cup {t} ELSE thrown
    /\ isReady' = isReady \cup {t}
    /\ asleep' = asleep \ WaitersOf(t)
    /\ UNCHANGED <<index, home, free, waitsOn, got, stopped>>

setValue(t) == setReady(t, FALSE)

setException_NoNotify(t) ==
    /\ Runs(t)
    /\ task' = [task EXCEPT ![t] = "ending"]
    /\ thrown' = thrown \cup {t}
    /\ isReady' = isReady \cup {t}
    /\ UNCHANGED <<index, home, free, waitsOn, asleep, got, stopped>>

setException(t) == setReady(t, TRUE)

\* The coroutine's slot goes back to the free list.
endFunc_NotAfterThrow(t) ==
    /\ task[t] = "ending" /\ home[t] \notin stopped
    /\ task' = [task EXCEPT ![t] = "finished"]
    /\ free' = IF t \in thrown THEN free ELSE [free EXCEPT ![home[t]] = @ + 1]
    /\ UNCHANGED <<index, home, thrown, isReady, waitsOn, asleep, got, stopped>>

endFunc(t) ==
    /\ task[t] = "ending" /\ home[t] \notin stopped
    /\ task' = [task EXCEPT ![t] = "finished"]
    /\ free' = [free EXCEPT ![home[t]] = @ + 1]
    /\ UNCHANGED <<index, home, thrown, isReady, waitsOn, asleep, got, stopped>>

-----------------------------------------------------------------------------
(* Future::wait().                                                         *)

\* getValue, which the Future of a void call does not use.
getValue(t) ==
    IF t \in VoidTasks THEN "value"
    ELSE IF t \notin isReady THEN "unready"
    ELSE IF t \in thrown THEN "exception" ELSE "value"

MayCallWait(w) ==
    /\ waitsOn[w] = NoTask
    /\ w \in Tasks => task[w] = "running" /\ home[w] \notin stopped

(***************************************************************************)
(* A thread may wait for any future there is; a task for those that were   *)
(* there when it was made.                                                 *)
(***************************************************************************)
wait(w, t) ==
    /\ MayCallWait(w)
    /\ task[t] # "none" /\ (w \in Tasks => t < w)
    /\ IF t \in isReady
       THEN /\ got' = [got EXCEPT ![w] = [of |-> t, result |-> getValue(t)]]
            /\ UNCHANGED <<waitsOn, asleep>>
       ELSE /\ waitsOn' = [waitsOn EXCEPT ![w] = t]
            /\ asleep' = asleep \cup {w}
            /\ UNCHANGED got
    /\ UNCHANGED <<index, task, home, free, thrown, isReady, stopped>>

waitAgain_NoLoop(w) ==
    /\ waitsOn[w] # NoTask /\ w \notin asleep
    /\ w \in Tasks => home[w] \notin stopped
    /\ got' = [got EXCEPT ![w] = [of |-> waitsOn[w], result |-> getValue(waitsOn[w])]]
    /\ waitsOn' = [waitsOn EXCEPT ![w] = NoTask]
    /\ UNCHANGED <<index, task, home, free, thrown, isReady, asleep, stopped>>

\* cond_.wait returned: while (!isReady_) looks again.
waitAgain(w) ==
    /\ waitsOn[w] # NoTask /\ w \notin asleep
    /\ w \in Tasks => home[w] \notin stopped
    /\ IF waitsOn[w] \in isReady
       THEN /\ got' = [got EXCEPT ![w] = [of |-> waitsOn[w], result |-> getValue(waitsOn[w])]]
            /\ waitsOn' = [waitsOn EXCEPT ![w] = NoTask]
            /\ UNCHANGED asleep
       ELSE asleep' = asleep \cup {w} /\ UNCHANGED <<got, waitsOn>>
    /\ UNCHANGED <<index, task, home, free, thrown, isReady, stopped>>

\* std::condition_variable may wake a thread that nobody notified.
threadWakeup(w) ==
    /\ w \in asleep \cap FutureThreads
    /\ asleep' = asleep \ {w}
    /\ UNCHANGED <<index, task, home, free, thrown, isReady, waitsOn, got, stopped>>

\* ~Async stops and joins the schedulers one after the other.
stop ==
    /\ stopped # Schedulers
    /\ stopped' = stopped \cup {Cardinality(stopped)}
    /\ UNCHANGED <<index, task, home, free, thrown, isReady, waitsOn, asleep, got>>

-----------------------------------------------------------------------------
AsyncNext ==
    \/ async \/ stop
    \/ \E t \in Tasks : enter(t) \/ setValue(t) \/ setException(t) \/ endFunc(t)
    \/ \E w \in Waiters : waitAgain(w) \/ threadWakeup(w) \/ \E t \in Tasks : wait(w, t)

AsyncSpec == AsyncInit /\ [][AsyncNext]_asyncVars

(***************************************************************************)
(* The schedulers' threads run, f comes to an end unless it waits, and a   *)
(* waiter that was woken goes on.  Nobody has to call async or wait.       *)
(***************************************************************************)
AsyncFairness ==
    /\ \A t \in Tasks : WF_asyncVars(enter(t)) /\ WF_asyncVars(setValue(t) \/ setException(t))
                           /\ WF_asyncVars(endFunc(t))
    /\ \A w \in Waiters : WF_asyncVars(waitAgain(w))

-----------------------------------------------------------------------------
(***************************************************************************)
(* A slot is taken by every accepted task and given back once, whether f   *)
(* returned or threw.                                                      *)
(***************************************************************************)
Occupies(t) == task[t] \in {"added", "running", "ending"}

SlotsConserved ==
    \A s \in Schedulers :
        free[s] + Cardinality({t \in Tasks : Occupies(t) /\ home[t] = s}) = Slots

(***************************************************************************)
(* wait() gives what that future's own task produced: never a value that   *)
(* was not set, the exception exactly if f threw, except that the future   *)
(* of a void call never rethrows.                                          *)
(***************************************************************************)
OwnResult ==
    \A w \in Waiters : LET g == got[w] IN
        g.of # NoTask =>
            /\ g.of \in isReady
            /\ g.result = IF g.of \in thrown \ VoidTasks THEN "exception" ELSE "value"

(***************************************************************************)
(* Every wait() returns, through any chain of tasks that wait for tasks,   *)
(* unless a call was dropped for want of a slot or the object is destroyed.*)
(***************************************************************************)
WaitReturns ==
    \A w \in Waiters :
        waitsOn[w] # NoTask ~>
            (waitsOn[w] = NoTask \/ stopped # {} \/ \E t \in Tasks : task[t] = "dropped")
=============================================================================
