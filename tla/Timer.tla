------------------------------- MODULE Timer -------------------------------
(***************************************************************************)
(* A Timer, the Asyncer that carries it to the loop's thread, their two    *)
(* events, and the event loop that polls for them.  Threads that share the *)
(* Timer call AsyncWait and Cancel and drop their references; the loop's   *)
(* thread runs the callbacks.  lock_ protects the Timer, but the Asyncer's *)
(* done_ is read and written by both sides without a common lock, so that  *)
(* each access to it is a step.                                            *)
(*                                                                         *)
(* A second AsyncWait only tells its own handler that the Timer can't be   *)
(* reused, and Cancel before AsyncWait finds nothing to do: neither is a   *)
(* step here.                                                              *)
(***************************************************************************)
EXTENDS Integers, Sequences

CONSTANTS
    Users,       \* the threads that hold a reference to the Timer
    Nobody,
    MaxCancels   \* bound: how often a thread calls Cancel

ASSUME UsersAssumption == Nobody \notin Users /\ MaxCancels \in Nat

VARIABLES
    used,        \* used_
    done,        \* done_ of the Timer
    asyncDone,   \* done_ of the Asyncer
    asyncEvent,  \* whether the Asyncer's event is enabled and in its poller
    timerEvent,  \* event_: "null", "on" (enabled and in its poller) or "off"
    lock,        \* who holds lock_ for more than one step
    user,        \* what a thread is doing: "idle", "cancel" or "gone"
    sawDone,     \* the threads whose Cancel has read true in the Asyncer's done_
    cancels,     \* how often a thread has called Cancel
    loop,        \* where the loop's thread is, see LoopPlaces
    alive,       \* the Timer has not been destroyed
    calls,       \* how the handler was called, in order
    lateCancel   \* a Cancel returned and the handler had not been called

vars == <<used, done, asyncDone, asyncEvent, timerEvent, lock, user, sawDone, cancels,
          loop, alive, calls, lateCancel>>

(***************************************************************************)
(* "top"; for the Asyncer's event: "async.Do" polled, "async.check" in its *)
(* callback, "async.set" after the check, "arm" in the Timer's lambda; for *)
(* the Timer's event: "timer.Poll" inside Poll with the poller's lock,     *)
(* "timer.Do" polled, "fire" in its callback; "leave" about to drop        *)
(* realThis; "stuck" locking a lock it holds.                              *)
(***************************************************************************)
LoopPlaces == {"top", "async.Do", "async.check", "async.set", "arm",
               "timer.Poll", "timer.Do", "fire", "leave", "stuck"}

TypeOK ==
    /\ used \in BOOLEAN /\ done \in BOOLEAN /\ asyncDone \in BOOLEAN
    /\ asyncEvent \in BOOLEAN /\ alive \in BOOLEAN /\ lateCancel \in BOOLEAN
    /\ timerEvent \in {"null", "on", "off"}
    /\ lock \in Users \cup {Nobody}
    /\ user \in [Users -> {"idle", "cancel", "gone"}]
    /\ sawDone \subseteq Users
    /\ cancels \in [Users -> 0..MaxCancels]
    /\ loop \in LoopPlaces
    /\ calls \in Seq({"fired", "canceled"})

Init ==
    /\ used = FALSE /\ done = FALSE /\ asyncDone = FALSE
    /\ asyncEvent = FALSE /\ timerEvent = "null"
    /\ lock = Nobody
    /\ user = [u \in Users |-> "idle"]
    /\ sawDone = {}
    /\ cancels = [u \in Users |-> 0]
    /\ loop = "top"
    /\ alive = TRUE
    /\ calls = <<>>
    /\ lateCancel = FALSE

\* The handler is called with result r, unless the Timer is done.
report(r) ==
    /\ done' = TRUE
    /\ calls' = IF done THEN calls ELSE Append(calls, r)

\* The pollers' UpdateEvent and RemoveEvent, called when an event is enabled,
\* disabled or destroyed.
asyncUpdateEvent == asyncEvent' = TRUE
asyncRemoveEvent == asyncEvent' = FALSE
timerUpdateEvent == timerEvent' = "on"
timerRemoveEvent == timerEvent' = "off"

-----------------------------------------------------------------------------
(* Any thread. *)

\* Asyncer::AsyncDo on a new Asyncer: its event is enabled.
AsyncDo == asyncUpdateEvent /\ UNCHANGED asyncDone

AsyncWait(u) ==
    /\ user[u] = "idle" /\ lock = Nobody
    /\ ~used /\ used' = TRUE
    /\ AsyncDo
    /\ UNCHANGED <<done, timerEvent, lock, user, sawDone, cancels, loop,
                   alive, calls, lateCancel>>

\* Cancel up to the Asyncer's if (!done_).
cancelCheck(u) ==
    /\ user[u] = "idle" /\ lock = Nobody /\ used
    /\ cancels[u] < MaxCancels
    /\ cancels' = [cancels EXCEPT ![u] = @ + 1]
    /\ lock' = u
    /\ user' = [user EXCEPT ![u] = "cancel"]
    /\ asyncRemoveEvent
    /\ sawDone' = IF asyncDone THEN sawDone \cup {u} ELSE sawDone \ {u}
    /\ UNCHANGED <<used, done, asyncDone, timerEvent, loop, alive, calls, lateCancel>>

(***************************************************************************)
(* The rest of Cancel: the Asyncer reports if it was not done, and then    *)
(* the Timer, if it has an event.  The poller's lock must be free for it.  *)
(***************************************************************************)
cancelFinish_NoDoneCheck(u) ==
    /\ user[u] = "cancel"
    /\ timerEvent # "null" => loop # "timer.Poll"
    /\ asyncDone' = (asyncDone \/ u \notin sawDone)
    /\ timerEvent' = IF timerEvent = "null" THEN "null" ELSE "off"
    /\ done' = TRUE
    /\ calls' = IF u \notin sawDone \/ timerEvent # "null"
                THEN Append(calls, "canceled") ELSE calls
    /\ lateCancel' = (lateCancel \/ calls' = <<>>)
    /\ lock' = Nobody
    /\ user' = [user EXCEPT ![u] = "idle"]
    /\ UNCHANGED <<used, asyncEvent, sawDone, cancels, loop, alive>>

cancelFinish(u) ==
    /\ user[u] = "cancel"
    /\ timerEvent # "null" => loop # "timer.Poll"
    /\ asyncDone' = (asyncDone \/ u \notin sawDone)
    /\ IF timerEvent = "null" THEN UNCHANGED timerEvent ELSE timerRemoveEvent
    /\ IF u \notin sawDone \/ timerEvent # "null"
       THEN report("canceled")
       ELSE UNCHANGED <<done, calls>>
    /\ lateCancel' = (lateCancel \/ calls' = <<>>)
    /\ lock' = Nobody
    /\ user' = [user EXCEPT ![u] = "idle"]
    /\ UNCHANGED <<used, asyncEvent, sawDone, cancels, loop, alive>>

(***************************************************************************)
(* ~Timer: an unreported wait is reported, and the events go.  The Timer's *)
(* event outlives it while Poll holds a reference to the event.            *)
(***************************************************************************)
destroy_NoReport ==
    /\ alive' = FALSE
    /\ UNCHANGED <<done, calls>>
    /\ asyncRemoveEvent
    /\ IF timerEvent = "on" /\ loop # "timer.Poll"
       THEN timerRemoveEvent ELSE UNCHANGED timerEvent

destroy ==
    /\ alive' = FALSE
    /\ IF used THEN report("canceled") ELSE UNCHANGED <<done, calls>>
    /\ asyncRemoveEvent
    /\ IF timerEvent = "on" /\ loop # "timer.Poll"
       THEN timerRemoveEvent ELSE UNCHANGED timerEvent

\* The callbacks hold realThis from "arm" and from "fire" on.
LoopHoldsTimer_Never == FALSE

LoopHoldsTimer == loop \in {"arm", "fire", "leave"}

\* A thread drops its reference; the last reference destroys the Timer.
drop(u) ==
    /\ user[u] = "idle"
    /\ user' = [user EXCEPT ![u] = "gone"]
    /\ IF LoopHoldsTimer \/ \E v \in Users \ {u} : user[v] # "gone"
       THEN UNCHANGED <<alive, done, calls, asyncEvent, timerEvent>>
       ELSE destroy
    /\ UNCHANGED <<used, asyncDone, lock, sawDone, cancels, loop, lateCancel>>

-----------------------------------------------------------------------------
(* The loop's thread. *)

goto(from, to) == loop = from /\ loop' = to

\* AsyncerPoller::Poll returned the event, as a weak pointer.
asyncPoll ==
    /\ asyncEvent
    /\ goto("top", "async.Do")
    /\ UNCHANGED <<used, done, asyncDone, asyncEvent, timerEvent, lock, user, sawDone,
                   cancels, alive, calls, lateCancel>>

\* Event::Do: the callback runs if the event is still there and enabled.
asyncDo ==
    /\ IF alive /\ asyncEvent THEN goto("async.Do", "async.check") ELSE goto("async.Do", "top")
    /\ asyncRemoveEvent
    /\ UNCHANGED <<used, done, asyncDone, timerEvent, lock, user, sawDone, cancels,
                   alive, calls, lateCancel>>

asyncCheck ==
    /\ goto("async.check", IF asyncDone THEN "top" ELSE "async.set")
    /\ UNCHANGED <<used, done, asyncDone, asyncEvent, timerEvent, lock, user, sawDone,
                   cancels, alive, calls, lateCancel>>

\* done_ = true, and the Timer's lambda locks weakThis.
asyncSet ==
    /\ goto("async.set", IF alive THEN "arm" ELSE "top")
    /\ asyncDone' = TRUE
    /\ UNCHANGED <<used, done, asyncEvent, timerEvent, lock, user, sawDone, cancels,
                   alive, calls, lateCancel>>

\* The event is made and enabled, whether or not the Timer is done.
arm ==
    /\ goto("arm", "leave")
    /\ lock = Nobody
    /\ timerUpdateEvent
    /\ UNCHANGED <<used, done, asyncDone, asyncEvent, lock, user, sawDone, cancels,
                   alive, calls, lateCancel>>

\* TimerPoller::Poll finds the event due and locks the weak pointer.
timerPoll ==
    /\ timerEvent = "on"
    /\ goto("top", "timer.Poll")
    /\ UNCHANGED <<used, done, asyncDone, asyncEvent, timerEvent, lock, user, sawDone,
                   cancels, alive, calls, lateCancel>>

(***************************************************************************)
(* Poll drops its reference to the event, its lock held.  The last one     *)
(* runs ~Event, which removes the event from the poller: lock_ of          *)
(* TimerPoller, unlike that of AsyncerPoller, is not recursive.            *)
(***************************************************************************)
timerPollEnd ==
    /\ goto("timer.Poll", IF alive THEN "timer.Do" ELSE "stuck")
    /\ UNCHANGED <<used, done, asyncDone, asyncEvent, timerEvent, lock, user, sawDone,
                   cancels, alive, calls, lateCancel>>

timerDo ==
    /\ goto("timer.Do", IF alive /\ timerEvent = "on" THEN "fire" ELSE "top")
    /\ UNCHANGED <<used, done, asyncDone, asyncEvent, timerEvent, lock, user, sawDone,
                   cancels, alive, calls, lateCancel>>

fire ==
    /\ goto("fire", "leave")
    /\ lock = Nobody
    /\ timerRemoveEvent
    /\ report("fired")
    /\ UNCHANGED <<used, asyncDone, asyncEvent, lock, user, sawDone, cancels,
                   alive, lateCancel>>

\* realThis goes out of scope, after the guard of lock_.
leave ==
    /\ goto("leave", "top")
    /\ IF \A u \in Users : user[u] = "gone"
       THEN destroy
       ELSE UNCHANGED <<alive, done, calls, asyncEvent, timerEvent>>
    /\ UNCHANGED <<used, asyncDone, lock, user, sawDone, cancels, lateCancel>>

-----------------------------------------------------------------------------
doPoller ==
    \/ asyncPoll \/ asyncDo \/ asyncCheck \/ asyncSet \/ arm
    \/ timerPoll \/ timerPollEnd \/ timerDo \/ fire \/ leave

Next ==
    \/ doPoller
    \/ \E u \in Users : AsyncWait(u) \/ cancelCheck(u) \/ cancelFinish(u) \/ drop(u)

Spec == Init /\ [][Next]_vars

\* The loop's thread runs, time passes, and a Cancel that has begun goes on.
FairSpec == Spec /\ WF_vars(doPoller) /\ \A u \in Users : WF_vars(cancelFinish(u))

-----------------------------------------------------------------------------
(***************************************************************************)
(* The handler is called at most once, however Cancel, the destruction of  *)
(* the Timer and the two callbacks of the loop overlap, although the       *)
(* Asyncer may report both to Cancel and to the loop.                      *)
(***************************************************************************)
AtMostOnce == Len(calls) <= 1

(***************************************************************************)
(* A callback of the loop never works on a Timer that is gone: the thread  *)
(* that drops the last reference leaves the destruction to the callback.   *)
(***************************************************************************)
NoUseAfterDestroy == loop \in {"arm", "fire", "leave"} => alive

(***************************************************************************)
(* A poller keeps no event of a Timer that is gone, but for the one its    *)
(* Poll holds at that moment.                                              *)
(***************************************************************************)
NoDanglingEvent ==
    ~alive => ~asyncEvent /\ (timerEvent = "on" => loop \in {"timer.Poll", "stuck"})

(***************************************************************************)
(* Every AsyncWait is answered: the timer fires, a Cancel reports or the   *)
(* destruction does; a lost Cancel is followed by the timer itself.        *)
(***************************************************************************)
AlwaysAnswered == used ~> calls # <<>>

(***************************************************************************)
(* A Cancel after AsyncWait returns without the handler having been called *)
(* only when it meets the loop's thread between the Asyncer and the making *)
(* of the event: there alone neither of the two can be cancelled.          *)
(***************************************************************************)
MissedOnlyWhileArming == [][lateCancel' /\ ~lateCancel => loop = "arm"]_vars
=============================================================================
