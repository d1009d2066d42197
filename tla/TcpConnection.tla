---------------------------- MODULE TcpConnection ----------------------------
(***************************************************************************)
(* The write side of a TcpConnection and its Finish, between the thread of *)
(* the event loop and the other threads ("main" in the documentation).     *)
(* AsyncWrite goes through an Asyncer; its callback, on the loop, puts the *)
(* handler in place and enables the write event; writeHandler empties the  *)
(* buffer and calls the handler.  Of the read side only what ends a        *)
(* connection is kept, see TcpReader.                                      *)
(*                                                                         *)
(* lock_ guards everything but the Asyncer, whose done_ the loop reads and *)
(* sets without it: a step is what happens between two such points.        *)
(***************************************************************************)
EXTENDS Integers, Sequences

CONSTANTS
    MaxWrites,   \* bound: how often AsyncWrite is called
    MaxUnsent,   \* bound: the bytes in WriteBuffer_
    MaxAgain     \* bound: how often the socket would block

ASSUME BoundsAssumption == MaxWrites \in Nat /\ MaxUnsent \in Nat /\ MaxAgain \in Nat

Writes == 1..MaxWrites   \* the calls of AsyncWrite
None == 0                \* no write: a null handler or Asyncer

VARIABLES
    event,      \* event_ is not null
    notify,     \* the event's writeNotify_
    finished,   \* finished_
    writeDone,  \* writeDone_
    handler,    \* whose handler userWriteHandler_ is
    asyncer,    \* whose Asyncer asyncer_ is
    queued,     \* the writes whose Asyncer's event is enabled
    asyncDone,  \* the writes whose Asyncer has done_ set, or is gone
    unsent,     \* the length of WriteBuffer_
    again,      \* how often the socket would have blocked
    started,    \* how often AsyncWrite has been called
    fresh,      \* nothing was written since the connection was made or reset
    answers,    \* what the handler of a write was called with
    alive,      \* the TcpConnection has not been destroyed
    lock,       \* a Finish of another thread holds lock_
    sawDone,    \* what that Finish has read in the Asyncer's done_
    raced,      \* another thread than the loop's has called Finish
    overlapped, \* the user wrote again without Reset, which the pool never does
    loop        \* where the loop's thread is, and for which write

vars == <<event, notify, finished, writeDone, handler, asyncer, queued, asyncDone,
          unsent, again, started, fresh, answers, alive, lock, sawDone, raced, overlapped,
          loop>>

(***************************************************************************)
(* "top"; for an Asyncer's event: "async.Do" polled, "async.check" in its  *)
(* callback, "async.set" after the check, "lambda" entering the lambda of  *)
(* AsyncWrite, "arm" before lock_; for the connection's event: "write.cb"  *)
(* and "read.cb" polled, "write" and "read" before lock_; "crashed".       *)
(***************************************************************************)
LoopPlaces == {"top", "async.Do", "async.check", "async.set", "lambda", "arm",
               "write.cb", "write", "read.cb", "read", "crashed"}

TypeOK ==
    /\ event \in BOOLEAN /\ notify \in BOOLEAN /\ finished \in BOOLEAN
    /\ writeDone \in BOOLEAN /\ fresh \in BOOLEAN /\ alive \in BOOLEAN
    /\ lock \in BOOLEAN /\ sawDone \in BOOLEAN
    /\ raced \in BOOLEAN /\ overlapped \in BOOLEAN
    /\ handler \in Writes \cup {None}
    /\ asyncer \in Writes \cup {None}
    /\ queued \subseteq Writes /\ asyncDone \subseteq Writes
    /\ unsent \in Nat
    /\ again \in 0..MaxAgain
    /\ started \in 0..MaxWrites
    /\ answers \in [Writes -> Seq({"sent", "error"})]
    /\ loop \in [at : LoopPlaces, w : Writes \cup {None}]

Init ==
    /\ event = TRUE /\ notify = FALSE
    /\ finished = FALSE /\ writeDone = FALSE
    /\ handler = None /\ asyncer = None
    /\ queued = {} /\ asyncDone = {}
    /\ unsent = 0 /\ again = 0 /\ started = 0
    /\ fresh = TRUE
    /\ answers = [w \in Writes |-> <<>>]
    /\ alive = TRUE
    /\ lock = FALSE /\ sawDone = FALSE
    /\ raced = FALSE /\ overlapped = FALSE
    /\ loop = [at |-> "top", w |-> None]

-----------------------------------------------------------------------------
Running == loop.at # "crashed"

\* lock_ is free, or can be had because nobody is between two of its steps.
LockFree == Running /\ ~lock

\* The handlers of the writes in S are called with result r.
tell(S, r) ==
    answers' = [w \in Writes |-> IF w \in S THEN Append(answers[w], r) ELSE answers[w]]

goto(at) == loop' = [loop EXCEPT !.at = at]

\* The loop keeps the Asyncer of w alive while it is in its callback.
LoopHolds(w) == loop.w = w /\ loop.at \in {"async.check", "async.set", "lambda", "arm"}

-----------------------------------------------------------------------------
(* Called by any thread: the user's steps. *)

\* WriteBufferPush, a byte at a time; the pool's users push before AsyncWrite.
WriteBufferPush ==
    /\ LockFree /\ alive
    /\ unsent < MaxUnsent
    /\ unsent' = unsent + 1
    /\ overlapped' = (overlapped \/ ~fresh)
    /\ UNCHANGED <<event, notify, finished, writeDone, handler, asyncer, queued, asyncDone,
                   again, started, fresh, answers, alive, lock, sawDone, raced, loop>>

(***************************************************************************)
(* AsyncWrite.  asyncer_ is replaced: an Asyncer whose event was not       *)
(* called yet is destroyed, and its destructor reports to its handler.     *)
(***************************************************************************)
Replaced == IF asyncer # None /\ asyncer \notin asyncDone /\ ~LoopHolds(asyncer)
            THEN {asyncer} ELSE {}

AsyncWrite ==
    /\ LockFree /\ alive
    /\ started < MaxWrites
    /\ started' = started + 1
    /\ fresh' = FALSE
    /\ overlapped' = (overlapped \/ ~fresh)
    /\ IF finished
       THEN tell({started + 1}, "error") /\ UNCHANGED <<asyncer, queued, asyncDone>>
       ELSE /\ tell(Replaced, "error")
            /\ asyncer' = started + 1
            /\ queued' = (queued \ Replaced) \cup {started + 1}
            /\ asyncDone' = asyncDone \cup Replaced
    /\ UNCHANGED <<event, notify, finished, writeDone, handler, unsent, again, alive,
                   lock, sawDone, raced, loop>>

\* Reset, called on the loop's thread once the last write was answered well.
Reset ==
    /\ LockFree /\ alive /\ loop.at = "top"
    /\ ~overlapped /\ ~fresh /\ ~finished
    /\ answers[started] = <<"sent">>
    /\ fresh' = TRUE
    /\ finished' = FALSE
    /\ writeDone' = FALSE
    /\ handler' = None
    /\ unsent' = 0
    /\ UNCHANGED <<event, notify, asyncer, queued, asyncDone, again, started, answers,
                   alive, lock, sawDone, raced, overlapped, loop>>

(***************************************************************************)
(* The body of Finish after finished_ = true: the Asyncer is cancelled,    *)
(* unless it was done, then a handler that waits is told, then event_ is   *)
(* dropped, which removes it from the poller.                              *)
(***************************************************************************)
Cancelled(done) == IF asyncer # None /\ ~done THEN {asyncer} ELSE {}

Waiting == IF ~writeDone /\ handler # None THEN {handler} ELSE {}

dropEvent == event' = FALSE /\ notify' = FALSE

FinishBody_NoCancel(done) ==
    /\ UNCHANGED asyncDone
    /\ writeDone' = (writeDone \/ handler # None)
    /\ tell(Waiting, "error")
    /\ dropEvent

FinishBody(done) ==
    /\ asyncDone' = asyncDone \cup Cancelled(done)
    /\ writeDone' = (writeDone \/ handler # None)
    /\ tell(Cancelled(done) \cup Waiting, "error")
    /\ dropEvent

\* Finish on the loop's thread: from a handler, a timer or a failed read.
Finish ==
    /\ finished' = TRUE
    /\ IF finished
       THEN UNCHANGED <<event, notify, writeDone, queued, asyncDone, answers>>
       ELSE queued' = queued \ {asyncer} /\ FinishBody(asyncer \in asyncDone)

loopFinish ==
    /\ LockFree /\ alive /\ loop.at = "top"
    /\ Finish
    /\ UNCHANGED <<handler, asyncer, unsent, again, started, fresh, alive, lock,
                   sawDone, raced, overlapped, loop>>

\* Finish on another thread up to the Asyncer's if (!done_).
mainFinish ==
    /\ LockFree /\ alive
    /\ ~finished /\ finished' = TRUE
    /\ lock' = TRUE /\ raced' = TRUE
    /\ queued' = queued \ {asyncer}
    /\ sawDone' = (asyncer \in asyncDone)
    /\ UNCHANGED <<event, notify, writeDone, handler, asyncer, asyncDone, unsent, again,
                   started, fresh, answers, alive, overlapped, loop>>

mainFinishEnd ==
    /\ Running /\ lock
    /\ FinishBody(sawDone)
    /\ lock' = FALSE
    /\ UNCHANGED <<finished, handler, asyncer, queued, unsent, again, started, fresh,
                   alive, sawDone, raced, overlapped, loop>>

\* The owner drops a connection that is finished; the loop may hold it longer.
destroy ==
    /\ LockFree /\ alive /\ finished
    /\ loop.at \notin {"arm", "write", "read"}
    /\ alive' = FALSE
    /\ UNCHANGED <<event, notify, finished, writeDone, handler, asyncer, queued, asyncDone,
                   unsent, again, started, fresh, answers, lock, sawDone, raced,
                   overlapped, loop>>

-----------------------------------------------------------------------------
(* The loop's thread: an Asyncer's event. *)

asyncPoll ==
    /\ loop.at = "top"
    /\ \E w \in queued : loop' = [at |-> "async.Do", w |-> w]
    /\ UNCHANGED <<event, notify, finished, writeDone, handler, asyncer, queued, asyncDone,
                   unsent, again, started, fresh, answers, alive, lock, sawDone, raced,
                   overlapped>>

asyncDo ==
    /\ loop.at = "async.Do"
    /\ goto(IF loop.w \in queued THEN "async.check" ELSE "top")
    /\ queued' = queued \ {loop.w}
    /\ UNCHANGED <<event, notify, finished, writeDone, handler, asyncer, asyncDone,
                   unsent, again, started, fresh, answers, alive, lock, sawDone, raced,
                   overlapped>>

asyncCheck ==
    /\ loop.at = "async.check"
    /\ goto(IF loop.w \in asyncDone THEN "top" ELSE "async.set")
    /\ UNCHANGED <<event, notify, finished, writeDone, handler, asyncer, queued, asyncDone,
                   unsent, again, started, fresh, answers, alive, lock, sawDone, raced,
                   overlapped>>

asyncSet ==
    /\ loop.at = "async.set"
    /\ goto("lambda")
    /\ asyncDone' = asyncDone \cup {loop.w}
    /\ UNCHANGED <<event, notify, finished, writeDone, handler, asyncer, queued,
                   unsent, again, started, fresh, answers, alive, lock, sawDone, raced,
                   overlapped>>

\* The lambda of AsyncWrite locks weakThis.
lambda ==
    /\ loop.at = "lambda"
    /\ IF alive
       THEN goto("arm") /\ UNCHANGED answers
       ELSE goto("top") /\ tell({loop.w}, "error")
    /\ UNCHANGED <<event, notify, finished, writeDone, handler, asyncer, queued, asyncDone,
                   unsent, again, started, fresh, alive, lock, sawDone, raced, overlapped>>

\* The rest of the lambda, under lock_; event_ is used without a look at it.
arm_NoEnable ==
    /\ loop.at = "arm" /\ ~lock
    /\ handler' = loop.w
    /\ goto(IF event THEN "top" ELSE "crashed")
    /\ UNCHANGED <<event, notify, finished, writeDone, asyncer, queued, asyncDone,
                   unsent, again, started, fresh, answers, alive, lock, sawDone, raced,
                   overlapped>>

arm ==
    /\ loop.at = "arm" /\ ~lock
    /\ handler' = loop.w
    /\ notify' = event
    /\ goto(IF event THEN "top" ELSE "crashed")
    /\ UNCHANGED <<event, finished, writeDone, asyncer, queued, asyncDone,
                   unsent, again, started, fresh, answers, alive, lock, sawDone, raced,
                   overlapped>>

-----------------------------------------------------------------------------
(* The loop's thread: the connection's event. *)

\* The Epoller reports the event, and doPoller has it locked.
epollOut ==
    /\ loop.at = "top" /\ event /\ notify
    /\ loop' = [at |-> "write.cb", w |-> None]
    /\ UNCHANGED <<event, notify, finished, writeDone, handler, asyncer, queued, asyncDone,
                   unsent, again, started, fresh, answers, alive, lock, sawDone, raced,
                   overlapped>>

epollIn ==
    /\ loop.at = "top" /\ event
    /\ loop' = [at |-> "read.cb", w |-> None]
    /\ UNCHANGED <<event, notify, finished, writeDone, handler, asyncer, queued, asyncDone,
                   unsent, again, started, fresh, answers, alive, lock, sawDone, raced,
                   overlapped>>

\* The callbacks lock weakThis; the one for writing uses a destroyed this if it cannot.
callback ==
    /\ loop.at \in {"write.cb", "read.cb"}
    /\ goto(CASE alive /\ loop.at = "write.cb" -> "write"
              [] alive /\ loop.at = "read.cb" -> "read"
              [] ~alive /\ loop.at = "write.cb" -> "crashed"
              [] ~alive /\ loop.at = "read.cb" -> "top")
    /\ UNCHANGED <<event, notify, finished, writeDone, handler, asyncer, queued, asyncDone,
                   unsent, again, started, fresh, answers, alive, lock, sawDone, raced,
                   overlapped>>

\* writeHandler with an empty buffer: the write is complete.
written_NoDisable ==
    /\ loop.at = "write" /\ ~lock /\ unsent = 0
    /\ writeDone' = TRUE
    /\ IF event
       THEN goto("top") /\ tell({handler}, "sent")
       ELSE goto("crashed") /\ UNCHANGED answers
    /\ UNCHANGED <<event, notify, finished, handler, asyncer, queued, asyncDone, unsent, again,
                   started, fresh, alive, lock, sawDone, raced, overlapped>>

written ==
    /\ loop.at = "write" /\ ~lock /\ unsent = 0
    /\ writeDone' = TRUE
    /\ notify' = FALSE
    /\ IF event
       THEN goto("top") /\ tell({handler}, "sent")
       ELSE goto("crashed") /\ UNCHANGED answers
    /\ UNCHANGED <<event, finished, handler, asyncer, queued, asyncDone, unsent, again,
                   started, fresh, alive, lock, sawDone, raced, overlapped>>

\* writeHandler: the socket takes some of the bytes.
send ==
    /\ loop.at = "write" /\ ~lock /\ unsent > 0
    /\ \E count \in 1..unsent : unsent' = unsent - count
    /\ goto("top")
    /\ UNCHANGED <<event, notify, finished, writeDone, handler, asyncer, queued, asyncDone,
                   again, started, fresh, answers, alive, lock, sawDone, raced, overlapped>>

\* writeHandler: the socket would block, and UpdateReadIndex(-1) steps back.
wouldBlock ==
    /\ loop.at = "write" /\ ~lock /\ unsent > 0
    /\ again < MaxAgain
    /\ again' = again + 1
    /\ unsent' = unsent + 1
    /\ goto("top")
    /\ UNCHANGED <<event, notify, finished, writeDone, handler, asyncer, queued, asyncDone,
                   started, fresh, answers, alive, lock, sawDone, raced, overlapped>>

(***************************************************************************)
(* writeHandler: the socket fails, and -1 goes to UpdateReadIndex here     *)
(* too; the handler is told before Finish.                                 *)
(***************************************************************************)
sendFails ==
    /\ loop.at = "write" /\ ~lock /\ unsent > 0
    /\ writeDone' = TRUE
    /\ finished' = TRUE
    /\ IF finished
       THEN tell({handler}, "error") /\ UNCHANGED <<event, notify, queued, asyncDone>>
       ELSE /\ queued' = queued \ {asyncer}
            /\ asyncDone' = asyncDone \cup Cancelled(asyncer \in asyncDone)
            /\ tell({handler} \cup Cancelled(asyncer \in asyncDone), "error")
            /\ dropEvent
    /\ unsent' = unsent + 1
    /\ goto("top")
    /\ UNCHANGED <<handler, asyncer, again, started, fresh, alive, lock, sawDone,
                   raced, overlapped>>

\* readHandler: bytes or nothing came, or the peer closed or the read failed.
received ==
    /\ loop.at = "read" /\ ~lock
    /\ goto("top")
    /\ UNCHANGED <<event, notify, finished, writeDone, handler, asyncer, queued, asyncDone,
                   unsent, again, started, fresh, answers, alive, lock, sawDone, raced,
                   overlapped>>

readFails ==
    /\ loop.at = "read" /\ ~lock
    /\ Finish
    /\ goto("top")
    /\ UNCHANGED <<handler, asyncer, unsent, again, started, fresh, alive, lock,
                   sawDone, raced, overlapped>>

-----------------------------------------------------------------------------
doPoller ==
    \/ asyncPoll \/ asyncDo \/ asyncCheck \/ asyncSet \/ lambda \/ arm
    \/ epollOut \/ epollIn \/ callback
    \/ written \/ send \/ wouldBlock \/ sendFails \/ received \/ readFails

User ==
    \/ WriteBufferPush \/ AsyncWrite \/ Reset
    \/ loopFinish \/ mainFinish \/ mainFinishEnd \/ destroy

Next == doPoller \/ User

Spec == Init /\ [][Next]_vars

(***************************************************************************)
(* The loop's thread runs and polls each poller in turn, so that an event  *)
(* that stays enabled is served although others are too; the peer leaves   *)
(* the socket unreadable from time to time, for the Epoller prefers        *)
(* reading; and a Finish that has begun goes on.                           *)
(***************************************************************************)
FairSpec ==
    Spec /\ WF_vars(doPoller) /\ SF_vars(asyncPoll) /\ SF_vars(epollOut) /\ WF_vars(mainFinishEnd)

-----------------------------------------------------------------------------
(***************************************************************************)
(* The handler of a write is called at most once, whichever of the         *)
(* Asyncer, writeHandler, Finish and the failed socket comes first, and    *)
(* however writes overlap, as long as only the loop's thread finishes.     *)
(***************************************************************************)
AtMostOnce == ~raced => \A w \in Writes : Len(answers[w]) <= 1

(***************************************************************************)
(* The loop never uses event_ after Finish has dropped it, nor a           *)
(* connection that is gone.                                                *)
(***************************************************************************)
NoNullEvent == loop.at # "crashed"

\* The same, as long as only the loop's thread finishes.
LoopFinishSafe == ~raced => NoNullEvent

(***************************************************************************)
(* The write event is enabled exactly while writeHandler has something to  *)
(* do: for a handler that waits to be called.  Otherwise a level-triggered *)
(* poll would call the same handler again and again.                       *)
(***************************************************************************)
NotifyOnlyWhenPending ==
    ~raced => (notify => event /\ handler # None /\ answers[handler] = <<>>)

(***************************************************************************)
(* Finish answers the write that is under way: when it is over the last    *)
(* write has been answered, whether the Asyncer was still queued or the    *)
(* handler was in place, and whichever thread called it.  writeDone_ is    *)
(* not cleared between two writes, so this is for users that reset.        *)
(***************************************************************************)
Quiet == loop.at = "top" /\ ~lock

FinishAnswers ==
    ~overlapped => (finished /\ Quiet /\ started > 0 => answers[started] # <<>>)

(***************************************************************************)
(* Every write of a user that resets is answered in the end, unless a      *)
(* thread other than the loop's finishes the connection.                   *)
(***************************************************************************)
WriteAnswered ==
    \A w \in Writes : (started >= w) ~> (answers[w] # <<>> \/ raced \/ overlapped)
=============================================================================
