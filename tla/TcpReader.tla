------------------------------ MODULE TcpReader ------------------------------
(***************************************************************************)
(* The read side of a TcpConnection: AsyncRead, AsyncReadAny and           *)
(* readHandler, which all run on the loop's thread, and what a user does   *)
(* with the bytes.  Bytes are counted; Buffer shows that they keep their   *)
(* order.                                                                  *)
(***************************************************************************)
EXTENDS Integers

CONSTANTS
    MaxWant,    \* bound: the largest expectSize
    MaxUnread,  \* bound: the length of ReadBuffer_
    MaxReads    \* bound: how often AsyncRead or AsyncReadAny is called

ASSUME BoundsAssumption == MaxWant \in Nat /\ MaxUnread \in Nat /\ MaxReads \in Nat

AnySize == 0      \* stands for the size that AsyncReadAny expects
NoHandler == -1   \* userReadHandler_ is null
Wants == 0..MaxWant

VARIABLES
    expectSize,  \* expectSize_
    readedSize,  \* readedSize_
    anyFlag,     \* anyFlag_
    handler,     \* what the read whose handler is userReadHandler_ wants
    unread,      \* the length of ReadBuffer_
    waiting,     \* the last read has not been answered
    call,        \* the last call of a handler: what it wanted, what was unread
    poppable,    \* the bytes a user was told of and has not popped
    reads,       \* how often AsyncRead or AsyncReadAny was called
    finished,    \* finished_, and who ended the connection
    inTurns      \* so far the peer sent no more than a read was waiting for, and
                 \* the user popped all of it before the next read

vars == <<expectSize, readedSize, anyFlag, handler, unread, waiting, call, poppable, reads,
          finished, inTurns>>

TypeOK ==
    /\ expectSize \in Wants /\ readedSize \in 0..MaxUnread
    /\ anyFlag \in BOOLEAN /\ waiting \in BOOLEAN
    /\ handler \in Wants \cup {NoHandler}
    /\ unread \in 0..MaxUnread /\ poppable \in 0..MaxUnread
    /\ call \in [want : Wants \cup {NoHandler}, had : 0..MaxUnread]
    /\ reads \in 0..MaxReads
    /\ finished \in {"no", "user", "peer"}
    /\ inTurns \in BOOLEAN

Init ==
    /\ expectSize = 0 /\ readedSize = 0 /\ anyFlag = FALSE
    /\ handler = NoHandler
    /\ unread = 0 /\ poppable = 0 /\ reads = 0
    /\ waiting = FALSE
    /\ call = [want |-> NoHandler, had |-> 0]
    /\ finished = "no"
    /\ inTurns = TRUE

-----------------------------------------------------------------------------
ResetRead == expectSize' = 0 /\ readedSize' = 0

\* The handler of a read that wants n is called, had bytes being unread.
answer(n, had) ==
    /\ call' = [want |-> n, had |-> had]
    /\ poppable' = had
    /\ waiting' = FALSE

\* A read is called when the one before it was answered.
beginRead ==
    /\ reads < MaxReads /\ ~waiting
    /\ reads' = reads + 1
    /\ inTurns' = (inTurns /\ unread = 0)

AsyncRead(n) ==
    /\ beginRead
    /\ anyFlag' = FALSE
    /\ IF readedSize >= n
       THEN ResetRead /\ answer(n, unread) /\ UNCHANGED handler
       ELSE /\ expectSize' = n /\ handler' = n /\ waiting' = TRUE
            /\ UNCHANGED <<readedSize, call, poppable>>
    /\ UNCHANGED <<unread, finished>>

AsyncReadAny ==
    /\ beginRead
    /\ anyFlag' = TRUE
    /\ handler' = AnySize
    /\ IF readedSize # 0
       THEN ResetRead /\ answer(AnySize, unread)
       ELSE waiting' = TRUE /\ UNCHANGED <<expectSize, readedSize, call, poppable>>
    /\ UNCHANGED <<unread, finished>>

\* readHandler reads count bytes into ReadBuffer_.
receive(count) ==
    /\ finished = "no"
    /\ unread + count <= MaxUnread
    /\ unread' = unread + count
    /\ inTurns' = (inTurns /\ waiting /\ (handler # AnySize => readedSize + count <= handler))

readHandler_NoCount(count) ==
    /\ receive(count)
    /\ IF (anyFlag \/ count >= expectSize) /\ handler # NoHandler
       THEN ResetRead /\ answer(handler, unread + count)
       ELSE readedSize' = count /\ UNCHANGED <<expectSize, waiting, call, poppable>>
    /\ UNCHANGED <<anyFlag, handler, reads, finished>>

readHandler(count) ==
    /\ receive(count)
    /\ IF (anyFlag \/ readedSize + count >= expectSize) /\ handler # NoHandler
       THEN ResetRead /\ answer(handler, unread + count)
       ELSE readedSize' = readedSize + count /\ UNCHANGED <<expectSize, waiting, call, poppable>>
    /\ UNCHANGED <<anyFlag, handler, reads, finished>>

(***************************************************************************)
(* readHandler when the peer closed or the read failed: the handler is     *)
(* called with the error, and Finish follows.                              *)
(***************************************************************************)
readFails ==
    /\ finished = "no"
    /\ IF handler # NoHandler
       THEN ResetRead /\ waiting' = FALSE
       ELSE UNCHANGED <<expectSize, readedSize, waiting>>
    /\ finished' = "peer"
    /\ UNCHANGED <<anyFlag, handler, unread, call, poppable, reads, inTurns>>

\* Finish by the user: no read event will come, and no read handler is told.
Finish ==
    /\ finished = "no"
    /\ finished' = "user"
    /\ UNCHANGED <<expectSize, readedSize, anyFlag, handler, unread, waiting, call, poppable,
                   reads, inTurns>>

\* ReadBufferPopHead(n) after a handler was called.
ReadBufferPopHead(n) ==
    /\ n <= poppable
    /\ unread' = unread - n
    /\ poppable' = poppable - n
    /\ UNCHANGED <<expectSize, readedSize, anyFlag, handler, waiting, call, reads, finished,
                   inTurns>>

\* Reset, as the pool does when a client is returned to it.
Reset ==
    /\ finished = "no" /\ ~waiting
    /\ unread' = 0 /\ poppable' = 0
    /\ handler' = NoHandler /\ anyFlag' = FALSE
    /\ ResetRead
    /\ UNCHANGED <<waiting, call, reads, finished, inTurns>>

Next ==
    \/ \E n \in 1..MaxWant : AsyncRead(n)
    \/ \E count \in 1..MaxUnread : readHandler(count) \/ ReadBufferPopHead(count)
    \/ AsyncReadAny \/ readFails \/ Finish \/ Reset

Spec == Init /\ [][Next]_vars

-----------------------------------------------------------------------------
(***************************************************************************)
(* readedSize_ counts bytes that are in the buffer: a read that is         *)
(* answered at once because of it finds them there.                        *)
(***************************************************************************)
CountedIsBuffered == readedSize <= unread

(***************************************************************************)
(* A peer that closes or a read that fails leaves nobody waiting: whoever  *)
(* waits then has its handler in place and is told.                        *)
(***************************************************************************)
FailureReported ==
    [][finished = "no" /\ finished' = "peer" => ~waiting']_vars

(***************************************************************************)
(* What the documentation says of AsyncRead, that it judges whether the    *)
(* unread length of the buffer reaches expectSize: its handler is called   *)
(* only if that many bytes are unread ...                                  *)
(***************************************************************************)
EnoughWhenCalled == inTurns => (call.want # NoHandler => call.had >= call.want)

(***************************************************************************)
(* ... and it does not wait for bytes that are already there.  Both need   *)
(* that the two sides take turns, for AsyncRead compares with the bytes    *)
(* counted since the last call and readHandler keeps an old handler.       *)
(***************************************************************************)
NoWaitForUnread == inTurns => (waiting /\ handler # AnySize => unread < handler)
=============================================================================
