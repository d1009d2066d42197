------------------------------ MODULE CoServer ------------------------------
(***************************************************************************)
(* Connections handled by coroutines: a CoServer gives every connection it *)
(* accepts a coroutine of its own, a CoClient connects on behalf of the    *)
(* coroutine it is used in, and both then Read, Write and Finish.  One     *)
(* thread runs it all: it alternates between the loop's events and the     *)
(* coroutines, so an action is an event's handler or what a coroutine does *)
(* up to its next suspension.  Every Read wants one message and a peer     *)
(* sends whole ones (TcpReader has the sizes); a coroutine's calls are     *)
(* numbered to see which of them a wake-up is meant for.                   *)
(***************************************************************************)
EXTENDS Sequences, FiniteSets, Integers

CONSTANTS
    Accepted,    \* connections a peer makes to the server
    Connected,   \* connections of coroutines with a CoClient
    CoroSlots,   \* slots of the scheduler
    MaxCalls     \* bound: calls of one coroutine

Conns == Accepted \cup Connected

ASSUME CoServerAssumption ==
    /\ IsFiniteSet(Conns) /\ Accepted \cap Connected = {}
    /\ CoroSlots \in Nat /\ MaxCalls \in Nat

VARIABLES
    serving,    \* whether Serve was called and the acceptor listens
    sock,       \* the connection: not there, registered in the loop, finished_ or unusable
    table,      \* connections_ of the Server
    coro,       \* what the connection's coroutine does
    call,       \* the number of its last call
    readFor,    \* the call userReadHandler_ answers; 0: nullptr
    asyncFor,   \* the call whose AsyncWrite the Asyncer still has to run
    writeFor,   \* the call userWriteHandler_ answers; 0: nullptr
    notify,     \* the event is enabled for writing
    writeDone,  \* writeDone_
    counted,    \* a message is in readedSize_
    queue,      \* resumeQueue_, the part of this coroutine: the calls resumed for
    inTurns,    \* history: the peer sent and closed only when it was being read from
    unheard     \* history: a call the connection cannot answer, see Read and Write

coServerVars == <<serving, sock, table, coro, call, readFor, asyncFor, writeFor, notify,
                  writeDone, counted, queue, inTurns, unheard>>

Suspended(c) == coro[c] \in {"connecting", "reading", "writing"}

CoServerTypeOK ==
    /\ serving \in {"no", "asked", "listening", "failed"}
    /\ sock \in [Conns -> {"none", "open", "finished", "unusable"}]
    /\ table \subseteq Accepted
    /\ coro \in [Conns -> {"none", "dropped", "ready", "connecting", "reading", "writing", "ended"}]
    /\ {call, readFor, asyncFor, writeFor} \subseteq [Conns -> 0..MaxCalls]
    /\ {notify, writeDone, counted, inTurns, unheard} \subseteq [Conns -> BOOLEAN]
    /\ queue \in [Conns -> Seq(1..MaxCalls)]

CoServerInit ==
    /\ serving = "no" /\ table = {}
    /\ sock = [c \in Conns |-> "none"] /\ coro = [c \in Conns |-> "none"]
    /\ call = [c \in Conns |-> 0] /\ readFor = call /\ asyncFor = call /\ writeFor = call
    /\ notify = [c \in Conns |-> FALSE] /\ writeDone = notify
    /\ counted = notify /\ unheard = notify
    /\ inTurns = [c \in Conns |-> TRUE]
    /\ queue = [c \in Conns |-> <<>>]

Set(f, c, v) == [f EXCEPT ![c] = v]

\* The handler of call k resumes the coroutine, whatever it does now; 0: nullptr.
wake(k) == IF k = 0 THEN <<>> ELSE <<k>>

resume(c, calls) == queue' = [queue EXCEPT ![c] = @ \o calls]

-----------------------------------------------------------------------------
(* Server, Acceptor and Connector.                                         *)

Serve ==
    /\ serving = "no" /\ serving' = "asked"
    /\ UNCHANGED <<sock, table, coro, call, readFor, asyncFor, writeFor, notify, writeDone,
                   counted, queue, inTurns, unheard>>

\* The Asyncer of Serve runs Listen.
Listen(result) ==
    /\ serving = "asked" /\ serving' = result
    /\ UNCHANGED <<sock, table, coro, call, readFor, asyncFor, writeFor, notify, writeDone,
                   counted, queue, inTurns, unheard>>

\* addCoroutine, whose answer CoServer does not look at.
addCoroutine(c) ==
    coro' = Set(coro, c, IF Cardinality({d \in Conns : coro[d] = "ready" \/ Suspended(d)}) < CoroSlots
                         THEN "ready" ELSE "dropped")

\* The acceptor's event: newConnectionHandler, whose InitAccepted may fail.
Accept(c, ok) ==
    /\ serving = "listening" /\ c \in Accepted /\ sock[c] = "none"
    /\ sock' = Set(sock, c, IF ok THEN "open" ELSE "unusable")
    /\ addCoroutine(c)
    /\ table' = IF ok THEN table \cup {c} ELSE table
    /\ UNCHANGED <<serving, call, readFor, asyncFor, writeFor, notify, writeDone, counted,
                   queue, inTurns, unheard>>

UseCoClient(c) ==
    /\ c \in Connected /\ coro[c] = "none" /\ addCoroutine(c)
    /\ UNCHANGED <<serving, sock, table, call, readFor, asyncFor, writeFor, notify, writeDone,
                   counted, queue, inTurns, unheard>>

\* CoClient::Connect, once.
Connect(c) ==
    /\ c \in Connected /\ coro[c] = "ready" /\ sock[c] = "none" /\ call[c] < MaxCalls
    /\ coro' = Set(coro, c, "connecting") /\ call' = Set(call, c, call[c] + 1)
    /\ UNCHANGED <<serving, sock, table, readFor, asyncFor, writeFor, notify, writeDone,
                   counted, queue, inTurns, unheard>>

\* The connector's event.  disconnectedHandler_ does nothing when it fails.
ConnectDone(c, ok) ==
    /\ c \in Connected /\ coro[c] = "connecting" /\ sock[c] = "none"
    /\ IF ok THEN sock' = Set(sock, c, "open") /\ resume(c, wake(call[c]))
       ELSE sock' = Set(sock, c, "unusable") /\ UNCHANGED queue
    /\ UNCHANGED <<serving, table, coro, call, readFor, asyncFor, writeFor, notify, writeDone,
                   counted, inTurns, unheard>>

-----------------------------------------------------------------------------
(* The coroutine.                                                          *)

mayCall(c) ==
    /\ coro[c] = "ready" /\ sock[c] \in {"open", "finished"} /\ call[c] < MaxCalls
    /\ call' = Set(call, c, call[c] + 1)

\* A connection that is finished takes the handler and never calls it.
Read(c) ==
    /\ mayCall(c) /\ coro' = Set(coro, c, "reading")
    /\ IF counted[c] THEN /\ counted' = Set(counted, c, FALSE)
                          /\ resume(c, wake(call'[c])) /\ UNCHANGED <<readFor, unheard>>
       ELSE /\ readFor' = Set(readFor, c, call'[c])
            /\ unheard' = Set(unheard, c, sock[c] = "finished")
            /\ UNCHANGED <<counted, queue>>
    /\ UNCHANGED <<serving, sock, table, asyncFor, writeFor, notify, writeDone, inTurns>>

\* writeDone_ stays TRUE after the first write: Finish will not answer a second.
Write(c) ==
    /\ mayCall(c) /\ coro' = Set(coro, c, "writing")
    /\ IF sock[c] = "finished"
       THEN resume(c, wake(call'[c])) /\ UNCHANGED <<asyncFor, unheard>>
       ELSE /\ asyncFor' = Set(asyncFor, c, call'[c])
            /\ unheard' = Set(unheard, c, writeDone[c])
            /\ UNCHANGED queue
    /\ UNCHANGED <<serving, sock, table, readFor, writeFor, notify, writeDone, counted, inTurns>>

finish_NoErase(c, before, done) ==
    /\ sock' = Set(sock, c, "finished") /\ UNCHANGED table
    /\ resume(c, before \o wake(asyncFor[c]) \o wake(IF done THEN 0 ELSE writeFor[c]))
    /\ asyncFor' = Set(asyncFor, c, 0) /\ notify' = Set(notify, c, FALSE)
    /\ writeDone' = Set(writeDone, c, done \/ writeFor[c] # 0)

finish_NoCancel(c, before, done) ==
    /\ sock' = Set(sock, c, "finished") /\ table' = table \ {c}
    /\ resume(c, before \o wake(IF done THEN 0 ELSE writeFor[c]))
    /\ asyncFor' = Set(asyncFor, c, 0) /\ notify' = Set(notify, c, FALSE)
    /\ writeDone' = Set(writeDone, c, done \/ writeFor[c] # 0)

(***************************************************************************)
(* TcpConnection::Finish: the Asyncer is cancelled, a write that was not   *)
(* answered is, and finishHandler_ takes the connection out of the table.  *)
(* before: what was resumed by the handler that calls Finish.              *)
(***************************************************************************)
finish(c, before, done) ==
    /\ sock' = Set(sock, c, "finished") /\ table' = table \ {c}
    /\ resume(c, before \o wake(asyncFor[c]) \o wake(IF done THEN 0 ELSE writeFor[c]))
    /\ asyncFor' = Set(asyncFor, c, 0) /\ notify' = Set(notify, c, FALSE)
    /\ writeDone' = Set(writeDone, c, done \/ writeFor[c] # 0)

Finish(c) ==
    /\ coro[c] = "ready" /\ sock[c] = "open" /\ finish(c, <<>>, writeDone[c])
    /\ UNCHANGED <<serving, coro, call, readFor, writeFor, counted, inTurns, unheard>>

\* The coroutine's function returns, with or without Finish; with it goes a
\* CoClient and its connection, which calls no handler but its Asyncer's.
Return(c) ==
    /\ coro[c] = "ready"
    /\ coro' = Set(coro, c, "ended")
    /\ IF c \in Connected
       THEN /\ sock' = Set(sock, c, "finished") /\ notify' = Set(notify, c, FALSE)
            /\ resume(c, wake(asyncFor[c])) /\ asyncFor' = Set(asyncFor, c, 0)
       ELSE UNCHANGED <<sock, notify, asyncFor, queue>>
    /\ UNCHANGED <<serving, table, call, readFor, writeFor, writeDone, counted, inTurns,
                   unheard>>

\* run() takes the next element of the resume queue.
wakeUp(c) ==
    /\ queue[c] # <<>> /\ queue' = [queue EXCEPT ![c] = Tail(@)]
    /\ coro' = IF Suspended(c) THEN Set(coro, c, "ready") ELSE coro
    /\ UNCHANGED <<serving, sock, table, call, readFor, asyncFor, writeFor, notify, writeDone,
                   counted, inTurns, unheard>>

-----------------------------------------------------------------------------
(* The connection's events.                                                *)

readsNow(c) == readFor[c] = 0 \/ (coro[c] = "reading" /\ queue[c] = <<>>)

\* readHandler with a message: userReadHandler_ stays when it was called.
\* Bounds: one message ahead of the first read, MaxCalls stale wake-ups.
MessageComes(c) ==
    /\ sock[c] = "open" /\ (readFor[c] = 0 => ~counted[c]) /\ Len(queue[c]) < MaxCalls
    /\ IF readFor[c] = 0 THEN counted' = Set(counted, c, TRUE) /\ UNCHANGED queue
       ELSE resume(c, wake(readFor[c])) /\ counted' = Set(counted, c, FALSE)
    /\ inTurns' = Set(inTurns, c, inTurns[c] /\ readsNow(c))
    /\ UNCHANGED <<serving, sock, table, coro, call, readFor, asyncFor, writeFor, notify,
                   writeDone, unheard>>

\* readHandler when the peer closed or the read failed.
PeerCloses(c) ==
    /\ sock[c] = "open"
    /\ finish(c, wake(readFor[c]), writeDone[c])
    /\ counted' = Set(counted, c, counted[c] /\ readFor[c] = 0)
    /\ inTurns' = Set(inTurns, c, inTurns[c] /\ readsNow(c))
    /\ UNCHANGED <<serving, coro, call, readFor, writeFor, unheard>>

\* The Asyncer of AsyncWrite puts the handler in place.
AsyncerRuns(c) ==
    /\ asyncFor[c] # 0
    /\ writeFor' = Set(writeFor, c, asyncFor[c]) /\ asyncFor' = Set(asyncFor, c, 0)
    /\ notify' = Set(notify, c, TRUE)
    /\ UNCHANGED <<serving, sock, table, coro, call, readFor, writeDone, counted, queue,
                   inTurns, unheard>>

WriteDone_StaysEnabled(c) ==
    /\ notify[c] /\ Len(queue[c]) < MaxCalls /\ UNCHANGED notify
    /\ writeDone' = Set(writeDone, c, TRUE) /\ resume(c, wake(writeFor[c]))
    /\ UNCHANGED <<serving, sock, table, coro, call, readFor, asyncFor, writeFor, counted,
                   inTurns, unheard>>

\* writeHandler finds the buffer empty, everything being written.
WriteDone(c) ==
    /\ notify[c] /\ notify' = Set(notify, c, FALSE)
    /\ writeDone' = Set(writeDone, c, TRUE) /\ resume(c, wake(writeFor[c]))
    /\ UNCHANGED <<serving, sock, table, coro, call, readFor, asyncFor, writeFor, counted,
                   inTurns, unheard>>

WriteFails(c) ==
    /\ notify[c] /\ finish(c, wake(writeFor[c]), TRUE)
    /\ UNCHANGED <<serving, coro, call, readFor, writeFor, counted, inTurns, unheard>>

-----------------------------------------------------------------------------
CoServerNext ==
    \/ Serve \/ Listen("listening") \/ Listen("failed")
    \/ \E c \in Conns :
        \/ \E ok \in BOOLEAN : Accept(c, ok) \/ ConnectDone(c, ok)
        \/ UseCoClient(c) \/ Connect(c) \/ Read(c) \/ Write(c) \/ Finish(c) \/ Return(c)
        \/ wakeUp(c) \/ MessageComes(c) \/ PeerCloses(c)
        \/ AsyncerRuns(c) \/ WriteDone(c) \/ WriteFails(c)

CoServerSpec == CoServerInit /\ [][CoServerNext]_coServerVars

\* The scheduler's thread goes on; no peer has to do anything.
CoServerFairness ==
    /\ WF_coServerVars(Listen("listening") \/ Listen("failed"))
    /\ \A c \in Conns : WF_coServerVars(wakeUp(c)) /\ WF_coServerVars(AsyncerRuns(c))

-----------------------------------------------------------------------------
(***************************************************************************)
(* The server's table holds the accepted connections that are open: none   *)
(* is lost, and none that is finished is kept alive by it, although the    *)
(* connection is inserted only after its handler was called                *)
(* (server.cpp, newConnectionHandler).                                     *)
(***************************************************************************)
TableMatchesOpen == table = {c \in Accepted : sock[c] = "open"}

(***************************************************************************)
(* A coroutine is woken for the call it is in, as long as its peer sends   *)
(* and closes only when it is read from: a handler refers to a coroutine   *)
(* and not to the call, and stays in place when it was called              *)
(* (co_tcp_connection.cpp, Read and Write).                                *)
(***************************************************************************)
WakeForOwnCall ==
    [][\A c \in Conns : inTurns[c] /\ wakeUp(c) /\ Suspended(c) => Head(queue[c]) = call[c]]_coServerVars

(***************************************************************************)
(* When its connection is finished, by the peer or by an error, whatever   *)
(* call the coroutine is in returns; except a read called after that, and  *)
(* a second write (tcp_connection.cpp, readHandler, writeHandler, Finish). *)
(***************************************************************************)
CallReturns ==
    \A c \in Conns :
        (Suspended(c) /\ sock[c] = "finished") ~> (~Suspended(c) \/ unheard[c])
=============================================================================
