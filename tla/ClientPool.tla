------------------------------ MODULE ClientPool ------------------------------
(***************************************************************************)
(* A ClientPool, the Clients it connects and the requests of BaseClient    *)
(* that borrow them, on the loop's thread and the threads of the users.    *)
(*                                                                         *)
(* Handlers call one another across the pool, the client, the connection   *)
(* and the request, under two kinds of recursive lock.  What a thread has  *)
(* still to do is therefore a stack of tasks, and it holds a lock as long  *)
(* as the task that unlocks it is on its stack.                            *)
(*                                                                         *)
(* The Asyncer and the Timer are atomic here: Timer and TcpConnection look *)
(* inside them.  Client::lock_ is left out: its only two takers for one    *)
(* client are AsyncConnect and the lambda it queues, and AsyncConnect      *)
(* needs nothing further while it holds it.                                *)
(***************************************************************************)
EXTENDS Integers, Sequences, FiniteSets

CONSTANTS
    Clients,    \* the Client objects, used again once they are destroyed
    Requests,   \* the BaseClient objects, used again once they are destroyed
    Users,      \* the threads that call DoReq
    Loop,       \* the thread of the event loop
    MaxSize,    \* maxSize_
    MaxParts,   \* bound: the parts of answers under way on one connection
    Pool,       \* stands for ClientPool::lock_
    NoRequest, NoClient

ASSUME SizeAssumption == MaxSize \in Nat /\ MaxParts \in Nat \ {0}
ASSUME NamesAssumption ==
    /\ Loop \notin Users
    /\ Pool \notin Clients /\ NoClient \notin Clients /\ NoRequest \notin Requests
ASSUME FiniteAssumption == IsFiniteSet(Clients) /\ IsFiniteSet(Users)

Threads == Users \cup {Loop}

VARIABLES
    clients,     \* clients_: the clients that Get may take
    allClients,  \* allClients_
    conn,        \* for each client its connector and its TcpConnection
    req,         \* the requests
    todo         \* for each thread the tasks it has still to do

vars == <<clients, allClients, conn, req, todo>>

(***************************************************************************)
(* A connection: event says that event_ is set; writer is the request      *)
(* whose AsyncWrite is under way, armed once its lambda has run; reader is *)
(* whose handler is userReadHandler_; unread and coming are the requests   *)
(* whose answers the bytes in ReadBuffer_ and the parts on their way       *)
(* belong to; cut (history) says that the connection went back to the pool *)
(* while parts were on their way.                                          *)
(***************************************************************************)
NoConn == [phase |-> "none", finished |-> FALSE, event |-> FALSE,
           writer |-> NoRequest, armed |-> FALSE, reader |-> NoRequest,
           unread |-> {}, coming |-> <<>>, cut |-> FALSE]

(***************************************************************************)
(* A request.  History: how often onDone_ was called, whose bytes RespPop  *)
(* took, and whether the timer ran out while doReq was still running.      *)
(***************************************************************************)
NewReq == [begun |-> FALSE, client |-> NoClient, finished |-> FALSE, timer |-> "none",
           answers |-> 0, got |-> {}, early |-> FALSE]

Init ==
    /\ clients = {}
    /\ allClients \in {s \in SUBSET Clients : Cardinality(s) = MaxSize}
    /\ conn = [c \in Clients |->
                 IF c \in allClients THEN [NoConn EXCEPT !.phase = "queued"] ELSE NoConn]
    /\ req = [r \in Requests |-> NewReq]
    /\ todo = [t \in Threads |-> <<>>]

-----------------------------------------------------------------------------
(* Tasks and locks. *)

Task(op, of) == [op |-> op, of |-> of, ok |-> FALSE]
Ending(op, of, ok) == [op |-> op, of |-> of, ok |-> ok]

At(t, op) == todo[t] # <<>> /\ Head(todo[t]).op = op
Of(t) == Head(todo[t]).of
Ok(t) == Head(todo[t]).ok

\* The first task of t is replaced by those it calls.
Calls(t, tasks) == todo' = [todo EXCEPT ![t] = tasks \o Tail(@)]
\* An idle thread starts.
Starts(t, tasks) == todo[t] = <<>> /\ todo' = [todo EXCEPT ![t] = tasks]

TasksOf(t) == {todo[t][i] : i \in DOMAIN todo[t]}
Holds(t, l) == Task("unlock", l) \in TasksOf(t)
CanLock(t, l) == \A u \in Threads \ {t} : ~Holds(u, l)

InUse(x) == \E t \in Threads : \E k \in TasksOf(t) : k.of = x
HeldBy(c) == {r \in Requests : req[r].client = c}
Fresh == {c \in Clients \ allClients : HeldBy(c) = {} /\ ~InUse(c)}

unlock(t) ==
    /\ At(t, "unlock")
    /\ Calls(t, <<>>)
    /\ UNCHANGED <<clients, allClients, conn, req>>

-----------------------------------------------------------------------------
(* The pool. *)

\* A new Client, inserted into allClients_ and with its connect queued.
initClient(t) ==
    /\ At(t, "initClient") /\ CanLock(t, Pool)
    /\ \E c \in Fresh :
         /\ allClients' = allClients \cup {c}
         /\ conn' = [conn EXCEPT ![c] = [NoConn EXCEPT !.phase = "queued"]]
    /\ Calls(t, <<>>)
    /\ UNCHANGED <<clients, req>>

\* Mutant: the client stays in clients_.
erase_OnlyAll(t) ==
    /\ At(t, "erase") /\ CanLock(t, Pool)
    /\ allClients' = allClients \ {Of(t)}
    /\ conn' = IF HeldBy(Of(t)) = {} THEN [conn EXCEPT ![Of(t)] = NoConn] ELSE conn
    /\ Calls(t, <<>>)
    /\ UNCHANGED <<clients, req>>

\* The rest of the disconnected handler, after initClient.
erase(t) ==
    /\ At(t, "erase") /\ CanLock(t, Pool)
    /\ clients' = clients \ {Of(t)}
    /\ allClients' = allClients \ {Of(t)}
    /\ conn' = IF HeldBy(Of(t)) = {} THEN [conn EXCEPT ![Of(t)] = NoConn] ELSE conn
    /\ Calls(t, <<>>)
    /\ UNCHANGED req

\* What disconnectedHandler_ does with an error.
Disconnected(c) == <<Task("initClient", Pool), Task("erase", c)>>

\* Mutant: the client stays in clients_.
Get_Leaves(t) ==
    /\ At(t, "get") /\ CanLock(t, Pool)
    /\ \/ /\ clients = {}
          /\ req' = [req EXCEPT ![Of(t)].answers = @ + 1]
          /\ todo' = [todo EXCEPT ![t] = <<>>]
          /\ UNCHANGED clients
       \/ \E c \in clients :
            /\ UNCHANGED clients
            /\ req' = [req EXCEPT ![Of(t)].client = c]
            /\ Calls(t, <<>>)
    /\ UNCHANGED <<allClients, conn>>

Get(t) ==
    /\ At(t, "get") /\ CanLock(t, Pool)
    /\ \/ /\ clients = {}
          /\ req' = [req EXCEPT ![Of(t)].answers = @ + 1]
          /\ todo' = [todo EXCEPT ![t] = <<>>]
          /\ UNCHANGED clients
       \/ \E c \in clients :
            /\ clients' = clients \ {c}
            /\ req' = [req EXCEPT ![Of(t)].client = c]
            /\ Calls(t, <<>>)
    /\ UNCHANGED <<allClients, conn>>

\* TcpConnection::Reset.
ConnReset(k) == [k EXCEPT !.finished = FALSE, !.writer = NoRequest, !.armed = FALSE,
                          !.reader = NoRequest, !.unread = {},
                          !.cut = @ \/ k.coming # <<>>]

\* Mutant: Insert returns on an error before it calls Reset.
Insert_NoReset(t) ==
    /\ At(t, "insert") /\ CanLock(t, Pool)
    /\ Calls(t, <<>>)
    /\ \/ ~Ok(t) /\ UNCHANGED <<clients, conn>>
       \/ /\ Ok(t)
          /\ conn' = [conn EXCEPT ![Of(t)] = ConnReset(@)]
          /\ clients' = clients \cup {Of(t)}
    /\ UNCHANGED <<allClients, req>>

Insert(t) ==
    /\ At(t, "insert") /\ CanLock(t, Pool)
    /\ \/ /\ ~Ok(t)
          /\ Calls(t, <<Task("finish", Of(t)), Task("unlock", Pool)>>)
          /\ UNCHANGED <<clients, conn>>
       \/ /\ Ok(t)
          /\ conn' = [conn EXCEPT ![Of(t)] = ConnReset(@)]
          /\ clients' = clients \cup {Of(t)}
          /\ Calls(t, <<>>)
    /\ UNCHANGED <<allClients, req>>

-----------------------------------------------------------------------------
(* The connection. *)

\* Mutant: finished_ is not looked at.
finish_Again(t) ==
    LET c == Of(t) IN
    /\ At(t, "finish") /\ CanLock(t, c)
    /\ conn' = [conn EXCEPT ![c] =
                  [@ EXCEPT !.finished = TRUE, !.event = FALSE, !.writer = NoRequest,
                            !.armed = FALSE, !.unread = {}, !.coming = <<>>]]
    /\ Calls(t, (IF conn[c].writer = NoRequest THEN <<>>
                 ELSE <<Ending("reqFinish", conn[c].writer, FALSE)>>)
                \o Disconnected(c) \o <<Task("unlock", c)>>)
    /\ UNCHANGED <<clients, allClients, req>>

\* TcpConnection::Finish with an error.
finish(t) ==
    LET c == Of(t) IN
    /\ At(t, "finish") /\ CanLock(t, c)
    /\ IF conn[c].finished THEN Calls(t, <<>>) /\ UNCHANGED conn
       ELSE /\ conn' = [conn EXCEPT ![c] =
                          [@ EXCEPT !.finished = TRUE, !.event = FALSE, !.writer = NoRequest,
                                    !.armed = FALSE, !.unread = {}, !.coming = <<>>]]
            /\ Calls(t, (IF conn[c].writer = NoRequest THEN <<>>
                         ELSE <<Ending("reqFinish", conn[c].writer, FALSE)>>)
                        \o Disconnected(c) \o <<Task("unlock", c)>>)
    /\ UNCHANGED <<clients, allClients, req>>

AsyncWrite(t) ==
    LET r == Of(t)
        c == req[r].client
    IN
    /\ At(t, "asyncWrite") /\ CanLock(t, c)
    /\ IF conn[c].finished
       THEN Calls(t, <<Ending("reqFinish", r, FALSE), Task("unlock", c)>>) /\ UNCHANGED conn
       ELSE Calls(t, <<>>) /\ conn' = [conn EXCEPT ![c].writer = r, ![c].armed = FALSE]
    /\ UNCHANGED <<clients, allClients, req>>

-----------------------------------------------------------------------------
(* The loop's events. *)

\* Connector::Connect has started to connect.
Connecting(k) == [k EXCEPT !.phase = "connecting"]

\* newConnectionHandler makes a TcpConnection of the connector's socket and event.
Connected(k) == [k EXCEPT !.phase = "up", !.event = TRUE]

\* The lambda of AsyncConnect: Connect starts, or fails at once.
connect(c) ==
    /\ c \in allClients /\ conn[c].phase = "queued"
    /\ \/ /\ conn' = [conn EXCEPT ![c] = Connecting(@)]
          /\ todo[Loop] = <<>> /\ UNCHANGED todo
       \/ /\ conn' = [conn EXCEPT ![c].phase = "failed"]
          /\ Starts(Loop, Disconnected(c))
    /\ UNCHANGED <<clients, allClients, req>>

\* Connector::writeHandler: the connect has succeeded or failed.
connected(c) ==
    /\ conn[c].phase = "connecting"
    /\ \/ /\ conn' = [conn EXCEPT ![c] = Connected(@)]
          /\ Starts(Loop, <<Ending("insert", c, TRUE)>>)
       \/ /\ conn' = [conn EXCEPT ![c].phase = "failed"]
          /\ Starts(Loop, Disconnected(c))
    /\ UNCHANGED <<clients, allClients, req>>

\* The lambda of AsyncWrite.
arm(c) ==
    /\ todo[Loop] = <<>> /\ CanLock(Loop, c)
    /\ conn[c].writer # NoRequest /\ ~conn[c].armed
    /\ conn' = [conn EXCEPT ![c].armed = TRUE]
    /\ UNCHANGED <<clients, allClients, req, todo>>

\* The write handler of a request: AsyncReadAny, answered at once if bytes are unread.
written(c) ==
    LET r == conn[c].writer IN
    /\ conn[c].event /\ conn[c].armed /\ CanLock(Loop, c)
    /\ \E parts \in 1..(MaxParts - Len(conn[c].coming)) :
         conn' = [conn EXCEPT ![c].writer = NoRequest, ![c].armed = FALSE, ![c].reader = r,
                              ![c].coming = @ \o [i \in 1..parts |-> r]]
    /\ Starts(Loop, IF conn[c].unread = {} THEN <<>>
                    ELSE <<Task("answered", c), Task("unlock", c)>>)
    /\ UNCHANGED <<clients, allClients, req>>

writeFails(c) ==
    /\ conn[c].event /\ conn[c].armed /\ CanLock(Loop, c)
    /\ conn' = [conn EXCEPT ![c].writer = NoRequest, ![c].armed = FALSE]
    /\ Starts(Loop, <<Ending("reqFinish", conn[c].writer, FALSE), Task("finish", c),
                      Task("unlock", c)>>)
    /\ UNCHANGED <<clients, allClients, req>>

\* readHandler: the next part of an answer.
receive(c) ==
    /\ conn[c].event /\ conn[c].coming # <<>> /\ CanLock(Loop, c)
    /\ conn' = [conn EXCEPT ![c].unread = @ \cup {Head(conn[c].coming)}, ![c].coming = Tail(@)]
    /\ Starts(Loop, IF conn[c].reader = NoRequest THEN <<>>
                    ELSE <<Task("answered", c), Task("unlock", c)>>)
    /\ UNCHANGED <<clients, allClients, req>>

\* Timer::Cancel of the request's timer, on the loop's thread.
Cancelled(timer) == IF timer = "on" THEN "off" ELSE timer

\* readHandler: the peer has closed, or reading has failed.
closed(c) ==
    LET r == conn[c].reader IN
    /\ conn[c].event /\ CanLock(Loop, c)
    /\ IF r = NoRequest
       THEN /\ Starts(Loop, <<Task("finish", c), Task("unlock", c)>>)
            /\ UNCHANGED req
       ELSE /\ Starts(Loop, <<Ending("reqFinish", r, FALSE), Task("finish", c), Task("unlock", c)>>)
            /\ req' = [req EXCEPT ![r].timer = Cancelled(@)]
    /\ UNCHANGED <<clients, allClients, conn>>

expire(r) ==
    /\ req[r].timer = "on"
    /\ req' = [req EXCEPT ![r].timer = "off",
                          ![r].early = @ \/ \E u \in Users : \E k \in TasksOf(u) : k.of = r]
    /\ Starts(Loop, <<Ending("reqFinish", r, FALSE)>>)
    /\ UNCHANGED <<clients, allClients, conn>>

-----------------------------------------------------------------------------
(* The request. *)

doReq(u, r) ==
    /\ ~req[r].begun
    /\ Starts(u, <<Task("get", r), Task("reqPush", r), Task("startTimer", r),
                   Task("asyncWrite", r)>>)
    /\ req' = [req EXCEPT ![r].begun = TRUE]
    /\ UNCHANGED <<clients, allClients, conn>>

\* ReqPush fails before it writes, or puts the request into WriteBuffer_.
reqPush(t) ==
    /\ At(t, "reqPush")
    /\ \/ todo' = [todo EXCEPT ![t] = <<Ending("reqFinish", Of(t), FALSE)>>]
       \/ CanLock(t, req[Of(t)].client) /\ Calls(t, <<>>)
    /\ UNCHANGED <<clients, allClients, conn, req>>

startTimer(t) ==
    /\ At(t, "startTimer")
    /\ \E timer \in {"none", "on"} : req' = [req EXCEPT ![Of(t)].timer = timer]
    /\ Calls(t, <<>>)
    /\ UNCHANGED <<clients, allClients, conn>>

(***************************************************************************)
(* How RespPop, which takes all bytes, may end for r on the connection k:  *)
(* with an error, with a whole answer, or with a part while more is        *)
(* coming.  RedisClient leaves finish, which is not initialised, alone     *)
(* when it has a part: it may read as true.                                *)
(***************************************************************************)
RespPop(r, k) ==
    {"error", "finish"} \cup (IF \E i \in DOMAIN k.coming : k.coming[i] = r THEN {"wait"} ELSE {})

\* The handler of AsyncReadAny.
answered(t) ==
    LET c == Of(t)
        r == conn[c].reader
    IN
    /\ At(t, "answered")
    /\ req' = [req EXCEPT ![r].timer = Cancelled(@), ![r].got = @ \cup conn[c].unread]
    /\ conn' = [conn EXCEPT ![c].unread = {}]
    /\ \E outcome \in RespPop(r, conn[c]) :
         Calls(t, IF outcome = "wait" THEN <<>>
                  ELSE <<Ending("reqFinish", r, outcome = "finish")>>)
    /\ UNCHANGED <<clients, allClients>>

\* Mutant: finished_ is not looked at.
reqFinish_Again(t) ==
    /\ At(t, "reqFinish")
    /\ Calls(t, <<Ending("reqDone", Of(t), Ok(t))>>)
    /\ UNCHANGED <<clients, allClients, conn, req>>

\* BaseClient::Finish reads finished_ ...
reqFinish(t) ==
    /\ At(t, "reqFinish")
    /\ Calls(t, IF req[Of(t)].finished THEN <<>> ELSE <<Ending("reqDone", Of(t), Ok(t))>>)
    /\ UNCHANGED <<clients, allClients, conn, req>>

\* ... and then sets it, calls onDone_ and gives the client back.
reqDone(t) ==
    /\ At(t, "reqDone")
    /\ req' = [req EXCEPT ![Of(t)].finished = TRUE, ![Of(t)].answers = @ + 1]
    /\ Calls(t, <<Ending("insert", req[Of(t)].client, Ok(t))>>)
    /\ UNCHANGED <<clients, allClients, conn>>

\* The owner of an answered request destroys it, once BaseClient::Finish has returned.
destroy(r) ==
    LET c == req[r].client IN
    /\ req[r].answers > 0 /\ ~InUse(r) /\ ~InUse(c)
    /\ req' = [req EXCEPT ![r] = NewReq]
    /\ conn' = IF c # NoClient /\ c \notin allClients /\ HeldBy(c) = {r}
               THEN [conn EXCEPT ![c] = NoConn] ELSE conn
    /\ UNCHANGED <<clients, allClients, todo>>

-----------------------------------------------------------------------------
step(t) ==
    \/ unlock(t) \/ initClient(t) \/ erase(t) \/ Get(t) \/ Insert(t)
    \/ finish(t) \/ AsyncWrite(t)
    \/ reqPush(t) \/ startTimer(t) \/ answered(t) \/ reqFinish(t) \/ reqDone(t)

event(c) ==
    \/ connect(c) \/ connected(c) \/ arm(c) \/ written(c) \/ writeFails(c)
    \/ receive(c) \/ closed(c)

Next ==
    \/ \E t \in Threads : step(t)
    \/ \E c \in Clients : event(c)
    \/ \E r \in Requests : expire(r) \/ destroy(r) \/ \E u \in Users : doReq(u, r)

Spec == Init /\ [][Next]_vars

-----------------------------------------------------------------------------
(***************************************************************************)
(* A client is either in the pool or with one request that has not been    *)
(* answered, whoever of the user's thread, the timer and the connection's  *)
(* events ends the requests: Get and Insert never lend it twice.           *)
(***************************************************************************)
OneOwner ==
    \A c \in Clients :
        LET users == {r \in HeldBy(c) : ~req[r].finished} IN
        Cardinality(users) + (IF c \in clients THEN 1 ELSE 0) <= 1

(***************************************************************************)
(* A client in the pool is connected, or the thread that saw it break is   *)
(* on the way to take it out; and no handler of an earlier request is left *)
(* on its connection.                                                      *)
(***************************************************************************)
PooledUsable ==
    \A c \in clients :
        /\ c \in allClients /\ conn[c].phase = "up"
        /\ \/ conn[c].event /\ ~conn[c].finished
           \/ \E t \in Threads : Task("erase", c) \in TasksOf(t)
        /\ conn[c].reader = NoRequest /\ conn[c].writer = NoRequest

(***************************************************************************)
(* The pool keeps maxSize_ clients: each one that breaks, in the pool or   *)
(* with a request, is replaced once and taken out once.                    *)
(***************************************************************************)
Pending(op) == UNION {{<<t, i>> : i \in {j \in DOMAIN todo[t] : todo[t][j].op = op}} : t \in Threads}

AllCounted ==
    Cardinality(allClients) + Cardinality(Pending("initClient"))
        = MaxSize + Cardinality(Pending("erase"))

(***************************************************************************)
(* No client is lost: each one that the pool counts is being connected; or *)
(* it is connected and in the pool, with a request that is not answered,   *)
(* or some thread is about to give it back or to finish it; or it is       *)
(* broken and some thread is about to take it out.  So a pool that has     *)
(* nothing to lend has lent, or is replacing, all it has.                  *)
(***************************************************************************)
Unanswered(c) == \E r \in HeldBy(c) : ~req[r].finished
GivenBack(c) == \E t \in Threads : \E k \in TasksOf(t) : k.op \in {"insert", "finish"} /\ k.of = c
TakenOut(c) == \E t \in Threads : Task("erase", c) \in TasksOf(t)

NoneLost ==
    \A c \in allClients :
        \/ conn[c].phase \in {"queued", "connecting"}
        \/ conn[c].event /\ (c \in clients \/ Unanswered(c) \/ GivenBack(c))
        \/ (conn[c].phase = "failed" \/ conn[c].finished) /\ TakenOut(c)

(***************************************************************************)
(* onDone_ is called at most once, whichever of the write, the answer, the *)
(* timeout and the closed connection comes first.  The exception is a      *)
(* timer that runs out while doReq is still running on another thread:     *)
(* BaseClient::Finish has no lock between reading and setting finished_.   *)
(***************************************************************************)
AnsweredOnce == \A r \in Requests : req[r].answers <= 1 \/ req[r].early

(***************************************************************************)
(* A request takes bytes of its own answer only, unless the connection was *)
(* given back earlier while an answer was still arriving.                  *)
(***************************************************************************)
OwnAnswer ==
    \A r \in Requests :
        \/ req[r].got \subseteq {r}
        \/ req[r].client # NoClient /\ conn[req[r].client].cut

(***************************************************************************)
(* No threads wait for one another's locks.                                *)
(***************************************************************************)
Wanted(t) ==
    CASE At(t, "initClient") \/ At(t, "erase") \/ At(t, "get") \/ At(t, "insert") -> {Pool}
      [] At(t, "finish") -> {Of(t)}
      [] At(t, "reqPush") \/ At(t, "asyncWrite") -> {req[Of(t)].client}
      [] OTHER -> {}

WaitsFor(t, u) == t # u /\ \E l \in Wanted(t) : Holds(u, l)

NoLockCycle ==
    ~ \E s \in SUBSET Threads : s # {} /\ \A t \in s : \E u \in s : WaitsFor(t, u)
=============================================================================
