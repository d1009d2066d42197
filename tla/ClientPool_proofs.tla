-------------------------- MODULE ClientPool_proofs --------------------------
(***************************************************************************)
(* ClientPool for any number of clients, requests and users.               *)
(*                                                                         *)
(* The inductive invariant PoolInv ties four places together that no       *)
(* single lock protects: the pool's two lists, the connection with its     *)
(* handlers, the request, and what every thread still has to do.  Each     *)
(* conjunct says what a task on some stack implies about the other three,  *)
(* so that the thread that runs the task next finds what it relies on.     *)
(*                                                                         *)
(* The proof has one lemma per action, XKeeps.  Those whose steps change   *)
(* little go through a common lemma: PlainStep (a thread calls tasks and   *)
(* at most a timer, an answer or a write changes), LoopStep (an event of   *)
(* the loop), ConnectStepKeeps (a client that is being connected).         *)
(***************************************************************************)
EXTENDS ClientPool, SeqLemmas

\* The calls of BaseClient::DoReq.
DoReqOps == {"get", "reqPush", "startTimer", "asyncWrite"}
\* The tasks that work for a request.
ReqOps == DoReqOps \cup {"reqFinish", "reqDone"}
\* The tasks that may have others in front of them.
Behind == {"reqPush", "startTimer", "asyncWrite", "finish", "initClient", "erase", "unlock"}

\* The tasks there are.
TaskSet ==
    [op : {"unlock"}, of : Clients \cup {Pool}, ok : {FALSE}]
    \cup [op : {"initClient"}, of : {Pool}, ok : {FALSE}]
    \cup [op : {"erase", "finish", "answered"}, of : Clients, ok : {FALSE}]
    \cup [op : {"insert"}, of : Clients, ok : BOOLEAN]
    \cup [op : DoReqOps, of : Requests, ok : {FALSE}]
    \cup [op : {"reqFinish", "reqDone"}, of : Requests, ok : BOOLEAN]

\* The tasks of a stack behind its first.
Rest(s) == IF s = <<>> THEN {} ELSE Range(Tail(s))
\* What t has still to do after its first task.
Later(t) == Rest(todo[t])

\* The two calls of the disconnected handler stand together.
Paired(s) ==
    \A i \in DOMAIN s :
        /\ s[i].op = "initClient" => i + 1 \in DOMAIN s /\ s[i + 1].op = "erase"
        /\ s[i].op = "erase" => i = 1 \/ s[i - 1].op = "initClient"

\* Task k is at one place of one stack at most.
Once(k) ==
    \A t, u \in Threads : \A i \in DOMAIN todo[t], j \in DOMAIN todo[u] :
        todo[t][i] = k /\ todo[u][j] = k => t = u /\ i = j

\* Some thread has still to do k.
Pend(k) == \E t \in Threads : k \in TasksOf(t)

\* The stacks are sequences of tasks.
TodoOK == todo \in [Threads -> Seq(TaskSet)]

\* Thread t's stack becomes tasks and then what it keeps of its old one.
Becomes(t, tasks, rest) ==
    /\ tasks \in Seq(TaskSet) /\ rest \in Seq(TaskSet)
    /\ rest = <<>> \/ (todo[t] # <<>> /\ rest = Tail(todo[t]))
    /\ todo' = [todo EXCEPT ![t] = tasks \o rest]

-----------------------------------------------------------------------------
(* The inductive invariant. *)

\* The connections.
ConnSet ==
    [phase : {"none", "queued", "connecting", "failed", "up"}, finished : BOOLEAN, event : BOOLEAN,
     writer : Requests \cup {NoRequest}, armed : BOOLEAN, reader : Requests \cup {NoRequest},
     unread : SUBSET Requests, coming : Seq(Requests), cut : BOOLEAN]

\* The requests.
ReqSet ==
    [begun : BOOLEAN, client : Clients \cup {NoClient}, finished : BOOLEAN,
     timer : {"none", "on", "off"}, answers : Nat, got : SUBSET Requests, early : BOOLEAN]

\* The variables but todo have their types.
DataOK ==
    /\ clients \subseteq Clients /\ allClients \subseteq Clients
    /\ conn \in [Clients -> ConnSet] /\ req \in [Requests -> ReqSet]

\* What is left of doReq(r) when its next call is op.
DoStack(op, r) ==
    CASE op = "get" -> <<Task("get", r), Task("reqPush", r), Task("startTimer", r),
                         Task("asyncWrite", r)>>
      [] op = "reqPush" -> <<Task("reqPush", r), Task("startTimer", r), Task("asyncWrite", r)>>
      [] op = "startTimer" -> <<Task("startTimer", r), Task("asyncWrite", r)>>
      [] op = "asyncWrite" -> <<Task("asyncWrite", r)>>

\* What waits behind another task, and on whose stack: a doReq is alone on a user's
\* stack, and only the loop answers or succeeds.
StackInv ==
    /\ TodoOK
    /\ \A t \in Threads : \A k \in Later(t) : k.op \in Behind
    /\ \A t \in Threads : \A k \in TasksOf(t) : k.op \in DoReqOps =>
          t \in Users /\ \E op \in DoReqOps : todo[t] = DoStack(op, k.of)
    /\ \A t \in Threads : Paired(todo[t])
    /\ \A u \in Users : \A k \in TasksOf(u) : ~k.ok /\ k.op # "answered"

\* A client that has not connected, or whose connection has finished.
Broken(c) == conn[c].phase = "failed" \/ conn[c].finished

\* A client is on its way out of the pool once, and only when it is broken.
ErasedOnce ==
    \A c \in Clients :
      /\ Once(Task("erase", c))
      /\ Pend(Task("erase", c)) => c \in allClients /\ Broken(c)
      /\ c \notin allClients => conn[c].phase = "none" \/ Broken(c)

\* Finish is called late only for a client that a request holds still, which keeps
\* the client's place from being used again.
FinishHeld ==
    \A c \in Clients :
      /\ Pend(Task("erase", c)) /\ Pend(Task("finish", c)) => HeldBy(c) # {}
      /\ HeldBy(c) = {} => \A t \in Threads : Task("finish", c) \in TasksOf(t) =>
                              t = Loop /\ Task("finish", c) \notin Later(t)

\* The threads that have replaced a broken client and have still to take it out.
Erasing == {t \in Threads : At(t, "erase")}

\* Each of them accounts for one client more than maxSize_.
Counted == Cardinality(allClients) = MaxSize + Cardinality(Erasing)

\* A connection: it has its event until it finishes, it reads or writes for one
\* request, and its bytes are those of its reader unless an answer was cut.
ConnOK(k) ==
    /\ k.phase = "up" => (k.event <=> ~k.finished)
    /\ k.phase # "up" => /\ ~k.event /\ ~k.finished /\ k.writer = NoRequest /\ k.reader = NoRequest
                         /\ k.unread = {} /\ k.coming = <<>>
    /\ k.writer # NoRequest => k.event /\ k.reader = NoRequest
    /\ k.armed => k.writer # NoRequest
    /\ k.cut \/ k.unread \cup Range(k.coming) \subseteq {k.reader}

\* All connections are so.
ConnShape == \A c \in Clients : ConnOK(conn[c])

\* A client that a request holds, or that is being returned or finished, was connected.
Held ==
    \A c \in Clients :
      /\ HeldBy(c) # {} => conn[c].phase = "up"
      /\ \A t \in Threads : \A k \in TasksOf(t) :
           /\ k.op \in {"finish", "insert"} /\ k.of = c => conn[c].phase = "up"
           /\ k = Ending("insert", c, FALSE) => HeldBy(c) # {}
           /\ k = Task("answered", c) => conn[c].event /\ conn[c].reader # NoRequest

\* The loop gives c back, or finishes it, before it looks at c's events again.
Returning(c) == \E k \in TasksOf(Loop) : k.op \in {"insert", "finish"} /\ k.of = c

\* A live connection works for a request that holds it; if that one is answered, the
\* loop is giving the client back.
Attached ==
    \A c \in Clients : \A x \in Requests :
        conn[c].event /\ x \in {conn[c].writer, conn[c].reader} =>
            req[x].client = c /\ (req[x].finished => Returning(c))

\* Thread u has something to do for c.
Concerned(u, c) ==
    \E k \in TasksOf(u) :
        \/ k.op \in ReqOps /\ req[k.of].client = c
        \/ k.op \in {"insert", "finish"} /\ k.of = c

\* A user's thread that works for c is alone with it: no handler of a request is on it.
UserQuiet ==
    \A c \in Clients : \A u \in Users : Concerned(u, c) =>
      /\ conn[c].finished \/ (conn[c].reader = NoRequest /\ conn[c].writer = NoRequest)
      /\ c \notin clients
      /\ \A v \in Users : Concerned(v, c) => v = u

\* A request that succeeds is the reader of a live connection; the client that it
\* returns is nobody else's.
Returned ==
    \A k \in TasksOf(Loop) : k.ok =>
       LET c == IF k.op = "insert" THEN k.of ELSE req[k.of].client IN
       /\ c \in Clients
       /\ conn[c].event
       /\ k.op # "insert" => conn[c].reader = k.of
       /\ k.op = "reqDone" => ~req[k.of].finished
       /\ k.op = "insert" => c \notin clients /\ (\A u \in Users : ~Concerned(u, c))
                              /\ \A r \in HeldBy(c) : req[r].finished

\* Thread t works for the request r.
Works(t, r) == \E k \in TasksOf(t) : k.op \in ReqOps /\ k.of = r

\* Nobody works for a request that has not begun.
Begun == \A r \in Requests : ~req[r].begun => req[r] = NewReq /\ \A t \in Threads : ~Works(t, r)

\* A request is ended, and waits for its timer, only when it has a client.
Clientship ==
    \A r \in Requests :
      /\ req[r].timer = "on" => req[r].client # NoClient
      /\ req[r].client # NoClient /\ ~req[r].finished => req[r].answers = 0
      /\ req[r].client = NoClient => ~req[r].finished /\ req[r].answers <= 1 /\ req[r].got = {}
      /\ \A t \in Threads : \A k \in TasksOf(t) :
            k.op \in {"reqFinish", "reqDone"} /\ k.of = r => req[r].client # NoClient

\* What doReq relies on at each of its calls.
Stage(op, r) ==
    /\ op = "get" => req[r].client = NoClient /\ req[r].answers = 0
    /\ op # "get" =>
         /\ req[r].client # NoClient
         /\ req[r].finished => conn[req[r].client].finished \/ Returning(req[r].client)

\* ... on every stack.
Stages ==
    \A r \in Requests : \A t \in Threads : \A op \in DoReqOps : todo[t] = DoStack(op, r) => Stage(op, r)

\* One user works for a request; a second thread comes only with an early timer, and
\* without one a thread about to answer is the first to.
Workers ==
    \A r \in Requests :
      /\ \A u, v \in Users : Works(u, r) /\ Works(v, r) => u = v
      /\ ~req[r].early =>
           /\ req[r].answers <= 1
           /\ \A t, u \in Threads : Works(t, r) /\ Works(u, r) => t = u
           /\ \A t \in Threads : \A k \in TasksOf(t) :
                k.op = "reqDone" /\ k.of = r => req[r].answers = 0

\* A client with a request that is not answered is not in the pool, and has no other.
Owned ==
    \A c \in Clients : \A r \in HeldBy(c) : ~req[r].finished =>
        c \notin clients /\ \A x \in HeldBy(c) : ~req[x].finished => x = r

\* The inductive invariant.
PoolInv ==
    /\ DataOK /\ StackInv /\ ErasedOnce /\ FinishHeld /\ Counted /\ ConnShape /\ Held /\ Attached
    /\ UserQuiet /\ Returned /\ Begun /\ Clientship /\ Stages /\ Workers
    /\ Owned /\ PooledUsable /\ OwnAnswer

-----------------------------------------------------------------------------
(* Lemmas about the stacks. *)

\* The empty stack.
LEMMA NoTasks == Range(<<>>) = {} /\ Rest(<<>>) = {} /\ <<>> \in Seq(TaskSet)
  BY EmptyFacts DEF Rest

\* Stacks of one, two, three and four tasks.
LEMMA OneTask ==
  ASSUME NEW a
  PROVE  /\ Range(<<a>>) = {a} /\ Rest(<<a>>) = {}
         /\ Head(<<a>>) = a /\ Tail(<<a>>) = <<>> /\ <<a>> # <<>>
         /\ a \in TaskSet => <<a>> \in Seq(TaskSet)
<1>1. Head(<<a>>) = a /\ Tail(<<a>>) = <<>> /\ <<a>> # <<>>
  OBVIOUS
<1>2. DOMAIN <<a>> = {1} /\ DOMAIN <<>> = {}
  OBVIOUS
<1>3. Range(<<a>>) = {a} /\ Range(<<>>) = {}
  BY <1>2 DEF Range
<1>4. Rest(<<a>>) = {}
  BY <1>1, <1>3 DEF Rest
<1>5. a \in TaskSet => <<a>> \in Seq(TaskSet)
  OBVIOUS
<1> QED BY <1>1, <1>3, <1>4, <1>5

\* A stack of two tasks.
LEMMA TwoTasks ==
  ASSUME NEW a, NEW b
  PROVE  /\ Range(<<a, b>>) = {a, b} /\ Rest(<<a, b>>) = {b}
         /\ Head(<<a, b>>) = a /\ Tail(<<a, b>>) = <<b>> /\ <<a, b>> # <<>>
         /\ a \in TaskSet /\ b \in TaskSet => <<a, b>> \in Seq(TaskSet)
<1>1. Head(<<a, b>>) = a /\ Tail(<<a, b>>) = <<b>> /\ <<a, b>> # <<>>
  OBVIOUS
<1>2. DOMAIN <<a, b>> = {1, 2} /\ DOMAIN <<b>> = {1}
  OBVIOUS
<1>3. Range(<<a, b>>) = {a, b} /\ Range(<<b>>) = {b}
  BY <1>2 DEF Range
<1>4. Rest(<<a, b>>) = {b}
  BY <1>1, <1>3 DEF Rest
<1>5. a \in TaskSet /\ b \in TaskSet => <<a, b>> \in Seq(TaskSet)
  OBVIOUS
<1> QED BY <1>1, <1>3, <1>4, <1>5

\* A stack of three tasks.
LEMMA ThreeTasks ==
  ASSUME NEW a, NEW b, NEW c, NEW s, s = <<a, b, c>>
  PROVE  /\ Range(s) = {a, b, c} /\ Rest(s) = {b, c}
         /\ Head(s) = a /\ Tail(s) = <<b, c>> /\ s # <<>>
         /\ a \in TaskSet /\ b \in TaskSet /\ c \in TaskSet => s \in Seq(TaskSet)
<1>1. Head(<<a, b, c>>) = a /\ Tail(<<a, b, c>>) = <<b, c>> /\ <<a, b, c>> # <<>>
  OBVIOUS
<1>2. DOMAIN <<a, b, c>> = {1, 2, 3} /\ DOMAIN <<b, c>> = {1, 2}
  OBVIOUS
<1>3. Range(<<a, b, c>>) = {a, b, c} /\ Range(<<b, c>>) = {b, c}
  BY <1>2 DEF Range
<1>4. Rest(<<a, b, c>>) = {b, c}
  BY <1>1, <1>3 DEF Rest
<1>5. a \in TaskSet /\ b \in TaskSet /\ c \in TaskSet => <<a, b, c>> \in Seq(TaskSet)
  OBVIOUS
<1> QED BY <1>1, <1>3, <1>4, <1>5

\* A stack of four tasks.
LEMMA FourTasks ==
  ASSUME NEW a, NEW b, NEW c, NEW d
  PROVE  /\ Range(<<a, b, c, d>>) = {a, b, c, d} /\ Rest(<<a, b, c, d>>) = {b, c, d}
         /\ Head(<<a, b, c, d>>) = a /\ Tail(<<a, b, c, d>>) = <<b, c, d>> /\ <<a, b, c, d>> # <<>>
         /\ a \in TaskSet /\ b \in TaskSet /\ c \in TaskSet /\ d \in TaskSet => <<a, b, c, d>> \in Seq(TaskSet)
<1>1. Head(<<a, b, c, d>>) = a /\ Tail(<<a, b, c, d>>) = <<b, c, d>> /\ <<a, b, c, d>> # <<>>
  OBVIOUS
<1>2. DOMAIN <<a, b, c, d>> = {1, 2, 3, 4} /\ DOMAIN <<b, c, d>> = {1, 2, 3}
  OBVIOUS
<1>3. Range(<<a, b, c, d>>) = {a, b, c, d} /\ Range(<<b, c, d>>) = {b, c, d}
  BY <1>2 DEF Range
<1>4. Rest(<<a, b, c, d>>) = {b, c, d}
  BY <1>1, <1>3 DEF Rest
<1>5. a \in TaskSet /\ b \in TaskSet /\ c \in TaskSet /\ d \in TaskSet => <<a, b, c, d>> \in Seq(TaskSet)
  OBVIOUS
<1> QED BY <1>1, <1>3, <1>4, <1>5

\* What a step that changes the stack of t leaves on all of them.
LEMMA StackAfter ==
  ASSUME TodoOK, NEW t \in Threads, NEW tasks, NEW rest, Becomes(t, tasks, rest)
  PROVE  /\ TodoOK'
         /\ todo'[t] = tasks \o rest
         /\ \A u \in Threads \ {t} : /\ todo'[u] = todo[u] /\ TasksOf(u)' = TasksOf(u)
                                     /\ Later(u)' = Later(u)
         /\ TasksOf(t)' = Range(tasks) \cup Range(rest)
         /\ Later(t)' \subseteq Rest(tasks) \cup Range(rest)
         /\ Range(rest) \subseteq Later(t)
         /\ rest # <<>> \/ (todo[t] # <<>> /\ rest = Tail(todo[t])) => Range(rest) = Later(t)
<1>1. tasks \o rest \in Seq(TaskSet) /\ Range(tasks \o rest) = Range(tasks) \cup Range(rest)
  BY ConcatFacts DEF Becomes
<1>2. todo'[t] = tasks \o rest /\ TodoOK' /\ \A u \in Threads \ {t} : todo'[u] = todo[u]
  BY <1>1 DEF Becomes, TodoOK
<1>3. \A u \in Threads \ {t} : TasksOf(u)' = TasksOf(u) /\ Later(u)' = Later(u)
  BY <1>2 DEF TasksOf, Later
<1>4. TasksOf(t)' = Range(tasks) \cup Range(rest)
  BY <1>1, <1>2 DEF TasksOf, Range
<1>5. /\ Range(rest) \subseteq Later(t)
      /\ rest # <<>> \/ (todo[t] # <<>> /\ rest = Tail(todo[t])) => Range(rest) = Later(t)
  BY EmptyFacts DEF Becomes, Later, Rest
<1>6. Later(t)' \subseteq Rest(tasks) \cup Range(rest)
  <2>1. Later(t)' = Rest(tasks \o rest)
    BY <1>2 DEF Later
  <2>2. CASE tasks = <<>>
    <3>1. tasks \o rest = rest
      BY <2>2 DEF Becomes
    <3>2. Rest(rest) \subseteq Range(rest)
      BY TailFacts DEF Rest, Becomes
    <3> QED BY <2>1, <3>1, <3>2
  <2>3. CASE tasks # <<>>
    <3> DEFINE w == tasks \o rest
               n == Len(tasks)
    <3>1. /\ tasks \in Seq(TaskSet) /\ rest \in Seq(TaskSet) /\ w \in Seq(TaskSet)
          /\ n \in Nat \ {0} /\ Len(w) = n + Len(rest) /\ w # <<>> /\ Len(rest) \in Nat
          /\ \A i \in 1..Len(w) : w[i] = IF i <= n THEN tasks[i] ELSE rest[i - n]
      BY <2>3 DEF Becomes
    <3>2. ASSUME NEW x \in Rest(w) PROVE x \in Rest(tasks) \cup Range(rest)
      <4>1. PICK i \in 1..(Len(w) - 1) : x = w[i + 1]
        <5>1. x \in Range(Tail(w)) /\ DOMAIN Tail(w) = 1..(Len(w) - 1)
              /\ \A i \in DOMAIN Tail(w) : Tail(w)[i] = w[i + 1]
          BY <3>1, <3>2 DEF Rest
        <5> QED BY <5>1 DEF Range
      <4>2. CASE i + 1 <= n
        <5>1. /\ DOMAIN Tail(tasks) = 1..(n - 1)
              /\ \A j \in 1..(n - 1) : Tail(tasks)[j] = tasks[j + 1]
          BY <2>3, <3>1
        <5>2. i \in 1..(n - 1) /\ x = tasks[i + 1]
          BY <3>1, <4>1, <4>2
        <5>3. x = Tail(tasks)[i] /\ i \in DOMAIN Tail(tasks)
          BY <5>1, <5>2
        <5> QED BY <2>3, <5>3 DEF Rest, Range
      <4>3. CASE ~(i + 1 <= n)
        <5>1. x = rest[i + 1 - n] /\ i + 1 - n \in 1..Len(rest)
          BY <3>1, <4>1, <4>3
        <5> QED BY <3>1, <5>1 DEF Range
      <4> QED BY <4>2, <4>3
    <3> QED BY <2>1, <3>2
  <2> QED BY <2>2, <2>3
<1> QED BY <1>1, <1>2, <1>3, <1>4, <1>5, <1>6

\* The tasks of a thread are its first one and the later ones.
LEMMA StackBefore ==
  ASSUME TodoOK, NEW t \in Threads
  PROVE  /\ todo[t] = <<>> => TasksOf(t) = {} /\ Later(t) = {}
         /\ todo[t] # <<>> => /\ Head(todo[t]) \in TaskSet
                              /\ TasksOf(t) = {Head(todo[t])} \cup Later(t)
         /\ TasksOf(t) = Range(todo[t]) /\ TasksOf(t) \subseteq TaskSet /\ Later(t) \subseteq TasksOf(t)
<1>1. todo[t] \in Seq(TaskSet)
  BY DEF TodoOK
<1>2. TasksOf(t) = Range(todo[t])
  BY DEF TasksOf, Range
<1>3. TasksOf(t) \subseteq TaskSet
  BY <1>1, <1>2 DEF Range
<1>4. CASE todo[t] = <<>>
  BY <1>2, <1>3, <1>4, EmptyFacts DEF Later, Rest
<1>5. CASE todo[t] # <<>>
  <2>1. Head(todo[t]) \in TaskSet /\ Range(todo[t]) = {Head(todo[t])} \cup Range(Tail(todo[t]))
    BY <1>1, <1>5, TailFacts
  <2> QED BY <1>2, <1>3, <1>5, <2>1 DEF Later, Rest
<1> QED BY <1>4, <1>5

\* A task that is not called anew stays at one place.
LEMMA OnceKept ==
  ASSUME TodoOK, NEW t \in Threads, NEW tasks, NEW rest, Becomes(t, tasks, rest),
         NEW k, Once(k), k \notin Range(tasks)
  PROVE  Once(k)'
<1> DEFINE n == Len(tasks)
<1>1. /\ todo'[t] = tasks \o rest /\ \A u \in Threads \ {t} : todo'[u] = todo[u]
  BY StackAfter
<1>2. /\ todo[t] \in Seq(TaskSet) /\ rest \in Seq(TaskSet) /\ tasks \in Seq(TaskSet) /\ n \in Nat
      /\ rest = <<>> \/ (todo[t] # <<>> /\ rest = Tail(todo[t]))
  BY DEF Becomes, TodoOK
<1>3. ASSUME NEW i \in DOMAIN todo'[t], todo'[t][i] = k
      PROVE  i - n + 1 \in DOMAIN todo[t] /\ todo[t][i - n + 1] = k
  <2>1. /\ i \in 1..(n + Len(rest))
        /\ (tasks \o rest)[i] = IF i <= n THEN tasks[i] ELSE rest[i - n]
    BY <1>1, <1>2, <1>3
  <2>2. ~(i <= n)
    BY <1>1, <1>2, <1>3, <2>1 DEF Range
  <2>3. rest[i - n] = k /\ i - n \in 1..Len(rest)
    BY <1>1, <1>2, <1>3, <2>1, <2>2
  <2>4. rest = Tail(todo[t]) /\ todo[t] # <<>>
    BY <1>2, <2>3
  <2> QED BY <1>2, <2>3, <2>4
<1>4. ASSUME NEW x \in Threads, NEW y \in Threads, NEW i \in DOMAIN todo'[x], NEW j \in DOMAIN todo'[y],
             todo'[x][i] = k, todo'[y][j] = k
      PROVE  x = y /\ i = j
  <2>1. CASE x # t /\ y # t
    <3>1. todo'[x] = todo[x] /\ todo'[y] = todo[y]
      BY <1>1, <2>1
    <3>2. i \in DOMAIN todo[x] /\ j \in DOMAIN todo[y] /\ todo[x][i] = k /\ todo[y][j] = k
      BY <1>4, <3>1
    <3> QED BY <3>2 DEF Once
  <2>2. CASE x = t /\ y # t
    <3>1. i - n + 1 \in DOMAIN todo[t] /\ todo[t][i - n + 1] = k
      BY <1>3, <1>4, <2>2
    <3>2. todo'[y] = todo[y] /\ j \in DOMAIN todo[y] /\ todo[y][j] = k
      BY <1>1, <1>4, <2>2
    <3> QED BY <2>2, <3>1, <3>2 DEF Once
  <2>3. CASE x # t /\ y = t
    <3>1. j - n + 1 \in DOMAIN todo[t] /\ todo[t][j - n + 1] = k
      BY <1>3, <1>4, <2>3
    <3>2. todo'[x] = todo[x] /\ i \in DOMAIN todo[x] /\ todo[x][i] = k
      BY <1>1, <1>4, <2>3
    <3> QED BY <2>3, <3>1, <3>2 DEF Once
  <2>4. CASE x = t /\ y = t
    <3>1. i - n + 1 = j - n + 1
      BY <1>3, <1>4, <2>4 DEF Once
    <3>2. i \in Int /\ j \in Int
      BY <1>1, <1>2, <2>4
    <3> QED BY <1>2, <2>4, <3>1, <3>2
  <2> QED BY <2>1, <2>2, <2>3, <2>4
<1> QED BY <1>4 DEF Once

\* A task that was nowhere is at one place after it was called once.
LEMMA OncePushed ==
  ASSUME TodoOK, NEW t \in Threads, NEW tasks, NEW rest, Becomes(t, tasks, rest),
         NEW k, ~Pend(k), \A i, j \in DOMAIN tasks : tasks[i] = k /\ tasks[j] = k => i = j
  PROVE  Once(k)'
<1> DEFINE n == Len(tasks)
<1>1. /\ todo'[t] = tasks \o rest /\ \A u \in Threads \ {t} : TasksOf(u)' = TasksOf(u)
      /\ Range(rest) \subseteq TasksOf(t)
  BY StackAfter, StackBefore
<1>2. rest \in Seq(TaskSet) /\ tasks \in Seq(TaskSet) /\ n \in Nat
  BY DEF Becomes
<1>3. ASSUME NEW i \in DOMAIN todo'[t], todo'[t][i] = k
      PROVE  i \in DOMAIN tasks /\ tasks[i] = k
  <2>1. /\ i \in 1..(n + Len(rest))
        /\ (tasks \o rest)[i] = IF i <= n THEN tasks[i] ELSE rest[i - n]
    BY <1>1, <1>2, <1>3
  <2>2. CASE ~(i <= n)
    <3>1. rest[i - n] = k /\ i - n \in DOMAIN rest
      BY <1>1, <1>2, <1>3, <2>1, <2>2
    <3> QED BY <1>1, <3>1 DEF Range, Pend
  <2> QED BY <1>1, <1>2, <1>3, <2>1, <2>2
<1>4. ASSUME NEW u \in Threads \ {t}, NEW i \in DOMAIN todo'[u] PROVE todo'[u][i] # k
  BY <1>1, <1>4 DEF TasksOf, Pend
<1> QED BY <1>3, <1>4 DEF Once

\* The first task of a thread is nowhere else.
LEMMA OnceHead ==
  ASSUME TodoOK, NEW t \in Threads, NEW k, Once(k), todo[t] # <<>>, Head(todo[t]) = k
  PROVE  k \notin Later(t) /\ \A u \in Threads \ {t} : k \notin TasksOf(u)
<1>1. todo[t] \in Seq(TaskSet) /\ 1 \in DOMAIN todo[t] /\ todo[t][1] = k
  BY DEF TodoOK
<1>2. k \notin Later(t)
  <2>1. \A i \in DOMAIN Tail(todo[t]) : i + 1 \in DOMAIN todo[t] /\ Tail(todo[t])[i] = todo[t][i + 1]
                                        /\ i \in Nat \ {0}
    BY <1>1
  <2>2. \A i \in DOMAIN Tail(todo[t]) : Tail(todo[t])[i] # k
    BY <1>1, <2>1 DEF Once
  <2> QED BY <2>2 DEF Later, Rest, Range
<1>3. ASSUME NEW u \in Threads \ {t} PROVE k \notin TasksOf(u)
  BY <1>1 DEF Once, TasksOf
<1> QED BY <1>2, <1>3

\* The elements of a tail.
LEMMA TailIndex ==
  ASSUME NEW S, NEW s \in Seq(S), s # <<>>
  PROVE  /\ Head(s) = s[1] /\ Len(s) \in Nat \ {0} /\ DOMAIN s = 1..Len(s)
         /\ Tail(s) \in Seq(S) /\ Len(Tail(s)) = Len(s) - 1 /\ DOMAIN Tail(s) = 1..(Len(s) - 1)
         /\ \A i \in 1..(Len(s) - 1) : Tail(s)[i] = s[i + 1]
  OBVIOUS

\* The pairs survive a step that does not run initClient.
LEMMA PairedAfter ==
  ASSUME TodoOK, NEW t \in Threads, NEW tasks, NEW rest, Becomes(t, tasks, rest),
         Paired(todo[t]), Paired(tasks),
         rest # <<>> => Head(todo[t]).op # "initClient",
         tasks # <<>> => Head(tasks).op # "erase"
  PROVE  Paired(todo'[t]) /\ ~At(t, "erase")'
<1> DEFINE n == Len(tasks)
           w == tasks \o rest
<1>1. /\ todo'[t] = w /\ w \in Seq(TaskSet) /\ rest \in Seq(TaskSet) /\ tasks \in Seq(TaskSet)
      /\ n \in Nat /\ Len(rest) \in Nat /\ Len(w) = n + Len(rest) /\ DOMAIN w = 1..(n + Len(rest))
      /\ \A i \in 1..(n + Len(rest)) : w[i] = IF i <= n THEN tasks[i] ELSE rest[i - n]
  <2>1. rest \in Seq(TaskSet) /\ tasks \in Seq(TaskSet)
    BY DEF Becomes
  <2>2. todo'[t] = w
    BY StackAfter
  <2>3. n \in Nat /\ Len(rest) \in Nat
    BY <2>1
  <2> QED BY <2>1, <2>2, <2>3, ConcatIndex
<1>2. ASSUME NEW i \in 1..Len(rest), rest[i].op = "initClient"
      PROVE  i + 1 \in 1..Len(rest) /\ rest[i + 1].op = "erase"
  <2>1. /\ todo[t] \in Seq(TaskSet) /\ todo[t] # <<>> /\ Len(rest) = Len(todo[t]) - 1
        /\ \A x \in 1..Len(rest) : rest[x] = todo[t][x + 1]
        /\ Len(todo[t]) \in Nat /\ DOMAIN todo[t] = 1..Len(todo[t])
    <3>1. rest # <<>>
      BY <1>1, <1>2
    <3>2. todo[t] # <<>> /\ rest = Tail(todo[t]) /\ todo[t] \in Seq(TaskSet)
      BY <3>1 DEF TodoOK, Becomes
    <3> QED BY <3>2, TailIndex
  <2>2. i + 2 \in DOMAIN todo[t] /\ todo[t][i + 2].op = "erase"
    <3>1. todo[t][i + 1].op = "initClient"
      BY <1>2, <2>1
    <3>2. i + 1 \in 1..Len(todo[t]) /\ (i + 1) + 1 = i + 2
      <4>1. Len(rest) = Len(todo[t]) - 1 /\ Len(todo[t]) \in Nat
        BY <2>1
      <4> QED BY <4>1
    <3>3. i + 1 \in DOMAIN todo[t]
      BY <2>1, <3>2
    <3>4. (i + 1) + 1 \in DOMAIN todo[t] /\ todo[t][(i + 1) + 1].op = "erase"
      BY <3>1, <3>3 DEF Paired
    <3> QED BY <3>2, <3>4
  <2>3. i + 1 \in 1..Len(rest) /\ i + 1 + 1 = i + 2
    BY <2>1, <2>2
  <2> QED BY <2>1, <2>2, <2>3
<1>3. ASSUME NEW i \in 1..Len(rest), rest[i].op = "erase"
      PROVE  i - 1 \in 1..Len(rest) /\ rest[i - 1].op = "initClient"
  <2>1. /\ todo[t] \in Seq(TaskSet) /\ todo[t] # <<>> /\ Len(rest) = Len(todo[t]) - 1
        /\ \A x \in 1..Len(rest) : rest[x] = todo[t][x + 1]
        /\ Head(todo[t]) = todo[t][1] /\ Head(todo[t]).op # "initClient"
        /\ Len(todo[t]) \in Nat /\ DOMAIN todo[t] = 1..Len(todo[t])
    <3>1. rest # <<>>
      BY <1>1, <1>3
    <3>2. todo[t] # <<>> /\ rest = Tail(todo[t]) /\ todo[t] \in Seq(TaskSet)
      BY <3>1 DEF TodoOK, Becomes
    <3> QED BY <3>1, <3>2, TailIndex
  <2>2. todo[t][i].op = "initClient"
    <3>1. todo[t][i + 1].op = "erase"
      BY <1>3, <2>1
    <3>2. i + 1 \in 1..Len(todo[t]) /\ i + 1 # 1 /\ (i + 1) - 1 = i
      <4>1. Len(rest) = Len(todo[t]) - 1 /\ Len(todo[t]) \in Nat
        BY <2>1
      <4> QED BY <4>1
    <3>3. i + 1 \in DOMAIN todo[t]
      BY <2>1, <3>2
    <3> QED BY <3>1, <3>2, <3>3 DEF Paired
  <2>3. i # 1
    BY <2>1, <2>2
  <2>4. i - 1 \in 1..Len(rest) /\ (i - 1) + 1 = i
    BY <1>1, <2>3
  <2> QED BY <2>1, <2>2, <2>4
<1>4. ASSUME NEW i \in DOMAIN w, w[i].op = "initClient"
      PROVE  i + 1 \in DOMAIN w /\ w[i + 1].op = "erase"
  <2>1. CASE i <= n
    <3>1. i + 1 \in 1..n /\ tasks[i + 1].op = "erase"
      BY <1>1, <1>4, <2>1 DEF Paired
    <3>2. i + 1 \in 1..(n + Len(rest)) /\ i + 1 <= n
      BY <1>1, <3>1
    <3> QED BY <1>1, <3>1, <3>2
  <2>2. CASE ~(i <= n)
    <3>1. i - n \in 1..Len(rest) /\ w[i] = rest[i - n]
      BY <1>1, <1>4, <2>2
    <3>2. (i - n) + 1 \in 1..Len(rest) /\ rest[(i - n) + 1].op = "erase"
      BY <1>2, <1>4, <3>1
    <3>3. i + 1 \in 1..(n + Len(rest)) /\ ~(i + 1 <= n) /\ i + 1 - n = (i - n) + 1
      BY <1>1, <2>2, <3>2
    <3> QED BY <1>1, <3>2, <3>3
  <2> QED BY <2>1, <2>2
<1>5. ASSUME NEW i \in DOMAIN w, w[i].op = "erase"
      PROVE  i # 1 /\ w[i - 1].op = "initClient"
  <2>1. CASE i <= n
    <3>1. tasks[i].op = "erase" /\ i \in 1..n
      BY <1>1, <1>5, <2>1
    <3>2. i # 1
      BY <1>1, <3>1
    <3>3. tasks[i - 1].op = "initClient" /\ i - 1 \in 1..n
      BY <1>1, <3>1, <3>2 DEF Paired
    <3>4. i - 1 \in 1..(n + Len(rest)) /\ i - 1 <= n
      BY <1>1, <3>3
    <3> QED BY <1>1, <3>2, <3>3, <3>4
  <2>2. CASE ~(i <= n)
    <3>1. i - n \in 1..Len(rest) /\ w[i] = rest[i - n]
      BY <1>1, <1>5, <2>2
    <3>2. (i - n) - 1 \in 1..Len(rest) /\ rest[(i - n) - 1].op = "initClient"
      BY <1>3, <1>5, <3>1
    <3>3. i - 1 \in 1..(n + Len(rest)) /\ ~(i - 1 <= n) /\ i - 1 - n = (i - n) - 1 /\ i # 1
      BY <1>1, <2>2, <3>2
    <3> QED BY <1>1, <3>2, <3>3
  <2> QED BY <2>1, <2>2
<1>6. Paired(w)
  BY <1>4, <1>5 DEF Paired
<1>7. ~At(t, "erase")'
  <2>1. w # <<>> => Head(w) = w[1] /\ 1 \in DOMAIN w
    BY <1>1
  <2>2. w # <<>> => w[1].op # "erase"
    BY <1>5, <2>1
  <2> QED BY <1>1, <2>1, <2>2 DEF At
<1> QED BY <1>1, <1>6, <1>7

\* The erase of a pair comes first once its initClient has run.
LEMMA PairedInit ==
  ASSUME TodoOK, NEW t \in Threads, At(t, "initClient"), Paired(todo[t]),
         todo' = [todo EXCEPT ![t] = Tail(todo[t])]
  PROVE  Paired(todo'[t]) /\ At(t, "erase")'
<1> DEFINE s == todo[t]
           w == Tail(s)
<1>1. /\ s \in Seq(TaskSet) /\ s # <<>> /\ todo'[t] = w /\ w \in Seq(TaskSet)
      /\ Len(s) \in Nat \ {0} /\ DOMAIN s = 1..Len(s) /\ DOMAIN w = 1..(Len(s) - 1) /\ Head(s) = s[1]
      /\ \A i \in 1..(Len(s) - 1) : w[i] = s[i + 1]
  BY DEF TodoOK, At
<1>2. 2 \in DOMAIN s /\ s[2].op = "erase"
  <2>1. s[1].op = "initClient" /\ 1 \in DOMAIN s /\ 1 + 1 = 2
    BY <1>1 DEF At
  <2> QED BY <2>1 DEF Paired
<1>3. w # <<>> /\ Head(w) = s[2]
  <2>1. 1 \in 1..(Len(s) - 1) /\ 1 + 1 = 2
    BY <1>1, <1>2
  <2>2. w[1] = s[2] /\ w # <<>>
    <3>1. w[1] = s[1 + 1] /\ 1 \in DOMAIN w
      BY <1>1, <2>1
    <3>2. DOMAIN <<>> = {}
      OBVIOUS
    <3> HIDE DEF w
    <3> QED BY <2>1, <3>1, <3>2
  <2>3. Head(w) = w[1]
    BY <1>1, <2>2, TailIndex
  <2> QED BY <2>2, <2>3
<1>4. Paired(w)
  <2>1. ASSUME NEW i \in DOMAIN w, w[i].op = "initClient"
        PROVE  i + 1 \in DOMAIN w /\ w[i + 1].op = "erase"
    <3>1. i + 1 \in DOMAIN s /\ s[i + 1].op = "initClient"
      BY <1>1, <2>1
    <3>2. (i + 1) + 1 \in DOMAIN s /\ s[(i + 1) + 1].op = "erase"
      BY <3>1 DEF Paired
    <3>3. i + 1 \in DOMAIN w
      BY <1>1, <3>2
    <3> QED BY <1>1, <3>2, <3>3
  <2>2. ASSUME NEW i \in DOMAIN w, w[i].op = "erase", i # 1
        PROVE  w[i - 1].op = "initClient"
    <3>1. i + 1 \in DOMAIN s /\ s[i + 1].op = "erase" /\ i + 1 # 1 /\ (i + 1) - 1 = i
      BY <1>1, <2>2
    <3>2. s[i].op = "initClient"
      BY <3>1 DEF Paired
    <3>3. i - 1 \in DOMAIN w /\ (i - 1) + 1 = i
      BY <1>1, <2>2
    <3> QED BY <1>1, <3>2, <3>3
  <2> QED BY <2>1, <2>2 DEF Paired
<1> QED BY <1>1, <1>2, <1>3, <1>4 DEF At

\* A stack without the handler's calls has no pair to break.
LEMMA PlainPaired ==
  ASSUME NEW s, \A k \in Range(s) : k.op \notin {"initClient", "erase"}
  PROVE  Paired(s)
  BY DEF Paired, Range

\* The stacks of doReq.
LEMMA DoStackFacts ==
  ASSUME NEW r \in Requests, NEW op \in DoReqOps
  PROVE  /\ DoStack(op, r) \in Seq(TaskSet) /\ DoStack(op, r) # <<>>
         /\ Head(DoStack(op, r)) = Task(op, r)
         /\ \A k \in Range(DoStack(op, r)) : k.op \in DoReqOps /\ k.of = r /\ ~k.ok
         /\ \A k \in Rest(DoStack(op, r)) : k.op \in Behind
         /\ Paired(DoStack(op, r))
         /\ op = "get" => Tail(DoStack(op, r)) = DoStack("reqPush", r)
         /\ op = "reqPush" => Tail(DoStack(op, r)) = DoStack("startTimer", r)
         /\ op = "startTimer" => Tail(DoStack(op, r)) = DoStack("asyncWrite", r)
         /\ op = "asyncWrite" => Tail(DoStack(op, r)) = <<>>
<1>1. \A o \in DoReqOps : Task(o, r) \in TaskSet /\ Task(o, r).op = o /\ Task(o, r).of = r /\ ~Task(o, r).ok
  BY DEF Task, TaskSet, DoReqOps
<1>2. {"reqPush", "startTimer", "asyncWrite"} \subseteq Behind \cap DoReqOps /\ "get" \in DoReqOps
  BY DEF DoReqOps, Behind
<1>3. CASE op = "get"
  <2>1. DoStack(op, r) = <<Task("get", r), Task("reqPush", r), Task("startTimer", r), Task("asyncWrite", r)>>
    BY <1>3 DEF DoStack
  <2>2. DoStack("reqPush", r) = <<Task("reqPush", r), Task("startTimer", r), Task("asyncWrite", r)>>
    BY DEF DoStack
  <2>3. /\ DoStack(op, r) \in Seq(TaskSet) /\ DoStack(op, r) # <<>>
        /\ Head(DoStack(op, r)) = Task(op, r) /\ Tail(DoStack(op, r)) = DoStack("reqPush", r)
        /\ Range(DoStack(op, r)) = {Task("get", r), Task("reqPush", r), Task("startTimer", r), Task("asyncWrite", r)}
        /\ Rest(DoStack(op, r)) = {Task("reqPush", r), Task("startTimer", r), Task("asyncWrite", r)}
    <3>1. PICK a, b, c, d : a = Task("get", r) /\ b = Task("reqPush", r) /\ c = Task("startTimer", r) /\ d = Task("asyncWrite", r)
      OBVIOUS
    <3>2. a \in TaskSet /\ b \in TaskSet /\ c \in TaskSet /\ d \in TaskSet
      BY <1>1, <1>2, <3>1
    <3>3. DoStack(op, r) = <<a, b, c, d>> /\ DoStack("reqPush", r) = <<b, c, d>> /\ Task(op, r) = a
      BY <3>1, <2>1, <2>2, <1>3
    <3>4. /\ <<a, b, c, d>> \in Seq(TaskSet) /\ <<a, b, c, d>> # <<>> /\ Head(<<a, b, c, d>>) = a /\ Tail(<<a, b, c, d>>) = <<b, c, d>>
          /\ Range(<<a, b, c, d>>) = {a, b, c, d} /\ Rest(<<a, b, c, d>>) = {b, c, d}
      BY <3>2, FourTasks
    <3> QED BY <3>1, <3>3, <3>4
  <2>4. \A k \in Range(DoStack(op, r)) : k.op \in DoReqOps /\ k.of = r /\ ~k.ok
    BY <1>1, <1>2, <2>3
  <2>5. \A k \in Rest(DoStack(op, r)) : k.op \in Behind
    BY <1>1, <1>2, <2>3
  <2>6. Paired(DoStack(op, r))
    BY <2>4, PlainPaired DEF DoReqOps
  <2> QED BY <1>3, <2>3, <2>4, <2>5, <2>6
<1>4. CASE op = "reqPush"
  <2>1. DoStack(op, r) = <<Task("reqPush", r), Task("startTimer", r), Task("asyncWrite", r)>>
    BY <1>4 DEF DoStack
  <2>2. DoStack("startTimer", r) = <<Task("startTimer", r), Task("asyncWrite", r)>>
    BY DEF DoStack
  <2>3. /\ DoStack(op, r) \in Seq(TaskSet) /\ DoStack(op, r) # <<>>
        /\ Head(DoStack(op, r)) = Task(op, r) /\ Tail(DoStack(op, r)) = DoStack("startTimer", r)
        /\ Range(DoStack(op, r)) = {Task("reqPush", r), Task("startTimer", r), Task("asyncWrite", r)}
        /\ Rest(DoStack(op, r)) = {Task("startTimer", r), Task("asyncWrite", r)}
    <3>1. PICK a, b, c : a = Task("reqPush", r) /\ b = Task("startTimer", r) /\ c = Task("asyncWrite", r)
      OBVIOUS
    <3>2. a \in TaskSet /\ b \in TaskSet /\ c \in TaskSet
      BY <1>1, <1>2, <3>1
    <3>2a. PICK s : s = <<a, b, c>>
      OBVIOUS
    <3>3. DoStack(op, r) = s /\ DoStack("startTimer", r) = <<b, c>> /\ Task(op, r) = a
      BY <3>1, <3>2a, <2>1, <2>2, <1>4
    <3>4. /\ s \in Seq(TaskSet) /\ s # <<>> /\ Head(s) = a /\ Tail(s) = <<b, c>>
          /\ Range(s) = {a, b, c} /\ Rest(s) = {b, c}
      BY <3>2, <3>2a, ThreeTasks
    <3> QED BY <3>1, <3>3, <3>4
  <2>4. \A k \in Range(DoStack(op, r)) : k.op \in DoReqOps /\ k.of = r /\ ~k.ok
    BY <1>1, <1>2, <2>3
  <2>5. \A k \in Rest(DoStack(op, r)) : k.op \in Behind
    BY <1>1, <1>2, <2>3
  <2>6. Paired(DoStack(op, r))
    BY <2>4, PlainPaired DEF DoReqOps
  <2> QED BY <1>4, <2>3, <2>4, <2>5, <2>6
<1>5. CASE op = "startTimer"
  <2>1. DoStack(op, r) = <<Task("startTimer", r), Task("asyncWrite", r)>>
    BY <1>5 DEF DoStack
  <2>2. DoStack("asyncWrite", r) = <<Task("asyncWrite", r)>>
    BY DEF DoStack
  <2>3. /\ DoStack(op, r) \in Seq(TaskSet) /\ DoStack(op, r) # <<>>
        /\ Head(DoStack(op, r)) = Task(op, r) /\ Tail(DoStack(op, r)) = DoStack("asyncWrite", r)
        /\ Range(DoStack(op, r)) = {Task("startTimer", r), Task("asyncWrite", r)}
        /\ Rest(DoStack(op, r)) = {Task("asyncWrite", r)}
    <3>1. PICK a, b : a = Task("startTimer", r) /\ b = Task("asyncWrite", r)
      OBVIOUS
    <3>2. a \in TaskSet /\ b \in TaskSet
      BY <1>1, <1>2, <3>1
    <3>3. DoStack(op, r) = <<a, b>> /\ DoStack("asyncWrite", r) = <<b>> /\ Task(op, r) = a
      BY <3>1, <2>1, <2>2, <1>5
    <3>4. /\ <<a, b>> \in Seq(TaskSet) /\ <<a, b>> # <<>> /\ Head(<<a, b>>) = a /\ Tail(<<a, b>>) = <<b>>
          /\ Range(<<a, b>>) = {a, b} /\ Rest(<<a, b>>) = {b}
      BY <3>2, TwoTasks
    <3> QED BY <3>1, <3>3, <3>4
  <2>4. \A k \in Range(DoStack(op, r)) : k.op \in DoReqOps /\ k.of = r /\ ~k.ok
    BY <1>1, <1>2, <2>3
  <2>5. \A k \in Rest(DoStack(op, r)) : k.op \in Behind
    BY <1>1, <1>2, <2>3
  <2>6. Paired(DoStack(op, r))
    BY <2>4, PlainPaired DEF DoReqOps
  <2> QED BY <1>5, <2>3, <2>4, <2>5, <2>6
<1>6. CASE op = "asyncWrite"
  <2>1. DoStack(op, r) = <<Task("asyncWrite", r)>>
    BY <1>6 DEF DoStack
  <2>3. /\ DoStack(op, r) \in Seq(TaskSet) /\ DoStack(op, r) # <<>>
        /\ Head(DoStack(op, r)) = Task(op, r) /\ Tail(DoStack(op, r)) = <<>>
        /\ Range(DoStack(op, r)) = {Task("asyncWrite", r)} /\ Rest(DoStack(op, r)) = {}
    BY <1>1, <1>2, <1>6, <2>1, OneTask
  <2>4. \A k \in Range(DoStack(op, r)) : k.op \in DoReqOps /\ k.of = r /\ ~k.ok
    BY <1>1, <1>2, <2>3
  <2>6. Paired(DoStack(op, r))
    BY <2>4, PlainPaired DEF DoReqOps
  <2> QED BY <1>6, <2>3, <2>4, <2>6
<1> QED BY <1>3, <1>4, <1>5, <1>6 DEF DoReqOps

\* The calls that keep StackInv.
LEMMA StackInvAfter ==
  ASSUME StackInv, NEW t \in Threads, NEW tasks, NEW rest, Becomes(t, tasks, rest),
         \A k \in Range(tasks) : /\ k.op \notin DoReqOps
                                 /\ t \in Users => ~k.ok /\ k.op # "answered",
         \A k \in Rest(tasks) : k.op \in Behind,
         Paired(tasks), tasks # <<>> => Head(tasks).op # "erase",
         rest # <<>> => Head(todo[t]).op \notin DoReqOps \cup {"initClient"}
  PROVE  StackInv' /\ Erasing' = Erasing \ {t}
<1>1. /\ TodoOK' /\ TasksOf(t)' = Range(tasks) \cup Range(rest)
      /\ Later(t)' \subseteq Rest(tasks) \cup Range(rest) /\ Range(rest) \subseteq Later(t)
      /\ \A u \in Threads \ {t} : /\ todo'[u] = todo[u] /\ TasksOf(u)' = TasksOf(u)
                                  /\ Later(u)' = Later(u)
  BY StackAfter DEF StackInv
<1>2. Later(t) \subseteq TasksOf(t) /\ TasksOf(t) \subseteq TaskSet
  BY StackBefore DEF StackInv
<1>3. ASSUME NEW k \in Range(rest) PROVE k.op \notin DoReqOps
  <2>1. rest # <<>> /\ k \in TasksOf(t)
    BY <1>1, <1>2, <1>3, EmptyFacts
  <2>2. SUFFICES ASSUME k.op \in DoReqOps PROVE FALSE
    OBVIOUS
  <2>3. PICK op \in DoReqOps : todo[t] = DoStack(op, k.of)
    BY <2>1, <2>2 DEF StackInv
  <2>4. k.of \in Requests
    BY <1>2, <2>1, <2>2 DEF TaskSet, DoReqOps
  <2>5. Head(todo[t]).op \in DoReqOps
    <3>1. Head(todo[t]) = Task(op, k.of)
      BY <2>3, <2>4, DoStackFacts
    <3> QED BY <3>1 DEF Task
  <2> QED BY <2>1, <2>5
<1>4. \A u \in Threads : \A k \in Later(u)' : k.op \in Behind
  BY <1>1 DEF StackInv
<1>5. \A u \in Threads : \A k \in TasksOf(u)' : k.op \in DoReqOps =>
          u \in Users /\ \E op \in DoReqOps : todo'[u] = DoStack(op, k.of)
  BY <1>1, <1>3 DEF StackInv
<1>6. Paired(todo'[t]) /\ ~At(t, "erase")'
  BY PairedAfter DEF StackInv
<1>7. \A u \in Threads : Paired(todo'[u])
  BY <1>1, <1>6 DEF StackInv
<1>8. \A u \in Users : \A k \in TasksOf(u)' : ~k.ok /\ k.op # "answered"
  BY <1>1, <1>2 DEF StackInv, Threads
<1>9. Erasing' = Erasing \ {t}
  BY <1>1, <1>6 DEF Erasing, At
<1> QED BY <1>1, <1>4, <1>5, <1>7, <1>8, <1>9 DEF StackInv, DoStack

\* What the first task of a stack is.
LEMMA AtFacts ==
  ASSUME StackInv, NEW t \in Threads, NEW op, At(t, op)
  PROVE  /\ todo[t] # <<>> /\ todo[t] \in Seq(TaskSet) /\ Tail(todo[t]) \in Seq(TaskSet)
         /\ Head(todo[t]) \in TaskSet /\ Head(todo[t]).op = op
         /\ Head(todo[t]) \in TasksOf(t) /\ TasksOf(t) = {Head(todo[t])} \cup Later(t)
         /\ Head(todo[t]) = Ending(op, Of(t), Ok(t))
         /\ op \notin {"insert", "reqFinish", "reqDone"} => Head(todo[t]) = Task(op, Of(t))
         /\ op \in {"erase", "finish", "answered", "insert"} => Of(t) \in Clients
         /\ op \in ReqOps => Of(t) \in Requests
         /\ op \in DoReqOps => t \in Users /\ todo[t] = DoStack(op, Of(t))
         /\ op = "answered" \/ Ok(t) => t = Loop
         /\ Ok(t) \in BOOLEAN
<1> DEFINE h == Head(todo[t])
<1>1. todo[t] # <<>> /\ todo[t] \in Seq(TaskSet) /\ h.op = op
  BY DEF At, StackInv, TodoOK
<1>2. /\ Tail(todo[t]) \in Seq(TaskSet) /\ h \in TaskSet /\ h \in TasksOf(t)
      /\ TasksOf(t) = {h} \cup Later(t)
  BY <1>1, StackBefore DEF StackInv
<1>3. Of(t) = h.of /\ Ok(t) = h.ok
  BY DEF Of, Ok
<1> HIDE DEF h
<1>4. h = Ending(op, Of(t), Ok(t)) /\ Ok(t) \in BOOLEAN
  BY <1>1, <1>2, <1>3 DEF TaskSet, Ending
<1>5. op \notin {"insert", "reqFinish", "reqDone"} => h = Task(op, Of(t))
  BY <1>1, <1>2, <1>3 DEF TaskSet, Task
<1>6. op \in {"erase", "finish", "answered", "insert"} => Of(t) \in Clients
  BY <1>1, <1>2, <1>3 DEF TaskSet, DoReqOps
<1>7. op \in ReqOps => Of(t) \in Requests
  BY <1>1, <1>2, <1>3 DEF TaskSet, ReqOps, DoReqOps
<1>8. ASSUME op \in DoReqOps PROVE t \in Users /\ todo[t] = DoStack(op, Of(t))
  <2>1. t \in Users /\ \E o \in DoReqOps : todo[t] = DoStack(o, Of(t))
    BY <1>1, <1>2, <1>3, <1>8 DEF StackInv
  <2>2. PICK o \in DoReqOps : todo[t] = DoStack(o, Of(t))
    BY <2>1
  <2>3. h = Task(o, Of(t))
    BY <1>7, <1>8, <2>2, DoStackFacts DEF h, ReqOps
  <2>4. o = op
    BY <1>1, <2>3 DEF Task
  <2> QED BY <2>1, <2>2, <2>4
<1>9. op = "answered" \/ Ok(t) => t = Loop
  BY <1>1, <1>2, <1>3 DEF StackInv, Threads
<1> QED BY <1>1, <1>2, <1>4, <1>5, <1>6, <1>7, <1>8, <1>9 DEF h

\* A stack without calls of doReq is not that of a doReq.
LEMMA NotDoing ==
  ASSUME NEW s, s \in Seq(TaskSet), \A k \in Range(s) : k.op \notin DoReqOps
  PROVE  \A r \in Requests : \A op \in DoReqOps : s # DoStack(op, r)
<1> SUFFICES ASSUME NEW r \in Requests, NEW op \in DoReqOps, s = DoStack(op, r) PROVE FALSE
  OBVIOUS
<1>1. s # <<>> /\ Head(s) = Task(op, r)
  BY DoStackFacts
<1>2. Head(s) \in Range(s)
  BY <1>1, TailFacts
<1> QED BY <1>1, <1>2 DEF Task

\* A task that is not one of doReq's calls others and stays on no stack.
LEMMA StepFacts ==
  ASSUME StackInv, NEW t \in Threads, NEW op, At(t, op), op \notin DoReqOps \cup {"initClient"},
         NEW tasks \in Seq(TaskSet), Calls(t, tasks),
         \A k \in Range(tasks) : /\ k.op \notin DoReqOps
                                 /\ t \in Users => ~k.ok /\ k.op # "answered",
         \A k \in Rest(tasks) : k.op \in Behind,
         Paired(tasks), tasks # <<>> => Head(tasks).op # "erase"
  PROVE  /\ StackInv' /\ Erasing' = Erasing \ {t}
         /\ \A u \in Threads \ {t} : /\ todo'[u] = todo[u] /\ TasksOf(u)' = TasksOf(u)
                                     /\ Later(u)' = Later(u)
         /\ TasksOf(t)' = Range(tasks) \cup Later(t)
         /\ Later(t)' \subseteq Rest(tasks) \cup Later(t)
         /\ \A r \in Requests : \A o \in DoReqOps : todo'[t] # DoStack(o, r)
         /\ \A k : Once(k) /\ k \notin Range(tasks) => Once(k)'
<1> DEFINE rest == Tail(todo[t])
<1>1. todo[t] # <<>> /\ rest \in Seq(TaskSet) /\ Head(todo[t]).op = op
  BY AtFacts
<1>2. Becomes(t, tasks, rest)
  BY <1>1 DEF Becomes, Calls
<1>3. StackInv' /\ Erasing' = Erasing \ {t}
  BY <1>1, <1>2, StackInvAfter
<1>4. /\ \A u \in Threads \ {t} : /\ todo'[u] = todo[u] /\ TasksOf(u)' = TasksOf(u)
                                   /\ Later(u)' = Later(u)
      /\ TasksOf(t)' = Range(tasks) \cup Later(t)
      /\ Later(t)' \subseteq Rest(tasks) \cup Later(t)
  <2> HIDE DEF rest
  <2>1. TodoOK
    BY DEF StackInv
  <2>2. Range(rest) = Later(t)
    BY <1>1, <1>2, <2>1, StackAfter DEF rest
  <2>3. \A u \in Threads \ {t} : /\ todo'[u] = todo[u] /\ TasksOf(u)' = TasksOf(u)
                                   /\ Later(u)' = Later(u)
    BY <1>2, <2>1, StackAfter
  <2>4. /\ TasksOf(t)' = Range(tasks) \cup Range(rest)
        /\ Later(t)' \subseteq Rest(tasks) \cup Range(rest)
    BY <1>2, <2>1, StackAfter
  <2> QED BY <2>2, <2>3, <2>4
<1>5. \A k : Once(k) /\ k \notin Range(tasks) => Once(k)'
  BY <1>2, OnceKept DEF StackInv
<1>6. \A k \in TasksOf(t)' : k.op \notin DoReqOps
  <2>1. ASSUME NEW k \in Later(t), k.op \in DoReqOps PROVE FALSE
    <3>1. k \in TasksOf(t) /\ k \in TaskSet
      BY <2>1, StackBefore DEF StackInv
    <3>2. PICK o \in DoReqOps : todo[t] = DoStack(o, k.of)
      BY <2>1, <3>1 DEF StackInv
    <3>3. k.of \in Requests
      BY <2>1, <3>1 DEF TaskSet, DoReqOps
    <3>4. Head(todo[t]).op \in DoReqOps
      <4>1. Head(todo[t]) = Task(o, k.of)
        BY <3>2, <3>3, DoStackFacts
      <4> QED BY <4>1 DEF Task
    <3> QED BY <1>1, <3>4
  <2> QED BY <1>4, <2>1
<1>7. TasksOf(t)' = Range(todo'[t]) /\ todo'[t] \in Seq(TaskSet)
  BY <1>3 DEF TasksOf, Range, StackInv, TodoOK
<1>8. \A r \in Requests : \A o \in DoReqOps : todo'[t] # DoStack(o, r)
  BY <1>6, <1>7, NotDoing
<1> QED BY <1>3, <1>4, <1>5, <1>8

\* An idle thread starts.
LEMMA StartFacts ==
  ASSUME StackInv, NEW t \in Threads, NEW tasks \in Seq(TaskSet), Starts(t, tasks),
         \A k \in Range(tasks) : /\ k.op \notin DoReqOps
                                 /\ t \in Users => ~k.ok /\ k.op # "answered",
         \A k \in Rest(tasks) : k.op \in Behind,
         Paired(tasks), tasks # <<>> => Head(tasks).op # "erase"
  PROVE  /\ StackInv' /\ Erasing' = Erasing /\ t \notin Erasing
         /\ \A u \in Threads \ {t} : /\ todo'[u] = todo[u] /\ TasksOf(u)' = TasksOf(u)
                                     /\ Later(u)' = Later(u)
         /\ TasksOf(t) = {} /\ TasksOf(t)' = Range(tasks)
         /\ Later(t)' \subseteq Rest(tasks)
         /\ \A r \in Requests : \A o \in DoReqOps : todo'[t] # DoStack(o, r)
         /\ \A k : Once(k) /\ k \notin Range(tasks) => Once(k)'
<1>1. todo[t] = <<>> /\ <<>> \in Seq(TaskSet) /\ tasks \o <<>> = tasks
  BY DEF Starts
<1>2. Becomes(t, tasks, <<>>)
  BY <1>1 DEF Becomes, Starts
<1>3. StackInv' /\ Erasing' = Erasing \ {t}
  BY <1>1, <1>2, StackInvAfter
<1>4. /\ \A u \in Threads \ {t} : /\ todo'[u] = todo[u] /\ TasksOf(u)' = TasksOf(u)
                                   /\ Later(u)' = Later(u)
      /\ TasksOf(t)' = Range(tasks) /\ Later(t)' \subseteq Rest(tasks)
  <2>1. /\ \A u \in Threads \ {t} : /\ todo'[u] = todo[u] /\ TasksOf(u)' = TasksOf(u)
                                     /\ Later(u)' = Later(u)
        /\ TasksOf(t)' = Range(tasks) \cup Range(<<>>)
        /\ Later(t)' \subseteq Rest(tasks) \cup Range(<<>>)
    BY <1>2, StackAfter DEF StackInv
  <2> QED BY <2>1, EmptyFacts
<1>5. \A k : Once(k) /\ k \notin Range(tasks) => Once(k)'
  BY <1>2, OnceKept DEF StackInv
<1>6. TasksOf(t) = {} /\ t \notin Erasing
  BY <1>1, StackBefore DEF StackInv, Erasing, At
<1>7. TasksOf(t)' = Range(todo'[t]) /\ todo'[t] \in Seq(TaskSet)
  BY <1>3 DEF TasksOf, Range, StackInv, TodoOK
<1>8. \A r \in Requests : \A o \in DoReqOps : todo'[t] # DoStack(o, r)
  BY <1>4, <1>7, NotDoing
<1> QED BY <1>3, <1>4, <1>5, <1>6, <1>8

\* The last call of a doReq, or one that ends it.
LEMMA DoEndFacts ==
  ASSUME StackInv, NEW t \in Threads, NEW op \in DoReqOps, At(t, op),
         NEW tasks \in Seq(TaskSet), todo' = [todo EXCEPT ![t] = tasks],
         \A k \in Range(tasks) : k.op \notin DoReqOps /\ ~k.ok /\ k.op # "answered",
         \A k \in Rest(tasks) : k.op \in Behind,
         Paired(tasks), tasks # <<>> => Head(tasks).op # "erase"
  PROVE  /\ StackInv' /\ Erasing' = Erasing
         /\ \A u \in Threads \ {t} : /\ todo'[u] = todo[u] /\ TasksOf(u)' = TasksOf(u)
                                     /\ Later(u)' = Later(u)
         /\ \A k \in TasksOf(t) : k.op \in DoReqOps /\ k.of = Of(t) /\ ~k.ok
         /\ TasksOf(t)' = Range(tasks)
         /\ Later(t)' \subseteq Rest(tasks)
         /\ \A r \in Requests : \A o \in DoReqOps : todo'[t] # DoStack(o, r)
         /\ \A k : Once(k) /\ k \notin Range(tasks) => Once(k)'
<1>1. <<>> \in Seq(TaskSet) /\ tasks \o <<>> = tasks
  OBVIOUS
<1>2. Becomes(t, tasks, <<>>)
  BY <1>1 DEF Becomes
<1>3. StackInv' /\ Erasing' = Erasing \ {t}
  BY <1>2, StackInvAfter
<1>4. /\ \A u \in Threads \ {t} : /\ todo'[u] = todo[u] /\ TasksOf(u)' = TasksOf(u)
                                   /\ Later(u)' = Later(u)
      /\ TasksOf(t)' = Range(tasks) /\ Later(t)' \subseteq Rest(tasks)
  <2>1. /\ \A u \in Threads \ {t} : /\ todo'[u] = todo[u] /\ TasksOf(u)' = TasksOf(u)
                                     /\ Later(u)' = Later(u)
        /\ TasksOf(t)' = Range(tasks) \cup Range(<<>>)
        /\ Later(t)' \subseteq Rest(tasks) \cup Range(<<>>)
    BY <1>2, StackAfter DEF StackInv
  <2> QED BY <2>1, EmptyFacts
<1>5. \A k : Once(k) /\ k \notin Range(tasks) => Once(k)'
  BY <1>2, OnceKept DEF StackInv
<1>6. t \notin Erasing
  BY DEF Erasing, At, DoReqOps
<1>7. TasksOf(t)' = Range(todo'[t]) /\ todo'[t] \in Seq(TaskSet)
  BY <1>3 DEF TasksOf, Range, StackInv, TodoOK
<1>8. \A r \in Requests : \A o \in DoReqOps : todo'[t] # DoStack(o, r)
  BY <1>4, <1>7, NotDoing
<1>9. \A k \in TasksOf(t) : k.op \in DoReqOps /\ k.of = Of(t) /\ ~k.ok
  <2>1. todo[t] = DoStack(op, Of(t)) /\ Of(t) \in Requests
    BY AtFacts DEF ReqOps
  <2> QED BY <2>1, DoStackFacts, StackBefore DEF StackInv
<1> QED BY <1>3, <1>4, <1>5, <1>6, <1>8, <1>9

\* A call of a doReq that goes on to the next.
NextOp == [get |-> "reqPush", reqPush |-> "startTimer", startTimer |-> "asyncWrite"]

\* doReq goes on to its next call.
LEMMA DoNextFacts ==
  ASSUME StackInv, NEW t \in Threads, NEW op \in DoReqOps \ {"asyncWrite"}, At(t, op), Calls(t, <<>>)
  PROVE  /\ StackInv' /\ Erasing' = Erasing
         /\ \A u \in Threads \ {t} : /\ todo'[u] = todo[u] /\ TasksOf(u)' = TasksOf(u)
                                     /\ Later(u)' = Later(u)
         /\ \A k \in TasksOf(t) : k.op \in DoReqOps /\ k.of = Of(t) /\ ~k.ok
         /\ TasksOf(t)' \subseteq TasksOf(t) /\ Later(t)' \subseteq Later(t)
         /\ todo'[t] = DoStack(NextOp[op], Of(t)) /\ NextOp[op] \in DoReqOps \ {"get"}
         /\ \A r \in Requests : \A o \in DoReqOps :
               todo'[t] = DoStack(o, r) => o = NextOp[op] /\ r = Of(t)
         /\ \A k : Once(k) => Once(k)'
<1>0. NextOp[op] \in DoReqOps \ {"get"}
  BY DEF NextOp, DoReqOps
<1>1. /\ todo[t] = DoStack(op, Of(t)) /\ Of(t) \in Requests /\ t \in Users /\ todo[t] # <<>>
      /\ Tail(todo[t]) \in Seq(TaskSet)
  BY AtFacts DEF ReqOps
<1>2. Tail(todo[t]) = DoStack(NextOp[op], Of(t))
  BY <1>1, DoStackFacts DEF NextOp, DoReqOps
<1>3. <<>> \in Seq(TaskSet) /\ <<>> \o Tail(todo[t]) = Tail(todo[t])
  BY <1>1
<1>4. Becomes(t, <<>>, Tail(todo[t])) /\ todo'[t] = Tail(todo[t])
  BY <1>1, <1>3 DEF Becomes, Calls, StackInv, TodoOK
<1>4a. Paired(todo'[t]) /\ Head(todo'[t]) = Task(NextOp[op], Of(t))
  <2>1. PICK n \in DoReqOps : n = NextOp[op]
    BY <1>0
  <2>2. PICK r \in Requests : r = Of(t)
    BY <1>1
  <2>3. todo'[t] = DoStack(n, r)
    BY <1>2, <1>4, <2>1, <2>2
  <2>4. Paired(DoStack(n, r)) /\ Head(DoStack(n, r)) = Task(n, r)
    BY DoStackFacts
  <2> QED BY <2>1, <2>2, <2>3, <2>4
<1>5. /\ TodoOK' /\ \A u \in Threads \ {t} : /\ todo'[u] = todo[u] /\ TasksOf(u)' = TasksOf(u)
                                              /\ Later(u)' = Later(u)
  BY <1>4, StackAfter DEF StackInv
<1>6. TasksOf(t)' \subseteq TasksOf(t) /\ Later(t)' \subseteq Later(t)
  <2>1. /\ TasksOf(t)' = Range(<<>>) \cup Range(Tail(todo[t]))
        /\ Later(t)' \subseteq Rest(<<>>) \cup Range(Tail(todo[t]))
        /\ Range(Tail(todo[t])) \subseteq Later(t)
    BY <1>4, StackAfter DEF StackInv
  <2>2. Later(t) \subseteq TasksOf(t)
    BY StackBefore DEF StackInv
  <2> QED BY <2>1, <2>2, NoTasks
<1>7. \A k \in TasksOf(t) : k.op \in DoReqOps /\ k.of = Of(t) /\ ~k.ok
  BY <1>1, DoStackFacts, StackBefore DEF StackInv
<1>8. \A r \in Requests : \A o \in DoReqOps :
         todo'[t] = DoStack(o, r) => o = NextOp[op] /\ r = Of(t)
  <2>1. ASSUME NEW r \in Requests, NEW o \in DoReqOps, todo'[t] = DoStack(o, r)
        PROVE  o = NextOp[op] /\ r = Of(t)
    <3>1. Head(todo'[t]) = Task(o, r)
      BY <2>1, DoStackFacts
    <3>2. Task(o, r) = Task(NextOp[op], Of(t))
      BY <1>4a, <3>1
    <3> QED BY <3>2 DEF Task
  <2> QED BY <2>1
<1>9. Paired(todo'[t]) /\ ~At(t, "erase")' /\ ~At(t, "erase")
  <2>2. Head(todo'[t]).op # "erase"
    BY <1>0, <1>4a DEF Task, DoReqOps
  <2>3. ~At(t, "erase")
    BY DEF At, DoReqOps
  <2> QED BY <1>4a, <2>2, <2>3 DEF At
<1>10. Erasing' = Erasing
  BY <1>5, <1>9 DEF Erasing, At
<1>11. \A k : Once(k) => Once(k)'
  BY <1>4, OnceKept, NoTasks DEF StackInv
<1>12. StackInv'
  <2>1. \A u \in Threads : \A k \in Later(u)' : k.op \in Behind
    BY <1>5, <1>6 DEF StackInv
  <2>2. \A u \in Threads : \A k \in TasksOf(u)' : k.op \in DoReqOps =>
          u \in Users /\ \E o \in DoReqOps : todo'[u] = DoStack(o, k.of)
    BY <1>0, <1>1, <1>2, <1>4, <1>5, <1>6, <1>7 DEF StackInv
  <2>3. \A u \in Threads : Paired(todo'[u])
    BY <1>5, <1>9 DEF StackInv
  <2>4. \A u \in Users : \A k \in TasksOf(u)' : ~k.ok /\ k.op # "answered"
    BY <1>5, <1>6 DEF StackInv, Threads
  <2> QED BY <1>5, <2>1, <2>2, <2>3, <2>4 DEF StackInv, DoStack
<1> QED BY <1>0, <1>2, <1>4, <1>5, <1>6, <1>7, <1>8, <1>10, <1>11, <1>12

-----------------------------------------------------------------------------
(* The steps. *)

\* The tasks that a task of t may call when nothing but the stacks changes.
Called(t, k) ==
    \/ k.op = "unlock" /\ ~k.ok
    \/ k.op = "finish" /\ ~k.ok /\ Ending("insert", k.of, FALSE) \in TasksOf(t)
    \/ /\ k.op \in {"reqFinish", "reqDone"} /\ req[k.of].client # NoClient
       /\ \E j \in TasksOf(t) : j.op \in ReqOps /\ j.of = k.of /\ (k.ok => j.ok /\ j.op = "reqFinish")
       /\ k.op = "reqDone" => ~req[k.of].finished

\* Thread t calls the tasks in new, and loses none that the invariant needs
\* when nothing but the stacks changes.
CallsPlainly(t, new) ==
    /\ TasksOf(t)' \subseteq new \cup TasksOf(t)
    /\ \A k \in Later(t)' : k.op = "finish" => k \in Later(t)
    /\ \A k \in TasksOf(t) \ TasksOf(t)' :
         /\ k.op # "erase"
         /\ k.op \in {"insert", "finish"} =>
              \/ conn[k.of].finished
              \/ \E j \in TasksOf(t)' : j.op \in {"insert", "finish"} /\ j.of = k.of
    /\ \A k \in new : Called(t, k)
    /\ \A r \in Requests : \A o \in DoReqOps : todo'[t] = DoStack(o, r) =>
         o # "get" /\ \E p \in DoReqOps \ {"get"} : todo[t] = DoStack(p, r)

\* Only the stack of t changes.
OnlyTasks(t) ==
    \A u \in Threads \ {t} : todo'[u] = todo[u] /\ TasksOf(u)' = TasksOf(u) /\ Later(u)' = Later(u)

\* No erase is called a second time.
KeepsOnce == \A k : Once(k) /\ k.op = "erase" => Once(k)'

\* Who returns a client has something to do for it.
LEMMA InsertConcerns ==
  ASSUME NEW u, NEW c, Ending("insert", c, FALSE) \in TasksOf(u)
  PROVE  Concerned(u, c)
  BY DEF Concerned, Ending

\* A step of t that changes at most the timers of requests, the answer of a
\* request that gets no client, and the write that a doReq leaves on its
\* connection.
PlainKeeps(t) ==
    /\ \A r \in Requests :
         /\ req'[r].client = req[r].client /\ req'[r].finished = req[r].finished
         /\ req'[r].begun = req[r].begun
         /\ req'[r].early = req[r].early /\ req'[r].got = req[r].got
         /\ req'[r].timer = "on" => req[r].timer = "on" \/ req[r].client # NoClient
         /\ req'[r] = req[r] \/ req[r].begun
         /\ \/ req'[r].answers = req[r].answers
            \/ req[r].client = NoClient /\ req'[r].answers = 1 /\ \A u \in Threads : ~Works(u, r)'
    /\ \A c \in Clients :
         /\ conn'[c].phase = conn[c].phase /\ conn'[c].finished = conn[c].finished
         /\ conn'[c].event = conn[c].event /\ conn'[c].reader = conn[c].reader
         /\ conn'[c].cut = conn[c].cut
         /\ \/ conn'[c].writer = conn[c].writer
            \/ /\ t \in Users /\ TasksOf(t)' = {} /\ Concerned(t, c)
               /\ \E r \in Requests : /\ conn'[c].writer = r /\ req[r].client = c
                                      /\ req[r].finished => Returning(c)

\* Such a step keeps the invariant.
LEMMA PlainStep ==
  ASSUME PoolInv, UNCHANGED <<clients, allClients>>, DataOK', ConnShape',
         NEW t \in Threads, NEW new, PlainKeeps(t), CallsPlainly(t, new), OnlyTasks(t), KeepsOnce,
         StackInv', Erasing' = Erasing
  PROVE  PoolInv'
<1> USE DEF PoolInv
<1>a. \A u \in Threads : \A k \in TasksOf(u)' : k \in TasksOf(u) \/ (u = t /\ k \in new)
  BY DEF OnlyTasks, CallsPlainly, Called
<1>b. \A u \in Threads, r \in Requests : Works(u, r)' => Works(u, r)
  <2>1. ASSUME NEW u \in Threads, NEW r \in Requests, NEW k \in TasksOf(u)', k.op \in ReqOps, k.of = r
        PROVE  \E j \in TasksOf(u) : j.op \in ReqOps /\ j.of = r
    BY <1>a, <2>1 DEF ReqOps, DoReqOps, CallsPlainly, Called
  <2> QED BY <2>1 DEF Works
<1>h. \A u \in Threads : \A k \in TasksOf(u)' : k.op \in ReqOps => k.of \in Requests
  <2>1. ASSUME NEW u \in Threads, NEW k \in TasksOf(u)' PROVE k \in TaskSet
    BY <2>1 DEF StackInv, TodoOK, TasksOf
  <2> QED BY <2>1 DEF TaskSet, ReqOps, DoReqOps
<1>c. \A c \in Clients, u \in Threads : Concerned(u, c)' => Concerned(u, c)
  <2>1. ASSUME NEW c \in Clients, NEW u \in Threads, NEW k \in TasksOf(u)',
               \/ k.op \in ReqOps /\ req[k.of].client = c
               \/ k.op \in {"insert", "finish"} /\ k.of = c
        PROVE  Concerned(u, c)
    <3>1. CASE k \in TasksOf(u)
      BY <2>1, <3>1 DEF Concerned
    <3>2. CASE u = t /\ k \in new
      <4>1. CASE k.op = "finish"
        <5>1. Ending("insert", c, FALSE) \in TasksOf(u)
          <6>1. k.of = c
            BY <2>1, <4>1 DEF ReqOps, DoReqOps
          <6>2. Ending("insert", k.of, FALSE) \in TasksOf(t)
            BY <3>2, <4>1 DEF CallsPlainly, Called
          <6> QED BY <3>2, <6>1, <6>2
        <5> QED BY <5>1, InsertConcerns
      <4>2. CASE k.op \in {"reqFinish", "reqDone"}
        <5>1. PICK j \in TasksOf(t) : j.op \in ReqOps /\ j.of = k.of
          BY <3>2, <4>2 DEF CallsPlainly, Called
        <5> QED BY <2>1, <3>2, <4>2, <5>1 DEF Concerned
      <4> QED BY <2>1, <3>2, <4>1, <4>2 DEF ReqOps, DoReqOps, CallsPlainly, Called
    <3> QED BY <1>a, <2>1, <3>1, <3>2
  <2> QED BY <1>h, <2>1 DEF Concerned, PlainKeeps
<1>d. \A c \in Clients : Returning(c) => Returning(c)' \/ conn[c].finished
  <2>1. ASSUME NEW c \in Clients, NEW k \in TasksOf(Loop), k.op \in {"insert", "finish"}, k.of = c
        PROVE  conn[c].finished \/ \E j \in TasksOf(Loop)' : j.op \in {"insert", "finish"} /\ j.of = c
    BY <2>1 DEF Threads, OnlyTasks, CallsPlainly, Called
  <2> QED BY <2>1 DEF Returning
<1>e. \A c \in Clients : Pend(Task("erase", c))' <=> Pend(Task("erase", c))
  <2>1. ASSUME NEW c \in Clients, NEW u \in Threads
        PROVE  Task("erase", c) \in TasksOf(u)' <=> Task("erase", c) \in TasksOf(u)
    <3>0. Task("erase", c).op = "erase"
      BY DEF Task
    <3>1. PICK k : k = Task("erase", c) /\ k.op = "erase"
      BY <3>0
    <3>2. k \in TasksOf(u)' => k \in TasksOf(u)
      BY <1>a, <3>1 DEF CallsPlainly, Called
    <3>3. k \in TasksOf(u) => k \in TasksOf(u)'
      BY <3>1 DEF OnlyTasks, CallsPlainly, Called
    <3> QED BY <3>1, <3>2, <3>3
  <2> QED BY <2>1 DEF Pend, Task
<1>f. \A c \in Clients : HeldBy(c)' = HeldBy(c)
  BY DEF HeldBy, PlainKeeps
<1>i. \A c \in Clients : Broken(c)' <=> Broken(c)
  BY DEF Broken, PlainKeeps
<1>g. ASSUME NEW u \in Threads, NEW k \in TasksOf(u)', k.op = "finish", k \notin TasksOf(u)
      PROVE  Ending("insert", k.of, FALSE) \in TasksOf(u) /\ k \in new /\ u = t
  BY <1>a, <1>g DEF CallsPlainly, Called
<1>1. DataOK'
  OBVIOUS
<1>2. ErasedOnce'
  <2>1. ASSUME NEW c \in Clients PROVE Once(Task("erase", c))'
    <3>1. Once(Task("erase", c)) /\ Task("erase", c).op = "erase"
      BY DEF Task, Ending, ErasedOnce
    <3>2. PICK k : k = Task("erase", c)
      OBVIOUS
    <3>3. Once(k)'
      BY <3>1, <3>2 DEF KeepsOnce
    <3> QED BY <3>2, <3>3 DEF Task
  <2> QED BY <2>1, <1>e, <1>i DEF ErasedOnce, PlainKeeps
<1>3. FinishHeld'
  <2>1. ASSUME NEW c \in Clients, NEW u \in Threads, Task("finish", c) \in TasksOf(u)',
               HeldBy(c) = {}
        PROVE  Task("finish", c) \in TasksOf(u)
    <3>1. Task("finish", c) \notin TasksOf(u) => Ending("insert", c, FALSE) \in TasksOf(u)
      BY <1>g, <2>1 DEF Task, Ending
    <3> QED BY <2>1, <3>1 DEF Held
  <2>2. ASSUME NEW c \in Clients, Pend(Task("erase", c))', Pend(Task("finish", c))', HeldBy(c)' = {}
        PROVE  FALSE
    <3>1. Pend(Task("erase", c)) /\ HeldBy(c) = {}
      BY <1>e, <1>f, <2>2
    <3>2. Pend(Task("finish", c))
      BY <2>1, <2>2, <3>1 DEF Pend, Task
    <3> QED BY <3>1, <3>2 DEF FinishHeld
  <2>3. ASSUME NEW c \in Clients, HeldBy(c)' = {}, NEW u \in Threads, Task("finish", c) \in TasksOf(u)'
        PROVE  u = Loop /\ Task("finish", c) \notin Later(u)'
    <3>1. u = Loop /\ Task("finish", c) \notin Later(u)
      BY <1>f, <2>1, <2>3 DEF FinishHeld
    <3>2. Task("finish", c) \notin Later(t)' \/ Task("finish", c) \in Later(t)
      BY DEF Task, Ending, CallsPlainly, Called
    <3> QED BY <3>1, <3>2 DEF OnlyTasks
  <2> QED BY <2>2, <2>3 DEF FinishHeld, Task
<1>4. Counted'
  BY DEF Counted
<1>5. ConnShape'
  OBVIOUS
<1>6. Held'
  <2>1. ASSUME NEW c \in Clients, NEW u \in Threads, NEW k \in TasksOf(u)'
        PROVE  /\ k.op \in {"finish", "insert"} /\ k.of = c => conn[c].phase = "up"
               /\ k = Ending("insert", c, FALSE) => HeldBy(c) # {}
               /\ k = Task("answered", c) => conn[c].event /\ conn[c].reader # NoRequest
    <3>1. CASE k \in TasksOf(u)
      BY <3>1 DEF Held
    <3>2. CASE k \notin TasksOf(u)
      <4>1. k.op \notin {"insert", "answered"}
        BY <1>a, <3>2 DEF CallsPlainly, Called
      <4>2. k.op = "finish" /\ k.of = c => conn[c].phase = "up"
        <5>1. k.op = "finish" /\ k.of = c => Ending("insert", c, FALSE) \in TasksOf(u)
          BY <1>g, <3>2, Zenon
        <5> QED BY <5>1 DEF Held, Task, Ending
      <4> QED BY <4>1, <4>2 DEF Task, Ending
    <3> QED BY <3>1, <3>2
  <2> QED BY <1>f, <2>1 DEF Held, Ending, Task, PlainKeeps
<1>7. Attached'
  <2>1. ASSUME NEW c \in Clients, NEW x \in Requests, conn[c].event, x \in {conn'[c].writer, conn[c].reader}
        PROVE  req[x].client = c /\ (req[x].finished => Returning(c)')
    <3>1. \A r \in Requests : r \in {conn[c].writer, conn[c].reader} =>
            req[r].client = c /\ (req[r].finished => Returning(c))
      BY <2>1 DEF Attached
    <3>2. ~conn[c].finished
      BY <2>1 DEF ConnShape, ConnOK
    <3> QED BY <1>d, <2>1, <3>1, <3>2 DEF PlainKeeps
  <2> QED BY <2>1 DEF Attached, PlainKeeps
<1>8. UserQuiet'
  <2>1. ASSUME NEW c \in Clients, NEW u \in Users, Concerned(u, c)'
        PROVE  conn'[c].finished \/ (conn'[c].reader = NoRequest /\ conn'[c].writer = NoRequest)
    <3>1. Concerned(u, c) /\ u \in Threads
      BY <1>c, <2>1 DEF Threads
    <3>2. conn[c].finished \/ (conn[c].reader = NoRequest /\ conn[c].writer = NoRequest)
      BY <3>1 DEF UserQuiet
    <3>3. conn'[c].writer = conn[c].writer
      <4>1. SUFFICES ASSUME conn'[c].writer # conn[c].writer PROVE FALSE
        OBVIOUS
      <4>2. t \in Users /\ TasksOf(t)' = {} /\ Concerned(t, c)
        BY <4>1 DEF PlainKeeps
      <4>3. u = t
        BY <3>1, <4>2 DEF UserQuiet
      <4> QED BY <2>1, <4>2, <4>3 DEF Concerned
    <3> QED BY <3>2, <3>3 DEF PlainKeeps
  <2> QED BY <1>c, <2>1 DEF UserQuiet, Threads
<1>9. Returned'
  <2>1. ASSUME NEW k \in TasksOf(Loop)', k.ok
        PROVE  \E j \in TasksOf(Loop) : /\ j.ok /\ j.of = k.of
                                        /\ j.op = k.op \/ (j.op = "reqFinish" /\ k.op # "insert")
                                        /\ k.op = "reqDone" => j.op = "reqDone" \/ ~req[k.of].finished
    BY <1>a, <2>1 DEF Threads, CallsPlainly, Called
  <2>2. ASSUME NEW k \in TasksOf(Loop)', k.ok,
               NEW c, c = IF k.op = "insert" THEN k.of ELSE req[k.of].client
        PROVE  /\ c \in Clients
               /\ conn[c].event
               /\ k.op # "insert" => conn[c].reader = k.of
               /\ k.op = "reqDone" => ~req[k.of].finished
               /\ k.op = "insert" => c \notin clients /\ (\A u \in Users : ~Concerned(u, c)')
                                      /\ \A r \in HeldBy(c)' : req[r].finished
    <3>1. PICK j \in TasksOf(Loop) : /\ j.ok /\ j.of = k.of
                                     /\ j.op = k.op \/ (j.op = "reqFinish" /\ k.op # "insert")
                                     /\ k.op = "reqDone" => j.op = "reqDone" \/ ~req[k.of].finished
      BY <2>1, <2>2
    <3>2. /\ c \in Clients /\ conn[c].event
          /\ k.op # "insert" => conn[c].reader = k.of
          /\ j.op = "reqDone" => ~req[k.of].finished
          /\ k.op = "insert" => c \notin clients /\ (\A u \in Users : ~Concerned(u, c))
                                      /\ \A r \in HeldBy(c) : req[r].finished
      BY <2>2, <3>1 DEF Returned
    <3> QED BY <1>c, <1>f, <3>1, <3>2 DEF Threads
  <2>3. ASSUME NEW k \in TasksOf(Loop)', k.ok PROVE k.op = "insert" \/ k.of \in Requests
    <3>1. k \in TaskSet
      BY <2>3 DEF StackInv, TodoOK, TasksOf, Threads
    <3> QED BY <2>3, <3>1 DEF TaskSet
  <2>4. \A c : HeldBy(c)' \subseteq Requests
    BY DEF HeldBy
  <2>5. \A c \in Clients : conn'[c].event = conn[c].event /\ conn'[c].reader = conn[c].reader
    BY DEF PlainKeeps
  <2>6. \A r \in Requests : req'[r].client = req[r].client /\ req'[r].finished = req[r].finished
    BY DEF PlainKeeps
  <2> QED BY <2>2, <2>3, <2>4, <2>5, <2>6 DEF Returned
<1>10. Begun'
  <2>1. ASSUME NEW r \in Requests, ~req'[r].begun PROVE req'[r] = NewReq
    BY <2>1 DEF Begun, PlainKeeps
  <2>2. \A r \in Requests : ~req'[r].begun => ~req[r].begun
    BY DEF PlainKeeps
  <2> QED BY <1>b, <2>1, <2>2 DEF Begun, NewReq
<1>11. Clientship'
  <2>1. ASSUME NEW r \in Requests, NEW u \in Threads, NEW k \in TasksOf(u)',
               k.op \in {"reqFinish", "reqDone"}, k.of = r
        PROVE  req[r].client # NoClient
    BY <1>a, <2>1 DEF Clientship, CallsPlainly, Called
  <2> QED BY <2>1 DEF Clientship, PlainKeeps
<1>12. Stages'
  <2>1. ASSUME NEW r \in Requests, NEW o \in DoReqOps, NEW u \in Threads, todo'[u] = DoStack(o, r)
        PROVE  Stage(o, r) /\ Works(u, r)'
    <3>0. Works(u, r)'
      <4>1. todo'[u] # <<>> /\ Head(todo'[u]) = Task(o, r)
        BY <2>1, DoStackFacts
      <4>2. Head(todo'[u]) \in TasksOf(u)'
        BY <4>1 DEF StackInv, TodoOK, TasksOf
      <4> QED BY <4>1, <4>2 DEF Works, Task, ReqOps
    <3>1. CASE u = t
      <4>1. PICK p \in DoReqOps \ {"get"} : todo[t] = DoStack(p, r) /\ o # "get"
        BY <2>1, <3>1 DEF CallsPlainly, Called
      <4> QED BY <3>0, <4>1 DEF Stages, Stage
    <3>2. CASE u # t
      BY <2>1, <3>0, <3>2 DEF Stages, OnlyTasks
    <3> QED BY <3>0, <3>1, <3>2
  <2>2. ASSUME NEW r \in Requests, NEW o \in DoReqOps, NEW u \in Threads, Stage(o, r), Works(u, r)'
        PROVE  Stage(o, r)'
    BY <1>d, <2>2 DEF Stage, DataOK, ReqSet, PlainKeeps
  <2> QED BY <2>1, <2>2 DEF Stages, DoStack
<1>13. Workers'
  <2>1. ASSUME NEW r \in Requests, ~req[r].early, NEW u \in Threads, NEW k \in TasksOf(u)',
               k.op = "reqDone", k.of = r
        PROVE  req[r].answers = 0 /\ Works(u, r)'
    <3>0. Works(u, r)'
      BY <2>1 DEF Works, ReqOps
    <3>1. CASE k \in TasksOf(u)
      BY <2>1, <3>0, <3>1 DEF Workers
    <3>2. CASE k \notin TasksOf(u)
      <4>1. u = t /\ k \in new
        BY <1>a, <3>2
      <4>2. req[r].client # NoClient /\ ~req[r].finished
        BY <2>1, <4>1 DEF CallsPlainly, Called
      <4> QED BY <3>0, <4>2 DEF Clientship
    <3> QED BY <3>0, <3>1, <3>2
  <2> QED BY <1>b, <2>1 DEF Workers, Threads, PlainKeeps
<1>14. Owned'
  BY <1>f DEF Owned, PlainKeeps, HeldBy
<1>15. PooledUsable'
  <2>1. \A c \in Clients : Pend(Task("erase", c)) => \E u \in Threads : Task("erase", c) \in TasksOf(u)'
    BY <1>e DEF Pend, Task
  <2>2. ASSUME NEW c \in clients PROVE c \in Clients /\ conn'[c].writer = conn[c].writer
    <3>1. c \in Clients
      BY DEF DataOK
    <3> QED BY <3>1, <2>2 DEF PlainKeeps, UserQuiet
  <2> QED BY <2>1, <2>2 DEF PooledUsable, Pend, Task, PlainKeeps
<1>16. OwnAnswer'
  <2>1. \A r \in Requests : req[r].client # NoClient => req[r].client \in Clients
    BY DEF DataOK, ReqSet
  <2> QED BY <2>1 DEF OwnAnswer, PlainKeeps
<1> QED BY <1>1, <1>2, <1>3, <1>4, <1>5, <1>6, <1>7, <1>8, <1>9, <1>10, <1>11, <1>12, <1>13,
           <1>14, <1>15, <1>16

\* A step that leaves the data alone is plain.
LEMMA NothingChanged ==
  ASSUME PoolInv, UNCHANGED <<clients, allClients, conn, req>>
  PROVE  DataOK' /\ ConnShape' /\ \A t : PlainKeeps(t)
  BY DEF PoolInv, DataOK, ConnShape, PlainKeeps

\* What may be called at once by a task op of t that is not one of doReq's.
PlainTasks(t, op, tasks) ==
    /\ op \notin DoReqOps \cup {"initClient", "erase"} /\ tasks \in Seq(TaskSet)
    /\ \A k \in Range(tasks) :
         \/ k.op = "unlock" /\ ~k.ok
         \/ k.op = "finish" /\ k.of = Of(t) /\ ~k.ok /\ op = "insert" /\ ~Ok(t)
         \/ /\ k.op \in {"reqFinish", "reqDone"} /\ k.of = Of(t) /\ req[k.of].client # NoClient
            /\ op \in {"reqFinish", "reqDone"} /\ (k.ok => Ok(t) /\ op = "reqFinish")
            /\ k.op = "reqDone" => ~req[k.of].finished
    /\ \A k \in Rest(tasks) : k.op \in Behind \ {"finish"}
    /\ op = "insert" => \E k \in Range(tasks) : k.op = "finish"
    /\ op = "finish" => conn[Of(t)].finished

\* A step that changes nothing but the stack of t.
LEMMA PlainCall ==
  ASSUME PoolInv, UNCHANGED <<clients, allClients, conn, req>>,
         NEW t \in Threads, NEW op, NEW tasks, At(t, op), Calls(t, tasks), PlainTasks(t, op, tasks)
  PROVE  PoolInv'
<1>1. StackInv
  BY DEF PoolInv
<1>2. /\ Head(todo[t]) \in TasksOf(t) /\ TasksOf(t) = {Head(todo[t])} \cup Later(t)
      /\ Head(todo[t]) = Ending(op, Of(t), Ok(t)) /\ Ok(t) \in BOOLEAN /\ (Ok(t) => t = Loop)
      /\ Head(todo[t]).op = op
  BY <1>1, AtFacts
<1>2a. Head(todo[t]).of = Of(t) /\ Head(todo[t]).ok = Ok(t)
  BY DEF Of, Ok
<1>3. \A k \in Range(tasks) : /\ k.op \notin DoReqOps \cup {"initClient", "erase", "answered"}
                              /\ t \in Users => ~k.ok
  BY <1>2, NamesAssumption DEF DoReqOps, PlainTasks, Threads
<1>4. Paired(tasks)
  BY <1>3, PlainPaired
<1>5. tasks # <<>> => Head(tasks).op # "erase"
  BY <1>3, TailFacts DEF PlainTasks
<1>6. /\ StackInv' /\ Erasing' = Erasing \ {t}
      /\ \A u \in Threads \ {t} : /\ todo'[u] = todo[u] /\ TasksOf(u)' = TasksOf(u)
                                  /\ Later(u)' = Later(u)
      /\ TasksOf(t)' = Range(tasks) \cup Later(t)
      /\ Later(t)' \subseteq Rest(tasks) \cup Later(t)
      /\ \A r \in Requests : \A o \in DoReqOps : todo'[t] # DoStack(o, r)
      /\ \A k : Once(k) /\ k \notin Range(tasks) => Once(k)'
  BY <1>1, <1>3, <1>4, <1>5, StepFacts DEF Behind, PlainTasks
<1>7. Erasing' = Erasing
  BY <1>2, <1>6 DEF Erasing, At, PlainTasks
<1>8. OnlyTasks(t)
  BY <1>6 DEF OnlyTasks
<1>9. KeepsOnce
  BY <1>3, <1>6 DEF KeepsOnce
<1>10. CallsPlainly(t, Range(tasks))
  <2>1. TasksOf(t)' \subseteq Range(tasks) \cup TasksOf(t)
    BY <1>2, <1>6
  <2>2. \A k \in Later(t)' : k.op = "finish" => k \in Later(t)
    BY <1>6 DEF PlainTasks
  <2>3. ASSUME NEW k \in TasksOf(t) \ TasksOf(t)'
        PROVE  /\ k.op # "erase"
               /\ k.op \in {"insert", "finish"} =>
                    \/ conn[k.of].finished
                    \/ \E j \in TasksOf(t)' : j.op \in {"insert", "finish"} /\ j.of = k.of
    <3>1. k = Head(todo[t]) /\ k.op = op /\ k.of = Of(t)
      BY <1>2, <1>2a, <1>6, <2>3
    <3>2. op = "insert" => \E j \in TasksOf(t)' : j.op \in {"insert", "finish"} /\ j.of = k.of
      BY <1>6, <3>1 DEF PlainTasks
    <3> QED BY <3>1, <3>2 DEF PlainTasks
  <2>4. ASSUME NEW k \in Range(tasks)
        PROVE  Called(t, k)
    <3>1. CASE k.op = "finish" /\ k.of = Of(t) /\ ~k.ok /\ op = "insert" /\ ~Ok(t)
      <4>1. Ok(t) = FALSE
        BY <1>2, <3>1
      <4> QED BY <1>2, <3>1, <4>1 DEF Called
    <3>2. CASE k.op \in {"reqFinish", "reqDone"}
      BY <1>2, <1>2a, <2>4, <3>2 DEF ReqOps, PlainTasks, Called
    <3>3. \/ k.op = "unlock" /\ ~k.ok
          \/ k.op = "finish" /\ k.of = Of(t) /\ ~k.ok /\ op = "insert" /\ ~Ok(t)
          \/ k.op \in {"reqFinish", "reqDone"}
      BY <2>4 DEF PlainTasks
    <3> QED BY <3>1, <3>2, <3>3 DEF Called
  <2> QED BY <1>6, <2>1, <2>2, <2>3, <2>4 DEF CallsPlainly
<1> QED BY <1>6, <1>7, <1>8, <1>9, <1>10, PlainStep, NothingChanged

\* The tasks are what they are built from.
LEMMA TaskFacts ==
  /\ \A l \in Clients \cup {Pool} : Task("unlock", l) \in TaskSet
  /\ Task("initClient", Pool) \in TaskSet
  /\ \A c \in Clients : /\ Task("erase", c) \in TaskSet /\ Task("finish", c) \in TaskSet
                        /\ Task("answered", c) \in TaskSet
  /\ \A c \in Clients : \A b \in BOOLEAN : Ending("insert", c, b) \in TaskSet
  /\ \A r \in Requests : \A b \in BOOLEAN : /\ Ending("reqFinish", r, b) \in TaskSet
                                            /\ Ending("reqDone", r, b) \in TaskSet
  /\ \A op, of : Task(op, of).op = op /\ Task(op, of).of = of /\ ~Task(op, of).ok
  /\ \A op, of : \A b \in BOOLEAN : Ending(op, of, b).op = op /\ Ending(op, of, b).of = of /\ Ending(op, of, b).ok = b
  BY DEF TaskSet, Task, Ending

\* A lock is released.
LEMMA UnlockKeeps ==
  ASSUME PoolInv, NEW t \in Threads, unlock(t)
  PROVE  PoolInv'
<1>1. At(t, "unlock") /\ Calls(t, <<>>) /\ UNCHANGED <<clients, allClients, conn, req>>
  BY DEF unlock
<1>2. PlainTasks(t, "unlock", <<>>)
  BY NoTasks DEF PlainTasks, DoReqOps
<1> QED BY <1>1, <1>2, PlainCall

\* A request that failed gives back its client: Insert calls Finish.
LEMMA InsertFailsKeeps ==
  ASSUME PoolInv, NEW t \in Threads, Insert(t), ~Ok(t)
  PROVE  PoolInv'
<1>1. At(t, "insert") /\ Calls(t, <<Task("finish", Of(t)), Task("unlock", Pool)>>)
      /\ UNCHANGED <<clients, allClients, conn, req>>
  BY DEF Insert
<1>2. Of(t) \in Clients
  BY <1>1, AtFacts DEF PoolInv
<1>3. PICK a, b : a = Task("finish", Of(t)) /\ b = Task("unlock", Pool)
  OBVIOUS
<1>4. /\ a \in TaskSet /\ a.op = "finish" /\ a.of = Of(t) /\ ~a.ok
      /\ b \in TaskSet /\ b.op = "unlock" /\ ~b.ok
  BY <1>2, <1>3, TaskFacts
<1>5. <<a, b>> \in Seq(TaskSet) /\ Range(<<a, b>>) = {a, b} /\ Rest(<<a, b>>) = {b}
  BY <1>4, TwoTasks
<1>6. PlainTasks(t, "insert", <<a, b>>)
  BY <1>4, <1>5 DEF PlainTasks, DoReqOps, Behind
<1> QED BY <1>1, <1>3, <1>6, PlainCall

\* Finish returns at once on a connection that has finished.
LEMMA FinishAgainKeeps ==
  ASSUME PoolInv, NEW t \in Threads, finish(t), conn[Of(t)].finished
  PROVE  PoolInv'
<1>1. At(t, "finish") /\ Calls(t, <<>>) /\ UNCHANGED <<clients, allClients, conn, req>>
  BY DEF finish
<1>2. PlainTasks(t, "finish", <<>>)
  BY NoTasks DEF PlainTasks, DoReqOps
<1> QED BY <1>1, <1>2, PlainCall

\* BaseClient::Finish looks at finished_.
LEMMA ReqFinishKeeps ==
  ASSUME PoolInv, NEW t \in Threads, reqFinish(t)
  PROVE  PoolInv'
<1>1. At(t, "reqFinish") /\ UNCHANGED <<clients, allClients, conn, req>>
  BY DEF reqFinish
<1>2. CASE req[Of(t)].finished
  <2>1. Calls(t, <<>>)
    BY <1>2 DEF reqFinish
  <2>2. PlainTasks(t, "reqFinish", <<>>)
    BY NoTasks DEF PlainTasks, DoReqOps
  <2> QED BY <1>1, <2>1, <2>2, PlainCall
<1>3. CASE ~req[Of(t)].finished
  <2>1. Calls(t, <<Ending("reqDone", Of(t), Ok(t))>>)
    BY <1>3 DEF reqFinish
  <2>2. Of(t) \in Requests /\ Ok(t) \in BOOLEAN /\ Head(todo[t]) \in TasksOf(t)
        /\ Head(todo[t]).op = "reqFinish" /\ Head(todo[t]).of = Of(t)
    BY <1>1, AtFacts DEF PoolInv, ReqOps, Of
  <2>3. PICK a : a = Ending("reqDone", Of(t), Ok(t))
    OBVIOUS
  <2>4. a \in TaskSet /\ a.op = "reqDone" /\ a.of = Of(t) /\ a.ok = Ok(t)
    BY <2>2, <2>3, TaskFacts
  <2>5. req[Of(t)].client # NoClient
    BY <2>2 DEF PoolInv, Clientship
  <2>6. <<a>> \in Seq(TaskSet) /\ Range(<<a>>) = {a} /\ Rest(<<a>>) = {}
    BY <2>4, OneTask
  <2>7. PlainTasks(t, "reqFinish", <<a>>)
    BY <1>3, <2>4, <2>5, <2>6 DEF PlainTasks, DoReqOps
  <2> QED BY <1>1, <2>1, <2>3, <2>7, PlainCall
<1> QED BY <1>2, <1>3

\* doReq ends: the tasks it leaves are plain.
LEMMA PlainEnd ==
  ASSUME PoolInv, UNCHANGED <<clients, allClients, conn, req>>,
         NEW t \in Threads, NEW op \in DoReqOps \ {"get"}, At(t, op),
         NEW tasks \in Seq(TaskSet), todo' = [todo EXCEPT ![t] = tasks],
         \A k \in Range(tasks) : ~k.ok /\ (k.op = "unlock" \/ (k.op = "reqFinish" /\ k.of = Of(t))),
         \A k \in Rest(tasks) : k.op = "unlock"
  PROVE  PoolInv'
<1>1. StackInv
  BY DEF PoolInv
<1>2. /\ Head(todo[t]) \in TasksOf(t) /\ Head(todo[t]).op = op /\ Head(todo[t]).of = Of(t)
      /\ Of(t) \in Requests /\ todo[t] = DoStack(op, Of(t))
  BY <1>1, AtFacts DEF ReqOps, Of
<1>3. \A k \in Range(tasks) : /\ k.op \notin DoReqOps \cup {"initClient", "erase"}
                              /\ ~k.ok /\ k.op # "answered"
  BY DEF DoReqOps
<1>4. Paired(tasks) /\ (tasks # <<>> => Head(tasks).op # "erase")
  <2>1. Paired(tasks)
    BY <1>3, PlainPaired
  <2> QED BY <1>3, <2>1, TailFacts
<1>5. /\ StackInv' /\ Erasing' = Erasing
      /\ \A u \in Threads \ {t} : /\ todo'[u] = todo[u] /\ TasksOf(u)' = TasksOf(u)
                                  /\ Later(u)' = Later(u)
      /\ \A k \in TasksOf(t) : k.op \in DoReqOps /\ k.of = Of(t) /\ ~k.ok
      /\ TasksOf(t)' = Range(tasks)
      /\ Later(t)' \subseteq Rest(tasks)
      /\ \A r \in Requests : \A o \in DoReqOps : todo'[t] # DoStack(o, r)
      /\ \A k : Once(k) /\ k \notin Range(tasks) => Once(k)'
  BY <1>1, <1>3, <1>4, DoEndFacts DEF Behind
<1>6. OnlyTasks(t) /\ KeepsOnce
  BY <1>3, <1>5 DEF OnlyTasks, KeepsOnce
<1>7. Stage(op, Of(t))
  BY <1>2 DEF PoolInv, Stages
<1>8. CallsPlainly(t, Range(tasks))
  <2>1. \A k \in Later(t)' : k.op = "finish" => k \in Later(t)
    BY <1>5
  <2>2. \A k \in TasksOf(t) : k.op \notin {"erase", "insert", "finish"}
    BY <1>5 DEF DoReqOps
  <2>3. \A k \in Range(tasks) : Called(t, k)
    BY <1>2, <1>7 DEF Called, Stage, ReqOps
  <2> QED BY <1>5, <2>1, <2>2, <2>3 DEF CallsPlainly
<1> QED BY <1>5, <1>6, <1>8, PlainStep, NothingChanged

\* ReqPush fails, or goes on to the timer.
LEMMA ReqPushKeeps ==
  ASSUME PoolInv, NEW t \in Threads, reqPush(t)
  PROVE  PoolInv'
<1>1. At(t, "reqPush") /\ UNCHANGED <<clients, allClients, conn, req>>
  BY DEF reqPush
<1>2. StackInv /\ "reqPush" \in DoReqOps \ {"get", "asyncWrite"}
  BY DEF PoolInv, DoReqOps
<1>3. Of(t) \in Requests /\ todo[t] = DoStack("reqPush", Of(t))
  BY <1>1, <1>2, AtFacts DEF ReqOps
<1>4. CASE todo' = [todo EXCEPT ![t] = <<Ending("reqFinish", Of(t), FALSE)>>]
  <2>1. PICK a : a = Ending("reqFinish", Of(t), FALSE)
    OBVIOUS
  <2>2. a \in TaskSet /\ a.op = "reqFinish" /\ a.of = Of(t) /\ ~a.ok
    BY <1>3, <2>1 DEF TaskSet, Ending
  <2>3. <<a>> \in Seq(TaskSet) /\ Range(<<a>>) = {a} /\ Rest(<<a>>) = {}
    BY <2>2, OneTask
  <2>4. todo' = [todo EXCEPT ![t] = <<a>>]
    BY <1>4, <2>1
  <2> QED BY <1>1, <1>2, <2>2, <2>3, <2>4, PlainEnd
<1>5. CASE Calls(t, <<>>)
  <2>1. /\ StackInv' /\ Erasing' = Erasing
        /\ \A u \in Threads \ {t} : /\ todo'[u] = todo[u] /\ TasksOf(u)' = TasksOf(u)
                                    /\ Later(u)' = Later(u)
        /\ \A k \in TasksOf(t) : k.op \in DoReqOps /\ k.of = Of(t) /\ ~k.ok
        /\ TasksOf(t)' \subseteq TasksOf(t) /\ Later(t)' \subseteq Later(t)
        /\ NextOp["reqPush"] \in DoReqOps \ {"get"}
        /\ \A r \in Requests : \A o \in DoReqOps :
               todo'[t] = DoStack(o, r) => o = NextOp["reqPush"] /\ r = Of(t)
        /\ \A k : Once(k) => Once(k)'
    BY <1>1, <1>2, <1>5, DoNextFacts
  <2>2. OnlyTasks(t) /\ KeepsOnce
    BY <2>1 DEF OnlyTasks, KeepsOnce
  <2>3. CallsPlainly(t, {})
    <3>1. \A k \in TasksOf(t) : k.op \notin {"erase", "insert", "finish"}
      BY <2>1 DEF DoReqOps
    <3> QED BY <1>2, <1>3, <2>1, <3>1 DEF CallsPlainly
  <2> QED BY <1>1, <2>1, <2>2, <2>3, PlainStep, NothingChanged
<1> QED BY <1>4, <1>5 DEF reqPush

\* AsyncWrite on a connection that has finished ends the request.
LEMMA AsyncWriteFailsKeeps ==
  ASSUME PoolInv, NEW t \in Threads, AsyncWrite(t), conn[req[Of(t)].client].finished
  PROVE  PoolInv'
<1> DEFINE r == Of(t)
           c == req[Of(t)].client
<1>1. /\ At(t, "asyncWrite") /\ UNCHANGED <<clients, allClients, conn, req>>
      /\ Calls(t, <<Ending("reqFinish", Of(t), FALSE), Task("unlock", req[Of(t)].client)>>)
  BY DEF AsyncWrite
<1>2. StackInv /\ "asyncWrite" \in DoReqOps \ {"get"}
  BY DEF PoolInv, DoReqOps
<1>3. Of(t) \in Requests /\ todo[t] = DoStack("asyncWrite", Of(t))
  BY <1>1, <1>2, AtFacts DEF ReqOps
<1>4. req[Of(t)].client \in Clients
  BY <1>2, <1>3 DEF PoolInv, Stages, Stage, DataOK, ReqSet
<1>5. PICK a, b : a = Ending("reqFinish", Of(t), FALSE) /\ b = Task("unlock", req[Of(t)].client)
  OBVIOUS
<1>6. /\ a \in TaskSet /\ a.op = "reqFinish" /\ a.of = Of(t) /\ ~a.ok
      /\ b \in TaskSet /\ b.op = "unlock" /\ ~b.ok
  <2>1. a \in TaskSet /\ a.op = "reqFinish" /\ a.of = Of(t) /\ ~a.ok
    BY <1>3, <1>5 DEF TaskSet, Ending
  <2>2. b \in TaskSet /\ b.op = "unlock" /\ ~b.ok
    BY <1>4, <1>5, TaskFacts
  <2> QED BY <2>1, <2>2
<1>7. <<a, b>> \in Seq(TaskSet) /\ Range(<<a, b>>) = {a, b} /\ Rest(<<a, b>>) = {b}
  BY <1>6, TwoTasks
<1>8. todo' = [todo EXCEPT ![t] = <<a, b>>]
  <2>1. Tail(todo[t]) = <<>>
    BY <1>2, <1>3, DoStackFacts
  <2>2. <<a, b>> \o <<>> = <<a, b>>
    BY <1>7
  <2> QED BY <1>1, <1>5, <2>1, <2>2 DEF Calls
<1> QED BY <1>1, <1>2, <1>6, <1>7, <1>8, PlainEnd

\* The tasks that an event of the loop, or a read handler, may call.
LoopCalled(k) ==
    \/ k.op = "unlock" /\ ~k.ok
    \/ k.op = "answered" /\ ~k.ok /\ conn'[k.of].event /\ conn'[k.of].reader # NoRequest
    \/ k.op = "finish" /\ ~k.ok /\ k.of \in Clients /\ conn[k.of].event
    \/ /\ k.op = "reqFinish" /\ req[k.of].client # NoClient
       /\ k.ok => LET c == req[k.of].client IN
                  c \in Clients /\ conn'[c].event /\ conn'[c].reader = k.of

\* What such a step may change of the requests and of the connections.
LoopKeeps ==
    /\ \A r \in Requests :
         /\ req'[r].client = req[r].client /\ req'[r].finished = req[r].finished
         /\ req'[r].answers = req[r].answers /\ req'[r].begun = req[r].begun
         /\ req'[r] = req[r] \/ req[r].client # NoClient
         /\ req'[r].timer = "on" => req[r].timer = "on"
         /\ req[r].early => req'[r].early
         /\ \/ req'[r].got \subseteq req[r].got \cup {r}
            \/ req[r].client # NoClient /\ conn[req[r].client].cut
    /\ \A c \in Clients :
         /\ conn'[c].phase = conn[c].phase /\ conn'[c].finished = conn[c].finished
         /\ conn'[c].event = conn[c].event
         /\ conn'[c].cut = conn[c].cut
         /\ {conn'[c].reader, conn'[c].writer} \subseteq {conn[c].reader, conn[c].writer, NoRequest}
         /\ conn'[c].reader = conn[c].reader \/ TasksOf(Loop) = {}

\* It loses no task that the invariant needs.
LoopCalls(new) ==
    /\ TasksOf(Loop)' \subseteq new \cup TasksOf(Loop)
    /\ \A k \in TasksOf(Loop) \ TasksOf(Loop)' : k.op \notin {"erase", "insert", "finish"}
    /\ \A c \in Clients : Task("finish", c) \in Later(Loop)' =>
          Task("finish", c) \in Later(Loop) \/ HeldBy(c) # {}
    /\ \A k \in new : LoopCalled(k)
    /\ \A k \in new : k.op = "reqFinish" => req'[k.of].early \/ \A u \in Users : ~Works(u, k.of)

\* A step of the loop that changes the connections and requests as above.
LEMMA LoopStep ==
  ASSUME PoolInv, UNCHANGED <<clients, allClients>>, LoopKeeps,
         NEW new, LoopCalls(new), OnlyTasks(Loop), KeepsOnce,
         StackInv', Erasing' = Erasing, DataOK', ConnShape'
  PROVE  PoolInv'
<1> USE DEF PoolInv
<1>0. Loop \in Threads /\ Users \subseteq Threads /\ Loop \notin Users
  BY NamesAssumption DEF Threads
<1>a. \A u \in Threads : \A k \in TasksOf(u)' : k \in TasksOf(u) \/ (u = Loop /\ k \in new)
  BY DEF OnlyTasks, LoopCalls
<1>b. \A u \in Users : TasksOf(u)' = TasksOf(u) /\ Later(u)' = Later(u) /\ todo'[u] = todo[u]
  BY <1>0 DEF OnlyTasks
<1>c. \A c \in Clients, u \in Users : Concerned(u, c)' => Concerned(u, c)
  <2>1. ASSUME NEW u \in Users, NEW k \in TasksOf(u), k.op \in ReqOps PROVE k.of \in Requests
    BY <1>0, <2>1, StackBefore DEF StackInv, TaskSet, ReqOps, DoReqOps
  <2> QED BY <1>b, <2>1 DEF Concerned, LoopKeeps
<1>d. \A c \in Clients : Returning(c) => Returning(c)'
  BY DEF Returning, LoopCalls
<1>e. \A c \in Clients : Pend(Task("erase", c))' <=> Pend(Task("erase", c))
  <2>1. ASSUME NEW c \in Clients, NEW u \in Threads
        PROVE  Task("erase", c) \in TasksOf(u)' <=> Task("erase", c) \in TasksOf(u)
    <3>0. Task("erase", c).op = "erase"
      BY DEF Task
    <3>1. PICK k : k = Task("erase", c) /\ k.op = "erase"
      BY <3>0
    <3>2. k \in TasksOf(u)' => k \in TasksOf(u)
      BY <1>a, <3>1 DEF LoopCalls, LoopCalled
    <3>3. k \in TasksOf(u) => k \in TasksOf(u)'
      BY <3>1 DEF OnlyTasks, LoopCalls
    <3> QED BY <3>1, <3>2, <3>3
  <2> QED BY <2>1 DEF Pend, Task
<1>f. \A c \in Clients : HeldBy(c)' = HeldBy(c)
  BY DEF HeldBy, LoopKeeps
<1>g. ASSUME NEW u \in Threads, NEW k \in TasksOf(u)', k.op = "finish", k \notin TasksOf(u)
      PROVE  k.of \in Clients /\ conn[k.of].event
  BY <1>a, <1>g DEF LoopCalls, LoopCalled
<1>h. \A c \in Clients : conn[c].event => conn[c].phase = "up" /\ ~conn[c].finished
  BY DEF ConnShape, ConnOK
<1>i. \A c \in Clients : Broken(c)' <=> Broken(c)
  BY DEF Broken, LoopKeeps
<1>1. DataOK'
  OBVIOUS
<1>2. ErasedOnce'
  <2>1. ASSUME NEW c \in Clients PROVE Once(Task("erase", c))'
    <3>1. Once(Task("erase", c)) /\ Task("erase", c).op = "erase"
      BY DEF Task, Ending, ErasedOnce
    <3>2. PICK k : k = Task("erase", c)
      OBVIOUS
    <3>3. Once(k)'
      BY <3>1, <3>2 DEF KeepsOnce
    <3> QED BY <3>2, <3>3 DEF Task
  <2> QED BY <2>1, <1>e, <1>i DEF ErasedOnce, LoopKeeps
<1>3. FinishHeld'
  <2>1. ASSUME NEW c \in Clients, NEW u \in Threads, Task("finish", c) \in TasksOf(u)',
               Pend(Task("erase", c)) \/ u # Loop
        PROVE  Task("finish", c) \in TasksOf(u)
    <3>1. CASE u # Loop
      BY <2>1, <3>1 DEF OnlyTasks
    <3>2. CASE Pend(Task("erase", c))
      <4>1. ~conn[c].event
        BY <1>h, <3>2 DEF ErasedOnce, Broken
      <4>2. Task("finish", c).op = "finish" /\ Task("finish", c).of = c
        BY DEF Task
      <4> QED BY <1>g, <2>1, <4>1, <4>2
    <3> QED BY <2>1, <3>1, <3>2
  <2>2. ASSUME NEW c \in Clients, Pend(Task("erase", c))', Pend(Task("finish", c))', HeldBy(c)' = {}
        PROVE  FALSE
    <3>1. Pend(Task("erase", c)) /\ HeldBy(c) = {}
      BY <1>e, <1>f, <2>2
    <3>2. Pend(Task("finish", c))
      BY <2>1, <2>2, <3>1 DEF Pend, Task
    <3> QED BY <3>1, <3>2 DEF FinishHeld
  <2>3. ASSUME NEW c \in Clients, HeldBy(c)' = {}, NEW u \in Threads, Task("finish", c) \in TasksOf(u)'
        PROVE  u = Loop /\ Task("finish", c) \notin Later(u)'
    <3>1. u = Loop
      BY <1>f, <2>1, <2>3 DEF FinishHeld
    <3>2. Task("finish", c) \notin Later(Loop)
      BY <1>0, <1>f, <2>3, StackBefore DEF FinishHeld, StackInv
    <3> QED BY <1>f, <2>3, <3>1, <3>2 DEF LoopCalls
  <2> QED BY <2>2, <2>3 DEF FinishHeld, Task
<1>4. Counted'
  BY DEF Counted
<1>5. ConnShape'
  OBVIOUS
<1>6. Held'
  <2>1. ASSUME NEW c \in Clients, NEW u \in Threads, NEW k \in TasksOf(u)'
        PROVE  /\ k.op \in {"finish", "insert"} /\ k.of = c => conn[c].phase = "up"
               /\ k = Ending("insert", c, FALSE) => HeldBy(c) # {}
               /\ k = Task("answered", c) => conn'[c].event /\ conn'[c].reader # NoRequest
    <3>1. CASE k \in TasksOf(u)
      <4>1. k = Task("answered", c) => u = Loop
        BY <1>0, <3>1 DEF StackInv, Task, Threads
      <4>2. TasksOf(u) # {}
        BY <3>1
      <4>3. /\ k.op \in {"finish", "insert"} /\ k.of = c => conn[c].phase = "up"
            /\ k = Ending("insert", c, FALSE) => HeldBy(c) # {}
            /\ k = Task("answered", c) => conn[c].event /\ conn[c].reader # NoRequest
        BY <3>1 DEF Held
      <4> QED BY <4>1, <4>2, <4>3 DEF LoopKeeps
    <3>2. CASE k \notin TasksOf(u)
      <4>1. LoopCalled(k)
        BY <1>a, <3>2 DEF LoopCalls
      <4>2. k.op # "insert" /\ (k.op = "finish" => conn[k.of].event /\ k.of \in Clients)
        BY <4>1 DEF LoopCalled
      <4>3. k = Task("answered", c) => conn'[c].event /\ conn'[c].reader # NoRequest
        BY <4>1 DEF LoopCalled, Task
      <4>4. k = Ending("insert", c, FALSE) => k.op = "insert"
        BY DEF Ending
      <4> QED BY <1>h, <4>2, <4>3, <4>4
    <3> QED BY <3>1, <3>2
  <2> QED BY <1>f, <2>1 DEF Held, Ending, Task, LoopKeeps
<1>7. Attached'
  <2>1. ASSUME NEW c \in Clients, NEW x \in Requests, conn'[c].event, x \in {conn'[c].writer, conn'[c].reader}
        PROVE  req[x].client = c /\ (req[x].finished => Returning(c))
    <3>1. conn[c].event /\ x \in {conn[c].writer, conn[c].reader}
      BY <2>1, NamesAssumption DEF LoopKeeps
    <3> QED BY <3>1 DEF Attached
  <2> QED BY <1>d, <2>1 DEF Attached, LoopKeeps
<1>8. UserQuiet'
  BY <1>c DEF UserQuiet, LoopKeeps
<1>9. Returned'
  <2>1. ASSUME NEW k \in TasksOf(Loop)', k.ok,
               NEW c, c = IF k.op = "insert" THEN k.of ELSE req[k.of].client
        PROVE  /\ c \in Clients
               /\ conn'[c].event
               /\ k.op # "insert" => conn'[c].reader = k.of
               /\ k.op = "reqDone" => ~req[k.of].finished
               /\ k.op = "insert" => c \notin clients /\ (\A u \in Users : ~Concerned(u, c)')
                                      /\ \A r \in HeldBy(c)' : req[r].finished
    <3>1. CASE k \in TasksOf(Loop)
      <4>1. /\ c \in Clients /\ conn[c].event
            /\ k.op # "insert" => conn[c].reader = k.of
            /\ k.op = "reqDone" => ~req[k.of].finished
            /\ k.op = "insert" => c \notin clients /\ (\A u \in Users : ~Concerned(u, c))
                                      /\ \A r \in HeldBy(c) : req[r].finished
        BY <2>1, <3>1 DEF Returned
      <4> QED BY <1>c, <1>f, <3>1, <4>1 DEF LoopKeeps
    <3>2. CASE k \notin TasksOf(Loop)
      <4>1. LoopCalled(k) /\ k.op = "reqFinish"
        BY <1>0, <1>a, <2>1, <3>2 DEF LoopCalls, LoopCalled
      <4> QED BY <2>1, <4>1 DEF LoopCalled
    <3> QED BY <3>1, <3>2
  <2>2. ASSUME NEW k \in TasksOf(Loop)', k.ok PROVE k.op = "insert" \/ k.of \in Requests
    <3>1. todo'[Loop] \in Seq(TaskSet)
      BY <1>0 DEF StackInv, TodoOK
    <3>2. k \in TaskSet
      BY <2>2, <3>1 DEF TasksOf
    <3> QED BY <2>2, <3>2 DEF TaskSet
  <2>3. \A r \in Requests : req'[r].client = req[r].client /\ req'[r].finished = req[r].finished
    BY DEF LoopKeeps
  <2>4. \A c : HeldBy(c)' \subseteq Requests
    BY DEF HeldBy
  <2> QED BY <2>1, <2>2, <2>3, <2>4 DEF Returned
<1>10. Begun'
  <2>1. ASSUME NEW r \in Requests, ~req'[r].begun PROVE req'[r] = NewReq
    <3>1. req[r] = NewReq
      BY <2>1 DEF Begun, LoopKeeps
    <3>2. req[r].client = NoClient
      BY <3>1 DEF NewReq
    <3> QED BY <3>1, <3>2 DEF LoopKeeps
  <2>2. ASSUME NEW r \in Requests, ~req'[r].begun, NEW u \in Threads PROVE ~Works(u, r)'
    <3>1. req[r] = NewReq /\ ~Works(u, r)
      BY <2>2 DEF Begun, LoopKeeps
    <3>2. req[r].client = NoClient
      BY <3>1 DEF NewReq
    <3> QED BY <1>a, <3>1, <3>2 DEF Works, LoopCalls, LoopCalled, ReqOps, DoReqOps
  <2> QED BY <2>1, <2>2 DEF Begun, NewReq
<1>11. Clientship'
  <2>1. ASSUME NEW r \in Requests, NEW u \in Threads, NEW k \in TasksOf(u)',
               k.op \in {"reqFinish", "reqDone"}, k.of = r
        PROVE  req[r].client # NoClient
    BY <1>a, <2>1 DEF Clientship, LoopCalls, LoopCalled
  <2> QED BY <2>1 DEF Clientship, LoopKeeps
<1>12. Stages'
  <2>1. ASSUME NEW r \in Requests, NEW o \in DoReqOps, NEW u \in Threads, todo'[u] = DoStack(o, r)
        PROVE  Stage(o, r)
    <3>1. u \in Users
      <4>1. Head(todo'[u]) = Task(o, r) /\ todo'[u] # <<>> /\ Task(o, r).op \in DoReqOps
        BY <2>1, DoStackFacts DEF Task
      <4>2. Task(o, r) \in TasksOf(u)'
        BY <4>1, StackBefore DEF StackInv, TodoOK, TasksOf
      <4> QED BY <4>1, <4>2 DEF StackInv
    <3> QED BY <1>b, <2>1, <3>1, <1>0 DEF Stages
  <2>2. \A r \in Requests, o \in DoReqOps : Stage(o, r) => Stage(o, r)'
    BY <1>d DEF Stage, DataOK, ReqSet, LoopKeeps
  <2> QED BY <2>1, <2>2 DEF Stages, DoStack
<1>13. Owned'
  BY <1>f DEF Owned, LoopKeeps, HeldBy
<1>14. PooledUsable'
  <2>1. \A c \in Clients : Pend(Task("erase", c)) => \E u \in Threads : Task("erase", c) \in TasksOf(u)'
    BY <1>e DEF Pend, Task
  <2> QED BY <2>1 DEF PooledUsable, Pend, Task, DataOK, LoopKeeps
<1>15. OwnAnswer'
  <2>1. \A r \in Requests : req[r].client # NoClient => req[r].client \in Clients
    BY DEF DataOK, ReqSet
  <2> QED BY <2>1 DEF OwnAnswer, LoopKeeps
<1>16. Workers'
  <2>1. ASSUME NEW u \in Threads, NEW r \in Requests, Works(u, r)'
        PROVE  Works(u, r) \/ (u = Loop /\ (req'[r].early \/ \A v \in Users : ~Works(v, r)))
    BY <1>a, <2>1 DEF Works, LoopCalls, LoopCalled, ReqOps, DoReqOps
  <2>2. ASSUME NEW u \in Threads, NEW k \in TasksOf(u)', k.op = "reqDone" PROVE k \in TasksOf(u)
    BY <1>a, <2>2 DEF LoopCalls, LoopCalled
  <2>3. \A u \in Users, r \in Requests : Works(u, r)' => Works(u, r)
    BY <1>b DEF Works
  <2>4. ASSUME NEW r \in Requests, ~req'[r].early, NEW t \in Threads, NEW u \in Threads,
               Works(t, r)', Works(u, r)'
        PROVE  t = u
    BY <1>0, <2>1, <2>3, <2>4 DEF Workers, LoopKeeps, Threads
  <2> QED BY <2>2, <2>3, <2>4 DEF Workers, LoopKeeps
<1> QED BY <1>1, <1>2, <1>3, <1>4, <1>5, <1>6, <1>7, <1>8, <1>9, <1>10, <1>11, <1>12, <1>13, <1>14,
           <1>15, <1>16

\* The tasks an event of the idle loop starts.
EventTasks(tasks) ==
    /\ tasks \in Seq(TaskSet) /\ Starts(Loop, tasks)
    /\ \A k \in Range(tasks) : LoopCalled(k) /\ (k.op = "reqFinish" => ~k.ok)
    /\ \A k \in Range(tasks) : k.op = "reqFinish" => req'[k.of].early \/ \A u \in Users : ~Works(u, k.of)
    /\ \A k \in Rest(tasks) : k.op = "unlock" \/ (k.op = "finish" /\ HeldBy(k.of) # {})

\* ... and one that an event starts.
LEMMA EventStep ==
  ASSUME PoolInv, UNCHANGED <<clients, allClients>>, LoopKeeps,
         NEW tasks, EventTasks(tasks), DataOK', ConnShape'
  PROVE  PoolInv'
<1>1. StackInv /\ Loop \in Threads /\ Loop \notin Users
  BY NamesAssumption DEF PoolInv, Threads
<1>2. \A k \in Range(tasks) : k.op \notin DoReqOps \cup {"initClient", "erase"}
  BY DEF EventTasks, LoopCalled, DoReqOps
<1>3. Paired(tasks) /\ (tasks # <<>> => Head(tasks).op # "erase")
  <2>1. Paired(tasks)
    BY <1>2, PlainPaired
  <2> QED BY <1>2, <2>1, TailFacts DEF EventTasks
<1>4. /\ StackInv' /\ Erasing' = Erasing
      /\ \A u \in Threads \ {Loop} : /\ todo'[u] = todo[u] /\ TasksOf(u)' = TasksOf(u)
                                     /\ Later(u)' = Later(u)
      /\ TasksOf(Loop) = {} /\ TasksOf(Loop)' = Range(tasks)
      /\ Later(Loop)' \subseteq Rest(tasks)
      /\ \A k : Once(k) /\ k \notin Range(tasks) => Once(k)'
  BY <1>1, <1>2, <1>3, StartFacts DEF EventTasks, Behind
<1>5. OnlyTasks(Loop) /\ KeepsOnce
  BY <1>2, <1>4 DEF OnlyTasks, KeepsOnce
<1>6. LoopCalls(Range(tasks))
  <2>1. ASSUME NEW c \in Clients, Task("finish", c) \in Later(Loop)' PROVE HeldBy(c) # {}
    <3>1. Task("finish", c).op = "finish" /\ Task("finish", c).of = c
      BY DEF Task
    <3> QED BY <1>4, <2>1, <3>1 DEF EventTasks
  <2> QED BY <1>4, <2>1 DEF LoopCalls, EventTasks
<1> QED BY <1>4, <1>5, <1>6, LoopStep

\* The request on whose behalf a connection writes or reads is the loop's alone.
LEMMA AttachedAlone ==
  ASSUME PoolInv, NEW c \in Clients, conn[c].event,
         NEW r \in Requests, r \in {conn[c].writer, conn[c].reader}
  PROVE  req[r].client = c /\ r \in HeldBy(c) /\ \A u \in Users : ~Works(u, r)
<1>1. req[r].client = c
  BY DEF PoolInv, Attached
<1>2. conn[c].phase = "up" /\ ~conn[c].finished
  BY DEF PoolInv, ConnShape, ConnOK
<1>3. ASSUME NEW u \in Users, Works(u, r) PROVE FALSE
  <2>1. Concerned(u, c)
    BY <1>1, <1>3 DEF Works, Concerned
  <2>2. conn[c].reader = NoRequest /\ conn[c].writer = NoRequest
    BY <1>2, <2>1 DEF PoolInv, UserQuiet
  <2> QED BY <2>2, NamesAssumption
<1> QED BY <1>1, <1>3 DEF HeldBy

-----------------------------------------------------------------------------
(* The events of the loop. *)

\* A change of one connection.
ConnBecomes(c, k) == conn' = [conn EXCEPT ![c] = k]

\* The other connections stay as they are.
LEMMA ConnFacts ==
  ASSUME DataOK, NEW c \in Clients, NEW k \in ConnSet, ConnBecomes(c, k),
         UNCHANGED <<clients, allClients>>, req' \in [Requests -> ReqSet]
  PROVE  DataOK' /\ conn'[c] = k /\ \A d \in Clients \ {c} : conn'[d] = conn[d]
  BY DEF DataOK, ConnBecomes

\* The loop's lambda of AsyncWrite only marks the write.
LEMMA ArmKeeps ==
  ASSUME PoolInv, NEW c \in Clients, arm(c)
  PROVE  PoolInv'
<1>1. /\ DataOK /\ ConnShape /\ conn[c] \in ConnSet /\ TodoOK /\ Loop \in Threads
  BY DEF PoolInv, DataOK, StackInv, Threads
<1>2. PICK k : k = [conn[c] EXCEPT !.armed = TRUE]
  OBVIOUS
<1>3. /\ k \in ConnSet /\ k.phase = conn[c].phase /\ k.finished = conn[c].finished
      /\ k.event = conn[c].event /\ k.cut = conn[c].cut /\ k.reader = conn[c].reader
      /\ k.writer = conn[c].writer /\ k.unread = conn[c].unread /\ k.coming = conn[c].coming
      /\ k.armed
  BY <1>1, <1>2 DEF ConnSet
<1>4. ConnBecomes(c, k) /\ UNCHANGED <<clients, allClients, req, todo>> /\ conn[c].writer # NoRequest
  BY <1>2 DEF arm, ConnBecomes
<1>5. DataOK' /\ conn'[c] = k /\ \A d \in Clients \ {c} : conn'[d] = conn[d]
  BY <1>1, <1>3, <1>4, ConnFacts DEF DataOK
<1>6. ConnShape'
  BY <1>1, <1>3, <1>4, <1>5 DEF ConnShape, ConnOK
<1>7. LoopKeeps
  BY <1>3, <1>4, <1>5 DEF LoopKeeps
<1>8. EventTasks(<<>>)
  <2>1. Starts(Loop, <<>>)
    BY <1>1, <1>4 DEF arm, Starts, TodoOK
  <2> QED BY <2>1, NoTasks DEF EventTasks
<1> QED BY <1>4, <1>5, <1>6, <1>7, <1>8, EventStep

\* The write handler of a request turns it into the reader.
LEMMA WrittenKeeps ==
  ASSUME PoolInv, NEW c \in Clients, written(c)
  PROVE  PoolInv'
<1> DEFINE r == conn[c].writer
<1>1. /\ DataOK /\ ConnShape /\ conn[c] \in ConnSet /\ ConnOK(conn[c]) /\ Loop \in Threads
  BY DEF PoolInv, DataOK, Threads, ConnShape
<1>2. /\ conn[c].event /\ conn[c].armed /\ UNCHANGED <<clients, allClients, req>>
      /\ Starts(Loop, IF conn[c].unread = {} THEN <<>> ELSE <<Task("answered", c), Task("unlock", c)>>)
  BY DEF written
<1>3. PICK parts \in 1..(MaxParts - Len(conn[c].coming)) :
         conn' = [conn EXCEPT ![c].writer = NoRequest, ![c].armed = FALSE, ![c].reader = r,
                              ![c].coming = @ \o [i \in 1..parts |-> r]]
  BY DEF written
<1>4. r \in Requests /\ conn[c].reader = NoRequest
  BY <1>1, <1>2 DEF ConnOK, ConnSet
<1>5. PICK new : new = [i \in 1..parts |-> r]
  OBVIOUS
<1>6. new \in Seq(Requests) /\ Range(new) \subseteq {r}
  BY <1>4, <1>5 DEF Range
<1>7. conn[c].coming \in Seq(Requests)
  BY <1>1 DEF ConnSet
<1>8. PICK all \in Seq(Requests) : /\ all = conn[c].coming \o new
                                   /\ Range(all) = Range(conn[c].coming) \cup Range(new)
  BY <1>6, <1>7, ConcatFacts
<1>9. PICK k : k = [conn[c] EXCEPT !.writer = NoRequest, !.armed = FALSE, !.reader = r, !.coming = all]
  OBVIOUS
<1>10. /\ k \in ConnSet /\ k.phase = conn[c].phase /\ k.finished = conn[c].finished
       /\ k.event = conn[c].event /\ k.cut = conn[c].cut /\ k.reader = r
       /\ k.writer = NoRequest /\ k.unread = conn[c].unread /\ k.coming = all /\ ~k.armed
  BY <1>1, <1>4, <1>9 DEF ConnSet
<1>11. ConnBecomes(c, k)
  BY <1>1, <1>3, <1>5, <1>8, <1>9 DEF ConnBecomes, DataOK
<1>12. DataOK' /\ conn'[c] = k /\ \A d \in Clients \ {c} : conn'[d] = conn[d]
  BY <1>1, <1>2, <1>10, <1>11, ConnFacts DEF DataOK
<1>13. ConnShape'
  <2>1. ConnOK(k)
    <3>1. k.cut \/ k.unread \cup Range(k.coming) \subseteq {k.reader}
      <4>1. k.cut \/ conn[c].unread \cup Range(conn[c].coming) \subseteq {NoRequest}
        BY <1>1, <1>4, <1>10 DEF ConnOK
      <4>2. conn[c].unread \subseteq Requests /\ Range(conn[c].coming) \subseteq Requests
        BY <1>1, <1>7 DEF ConnSet, Range
      <4> QED BY <1>6, <1>8, <1>10, <4>1, <4>2, NamesAssumption
    <3> QED BY <1>1, <1>2, <1>10, <3>1 DEF ConnOK
  <2> QED BY <1>1, <1>12, <2>1 DEF ConnShape
<1>14. LoopKeeps
  <2>1. TasksOf(Loop) = {}
    BY <1>1, <1>2 DEF Starts, TasksOf
  <2> QED BY <1>2, <1>10, <1>12, <2>1 DEF LoopKeeps
<1>15. CASE conn[c].unread = {}
  <2>1. EventTasks(<<>>)
    BY <1>2, <1>15, NoTasks DEF EventTasks
  <2> QED BY <1>2, <1>12, <1>13, <1>14, <2>1, EventStep
<1>16. CASE conn[c].unread # {}
  <2>1. EventTasks(<<Task("answered", c), Task("unlock", c)>>)
    <3>1. PICK a, b : a = Task("answered", c) /\ b = Task("unlock", c)
      OBVIOUS
    <3>2. /\ a \in TaskSet /\ a.op = "answered" /\ a.of = c /\ ~a.ok
          /\ b \in TaskSet /\ b.op = "unlock" /\ ~b.ok
      BY <3>1, TaskFacts
    <3>3. <<a, b>> \in Seq(TaskSet) /\ Range(<<a, b>>) = {a, b} /\ Rest(<<a, b>>) = {b}
      BY <3>2, TwoTasks
    <3>4. LoopCalled(a) /\ LoopCalled(b)
      BY <1>2, <1>4, <1>10, <1>12, <3>2, NamesAssumption DEF LoopCalled
    <3>5. EventTasks(<<a, b>>)
      BY <1>2, <1>16, <3>1, <3>2, <3>3, <3>4 DEF EventTasks
    <3> QED BY <3>1, <3>5
  <2> QED BY <1>2, <1>12, <1>13, <1>14, <2>1, EventStep
<1> QED BY <1>15, <1>16

\* The task that ends a request with an error.
LEMMA FailedFinish ==
  ASSUME NEW r \in Requests, NEW a, a = Ending("reqFinish", r, FALSE)
  PROVE  a \in TaskSet /\ a.op = "reqFinish" /\ a.of = r /\ ~a.ok
  BY DEF TaskSet, Ending

\* A write that fails ends its request and then the connection.
LEMMA WriteFailsKeeps ==
  ASSUME PoolInv, NEW c \in Clients, writeFails(c)
  PROVE  PoolInv'
<1> DEFINE r == conn[c].writer
<1>1. /\ DataOK /\ ConnShape /\ conn[c] \in ConnSet /\ ConnOK(conn[c])
  BY DEF PoolInv, DataOK, ConnShape
<1>2. /\ conn[c].event /\ conn[c].armed /\ UNCHANGED <<clients, allClients, req>>
      /\ Starts(Loop, <<Ending("reqFinish", r, FALSE), Task("finish", c), Task("unlock", c)>>)
  BY DEF writeFails
<1>3. r \in Requests /\ conn[c].reader = NoRequest
  BY <1>1, <1>2 DEF ConnOK, ConnSet
<1>4. PICK k : k = [conn[c] EXCEPT !.writer = NoRequest, !.armed = FALSE]
  OBVIOUS
<1>5. /\ k \in ConnSet /\ k.phase = conn[c].phase /\ k.finished = conn[c].finished
      /\ k.event = conn[c].event /\ k.cut = conn[c].cut /\ k.reader = conn[c].reader
      /\ k.writer = NoRequest /\ k.unread = conn[c].unread /\ k.coming = conn[c].coming /\ ~k.armed
  BY <1>1, <1>4 DEF ConnSet
<1>6. ConnBecomes(c, k)
  BY <1>1, <1>4 DEF writeFails, ConnBecomes, DataOK
<1>7. DataOK' /\ conn'[c] = k /\ \A d \in Clients \ {c} : conn'[d] = conn[d]
  BY <1>1, <1>2, <1>5, <1>6, ConnFacts DEF DataOK
<1>8. ConnShape'
  BY <1>1, <1>5, <1>7 DEF ConnShape, ConnOK
<1>9. LoopKeeps
  BY <1>2, <1>5, <1>7 DEF LoopKeeps
<1>10. req[r].client = c /\ r \in HeldBy(c) /\ \A u \in Users : ~Works(u, r)
  BY <1>2, <1>3, AttachedAlone
<1>11. PICK a, b, d : a = Ending("reqFinish", r, FALSE) /\ b = Task("finish", c) /\ d = Task("unlock", c)
  OBVIOUS
<1>12. a \in TaskSet /\ a.op = "reqFinish" /\ a.of = r /\ ~a.ok
  BY <1>3, <1>11, FailedFinish
<1>13. /\ b \in TaskSet /\ b.op = "finish" /\ b.of = c /\ ~b.ok
       /\ d \in TaskSet /\ d.op = "unlock" /\ ~d.ok
  BY <1>11, TaskFacts
<1>13a. PICK s : s = <<a, b, d>>
  OBVIOUS
<1>14. s \in Seq(TaskSet) /\ Range(s) = {a, b, d} /\ Rest(s) = {b, d}
  BY <1>12, <1>13, <1>13a, ThreeTasks
<1>15. LoopCalled(a) /\ LoopCalled(b) /\ LoopCalled(d)
  BY <1>2, <1>10, <1>12, <1>13, NamesAssumption DEF LoopCalled
<1>16. Starts(Loop, s)
  BY <1>2, <1>11, <1>13a
<1>17. EventTasks(s)
  BY <1>10, <1>12, <1>13, <1>14, <1>15, <1>16 DEF EventTasks
<1> QED BY <1>2, <1>7, <1>8, <1>9, <1>17, EventStep

\* A part of an answer arrives, and goes to the reader when there is one.
LEMMA ReceiveKeeps ==
  ASSUME PoolInv, NEW c \in Clients, receive(c)
  PROVE  PoolInv'
<1> DEFINE q == conn[c].coming
<1>1. /\ DataOK /\ ConnShape /\ conn[c] \in ConnSet /\ ConnOK(conn[c])
  BY DEF PoolInv, DataOK, ConnShape
<1>2. /\ conn[c].event /\ q # <<>> /\ UNCHANGED <<clients, allClients, req>>
      /\ Starts(Loop, IF conn[c].reader = NoRequest THEN <<>>
                      ELSE <<Task("answered", c), Task("unlock", c)>>)
  BY DEF receive
<1>3. q \in Seq(Requests)
  BY <1>1 DEF ConnSet
<1>4. PICK h \in Requests, w \in Seq(Requests) : h = Head(q) /\ w = Tail(q) /\ Range(q) = {h} \cup Range(w)
  <2>1. Head(q) \in Requests /\ Tail(q) \in Seq(Requests) /\ Range(q) = {Head(q)} \cup Range(Tail(q))
    BY <1>2, <1>3, TailFacts
  <2> QED BY <2>1
<1>5. PICK k : k = [conn[c] EXCEPT !.unread = @ \cup {h}, !.coming = w]
  OBVIOUS
<1>6. /\ k \in ConnSet /\ k.phase = conn[c].phase /\ k.finished = conn[c].finished
      /\ k.event = conn[c].event /\ k.cut = conn[c].cut /\ k.reader = conn[c].reader
      /\ k.writer = conn[c].writer /\ k.unread = conn[c].unread \cup {h} /\ k.coming = w
      /\ k.armed = conn[c].armed
  BY <1>1, <1>5 DEF ConnSet
<1>7. ConnBecomes(c, k)
  BY <1>1, <1>4, <1>5 DEF receive, ConnBecomes, DataOK
<1>8. DataOK' /\ conn'[c] = k /\ \A d \in Clients \ {c} : conn'[d] = conn[d]
  BY <1>1, <1>2, <1>6, <1>7, ConnFacts DEF DataOK
<1>9. ConnShape'
  <2>1. ConnOK(k)
    <3>1. k.cut \/ k.unread \cup Range(k.coming) \subseteq {k.reader}
      BY <1>1, <1>4, <1>6 DEF ConnOK
    <3> QED BY <1>1, <1>2, <1>6, <3>1 DEF ConnOK
  <2> QED BY <1>1, <1>8, <2>1 DEF ConnShape
<1>10. LoopKeeps
  BY <1>2, <1>6, <1>8 DEF LoopKeeps
<1>11. CASE conn[c].reader = NoRequest
  <2>1. EventTasks(<<>>)
    BY <1>2, <1>11, NoTasks DEF EventTasks
  <2> QED BY <1>2, <1>8, <1>9, <1>10, <2>1, EventStep
<1>12. CASE conn[c].reader # NoRequest
  <2>1. PICK a, b : a = Task("answered", c) /\ b = Task("unlock", c)
    OBVIOUS
  <2>2. /\ a \in TaskSet /\ a.op = "answered" /\ a.of = c /\ ~a.ok
        /\ b \in TaskSet /\ b.op = "unlock" /\ ~b.ok
    BY <2>1, TaskFacts
  <2>3. <<a, b>> \in Seq(TaskSet) /\ Range(<<a, b>>) = {a, b} /\ Rest(<<a, b>>) = {b}
    BY <2>2, TwoTasks
  <2>4. LoopCalled(a) /\ LoopCalled(b)
    BY <1>2, <1>6, <1>8, <1>12, <2>2 DEF LoopCalled
  <2>5. EventTasks(<<a, b>>)
    BY <1>2, <1>12, <2>1, <2>2, <2>3, <2>4 DEF EventTasks
  <2> QED BY <1>2, <1>8, <1>9, <1>10, <2>5, EventStep
<1> QED BY <1>11, <1>12

\* The peer closes: the reader's request ends, and then the connection.
LEMMA ClosedKeeps ==
  ASSUME PoolInv, NEW c \in Clients, closed(c)
  PROVE  PoolInv'
<1> DEFINE r == conn[c].reader
<1>1. /\ DataOK /\ ConnShape /\ conn[c] \in ConnSet /\ req \in [Requests -> ReqSet]
  BY DEF PoolInv, DataOK
<1>2. conn[c].event /\ UNCHANGED <<clients, allClients, conn>>
  BY DEF closed
<1>3. PICK b, d : b = Task("finish", c) /\ d = Task("unlock", c)
  OBVIOUS
<1>4. /\ b \in TaskSet /\ b.op = "finish" /\ b.of = c /\ ~b.ok
      /\ d \in TaskSet /\ d.op = "unlock" /\ ~d.ok
  BY <1>3, TaskFacts
<1>5. LoopCalled(b) /\ LoopCalled(d)
  BY <1>2, <1>4 DEF LoopCalled
<1>6. ConnShape'
  BY <1>1, <1>2 DEF ConnShape
<1>7. CASE r = NoRequest
  <2>1. Starts(Loop, <<b, d>>) /\ UNCHANGED req
    BY <1>3, <1>7 DEF closed
  <2>2. <<b, d>> \in Seq(TaskSet) /\ Range(<<b, d>>) = {b, d} /\ Rest(<<b, d>>) = {d}
    BY <1>4, TwoTasks
  <2>3. EventTasks(<<b, d>>)
    BY <1>4, <1>5, <2>1, <2>2 DEF EventTasks
  <2>4. DataOK' /\ LoopKeeps
    BY <1>1, <1>2, <2>1 DEF DataOK, LoopKeeps
  <2> QED BY <1>2, <1>6, <2>3, <2>4, EventStep
<1>8. CASE r # NoRequest
  <2>1. r \in Requests
    BY <1>1, <1>8 DEF ConnSet
  <2>2. /\ Starts(Loop, <<Ending("reqFinish", r, FALSE), Task("finish", c), Task("unlock", c)>>)
        /\ req' = [req EXCEPT ![r].timer = Cancelled(@)]
    BY <1>8 DEF closed
  <2>3. req[r].client = c /\ r \in HeldBy(c) /\ \A u \in Users : ~Works(u, r)
    BY <1>2, <2>1, AttachedAlone
  <2>4. PICK a : a = Ending("reqFinish", r, FALSE)
    OBVIOUS
  <2>5. a \in TaskSet /\ a.op = "reqFinish" /\ a.of = r /\ ~a.ok
    BY <2>1, <2>4, FailedFinish
  <2>5a. PICK s : s = <<a, b, d>>
    OBVIOUS
  <2>6. s \in Seq(TaskSet) /\ Range(s) = {a, b, d} /\ Rest(s) = {b, d}
    BY <1>4, <2>5, <2>5a, ThreeTasks
  <2>7. LoopCalled(a)
    BY <2>3, <2>5, NamesAssumption DEF LoopCalled
  <2>8. Starts(Loop, s)
    BY <1>3, <2>2, <2>4, <2>5a
  <2>9. EventTasks(s)
    BY <1>4, <1>5, <2>3, <2>5, <2>6, <2>7, <2>8 DEF EventTasks
  <2>10. Cancelled(req[r].timer) \in {"none", "off"}
    BY <1>1, <2>1 DEF Cancelled, ReqSet
  <2>11. DataOK'
    BY <1>1, <1>2, <2>1, <2>2, <2>10 DEF DataOK, ReqSet
  <2>12. LoopKeeps
    BY <1>1, <1>2, <2>1, <2>2, <2>3, <2>10, NamesAssumption DEF LoopKeeps, ReqSet
  <2> QED BY <1>2, <1>6, <2>9, <2>11, <2>12, EventStep
<1> QED BY <1>7, <1>8

\* The timer of a request runs out.
LEMMA ExpireKeeps ==
  ASSUME PoolInv, NEW r \in Requests, expire(r)
  PROVE  PoolInv'
<1>1. /\ DataOK /\ ConnShape /\ req \in [Requests -> ReqSet]
  BY DEF PoolInv, DataOK
<1>2. /\ req[r].timer = "on" /\ UNCHANGED <<clients, allClients, conn>>
      /\ Starts(Loop, <<Ending("reqFinish", r, FALSE)>>)
  BY DEF expire
<1>3. PICK early \in BOOLEAN : early = (req[r].early \/ \E u \in Users : \E k \in TasksOf(u) : k.of = r)
  OBVIOUS
<1>4. req' = [req EXCEPT ![r].timer = "off", ![r].early = early]
  BY <1>3 DEF expire
<1>5. req[r].client # NoClient
  BY <1>2 DEF PoolInv, Clientship
<1>6. PICK a : a = Ending("reqFinish", r, FALSE)
  OBVIOUS
<1>7. a \in TaskSet /\ a.op = "reqFinish" /\ a.of = r /\ ~a.ok
  BY <1>6, FailedFinish
<1>8. <<a>> \in Seq(TaskSet) /\ Range(<<a>>) = {a} /\ Rest(<<a>>) = {}
  BY <1>7, OneTask
<1>9. req'[r].early = early /\ (req[r].early => early) /\ (early \/ \A u \in Users : ~Works(u, r))
  <2>1. req'[r].early = early
    BY <1>1, <1>4 DEF ReqSet
  <2>2. (req[r].early => early) /\ (early \/ \A u \in Users : ~Works(u, r))
    BY <1>3 DEF Works
  <2> QED BY <2>1, <2>2
<1>10. EventTasks(<<a>>)
  <2>1. LoopCalled(a)
    BY <1>5, <1>7 DEF LoopCalled
  <2>2. Starts(Loop, <<a>>)
    BY <1>2, <1>6
  <2> QED BY <1>7, <1>8, <1>9, <2>1, <2>2 DEF EventTasks
<1>11. DataOK' /\ ConnShape'
  <2>1. req[r] \in ReqSet
    BY <1>1
  <2>2. [req[r] EXCEPT !.timer = "off", !.early = early] \in ReqSet
    BY <2>1 DEF ReqSet
  <2>3. req' = [req EXCEPT ![r] = [req[r] EXCEPT !.timer = "off", !.early = early]]
    BY <1>1, <1>4
  <2>4. req' \in [Requests -> ReqSet]
    BY <1>1, <2>2, <2>3
  <2>5. DataOK'
    BY <1>1, <1>2, <2>4 DEF DataOK
  <2> QED BY <1>1, <1>2, <2>5 DEF ConnShape
<1>12. LoopKeeps
  <2>1. \A x \in Requests \ {r} : req'[x] = req[x]
    BY <1>1, <1>4
  <2>2. /\ req'[r].client = req[r].client /\ req'[r].finished = req[r].finished
        /\ req'[r].answers = req[r].answers /\ req'[r].begun = req[r].begun
        /\ req'[r].timer = "off" /\ req'[r].got = req[r].got
    BY <1>1, <1>4 DEF ReqSet
  <2> QED BY <1>2, <1>5, <1>9, <2>1, <2>2 DEF LoopKeeps
<1> QED BY <1>2, <1>10, <1>11, <1>12, EventStep

\* The handler of a read takes the bytes, and may end the reader's request.
LEMMA AnsweredKeeps ==
  ASSUME PoolInv, NEW t \in Threads, answered(t)
  PROVE  PoolInv'
<1> DEFINE c == Of(t)
           r == conn[c].reader
<1>1. /\ DataOK /\ ConnShape /\ StackInv /\ req \in [Requests -> ReqSet]
  BY DEF PoolInv, DataOK
<1>2. /\ At(t, "answered") /\ UNCHANGED <<clients, allClients>>
      /\ req' = [req EXCEPT ![r].timer = Cancelled(@), ![r].got = @ \cup conn[c].unread]
      /\ conn' = [conn EXCEPT ![c].unread = {}]
  BY DEF answered
<1>3. /\ t = Loop /\ c \in Clients /\ Head(todo[t]) = Task("answered", c) /\ Head(todo[t]) \in TasksOf(t)
      /\ TasksOf(t) = {Head(todo[t])} \cup Later(t) /\ Head(todo[t]).op = "answered"
  BY <1>1, <1>2, AtFacts
<1>4. conn[c] \in ConnSet /\ ConnOK(conn[c])
  BY <1>1, <1>3 DEF DataOK, ConnShape
<1>5. conn[c].event /\ r \in Requests
  BY <1>3, <1>4 DEF PoolInv, Held, ConnSet
<1>6. req[r].client = c /\ r \in HeldBy(c) /\ \A u \in Users : ~Works(u, r)
  BY <1>3, <1>5, AttachedAlone
<1>7. PICK k : k = [conn[c] EXCEPT !.unread = {}]
  OBVIOUS
<1>8. /\ k \in ConnSet /\ k.phase = conn[c].phase /\ k.finished = conn[c].finished
      /\ k.event = conn[c].event /\ k.cut = conn[c].cut /\ k.reader = conn[c].reader
      /\ k.writer = conn[c].writer /\ k.unread = {} /\ k.coming = conn[c].coming
      /\ k.armed = conn[c].armed
  BY <1>4, <1>7 DEF ConnSet
<1>9. ConnBecomes(c, k)
  BY <1>2, <1>7 DEF ConnBecomes
<1>10. conn[c].unread \subseteq Requests /\ Cancelled(req[r].timer) \in {"none", "off"}
  BY <1>1, <1>4, <1>5 DEF ConnSet, ReqSet, Cancelled
<1>11. /\ req' \in [Requests -> ReqSet] /\ \A x \in Requests \ {r} : req'[x] = req[x]
       /\ req'[r].client = c /\ req'[r].finished = req[r].finished /\ req'[r].answers = req[r].answers
       /\ req'[r].begun = req[r].begun /\ req'[r].early = req[r].early
       /\ req'[r].timer # "on" /\ req'[r].got = req[r].got \cup conn[c].unread
  <2>1. PICK q : q = [req[r] EXCEPT !.timer = Cancelled(@), !.got = @ \cup conn[c].unread]
    OBVIOUS
  <2>2. req[r] \in ReqSet /\ r \in Requests
    BY <1>1, <1>5
  <2>3. q \in ReqSet
    BY <1>10, <2>1, <2>2 DEF ReqSet
  <2>4. /\ q.client = req[r].client /\ q.finished = req[r].finished /\ q.answers = req[r].answers
        /\ q.begun = req[r].begun /\ q.early = req[r].early
        /\ q.timer = Cancelled(req[r].timer) /\ q.got = req[r].got \cup conn[c].unread
    BY <2>1, <2>2 DEF ReqSet
  <2>5. req' = [req EXCEPT ![r] = q]
    BY <1>1, <1>2, <2>1, <2>2
  <2>6. /\ req' \in [Requests -> ReqSet] /\ req'[r] = q
        /\ \A x \in Requests \ {r} : req'[x] = req[x]
    BY <1>1, <2>2, <2>3, <2>5
  <2>7. q.timer # "on"
    BY <1>10, <2>4
  <2> QED BY <1>6, <2>4, <2>6, <2>7
<1>12. DataOK' /\ conn'[c] = k /\ \A d \in Clients \ {c} : conn'[d] = conn[d]
  BY <1>1, <1>2, <1>3, <1>8, <1>9, <1>11, ConnFacts
<1>13. ConnShape'
  <2>1. ConnOK(k)
    <3>1. k.cut \/ k.unread \cup Range(k.coming) \subseteq {k.reader}
      BY <1>4, <1>8 DEF ConnOK
    <3> QED BY <1>4, <1>8, <3>1 DEF ConnOK
  <2> QED BY <1>1, <1>12, <2>1 DEF ConnShape
<1>14. LoopKeeps
  <2>1. conn[c].cut \/ conn[c].unread \subseteq {r}
    BY <1>4 DEF ConnOK
  <2>2. c # NoClient
    BY <1>3, NamesAssumption
  <2>3. ASSUME NEW x \in Requests
        PROVE  /\ req'[x].client = req[x].client /\ req'[x].finished = req[x].finished
               /\ req'[x].answers = req[x].answers /\ req'[x].begun = req[x].begun
               /\ req'[x] = req[x] \/ req[x].client # NoClient
               /\ req'[x].timer = "on" => req[x].timer = "on"
               /\ req[x].early => req'[x].early
               /\ \/ req'[x].got \subseteq req[x].got \cup {x}
                  \/ req[x].client # NoClient /\ conn[req[x].client].cut
    <3>1. CASE x = r
      BY <1>6, <1>11, <2>1, <2>2, <3>1
    <3>2. CASE x # r
      BY <1>11, <3>2
    <3> QED BY <3>1, <3>2
  <2>4. ASSUME NEW d \in Clients
        PROVE  /\ conn'[d].phase = conn[d].phase /\ conn'[d].finished = conn[d].finished
               /\ conn'[d].event = conn[d].event /\ conn'[d].cut = conn[d].cut
               /\ {conn'[d].reader, conn'[d].writer} \subseteq {conn[d].reader, conn[d].writer, NoRequest}
               /\ conn'[d].reader = conn[d].reader
    BY <1>8, <1>12
  <2> QED BY <2>3, <2>4 DEF LoopKeeps
<1>15. PICK outcome \in {"error", "finish", "wait"} :
         Calls(t, IF outcome = "wait" THEN <<>> ELSE <<Ending("reqFinish", r, outcome = "finish")>>)
  BY DEF answered, RespPop
<1>16. ASSUME NEW tasks \in Seq(TaskSet), Calls(t, tasks), Rest(tasks) = {},
              \A x \in Range(tasks) : x.op = "reqFinish" /\ x.of = r
       PROVE  PoolInv'
  <2>1. Paired(tasks)
    BY <1>16, PlainPaired
  <2>2. tasks # <<>> => Head(tasks).op # "erase"
    BY <1>16, TailFacts
  <2>3. Loop \notin Users
    BY NamesAssumption
  <2>4. /\ StackInv' /\ Erasing' = Erasing \ {t}
        /\ \A u \in Threads \ {t} : /\ todo'[u] = todo[u] /\ TasksOf(u)' = TasksOf(u)
                                    /\ Later(u)' = Later(u)
        /\ TasksOf(t)' = Range(tasks) \cup Later(t)
        /\ Later(t)' \subseteq Rest(tasks) \cup Later(t)
        /\ \A x : Once(x) /\ x \notin Range(tasks) => Once(x)'
    BY <1>1, <1>2, <1>3, <1>16, <2>1, <2>2, <2>3, StepFacts DEF DoReqOps
  <2>5. Erasing' = Erasing
    BY <1>2, <2>4 DEF Erasing, At
  <2>6. OnlyTasks(Loop) /\ KeepsOnce
    BY <1>3, <1>16, <2>4 DEF OnlyTasks, KeepsOnce
  <2>7. \A x \in Range(tasks) : LoopCalled(x)
    <3>1. c # NoClient
      BY <1>3, NamesAssumption
    <3>2. conn'[c].event /\ conn'[c].reader = r
      BY <1>5, <1>8, <1>12
    <3> QED BY <1>3, <1>6, <1>16, <3>1, <3>2 DEF LoopCalled
  <2>8. LoopCalls(Range(tasks))
    BY <1>3, <1>6, <1>16, <2>4, <2>7 DEF LoopCalls
  <2> QED BY <1>2, <1>12, <1>13, <1>14, <2>4, <2>5, <2>6, <2>8, LoopStep
<1>17. CASE outcome = "wait"
  BY <1>15, <1>16, <1>17, NoTasks
<1>18. CASE outcome # "wait"
  <2>1. PICK ok \in BOOLEAN : ok = (outcome = "finish")
    OBVIOUS
  <2>2. PICK a : a = Ending("reqFinish", r, ok)
    OBVIOUS
  <2>3. a \in TaskSet /\ a.op = "reqFinish" /\ a.of = r
    BY <1>5, <2>1, <2>2 DEF TaskSet, Ending
  <2>4. <<a>> \in Seq(TaskSet) /\ Range(<<a>>) = {a} /\ Rest(<<a>>) = {}
    BY <2>3, OneTask
  <2>5. Calls(t, <<a>>)
    BY <1>15, <1>18, <2>1, <2>2
  <2> QED BY <1>16, <2>3, <2>4, <2>5
<1> QED BY <1>17, <1>18

-----------------------------------------------------------------------------
(* The rest of doReq. *)

\* doReq starts the timer, or has none.
LEMMA StartTimerKeeps ==
  ASSUME PoolInv, NEW t \in Threads, startTimer(t)
  PROVE  PoolInv'
<1>1. At(t, "startTimer") /\ UNCHANGED <<clients, allClients, conn>> /\ Calls(t, <<>>)
  BY DEF startTimer
<1>2. StackInv /\ "startTimer" \in DoReqOps \ {"get", "asyncWrite"} /\ req \in [Requests -> ReqSet]
  BY DEF PoolInv, DoReqOps, DataOK
<1>3. Of(t) \in Requests /\ todo[t] = DoStack("startTimer", Of(t))
  BY <1>1, <1>2, AtFacts DEF ReqOps
<1>4. req[Of(t)].client # NoClient /\ req[Of(t)].begun
  <2>1. Head(todo[t]) \in TasksOf(t) /\ Head(todo[t]).op = "startTimer" /\ Head(todo[t]).of = Of(t)
    BY <1>1, <1>2, AtFacts DEF Of
  <2>2. Works(t, Of(t))
    BY <1>2, <2>1 DEF Works, ReqOps
  <2> QED BY <1>2, <1>3, <2>2 DEF PoolInv, Stages, Stage, Begun
<1>5. PICK timer \in {"none", "on"} : req' = [req EXCEPT ![Of(t)].timer = timer]
  BY DEF startTimer
<1>6. /\ StackInv' /\ Erasing' = Erasing
      /\ \A u \in Threads \ {t} : /\ todo'[u] = todo[u] /\ TasksOf(u)' = TasksOf(u)
                                  /\ Later(u)' = Later(u)
      /\ \A k \in TasksOf(t) : k.op \in DoReqOps /\ k.of = Of(t) /\ ~k.ok
      /\ TasksOf(t)' \subseteq TasksOf(t) /\ Later(t)' \subseteq Later(t)
      /\ NextOp["startTimer"] \in DoReqOps \ {"get"}
      /\ \A r \in Requests : \A o \in DoReqOps :
             todo'[t] = DoStack(o, r) => o = NextOp["startTimer"] /\ r = Of(t)
      /\ \A k : Once(k) => Once(k)'
  BY <1>1, <1>2, DoNextFacts
<1>7. OnlyTasks(t) /\ KeepsOnce
  BY <1>6 DEF OnlyTasks, KeepsOnce
<1>8. CallsPlainly(t, {})
  <2>1. \A k \in TasksOf(t) : k.op \notin {"erase", "insert", "finish"}
    BY <1>6 DEF DoReqOps
  <2> QED BY <1>2, <1>3, <1>6, <2>1 DEF CallsPlainly
<1>9. DataOK' /\ ConnShape'
  BY <1>1, <1>2, <1>5 DEF PoolInv, DataOK, ReqSet, ConnShape
<1>10. PlainKeeps(t)
  BY <1>1, <1>2, <1>4, <1>5 DEF PlainKeeps, ReqSet
<1> QED BY <1>1, <1>6, <1>7, <1>8, <1>9, <1>10, PlainStep

\* The write is left on the connection, for the loop to arm.
LEMMA AsyncWriteKeeps ==
  ASSUME PoolInv, NEW t \in Threads, AsyncWrite(t), ~conn[req[Of(t)].client].finished
  PROVE  PoolInv'
<1> DEFINE r == Of(t)
           c == req[Of(t)].client
<1>1. /\ At(t, "asyncWrite") /\ UNCHANGED <<clients, allClients, req>> /\ Calls(t, <<>>)
      /\ conn' = [conn EXCEPT ![c].writer = r, ![c].armed = FALSE]
  BY DEF AsyncWrite
<1>2. /\ StackInv /\ "asyncWrite" \in DoReqOps \ {"get"} /\ DataOK /\ ConnShape
      /\ req \in [Requests -> ReqSet]
  BY DEF PoolInv, DoReqOps, DataOK
<1>3. /\ r \in Requests /\ todo[t] = DoStack("asyncWrite", r) /\ t \in Users
      /\ Head(todo[t]) \in TasksOf(t) /\ Head(todo[t]).op = "asyncWrite" /\ Head(todo[t]).of = r
  BY <1>1, <1>2, AtFacts DEF ReqOps, Of
<1>4. c \in Clients /\ (req[r].finished => Returning(c))
  <2>1. Stage("asyncWrite", r)
    BY <1>2, <1>3 DEF PoolInv, Stages
  <2>2. c # NoClient /\ (req[r].finished => Returning(c))
    BY <2>1 DEF Stage
  <2> QED BY <1>2, <1>3, <2>2 DEF ReqSet
<1>5. Concerned(t, c)
  BY <1>2, <1>3 DEF Concerned, ReqOps
<1>6. /\ conn[c] \in ConnSet /\ ConnOK(conn[c]) /\ conn[c].phase = "up" /\ conn[c].event
      /\ conn[c].reader = NoRequest
  <2>1. conn[c] \in ConnSet /\ ConnOK(conn[c])
    BY <1>2, <1>4 DEF DataOK, ConnShape
  <2>2. r \in HeldBy(c)
    BY <1>3 DEF HeldBy
  <2>3. conn[c].phase = "up"
    BY <1>4, <2>2 DEF PoolInv, Held
  <2>4. conn[c].reader = NoRequest
    BY <1>3, <1>4, <1>5 DEF PoolInv, UserQuiet
  <2> QED BY <2>1, <2>3, <2>4 DEF ConnOK
<1>7. PICK k : k = [conn[c] EXCEPT !.writer = r, !.armed = FALSE]
  OBVIOUS
<1>8. /\ k \in ConnSet /\ k.phase = conn[c].phase /\ k.finished = conn[c].finished
      /\ k.event = conn[c].event /\ k.cut = conn[c].cut /\ k.reader = conn[c].reader
      /\ k.writer = r /\ k.unread = conn[c].unread /\ k.coming = conn[c].coming /\ ~k.armed
  BY <1>3, <1>6, <1>7 DEF ConnSet
<1>9. ConnBecomes(c, k)
  BY <1>1, <1>2, <1>4, <1>7 DEF ConnBecomes, DataOK
<1>10. DataOK' /\ conn'[c] = k /\ \A d \in Clients \ {c} : conn'[d] = conn[d]
  BY <1>1, <1>2, <1>4, <1>8, <1>9, ConnFacts
<1>11. ConnShape'
  <2>1. ConnOK(k)
    BY <1>6, <1>8 DEF ConnOK
  <2>2. \A d \in Clients : d # c => ConnOK(conn[d])
    BY <1>2 DEF ConnShape
  <2>3. ASSUME NEW d \in Clients PROVE ConnOK(conn'[d])
    <3>1. CASE d = c
      BY <1>10, <2>1, <3>1
    <3>2. CASE d # c
      <4>1. conn'[d] = conn[d]
        BY <1>10, <3>2
      <4> QED BY <2>2, <3>2, <4>1
    <3> QED BY <3>1, <3>2
  <2> QED BY <2>3 DEF ConnShape, ConnOK
<1>12. todo' = [todo EXCEPT ![t] = <<>>]
  <2>1. Tail(todo[t]) = <<>>
    BY <1>2, <1>3, DoStackFacts
  <2>2. <<>> \o <<>> = <<>>
    OBVIOUS
  <2> QED BY <1>1, <2>1, <2>2 DEF Calls
<1>13. <<>> \in Seq(TaskSet) /\ Range(<<>>) = {} /\ Rest(<<>>) = {} /\ Paired(<<>>)
  <2>1. <<>> \in Seq(TaskSet) /\ Range(<<>>) = {} /\ Rest(<<>>) = {}
    BY NoTasks
  <2> QED BY <2>1, PlainPaired
<1>14. /\ StackInv' /\ Erasing' = Erasing
       /\ \A u \in Threads \ {t} : /\ todo'[u] = todo[u] /\ TasksOf(u)' = TasksOf(u)
                                   /\ Later(u)' = Later(u)
       /\ \A x \in TasksOf(t) : x.op \in DoReqOps /\ x.of = Of(t) /\ ~x.ok
       /\ TasksOf(t)' = {} /\ Later(t)' = {}
       /\ \A x \in Requests : \A o \in DoReqOps : todo'[t] # DoStack(o, x)
       /\ \A x : Once(x) => Once(x)'
  BY <1>1, <1>2, <1>12, <1>13, DoEndFacts
<1>15. OnlyTasks(t) /\ KeepsOnce
  BY <1>14 DEF OnlyTasks, KeepsOnce
<1>16. CallsPlainly(t, {})
  <2>1. \A x \in TasksOf(t) : x.op \notin {"erase", "insert", "finish"}
    BY <1>14 DEF DoReqOps
  <2> QED BY <1>14, <2>1 DEF CallsPlainly
<1>17. PlainKeeps(t)
  <2>1. ASSUME NEW d \in Clients
        PROVE  /\ conn'[d].phase = conn[d].phase /\ conn'[d].finished = conn[d].finished
               /\ conn'[d].event = conn[d].event /\ conn'[d].reader = conn[d].reader
               /\ conn'[d].cut = conn[d].cut
               /\ \/ conn'[d].writer = conn[d].writer
                  \/ d = c /\ conn'[d].writer = r
    BY <1>8, <1>10
  <2> QED BY <1>1, <1>3, <1>4, <1>5, <1>14, <2>1 DEF PlainKeeps
<1> QED BY <1>1, <1>10, <1>11, <1>14, <1>15, <1>16, <1>17, PlainStep

\* A doReq that finds no client is answered at once.
LEMMA GetFailsKeeps ==
  ASSUME PoolInv, NEW t \in Threads, At(t, "get"), UNCHANGED <<clients, allClients, conn>>,
         req' = [req EXCEPT ![Of(t)].answers = @ + 1], todo' = [todo EXCEPT ![t] = <<>>]
  PROVE  PoolInv'
<1>1. StackInv /\ "get" \in DoReqOps /\ req \in [Requests -> ReqSet]
  BY DEF PoolInv, DoReqOps, DataOK
<1>0. PICK r \in Requests : r = Of(t)
  BY <1>1, AtFacts DEF ReqOps
<1>2. /\ r \in Requests /\ todo[t] = DoStack("get", r) /\ t \in Users /\ t # Loop
      /\ Head(todo[t]) \in TasksOf(t) /\ Head(todo[t]).op = "get" /\ Head(todo[t]).of = r
  BY <1>0, <1>1, AtFacts, NamesAssumption DEF ReqOps, Of
<1>3. Works(t, r)
  BY <1>1, <1>2 DEF Works, ReqOps
<1>4. req[r].client = NoClient /\ req[r].answers = 0 /\ req[r].begun
  BY <1>1, <1>2, <1>3 DEF PoolInv, Stages, Stage, Begun
<1>5. <<>> \in Seq(TaskSet) /\ Range(<<>>) = {} /\ Rest(<<>>) = {} /\ Paired(<<>>)
  <2>1. <<>> \in Seq(TaskSet) /\ Range(<<>>) = {} /\ Rest(<<>>) = {}
    BY NoTasks
  <2> QED BY <2>1, PlainPaired
<1>6. /\ StackInv' /\ Erasing' = Erasing
      /\ \A u \in Threads \ {t} : /\ todo'[u] = todo[u] /\ TasksOf(u)' = TasksOf(u)
                                  /\ Later(u)' = Later(u)
      /\ \A x \in TasksOf(t) : x.op \in DoReqOps /\ x.of = Of(t) /\ ~x.ok
      /\ TasksOf(t)' = {} /\ Later(t)' = {}
      /\ \A x \in Requests : \A o \in DoReqOps : todo'[t] # DoStack(o, x)
      /\ \A x : Once(x) => Once(x)'
  BY <1>1, <1>5, DoEndFacts
<1>7. OnlyTasks(t) /\ KeepsOnce
  BY <1>6 DEF OnlyTasks, KeepsOnce
<1>8. CallsPlainly(t, {})
  <2>1. \A x \in TasksOf(t) : x.op \notin {"erase", "insert", "finish"}
    BY <1>6 DEF DoReqOps
  <2> QED BY <1>6, <2>1 DEF CallsPlainly
<1>9. DataOK' /\ ConnShape'
  BY <1>0, <1>1, <1>2, <1>4 DEF PoolInv, DataOK, ReqSet, ConnShape
<1>10. \A u \in Threads : ~Works(u, r)'
  <2>1. ASSUME NEW u \in Users \ {t} PROVE ~Works(u, r)'
    <3>1. ~Works(u, r)
      BY <1>2, <1>3, <2>1 DEF PoolInv, Workers
    <3> QED BY <1>6, <2>1, <3>1 DEF Works, Threads, ReqOps, DoReqOps
  <2>2. ~Works(Loop, r)'
    <3>1. \A k \in TasksOf(Loop)' : k.op \in ReqOps /\ k.of = r =>
             k \in TasksOf(Loop) /\ k.op \in {"reqFinish", "reqDone"}
      BY <1>1, <1>2, <1>6, NamesAssumption DEF StackInv, Threads, ReqOps
    <3> QED BY <1>2, <1>4, <3>1 DEF PoolInv, Clientship, Threads, Works, ReqOps, DoReqOps
  <2>3. ~Works(t, r)'
    BY <1>6 DEF Works, ReqOps, DoReqOps
  <2> QED BY <2>1, <2>2, <2>3 DEF Threads
<1>11. PlainKeeps(t)
  BY <1>0, <1>1, <1>2, <1>4, <1>10 DEF PlainKeeps, ReqSet
<1> QED BY <1>6, <1>7, <1>8, <1>9, <1>11, PlainStep

\* What the step of Get that finds the client c does for the request r.
Lends(t, r, c) ==
    /\ t \in Users /\ r \in Requests /\ c \in clients
    /\ Works(t, r) /\ req[r].client = NoClient
    /\ clients' = clients \ {c} /\ UNCHANGED <<allClients, conn>>
    /\ \A x \in Requests : x # r => req'[x] = req[x]
    /\ req' \in [Requests -> ReqSet] /\ req'[r].client = c
    /\ req'[r].begun = req[r].begun /\ req'[r].finished = req[r].finished
    /\ req'[r].timer = req[r].timer /\ req'[r].answers = req[r].answers
    /\ req'[r].got = req[r].got /\ req'[r].early = req[r].early

\* No thread has new tasks, and t has lost only a call of doReq.
TasksShrink(t) ==
    /\ OnlyTasks(t) /\ KeepsOnce
    /\ TasksOf(t)' \subseteq TasksOf(t) /\ Later(t)' \subseteq Later(t)
    /\ \A k \in TasksOf(t) : k.op \in DoReqOps

\* Get gives the request a client.
LEMMA LendsKeeps ==
  ASSUME PoolInv, NEW t, NEW r, NEW c, Lends(t, r, c), TasksShrink(t), StackInv', Erasing' = Erasing,
         \A x \in Requests : \A o \in DoReqOps : todo'[t] = DoStack(o, x) => o # "get" /\ x = r
  PROVE  PoolInv'
<1> USE DEF PoolInv
<1>a. /\ t \in Users /\ r \in Requests /\ c \in clients /\ c \in Clients /\ t \in Threads /\ t # Loop
      /\ c # NoClient
  BY NamesAssumption DEF Lends, DataOK, Threads
<1>b. \A u \in Threads : TasksOf(u)' \subseteq TasksOf(u) /\ Later(u)' \subseteq Later(u)
  BY DEF TasksShrink, OnlyTasks
<1>c. TasksOf(Loop)' = TasksOf(Loop) /\ Loop \in Threads
  BY <1>a DEF TasksShrink, OnlyTasks, Threads
<1>d. \A u \in Threads, x \in Requests : Works(u, x)' => Works(u, x)
  BY <1>b DEF Works, ReqOps, DoReqOps
<1>e. \A u \in Users : Works(u, r) => u = t
  BY <1>a DEF Lends, Workers
<1>f. /\ conn[c].phase = "up" /\ conn[c].reader = NoRequest /\ conn[c].writer = NoRequest
      /\ \A u \in Users : ~Concerned(u, c)
      /\ \A x \in HeldBy(c) : req[x].finished
  BY <1>a DEF PooledUsable, UserQuiet, Owned
<1>g. ~req[r].finished /\ req[r].got = {} /\ req[r].begun /\ req[r].timer # "on"
  BY <1>a DEF Clientship, Begun, Lends, Threads
<1>h. \A d \in Clients : d # c => HeldBy(d)' = HeldBy(d)
  BY <1>a, NamesAssumption DEF HeldBy, Lends
<1>i. HeldBy(c)' = HeldBy(c) \cup {r}
  BY <1>a, NamesAssumption DEF HeldBy, Lends
<1>j. \A d \in Clients : Pend(Task("erase", d))' <=> Pend(Task("erase", d))
  <2>1. ASSUME NEW d \in Clients, NEW k, k.op = "erase", NEW u \in Threads
        PROVE  k \in TasksOf(u)' <=> k \in TasksOf(u)
    BY <2>1 DEF TasksShrink, OnlyTasks, DoReqOps
  <2> QED BY <2>1, TaskFacts DEF Pend, Task
<1>k. \A u \in Threads : \A k \in TasksOf(u)' : k.op \in ReqOps => k.of \in Requests
  <2>1. ASSUME NEW u \in Threads, NEW k \in TasksOf(u)' PROVE k \in TaskSet
    BY <2>1 DEF StackInv, TodoOK, TasksOf
  <2> QED BY <2>1 DEF TaskSet, ReqOps, DoReqOps
<1>l. \A d \in Clients, u \in Threads : Concerned(u, d)' => Concerned(u, d) \/ (d = c /\ Works(u, r))
  <2>1. ASSUME NEW d \in Clients, NEW u \in Threads, NEW k \in TasksOf(u)',
               \/ k.op \in ReqOps /\ req'[k.of].client = d
               \/ k.op \in {"insert", "finish"} /\ k.of = d
        PROVE  Concerned(u, d) \/ (d = c /\ Works(u, r))
    <3>1. k \in TasksOf(u) /\ (k.op \in ReqOps => k.of \in Requests)
      BY <1>b, <1>k
    <3>2. CASE k.op \in ReqOps /\ k.of = r /\ req'[k.of].client = d
      BY <3>1, <3>2 DEF Works, Lends
    <3>3. CASE k.op \in ReqOps /\ k.of # r /\ req'[k.of].client = d
      BY <3>1, <3>3 DEF Concerned, Lends
    <3>4. CASE k.op \in {"insert", "finish"} /\ k.of = d
      BY <3>1, <3>4 DEF Concerned
    <3> QED BY <2>1, <3>2, <3>3, <3>4
  <2> QED BY <2>1 DEF Concerned, ReqOps, DoReqOps
<1>1. DataOK'
  BY DEF DataOK, Lends
<1>2. ErasedOnce'
  <2>1. ASSUME NEW d \in Clients PROVE Once(Task("erase", d))'
    <3>1. PICK k : k = Task("erase", d) /\ k.op = "erase"
      BY TaskFacts
    <3>2. Once(k)'
      BY <3>1 DEF ErasedOnce, TasksShrink, KeepsOnce
    <3> QED BY <3>1, <3>2 DEF Task
  <2> QED BY <2>1, <1>j DEF ErasedOnce, Lends, Broken
<1>3. FinishHeld'
  <2>1. \A d \in Clients : HeldBy(d)' = {} => HeldBy(d) = {}
    BY <1>h, <1>i
  <2>2. \A d \in Clients : Pend(Task("finish", d))' => Pend(Task("finish", d))
    BY <1>b DEF Pend, Task
  <2>3. \A d \in Clients, u \in Threads :
          /\ Task("finish", d) \in TasksOf(u)' => Task("finish", d) \in TasksOf(u)
          /\ Task("finish", d) \notin Later(u) => Task("finish", d) \notin Later(u)'
    BY <1>b
  <2> QED BY <1>j, <2>1, <2>2, <2>3 DEF FinishHeld, Task
<1>4. Counted'
  BY DEF Counted, Lends
<1>5. ConnShape'
  BY DEF ConnShape, Lends
<1>6. Held'
  <2>1. \A d \in Clients : HeldBy(d)' # {} => conn[d].phase = "up"
    BY <1>f, <1>h DEF Held
  <2>2. ASSUME NEW d \in Clients, NEW u \in Threads, NEW k \in TasksOf(u)'
        PROVE  /\ k.op \in {"finish", "insert"} /\ k.of = d => conn[d].phase = "up"
               /\ k = Ending("insert", d, FALSE) => HeldBy(d) # {}
               /\ k = Task("answered", d) => conn[d].event /\ conn[d].reader # NoRequest
    BY <1>b, <2>2 DEF Held
  <2>3. \A d \in Clients : HeldBy(d) # {} => HeldBy(d)' # {}
    BY <1>h, <1>i
  <2>4. conn' = conn
    BY DEF Lends
  <2> QED BY <2>1, <2>2, <2>3, <2>4 DEF Held, Task, Ending
<1>7. Attached'
  <2>1. ASSUME NEW d \in Clients, NEW x \in Requests, conn[d].event, x \in {conn[d].writer, conn[d].reader}
        PROVE  req'[x].client = d /\ (req'[x].finished => Returning(d)')
    <3>1. req[x].client = d /\ (req[x].finished => Returning(d))
      BY <2>1 DEF Attached
    <3>2. x # r
      BY <3>1, NamesAssumption DEF Lends
    <3>3. Returning(d) => Returning(d)'
      BY <1>c DEF Returning
    <3> QED BY <3>1, <3>2, <3>3 DEF Lends
  <2> QED BY <2>1 DEF Attached, Lends
<1>8. UserQuiet'
  <2>1. ASSUME NEW d \in Clients, NEW u \in Users, Concerned(u, d)'
        PROVE  /\ conn[d].finished \/ (conn[d].reader = NoRequest /\ conn[d].writer = NoRequest)
               /\ d \notin clients'
               /\ d = c => u = t
               /\ d # c => Concerned(u, d)
    <3>1. u \in Threads
      BY DEF Threads
    <3>2. CASE d = c
      BY <1>e, <1>f, <1>l, <2>1, <3>1, <3>2 DEF Lends
    <3>3. CASE d # c
      BY <1>l, <2>1, <3>1, <3>3 DEF Lends, UserQuiet
    <3> QED BY <3>2, <3>3
  <2> QED BY <2>1 DEF UserQuiet, Lends
<1>9. Returned'
  <2>1. ASSUME NEW k \in TasksOf(Loop), k.ok, NEW d, d = IF k.op = "insert" THEN k.of ELSE req'[k.of].client
        PROVE  /\ d \in Clients
               /\ conn[d].event
               /\ k.op # "insert" => conn[d].reader = k.of
               /\ k.op = "reqDone" => ~req'[k.of].finished
               /\ k.op = "insert" => d \notin clients' /\ (\A u \in Users : ~Concerned(u, d)')
                                      /\ \A x \in HeldBy(d)' : req'[x].finished
    <3>1. CASE k.op = "insert"
      <4>1. /\ d \in Clients /\ conn[d].event /\ d \notin clients /\ \A u \in Users : ~Concerned(u, d)
            /\ \A x \in HeldBy(d) : req[x].finished
        BY <2>1, <3>1 DEF Returned
      <4>2. d # c
        BY <1>a, <4>1
      <4>3. \A u \in Users : ~Concerned(u, d)'
        BY <1>l, <4>1, <4>2 DEF Threads
      <4>4. \A x \in HeldBy(d)' : req'[x].finished
        <5>1. \A x \in HeldBy(d) : x \in Requests /\ req[x].client = d
          BY DEF HeldBy
        <5> QED BY <1>h, <4>1, <4>2, <5>1, NamesAssumption DEF Lends
      <4> QED BY <3>1, <4>1, <4>3, <4>4 DEF Lends
    <3>2. CASE k.op # "insert"
      <4>1. /\ req[k.of].client \in Clients /\ conn[req[k.of].client].event
            /\ conn[req[k.of].client].reader = k.of
            /\ k.op = "reqDone" => ~req[k.of].finished
        BY <2>1, <3>2 DEF Returned
      <4>2. k.of \in Requests
        <5>1. k \in TaskSet
          BY <1>c, <2>1, StackBefore DEF StackInv
        <5> QED BY <2>1, <3>2, <5>1 DEF TaskSet
      <4>3. k.of # r
        BY <4>1, NamesAssumption DEF Lends
      <4>4. req'[k.of] = req[k.of]
        BY <4>2, <4>3 DEF Lends
      <4> QED BY <2>1, <3>2, <4>1, <4>4
    <3> QED BY <3>1, <3>2
  <2>2. conn' = conn
    BY DEF Lends
  <2> QED BY <1>c, <2>1, <2>2 DEF Returned
<1>10. Begun'
  <2>1. ASSUME NEW x \in Requests, ~req'[x].begun PROVE x # r /\ req'[x] = req[x] /\ ~req[x].begun
    BY <1>g, <2>1 DEF Lends
  <2> QED BY <1>d, <2>1 DEF Begun, NewReq
<1>11. Clientship'
  <2>1. ASSUME NEW x \in Requests, NEW u \in Threads, NEW k \in TasksOf(u)',
               k.op \in {"reqFinish", "reqDone"}, k.of = x
        PROVE  req[x].client # NoClient
    BY <1>b, <2>1 DEF Clientship
  <2>2. ASSUME NEW x \in Requests, x # r
        PROVE  /\ req'[x] = req[x]
               /\ req[x].timer = "on" => req[x].client # NoClient
               /\ req[x].client # NoClient /\ ~req[x].finished => req[x].answers = 0
               /\ req[x].client = NoClient => ~req[x].finished /\ req[x].answers <= 1 /\ req[x].got = {}
    BY <2>2 DEF Lends, Clientship
  <2>3. req'[r].client # NoClient /\ req'[r].answers = 0
    <3>1. req[r].answers = 0
      <4>1. PICK k \in TasksOf(t) : k.op \in ReqOps /\ k.of = r
        BY DEF Lends, Works
      <4>2. k.op \in DoReqOps
        BY <4>1 DEF TasksShrink
      <4>3. PICK o \in DoReqOps : todo[t] = DoStack(o, r)
        BY <1>a, <4>1, <4>2 DEF StackInv
      <4>4. Stage(o, r)
        BY <1>a, <4>3 DEF Stages
      <4> QED BY <4>4 DEF Stage, Lends
    <3> QED BY <1>a, <3>1 DEF Lends
  <2> QED BY <2>1, <2>2, <2>3 DEF Clientship
<1>12. Stages'
  <2>1. ASSUME NEW x \in Requests, NEW o \in DoReqOps, NEW u \in Threads, todo'[u] = DoStack(o, x)
        PROVE  Stage(o, x)'
    <3>1. CASE u = t
      <4>1. o # "get" /\ x = r
        BY <2>1, <3>1
      <4> QED BY <1>a, <1>g, <4>1 DEF Stage, Lends
    <3>2. CASE u # t
      <4>1. todo[u] = DoStack(o, x)
        BY <2>1, <3>2 DEF TasksShrink, OnlyTasks
      <4>2. Stage(o, x)
        BY <4>1 DEF Stages
      <4>3. x # r
        <5>1. todo[u] # <<>> /\ Head(todo[u]) = Task(o, x)
          BY <4>1, DoStackFacts
        <5>2. Head(todo[u]) \in TasksOf(u)
          BY <5>1, StackBefore DEF StackInv
        <5>3. Works(u, x) /\ u \in Users
          <6>1. PICK k : k = Head(todo[u]) /\ k.op = o /\ k.of = x
            BY <5>1, TaskFacts
          <6> QED BY <5>2, <6>1 DEF Works, ReqOps, StackInv
        <5> QED BY <1>e, <3>2, <5>3
      <4>4. req'[x] = req[x]
        BY <4>3 DEF Lends
      <4>5. \A d : Returning(d) => Returning(d)'
        BY <1>c DEF Returning
      <4>6. conn' = conn
        BY DEF Lends
      <4> QED BY <4>2, <4>4, <4>5, <4>6 DEF Stage
    <3> QED BY <3>1, <3>2
  <2> QED BY <2>1 DEF Stages, DoStack
<1>13. Workers'
  <2>1. ASSUME NEW x \in Requests, NEW u \in Threads, NEW k \in TasksOf(u)'
        PROVE  k \in TasksOf(u)
    BY <1>b
  <2>2. \A x \in Requests : req'[x].early = req[x].early /\ req'[x].answers = req[x].answers
    BY DEF Lends
  <2> QED BY <1>d, <2>1, <2>2 DEF Workers, Threads
<1>14. Owned'
  <2>1. ASSUME NEW d \in Clients, NEW x \in HeldBy(d)', ~req'[x].finished
        PROVE  d \notin clients' /\ \A y \in HeldBy(d)' : ~req'[y].finished => y = x
    <3>1. \A y \in HeldBy(d)' : y \in Requests
      BY DEF HeldBy
    <3>2. CASE d = c
      <4>1. \A y \in HeldBy(c)' : ~req'[y].finished => y = r
        BY <1>f, <1>i, <3>1, <3>2 DEF Lends
      <4> QED BY <2>1, <3>2, <4>1 DEF Lends
    <3>3. CASE d # c
      <4>1. \A y \in HeldBy(d) : y # r /\ y \in Requests
        BY NamesAssumption DEF HeldBy, Lends
      <4> QED BY <1>h, <2>1, <3>3, <4>1 DEF Owned, Lends
    <3> QED BY <3>2, <3>3
  <2> QED BY <2>1 DEF Owned
<1>15. PooledUsable'
  <2>1. \A d \in Clients : Pend(Task("erase", d)) => \E u \in Threads : Task("erase", d) \in TasksOf(u)'
    BY <1>j DEF Pend, Task
  <2>2. clients' \subseteq clients /\ clients \subseteq Clients /\ conn' = conn /\ allClients' = allClients
    BY DEF Lends, DataOK
  <2> QED BY <2>1, <2>2 DEF PooledUsable, Pend, Task
<1>16. OwnAnswer'
  <2>1. req'[r].got = {}
    BY <1>g DEF Lends
  <2>2. \A x \in Requests : x # r => req'[x] = req[x]
    BY DEF Lends
  <2>3. conn' = conn
    BY DEF Lends
  <2> QED BY <2>1, <2>2, <2>3 DEF OwnAnswer
<1> QED BY <1>1, <1>2, <1>3, <1>4, <1>5, <1>6, <1>7, <1>8, <1>9, <1>10, <1>11, <1>12, <1>13,
           <1>14, <1>15, <1>16

\* Get gives the request a client, or ends it.
LEMMA GetKeeps ==
  ASSUME PoolInv, NEW t \in Threads, Get(t)
  PROVE  PoolInv'
<1>1. At(t, "get") /\ StackInv /\ "get" \in DoReqOps \ {"asyncWrite"} /\ UNCHANGED <<allClients, conn>>
  BY DEF Get, PoolInv, DoReqOps
<1>2. PICK r \in Requests : r = Of(t)
  BY <1>1, AtFacts DEF ReqOps
<1>3. CASE clients = {} /\ req' = [req EXCEPT ![Of(t)].answers = @ + 1]
           /\ todo' = [todo EXCEPT ![t] = <<>>] /\ UNCHANGED clients
  BY <1>1, <1>3, GetFailsKeeps
<1>4. ASSUME NEW c \in clients, clients' = clients \ {c}, req' = [req EXCEPT ![Of(t)].client = c],
             Calls(t, <<>>)
      PROVE  PoolInv'
  <2>1. /\ t \in Users /\ Head(todo[t]) \in TasksOf(t) /\ Head(todo[t]).op = "get"
        /\ Head(todo[t]).of = r /\ todo[t] = DoStack("get", r)
    BY <1>1, <1>2, AtFacts DEF Of
  <2>2. /\ StackInv' /\ Erasing' = Erasing
        /\ \A u \in Threads \ {t} : /\ todo'[u] = todo[u] /\ TasksOf(u)' = TasksOf(u)
                                    /\ Later(u)' = Later(u)
        /\ \A k \in TasksOf(t) : k.op \in DoReqOps
        /\ TasksOf(t)' \subseteq TasksOf(t) /\ Later(t)' \subseteq Later(t)
        /\ NextOp["get"] \in DoReqOps \ {"get"}
        /\ \A x \in Requests : \A o \in DoReqOps :
               todo'[t] = DoStack(o, x) => o = NextOp["get"] /\ x = Of(t)
        /\ \A k : Once(k) => Once(k)'
    BY <1>1, <1>4, DoNextFacts
  <2>3. TasksShrink(t)
    BY <2>2 DEF TasksShrink, OnlyTasks, KeepsOnce
  <2>4. Works(t, r) /\ req[r].client = NoClient
    <3>1. Works(t, r)
      BY <1>1, <2>1 DEF Works, ReqOps
    <3>2. Stage("get", r)
      BY <1>1, <2>1 DEF PoolInv, Stages
    <3> QED BY <3>1, <3>2 DEF Stage
  <2>5. Lends(t, r, c)
    <3>1. req \in [Requests -> ReqSet] /\ c \in Clients
      BY DEF PoolInv, DataOK
    <3>2. req' = [req EXCEPT ![r].client = c]
      BY <1>2, <1>4
    <3>3. PICK q : q = [req[r] EXCEPT !.client = c]
      OBVIOUS
    <3>4. /\ q \in ReqSet /\ q.client = c /\ q.begun = req[r].begun /\ q.finished = req[r].finished
          /\ q.timer = req[r].timer /\ q.answers = req[r].answers
          /\ q.got = req[r].got /\ q.early = req[r].early
      BY <3>1, <3>3 DEF ReqSet
    <3>5. req' = [req EXCEPT ![r] = q]
      BY <3>1, <3>2, <3>3
    <3>6. req'[r] = q /\ req' \in [Requests -> ReqSet] /\ \A x \in Requests : x # r => req'[x] = req[x]
      BY <3>1, <3>4, <3>5
    <3> QED BY <1>1, <1>4, <2>1, <2>4, <3>4, <3>6 DEF Lends
  <2> QED BY <1>2, <2>2, <2>3, <2>5, LendsKeeps
<1> QED BY <1>3, <1>4 DEF Get

\* The facts of a step in which t only drops its first task, which is no erase.
Drops(t, h) ==
    /\ OnlyTasks(t) /\ KeepsOnce /\ h.op # "erase"
    /\ TasksOf(t) = {h} \cup Later(t) /\ TasksOf(t)' = Later(t) /\ Later(t)' \subseteq Later(t)
    /\ \A r \in Requests : \A o \in DoReqOps : todo'[t] # DoStack(o, r)

\* A task that returns a client does not wait behind another.
LEMMA LaterFacts ==
  ASSUME StackInv, NEW t \in Threads, NEW k \in Later(t)
  PROVE  k.op \in Behind /\ ~k.ok /\ k \in TasksOf(t) /\ k \in TaskSet
<1>1. k.op \in Behind /\ k \in TaskSet /\ k \in TasksOf(t)
  BY StackBefore DEF StackInv
<1>2. ~k.ok
  BY <1>1 DEF TaskSet, Behind, DoReqOps
<1> QED BY <1>1, <1>2

\* The pool takes back the client c.
LEMMA InsertKeeps ==
  ASSUME PoolInv, NEW t \in Threads, Insert(t)
  PROVE  PoolInv'
<1> USE DEF PoolInv
<1>z. CASE ~Ok(t)
  BY <1>z, InsertFailsKeeps
<1>y. CASE Ok(t)
  <2>0. At(t, "insert") /\ Calls(t, <<>>) /\ UNCHANGED <<allClients, req>>
    BY <1>y DEF Insert
  <2>a. PICK c \in Clients : c = Of(t)
    BY <2>0, AtFacts
  <2>b. PICK h : h = Head(todo[t]) /\ h.op = "insert" /\ h.of = c /\ h.ok
    BY <1>y, <2>0, <2>a DEF At, Of, Ok
  <2>c. t = Loop /\ h \in TasksOf(Loop) /\ clients' = clients \cup {c} /\ conn' = [conn EXCEPT ![c] = ConnReset(@)]
    <3>1. t = Loop /\ h \in TasksOf(t)
      BY <1>y, <2>0, <2>b, AtFacts
    <3> QED BY <1>y, <2>a, <3>1 DEF Insert
  <2>d. /\ StackInv' /\ Erasing' = Erasing /\ Drops(t, h)
    <3>1. <<>> \in Seq(TaskSet) /\ Range(<<>>) = {} /\ Rest(<<>>) = {} /\ Paired(<<>>)
      BY NoTasks, PlainPaired
    <3>2. "insert" \notin DoReqOps \cup {"initClient"} /\ TasksOf(t) = {h} \cup Later(t)
      BY <2>0, <2>b, AtFacts DEF DoReqOps
    <3>3. /\ StackInv' /\ Erasing' = Erasing \ {t}
          /\ \A u \in Threads \ {t} : /\ todo'[u] = todo[u] /\ TasksOf(u)' = TasksOf(u)
                                      /\ Later(u)' = Later(u)
          /\ TasksOf(t)' = Later(t)
          /\ Later(t)' \subseteq Later(t)
          /\ \A r \in Requests : \A o \in DoReqOps : todo'[t] # DoStack(o, r)
          /\ \A k : Once(k) => Once(k)'
      BY <2>0, <3>1, <3>2, StepFacts
    <3>4. t \notin Erasing
      BY <2>b DEF Erasing, At
    <3> QED BY <2>b, <3>2, <3>3, <3>4 DEF Drops, OnlyTasks, KeepsOnce
  <2>e. /\ conn[c].event /\ conn[c].phase = "up" /\ ~conn[c].finished
        /\ c \notin clients /\ (\A u \in Users : ~Concerned(u, c))
        /\ (\A r \in HeldBy(c) : req[r].finished) /\ c \in allClients
    <3>1. /\ conn[c].event /\ c \notin clients /\ (\A u \in Users : ~Concerned(u, c))
          /\ \A r \in HeldBy(c) : req[r].finished
      BY <2>b, <2>c DEF Returned
    <3>2. conn[c].phase = "up" /\ ~conn[c].finished
      BY <3>1 DEF ConnShape, ConnOK
    <3> QED BY <3>1, <3>2 DEF ErasedOnce, Broken
  <2>f. PICK k : k = ConnReset(conn[c])
    OBVIOUS
  <2>g. /\ conn[c] \in ConnSet /\ ConnOK(conn[c]) /\ conn' = [conn EXCEPT ![c] = k]
        /\ conn \in [Clients -> ConnSet]
    BY <2>c, <2>f DEF DataOK, ConnShape
  <2>h. /\ k \in ConnSet /\ k.phase = "up" /\ k.event /\ ~k.finished /\ k.writer = NoRequest /\ ~k.armed
        /\ k.reader = NoRequest /\ k.unread = {} /\ k.coming = conn[c].coming
        /\ k.cut <=> conn[c].cut \/ conn[c].coming # <<>>
    BY <2>e, <2>f, <2>g DEF ConnReset, ConnSet
  <2>i. conn'[c] = k /\ conn' \in [Clients -> ConnSet] /\ \A d \in Clients : d # c => conn'[d] = conn[d]
    BY <2>g, <2>h
  <2>j. /\ \A u \in Threads : TasksOf(u)' \subseteq TasksOf(u) /\ Later(u)' \subseteq Later(u)
        /\ \A u \in Users : u \in Threads /\ TasksOf(u)' = TasksOf(u)
        /\ \A x \in TasksOf(Loop) : x # h => x \in TasksOf(Loop)'
        /\ \A x \in TasksOf(Loop)' : x.op \in Behind /\ ~x.ok
        /\ Loop \in Threads
    BY <2>c, <2>d, NamesAssumption, LaterFacts DEF Drops, OnlyTasks, Threads
  <2>k. \A d \in Clients : /\ Pend(Task("erase", d))' <=> Pend(Task("erase", d))
                           /\ Broken(d)' <=> Broken(d)
    <3>1. ASSUME NEW d \in Clients PROVE Pend(Task("erase", d))' <=> Pend(Task("erase", d))
      <4>1. PICK x : x = Task("erase", d) /\ x.op = "erase"
        BY TaskFacts
      <4>2. \A u \in Threads : x \in TasksOf(u)' <=> x \in TasksOf(u)
        BY <2>c, <2>d, <4>1 DEF Drops, OnlyTasks
      <4> QED BY <4>1, <4>2 DEF Pend, Task
    <3>2. ASSUME NEW d \in Clients PROVE Broken(d)' <=> Broken(d)
      BY <2>e, <2>h, <2>i DEF Broken
    <3> QED BY <3>1, <3>2
  <2>l. \A d \in Clients : HeldBy(d)' = HeldBy(d)
    BY <2>0 DEF HeldBy
  <2>m. \A u \in Users, d \in Clients : Concerned(u, d)' => Concerned(u, d) /\ d # c
    BY <2>0, <2>e, <2>j DEF Concerned, ReqOps, DoReqOps
  <2>n. \A d \in Clients : d # c /\ Returning(d) => Returning(d)'
    BY <2>b, <2>j DEF Returning
  <2>o. \A u \in Threads, r \in Requests : Works(u, r)' => Works(u, r)
    BY <2>j DEF Works, ReqOps, DoReqOps
  <2>1. DataOK'
    BY <2>0, <2>c, <2>i DEF DataOK
  <2>2. ErasedOnce'
    <3>1. ASSUME NEW d \in Clients PROVE Once(Task("erase", d))'
      <4>1. PICK x : x = Task("erase", d) /\ x.op = "erase"
        BY TaskFacts
      <4>2. Once(x)'
        BY <2>d, <4>1 DEF ErasedOnce, Drops, KeepsOnce
      <4> QED BY <4>1, <4>2 DEF Task
    <3>2. \A d \in Clients : conn'[d].phase = conn[d].phase
      BY <2>e, <2>h, <2>i
    <3> QED BY <2>0, <2>k, <3>1, <3>2 DEF ErasedOnce
  <2>3. FinishHeld'
    <3>1. \A d \in Clients : Pend(Task("finish", d))' => Pend(Task("finish", d))
      BY <2>j DEF Pend, Task
    <3> QED BY <2>j, <2>k, <2>l, <3>1 DEF FinishHeld, Task
  <2>4. Counted'
    BY <2>0, <2>d DEF Counted
  <2>5. ConnShape'
    <3>1. ConnOK(k)
      <4>1. conn[c].coming = <<>> => Range(conn[c].coming) = {}
        BY EmptyFacts
      <4> QED BY <2>h, <4>1 DEF ConnOK
    <3> QED BY <2>i, <3>1 DEF ConnShape
  <2>6. Held'
    <3>1. ASSUME NEW d \in Clients, NEW u \in Threads, NEW x \in TasksOf(u)'
          PROVE  /\ x.op \in {"finish", "insert"} /\ x.of = d => conn[d].phase = "up"
                 /\ x = Ending("insert", d, FALSE) => HeldBy(d) # {}
                 /\ x.op # "answered"
      <4>1. x.op # "answered"
        BY <2>j, <3>1 DEF StackInv, Threads, Behind
      <4> QED BY <2>j, <3>1, <4>1 DEF Held
    <3>2. \A d \in Clients : conn'[d].phase = conn[d].phase
      BY <2>e, <2>h, <2>i
    <3>3. \A d \in Clients : Task("answered", d).op = "answered"
      BY TaskFacts
    <3> QED BY <2>l, <3>1, <3>2, <3>3 DEF Held, Task, Ending
  <2>7. Attached'
    <3>1. ASSUME NEW d \in Clients, NEW x \in Requests, conn'[d].event, x \in {conn'[d].writer, conn'[d].reader}
          PROVE  req[x].client = d /\ (req[x].finished => Returning(d)')
      <4>1. d # c
        BY <2>h, <2>i, <3>1, NamesAssumption
      <4> QED BY <2>i, <2>n, <3>1, <4>1 DEF Attached
    <3> QED BY <2>0, <3>1 DEF Attached
  <2>8. UserQuiet'
    BY <2>c, <2>i, <2>m DEF UserQuiet
  <2>9. Returned'
    BY <2>j DEF Returned
  <2>10. Begun'
    BY <2>0, <2>o DEF Begun, NewReq
  <2>11. Clientship'
    BY <2>0, <2>j DEF Clientship
  <2>12. Stages'
    <3>1. ASSUME NEW x \in Requests, NEW o \in DoReqOps, NEW u \in Threads, todo'[u] = DoStack(o, x)
          PROVE  Stage(o, x)'
      <4>1. u # t /\ u \in Users
        BY <2>c, <2>d, <3>1 DEF Drops, Threads
      <4>2. todo[u] = DoStack(o, x)
        BY <2>d, <3>1, <4>1 DEF Drops, OnlyTasks
      <4>3. Stage(o, x)
        BY <4>2 DEF Stages
      <4>4. req[x].client # c
        <5>1. todo[u] # <<>> /\ Head(todo[u]) = Task(o, x)
          BY <4>2, DoStackFacts
        <5>2. Head(todo[u]) \in TasksOf(u)
          BY <5>1, StackBefore DEF StackInv
        <5>3. PICK y : y = Head(todo[u]) /\ y.op = o /\ y.of = x
          BY <5>1, TaskFacts
        <5>4. req[x].client = c => Concerned(u, c)
          BY <5>2, <5>3 DEF Concerned, ReqOps
        <5> QED BY <2>e, <4>1, <5>4
      <4>5. req[x].client \in Clients \cup {NoClient}
        BY DEF DataOK, ReqSet
      <4> QED BY <2>0, <2>i, <2>n, <4>3, <4>4, <4>5 DEF Stage
    <3> QED BY <3>1 DEF Stages, DoStack
  <2>13. Workers'
    BY <2>0, <2>j, <2>o DEF Workers, Threads
  <2>14. Owned'
    <3>1. \A d : HeldBy(d)' = HeldBy(d)
      BY <2>0 DEF HeldBy
    <3> QED BY <2>0, <2>c, <2>e, <3>1 DEF Owned
  <2>15. PooledUsable'
    <3>1. \A d \in Clients : Pend(Task("erase", d)) => \E u \in Threads : Task("erase", d) \in TasksOf(u)'
      BY <2>k DEF Pend, Task
    <3>2. clients \subseteq Clients
      BY DEF DataOK
    <3>3. ASSUME NEW d \in clients'
          PROVE  /\ d \in allClients /\ conn'[d].phase = "up"
                 /\ (conn'[d].event /\ ~conn'[d].finished) \/ Pend(Task("erase", d))'
                 /\ conn'[d].reader = NoRequest /\ conn'[d].writer = NoRequest
      <4>1. CASE d = c
        BY <2>e, <2>h, <2>i, <4>1
      <4>2. CASE d # c
        <5>1. d \in clients /\ d \in Clients /\ conn'[d] = conn[d]
          BY <2>c, <2>i, <3>2, <3>3, <4>2
        <5>2. (conn[d].event /\ ~conn[d].finished) \/ Pend(Task("erase", d))
          BY <5>1 DEF PooledUsable, Pend
        <5> QED BY <2>k, <5>1, <5>2 DEF PooledUsable
      <4> QED BY <4>1, <4>2
    <3> QED BY <2>0, <3>3 DEF PooledUsable, Pend, Task
  <2>16. OwnAnswer'
    <3>1. \A r \in Requests : req[r].client # NoClient => req[r].client \in Clients
      BY DEF DataOK, ReqSet
    <3>2. \A d \in Clients : conn[d].cut => conn'[d].cut
      BY <2>h, <2>i
    <3> QED BY <2>0, <3>1, <3>2 DEF OwnAnswer
  <2> QED BY <2>d, <2>1, <2>2, <2>3, <2>4, <2>5, <2>6, <2>7, <2>8, <2>9, <2>10, <2>11, <2>12, <2>13,
             <2>14, <2>15, <2>16
<1> QED BY <1>y, <1>z

\* The thread that saw c break takes it out.
LEMMA EraseKeeps ==
  ASSUME PoolInv, NEW t \in Threads, erase(t)
  PROVE  PoolInv'
<1> USE DEF PoolInv
<1>0. At(t, "erase") /\ Calls(t, <<>>) /\ req' = req
  BY DEF erase
<1>a. PICK c \in Clients : c = Of(t)
  BY <1>0, AtFacts
<1>b. PICK h : h = Head(todo[t]) /\ h = Task("erase", c) /\ h.op = "erase" /\ h.of = c /\ h \in TasksOf(t)
  <2>1. Head(todo[t]) = Task("erase", Of(t)) /\ Head(todo[t]) \in TasksOf(t)
    BY <1>0, AtFacts
  <2> QED BY <1>a, <2>1, TaskFacts
<1>c. /\ clients' = clients \ {c} /\ allClients' = allClients \ {c}
      /\ conn' = IF HeldBy(c) = {} THEN [conn EXCEPT ![c] = NoConn] ELSE conn
  BY <1>a DEF erase
<1>d. /\ StackInv' /\ Erasing' = Erasing \ {t} /\ t \in Erasing
      /\ OnlyTasks(t) /\ TasksOf(t)' = Later(t) /\ Later(t)' \subseteq Later(t)
      /\ TasksOf(t) = {h} \cup Later(t)
      /\ \A r \in Requests : \A o \in DoReqOps : todo'[t] # DoStack(o, r)
      /\ \A k : Once(k) => Once(k)'
  <2>1. <<>> \in Seq(TaskSet) /\ Range(<<>>) = {} /\ Rest(<<>>) = {} /\ Paired(<<>>)
    BY NoTasks, PlainPaired
  <2>2. "erase" \notin DoReqOps \cup {"initClient"} /\ TasksOf(t) = {h} \cup Later(t)
    BY <1>0, <1>b, AtFacts DEF DoReqOps
  <2>3. /\ StackInv' /\ Erasing' = Erasing \ {t}
        /\ \A u \in Threads \ {t} : /\ todo'[u] = todo[u] /\ TasksOf(u)' = TasksOf(u)
                                    /\ Later(u)' = Later(u)
        /\ TasksOf(t)' = Later(t)
        /\ Later(t)' \subseteq Later(t)
        /\ \A r \in Requests : \A o \in DoReqOps : todo'[t] # DoStack(o, r)
        /\ \A k : Once(k) => Once(k)'
    BY <1>0, <2>1, <2>2, StepFacts
  <2> QED BY <1>0, <2>2, <2>3 DEF Erasing, OnlyTasks
<1>e. Pend(h) /\ c \in allClients /\ Broken(c) /\ ~conn[c].event
  <2>1. Pend(h)
    BY <1>b DEF Pend
  <2>2. c \in allClients /\ Broken(c)
    BY <1>b, <2>1 DEF ErasedOnce
  <2>3. ~conn[c].event
    BY <2>2 DEF Broken, ConnShape, ConnOK
  <2> QED BY <2>1, <2>2, <2>3
<1>f. h \notin Later(t) /\ \A u \in Threads \ {t} : h \notin TasksOf(u)
  <2>1. Once(h)
    BY <1>b DEF ErasedOnce
  <2> QED BY <1>0, <1>b, <2>1, OnceHead DEF At, StackInv
<1>g. /\ \A u \in Threads : TasksOf(u)' \subseteq TasksOf(u) /\ Later(u)' \subseteq Later(u)
      /\ \A u \in Threads : \A k \in TasksOf(u) : k # h => k \in TasksOf(u)'
      /\ \A u \in Threads : h \notin TasksOf(u)'
      /\ Loop \in Threads /\ \A u \in Users : u \in Threads
  BY <1>b, <1>d, <1>f DEF OnlyTasks, Threads
<1>h. \A d \in Clients : d # c => (Pend(Task("erase", d))' <=> Pend(Task("erase", d)))
  <2>1. ASSUME NEW d \in Clients, d # c PROVE Pend(Task("erase", d))' <=> Pend(Task("erase", d))
    <3>1. PICK x : x = Task("erase", d) /\ x # h
      BY <1>b, <2>1, TaskFacts
    <3>2. \A u \in Threads : x \in TasksOf(u)' <=> x \in TasksOf(u)
      BY <1>g, <3>1
    <3> QED BY <3>1, <3>2 DEF Pend, Task
  <2> QED BY <2>1
<1>i. ~Pend(Task("erase", c))'
  BY <1>b, <1>g DEF Pend, Task
<1>j. \A d : HeldBy(d)' = HeldBy(d)
  BY <1>0 DEF HeldBy
<1>k. \A u \in Threads, d \in Clients : Concerned(u, d)' => Concerned(u, d)
  BY <1>0, <1>g DEF Concerned, ReqOps, DoReqOps
<1>l. \A d \in Clients : Returning(d) => Returning(d)'
  BY <1>b, <1>g DEF Returning
<1>m. \A u \in Threads, r \in Requests : Works(u, r)' => Works(u, r)
  BY <1>g DEF Works, ReqOps, DoReqOps
<1>n. /\ \A d \in Clients : conn'[d] = conn[d] \/ (d = c /\ HeldBy(c) = {} /\ conn'[d] = NoConn)
      /\ conn' \in [Clients -> ConnSet] /\ conn \in [Clients -> ConnSet]
  <2>1. NoConn \in ConnSet
    BY DEF NoConn, ConnSet
  <2> QED BY <1>c, <2>1 DEF DataOK
<1>o. /\ ~NoConn.event /\ ~NoConn.finished /\ NoConn.phase = "none" /\ NoConn.writer = NoRequest
      /\ NoConn.reader = NoRequest /\ ~NoConn.armed /\ NoConn.unread = {} /\ NoConn.coming = <<>>
  BY DEF NoConn
<1>p. HeldBy(c) = {} => \A u \in Threads : \A k \in TasksOf(u) :
        ~(k.op \in {"insert", "finish"} /\ k.of = c) /\ k # Task("answered", c)
  <2>1. ASSUME HeldBy(c) = {}, NEW u \in Threads, NEW k \in TasksOf(u), k.op = "insert", k.of = c
        PROVE  FALSE
    <3>1. k \in TaskSet
      BY StackBefore DEF StackInv
    <3>2. CASE k.ok
      <4>1. u = Loop
        BY <3>2 DEF StackInv, Threads
      <4> QED BY <1>e, <2>1, <3>2, <4>1 DEF Returned
    <3>3. CASE ~k.ok
      <4>1. k = Ending("insert", c, FALSE)
        BY <2>1, <3>1, <3>3 DEF TaskSet, Ending
      <4> QED BY <2>1, <4>1 DEF Held
    <3> QED BY <3>2, <3>3
  <2>2. ASSUME HeldBy(c) = {}, NEW u \in Threads, NEW k \in TasksOf(u), k.op = "finish", k.of = c
        PROVE  FALSE
    <3>1. k \in TaskSet
      BY StackBefore DEF StackInv
    <3>2. k = Task("finish", c)
      BY <2>2, <3>1 DEF TaskSet, Task
    <3>3. Pend(k)
      BY <2>2 DEF Pend
    <3> QED BY <1>b, <1>e, <2>2, <3>2, <3>3 DEF FinishHeld
  <2>3. ASSUME NEW u \in Threads, Task("answered", c) \in TasksOf(u)
        PROVE  FALSE
    BY <1>e, <2>3 DEF Held
  <2> QED BY <2>1, <2>2, <2>3
<1>1. DataOK'
  BY <1>0, <1>c, <1>n DEF DataOK
<1>2. ErasedOnce'
  <2>1. ASSUME NEW d \in Clients PROVE Once(Task("erase", d))'
    <3>1. PICK x : x = Task("erase", d)
      OBVIOUS
    <3>2. Once(x)'
      BY <1>d, <3>1 DEF ErasedOnce
    <3> QED BY <3>1, <3>2 DEF Task
  <2>2. \A d \in Clients : Broken(d) => Broken(d)' \/ conn'[d].phase = "none"
    BY <1>n, <1>o DEF Broken
  <2>3. ASSUME NEW d \in Clients, d # c
        PROVE  /\ Pend(Task("erase", d))' => d \in allClients' /\ Broken(d)'
               /\ d \notin allClients' => conn'[d].phase = "none" \/ Broken(d)'
    BY <1>c, <1>h, <1>n, <2>3 DEF ErasedOnce, Broken
  <2> QED BY <1>e, <1>i, <2>1, <2>2, <2>3 DEF ErasedOnce
<1>3. FinishHeld'
  <2>1. \A d \in Clients : Pend(Task("finish", d))' => Pend(Task("finish", d))
    BY <1>g DEF Pend, Task
  <2> QED BY <1>g, <1>h, <1>i, <1>j, <2>1 DEF FinishHeld, Task
<1>4. Counted'
  <2>1. IsFiniteSet(allClients) /\ IsFiniteSet(Erasing)
    <3>1. IsFiniteSet(Threads)
      BY FiniteAssumption, FS_AddElement DEF Threads
    <3> QED BY <3>1, FiniteAssumption, FS_Subset DEF DataOK, Erasing
  <2>2. /\ Cardinality(allClients \ {c}) = Cardinality(allClients) - 1
        /\ Cardinality(Erasing \ {t}) = Cardinality(Erasing) - 1
    BY <1>d, <1>e, <2>1, FS_RemoveElement
  <2>3. Cardinality(allClients) \in Nat /\ Cardinality(Erasing) \in Nat
    BY <2>1, FS_CardinalityType
  <2> QED BY <1>c, <1>d, <2>2, <2>3, SizeAssumption DEF Counted
<1>5. ConnShape'
  <2>1. ConnOK(NoConn)
    <3>1. Range(<<>>) = {}
      BY EmptyFacts
    <3> QED BY <1>o, <3>1 DEF ConnOK
  <2> QED BY <1>n, <2>1 DEF ConnShape
<1>6. Held'
  <2>1. ASSUME NEW d \in Clients, HeldBy(d) # {} PROVE conn'[d].phase = "up"
    BY <1>n, <2>1 DEF Held
  <2>2. ASSUME NEW d \in Clients, NEW u \in Threads, NEW x \in TasksOf(u)'
        PROVE  /\ x.op \in {"finish", "insert"} /\ x.of = d => conn'[d].phase = "up"
               /\ x = Ending("insert", d, FALSE) => HeldBy(d) # {}
               /\ x = Task("answered", d) => conn'[d].event /\ conn'[d].reader # NoRequest
    <3>1. x \in TasksOf(u)
      BY <1>g
    <3>2. CASE conn'[d] = conn[d]
      BY <3>1, <3>2 DEF Held
    <3>3. CASE conn'[d] # conn[d]
      <4>1. d = c /\ HeldBy(c) = {}
        BY <1>n, <3>3
      <4>2. ~(x.op \in {"insert", "finish"} /\ x.of = d) /\ x # Task("answered", d)
        BY <1>p, <3>1, <4>1
      <4>3. x = Ending("insert", d, FALSE) => HeldBy(d) # {}
        BY <3>1 DEF Held
      <4> QED BY <4>2, <4>3
    <3> QED BY <3>2, <3>3
  <2> QED BY <1>j, <2>1, <2>2 DEF Held, Task, Ending
<1>7. Attached'
  <2>1. ASSUME NEW d \in Clients, NEW x \in Requests, conn'[d].event, x \in {conn'[d].writer, conn'[d].reader}
        PROVE  req[x].client = d /\ (req[x].finished => Returning(d)')
    <3>1. conn'[d] = conn[d]
      BY <1>n, <1>o, <2>1
    <3> QED BY <1>l, <2>1, <3>1 DEF Attached
  <2> QED BY <1>0, <2>1 DEF Attached
<1>8. UserQuiet'
  <2>1. ASSUME NEW d \in Clients, NEW u \in Users, Concerned(u, d)'
        PROVE  /\ conn'[d].finished \/ (conn'[d].reader = NoRequest /\ conn'[d].writer = NoRequest)
               /\ d \notin clients' /\ Concerned(u, d)
    <3>1. Concerned(u, d)
      BY <1>g, <1>k, <2>1
    <3> QED BY <1>c, <1>n, <1>o, <3>1 DEF UserQuiet
  <2>2. \A d \in Clients, u \in Users : Concerned(u, d)' => Concerned(u, d)
    BY <1>g, <1>k
  <2> QED BY <2>1, <2>2 DEF UserQuiet
<1>9. Returned'
  <2>1. ASSUME NEW k \in TasksOf(Loop), k.ok, NEW d, d = IF k.op = "insert" THEN k.of ELSE req[k.of].client
        PROVE  /\ d \in Clients
               /\ conn'[d].event
               /\ k.op # "insert" => conn'[d].reader = k.of
               /\ k.op = "reqDone" => ~req[k.of].finished
               /\ k.op = "insert" => d \notin clients' /\ (\A u \in Users : ~Concerned(u, d)')
                                      /\ \A x \in HeldBy(d) : req[x].finished
    <3>1. /\ d \in Clients
          /\ conn[d].event
          /\ k.op # "insert" => conn[d].reader = k.of
          /\ k.op = "reqDone" => ~req[k.of].finished
          /\ k.op = "insert" => d \notin clients /\ (\A u \in Users : ~Concerned(u, d))
                                      /\ \A x \in HeldBy(d) : req[x].finished
      BY <2>1 DEF Returned
    <3>2. conn'[d] = conn[d]
      BY <1>e, <1>n, <3>1
    <3> QED BY <1>c, <1>g, <1>k, <3>1, <3>2
  <2> QED BY <1>0, <1>g, <1>j, <2>1 DEF Returned
<1>10. Begun'
  BY <1>0, <1>m DEF Begun, NewReq
<1>11. Clientship'
  BY <1>0, <1>g DEF Clientship
<1>12. Stages'
  <2>1. ASSUME NEW x \in Requests, NEW o \in DoReqOps, NEW u \in Threads, todo'[u] = DoStack(o, x)
        PROVE  Stage(o, x)'
    <3>1. Stage(o, x)
      BY <1>d, <2>1 DEF Stages, OnlyTasks
    <3>2. ASSUME req[x].client # NoClient PROVE req[x].client \in Clients /\ conn'[req[x].client] = conn[req[x].client]
      <4>1. req[x].client \in Clients /\ x \in HeldBy(req[x].client)
        BY <3>2 DEF DataOK, ReqSet, HeldBy
      <4> QED BY <1>n, <4>1
    <3> QED BY <1>0, <1>l, <3>1, <3>2 DEF Stage
  <2> QED BY <2>1 DEF Stages, DoStack
<1>13. Workers'
  BY <1>0, <1>g, <1>m DEF Workers, Threads
<1>14. Owned'
  BY <1>0, <1>c, <1>j DEF Owned
<1>15. PooledUsable'
  <2>1. ASSUME NEW d \in clients'
        PROVE  /\ d \in allClients' /\ conn'[d].phase = "up"
               /\ (conn'[d].event /\ ~conn'[d].finished) \/ Pend(Task("erase", d))'
               /\ conn'[d].reader = NoRequest /\ conn'[d].writer = NoRequest
    <3>1. d \in clients /\ d # c /\ d \in Clients
      BY <1>c, <2>1 DEF DataOK
    <3>2. (conn[d].event /\ ~conn[d].finished) \/ Pend(Task("erase", d))
      BY <3>1 DEF PooledUsable, Pend
    <3> QED BY <1>c, <1>h, <1>n, <3>1, <3>2 DEF PooledUsable
  <2> QED BY <2>1 DEF PooledUsable, Pend, Task
<1>16. OwnAnswer'
  <2>1. ASSUME NEW x \in Requests, req[x].client # NoClient PROVE conn'[req[x].client] = conn[req[x].client]
    <3>1. req[x].client \in Clients /\ x \in HeldBy(req[x].client)
      BY <2>1 DEF DataOK, ReqSet, HeldBy
    <3> QED BY <1>n, <3>1
  <2> QED BY <1>0, <2>1 DEF OwnAnswer
<1> QED BY <1>d, <1>1, <1>2, <1>3, <1>4, <1>5, <1>6, <1>7, <1>8, <1>9, <1>10, <1>11, <1>12, <1>13,
           <1>14, <1>15, <1>16

\* The elements of a stack of three.
LEMMA ThreeIndex ==
  ASSUME NEW a, NEW b, NEW d, NEW s, s = <<a, b, d>>
  PROVE  DOMAIN s = {1, 2, 3} /\ s[1] = a /\ s[2] = b /\ s[3] = d
  OBVIOUS

\* A stack of four that has a name.
LEMMA FourTasksOf ==
  ASSUME NEW a \in TaskSet, NEW b \in TaskSet, NEW c \in TaskSet, NEW d \in TaskSet, NEW s, s = <<a, b, c, d>>
  PROVE  /\ Range(s) = {a, b, c, d} /\ Rest(s) = {b, c, d}
         /\ Head(s) = a /\ s # <<>> /\ s \in Seq(TaskSet)
<1>1. Head(<<a, b, c, d>>) = a /\ Tail(<<a, b, c, d>>) = <<b, c, d>> /\ <<a, b, c, d>> # <<>>
  OBVIOUS
<1>2. DOMAIN <<a, b, c, d>> = {1, 2, 3, 4} /\ DOMAIN <<b, c, d>> = {1, 2, 3}
  OBVIOUS
<1>3. Range(<<a, b, c, d>>) = {a, b, c, d} /\ Range(<<b, c, d>>) = {b, c, d}
  BY <1>2 DEF Range
<1>4. Rest(<<a, b, c, d>>) = {b, c, d}
  BY <1>1, <1>3 DEF Rest
<1>5. s \in Seq(TaskSet)
  OBVIOUS
<1> QED BY <1>1, <1>3, <1>4, <1>5

\* The elements of a stack of four.
LEMMA FourIndex ==
  ASSUME NEW a, NEW b, NEW d, NEW e, NEW s, s = <<a, b, d, e>>
  PROVE  DOMAIN s = {1, 2, 3, 4} /\ s[1] = a /\ s[2] = b /\ s[3] = d /\ s[4] = e
  OBVIOUS

\* Two tasks and one.
LEMMA Concat21 ==
  ASSUME NEW a, NEW b, NEW d, NEW y, NEW x, NEW z, x = <<a, b>>, y = <<d>>, z = <<a, b, d>>
  PROVE  x \o y = z
<1>1. x \o y \in Seq({a, b, d}) /\ z \in Seq({a, b, d})
  OBVIOUS
<1>2. Len(x \o y) = 3 /\ Len(z) = 3
  OBVIOUS
<1>3. \A i \in 1..3 : (x \o y)[i] = z[i]
  OBVIOUS
<1> QED BY <1>1, <1>2, <1>3, SeqEqual

\* One task and two.
LEMMA Concat12 ==
  ASSUME NEW a, NEW b, NEW d, NEW y, NEW x, NEW z, x = <<a>>, y = <<b, d>>, z = <<a, b, d>>
  PROVE  x \o y = z
<1>1. x \o y \in Seq({a, b, d}) /\ z \in Seq({a, b, d})
  OBVIOUS
<1>2. Len(x \o y) = 3 /\ Len(z) = 3
  OBVIOUS
<1>3. \A i \in 1..3 : (x \o y)[i] = z[i]
  OBVIOUS
<1> QED BY <1>1, <1>2, <1>3, SeqEqual

\* Three tasks and one.
LEMMA Concat31 ==
  ASSUME NEW a, NEW b, NEW d, NEW e, NEW y, NEW x, NEW z, x = <<a, b, d>>, y = <<e>>, z = <<a, b, d, e>>
  PROVE  x \o y = z
<1>1. x \o y \in Seq({a, b, d, e}) /\ z \in Seq({a, b, d, e})
  OBVIOUS
<1>2. Len(x \o y) = 4 /\ Len(z) = 4
  OBVIOUS
<1>3. \A i \in 1..4 : (x \o y)[i] = z[i]
  OBVIOUS
<1> QED BY <1>1, <1>2, <1>3, SeqEqual

\* What Finish calls on a connection without a writer.
LEMMA ThreeConcat ==
  ASSUME NEW a, NEW b, NEW d
  PROVE  <<>> \o <<a, b>> \o <<d>> = <<a, b, d>>
<1>1. PICK x, y, z : x = <<a, b>> /\ y = <<d>> /\ z = <<a, b, d>>
  OBVIOUS
<1>2. <<>> \o x = x
  BY <1>1
<1>3. x \o y = z
  BY <1>1, Concat21
<1> QED BY <1>1, <1>2, <1>3

\* What Finish calls on a connection with a writer.
LEMMA FourConcat ==
  ASSUME NEW a, NEW b, NEW d, NEW e
  PROVE  <<a>> \o <<b, d>> \o <<e>> = <<a, b, d, e>>
<1>1. PICK x, y, z, v, w : x = <<a>> /\ y = <<b, d>> /\ z = <<e>> /\ v = <<a, b, d>> /\ w = <<a, b, d, e>>
  OBVIOUS
<1>2. x \o y = v
  BY <1>1, Concat12
<1>3. v \o z = w
  BY <1>1, Concat31
<1> QED BY <1>1, <1>2, <1>3
\* The tasks that break a connection: perhaps an end of a request, and the disconnected handler.
Breaking(s, c) ==
    /\ s \in Seq(TaskSet) /\ s # <<>> /\ Paired(s) /\ Head(s).op # "erase"
    /\ Task("erase", c) \in Range(s)
    /\ \A k \in Rest(s) : k.op \in {"initClient", "erase", "unlock"}
    /\ \A k \in Range(s) : ~k.ok /\ (k.op = "erase" => k = Task("erase", c))
    /\ \A i, j \in DOMAIN s : s[i] = Task("erase", c) /\ s[j] = Task("erase", c) => i = j

\* The calls that replace a broken client: alone, with an unlock behind them, and with
\* the end of a request in front.
LEMMA BreakTwo ==
  ASSUME NEW c \in Clients, NEW a, NEW b, a = Task("initClient", Pool), b = Task("erase", c),
         NEW s, s = <<a, b>>
  PROVE  Breaking(s, c) /\ Range(s) = {a, b}
<1>2. /\ a \in TaskSet /\ a.op = "initClient" /\ ~a.ok
      /\ b \in TaskSet /\ b.op = "erase" /\ ~b.ok
  BY TaskFacts
<1>4. /\ Range(s) = {a, b} /\ Rest(s) = {b} /\ Head(s) = a /\ s # <<>> /\ s \in Seq(TaskSet)
  BY <1>2, TwoTasks
<1>5. DOMAIN s = {1, 2} /\ s[1] = a /\ s[2] = b
  OBVIOUS
<1>6. Paired(s)
  BY <1>2, <1>5 DEF Paired
<1>7. \A i, j \in DOMAIN s : s[i] = b /\ s[j] = b => i = j
  BY <1>2, <1>5
<1> QED BY <1>2, <1>4, <1>6, <1>7 DEF Breaking

\* With an unlock.
LEMMA BreakThree ==
  ASSUME NEW c \in Clients, NEW a, NEW b, NEW d, a = Task("initClient", Pool), b = Task("erase", c),
         d = Task("unlock", c), NEW s, s = <<a, b, d>>
  PROVE  Breaking(s, c) /\ Range(s) = {a, b, d}
<1>2. /\ a \in TaskSet /\ a.op = "initClient" /\ ~a.ok
      /\ b \in TaskSet /\ b.op = "erase" /\ ~b.ok
      /\ d \in TaskSet /\ d.op = "unlock" /\ ~d.ok
  BY TaskFacts
<1>4. /\ Range(s) = {a, b, d} /\ Rest(s) = {b, d} /\ Head(s) = a /\ s # <<>> /\ s \in Seq(TaskSet)
  BY <1>2, ThreeTasks
<1>5. DOMAIN s = {1, 2, 3} /\ s[1] = a /\ s[2] = b /\ s[3] = d
  BY ThreeIndex
<1>6. Paired(s)
  BY <1>2, <1>5 DEF Paired
<1>7. \A i, j \in DOMAIN s : s[i] = b /\ s[j] = b => i = j
  BY <1>2, <1>5
<1> QED BY <1>2, <1>4, <1>6, <1>7 DEF Breaking

\* With an unlock and the end of a request.
LEMMA BreakFour ==
  ASSUME NEW c \in Clients, NEW f \in TaskSet, f.op = "reqFinish", ~f.ok, NEW a, NEW b, NEW d,
         a = Task("initClient", Pool), b = Task("erase", c), d = Task("unlock", c),
         NEW s, s = <<f, a, b, d>>
  PROVE  Breaking(s, c) /\ Range(s) = {f, a, b, d}
<1>2. /\ a \in TaskSet /\ a.op = "initClient" /\ ~a.ok
      /\ b \in TaskSet /\ b.op = "erase" /\ ~b.ok
      /\ d \in TaskSet /\ d.op = "unlock" /\ ~d.ok
  BY TaskFacts
<1>4. /\ Range(s) = {f, a, b, d} /\ Rest(s) = {a, b, d} /\ Head(s) = f /\ s # <<>> /\ s \in Seq(TaskSet)
  BY <1>2, FourTasksOf
<1>5. DOMAIN s = {1, 2, 3, 4} /\ s[1] = f /\ s[2] = a /\ s[3] = b /\ s[4] = d
  BY FourIndex
<1>6. Paired(s)
  BY <1>2, <1>5 DEF Paired
<1>7. \A i, j \in DOMAIN s : s[i] = b /\ s[j] = b => i = j
  BY <1>2, <1>5
<1> QED BY <1>2, <1>4, <1>6, <1>7 DEF Breaking

\* The disconnected handler breaks c once.
LEMMA DisconnectedFacts ==
  ASSUME NEW c \in Clients
  PROVE  /\ Breaking(Disconnected(c), c)
         /\ \A k \in Range(Disconnected(c)) : k.op \in {"initClient", "erase"}
<1>1. PICK a, b : a = Task("initClient", Pool) /\ b = Task("erase", c)
  OBVIOUS
<1>2. Disconnected(c) = <<a, b>>
  BY <1>1 DEF Disconnected
<1>3. PICK s : s = Disconnected(c)
  OBVIOUS
<1>4. Breaking(s, c) /\ Range(s) = {a, b}
  BY <1>1, <1>2, <1>3, BreakTwo
<1>5. a.op = "initClient" /\ b.op = "erase"
  BY <1>1, TaskFacts
<1> QED BY <1>3, <1>4, <1>5

\* What TcpConnection::Finish calls.
FinishCalls(c, w) ==
    (IF w = NoRequest THEN <<>> ELSE <<Ending("reqFinish", w, FALSE)>>)
        \o Disconnected(c) \o <<Task("unlock", c)>>

\* So does TcpConnection::Finish.
LEMMA FinishTasks ==
  ASSUME NEW c \in Clients, NEW w \in Requests \cup {NoRequest}, NEW s, s = FinishCalls(c, w)
  PROVE  /\ Breaking(s, c)
         /\ \A k \in Range(s) : \/ k.op \in {"initClient", "erase", "unlock"}
                                \/ k.op = "reqFinish" /\ k.of = w /\ w # NoRequest
<1>1. PICK a, b, d : a = Task("initClient", Pool) /\ b = Task("erase", c) /\ d = Task("unlock", c)
  OBVIOUS
<1>2. a.op = "initClient" /\ b.op = "erase" /\ d.op = "unlock"
  BY <1>1, TaskFacts
<1>3. PICK D, U : D = Disconnected(c) /\ U = <<Task("unlock", c)>>
  OBVIOUS
<1>4. D = <<a, b>> /\ U = <<d>>
  BY <1>1, <1>3 DEF Disconnected
<1>6. CASE w = NoRequest
  <2>1. s = <<>> \o D \o U
    BY <1>3, <1>6 DEF FinishCalls
  <2>2. s = <<a, b, d>>
    BY <1>4, <2>1, ThreeConcat
  <2>3. Breaking(s, c) /\ Range(s) = {a, b, d}
    BY <1>1, <2>2, BreakThree
  <2>4. \A k \in Range(s) : k.op \in {"initClient", "erase", "unlock"}
    BY <1>2, <2>3
  <2> QED BY <2>3, <2>4
<1>7. CASE w # NoRequest
  <2>1. PICK f : f = Ending("reqFinish", w, FALSE)
    OBVIOUS
  <2>2. f \in TaskSet /\ f.op = "reqFinish" /\ f.of = w /\ ~f.ok
    BY <1>7, <2>1 DEF TaskSet, Ending
  <2>3. s = <<f>> \o D \o U
    BY <1>3, <1>7, <2>1 DEF FinishCalls
  <2>4. s = <<f, a, b, d>>
    BY <1>4, <2>3, FourConcat
  <2>5. Breaking(s, c) /\ Range(s) = {f, a, b, d}
    BY <1>1, <2>2, <2>4, BreakFour
  <2>6. \A k \in Range(s) : k = f \/ k.op \in {"initClient", "erase", "unlock"}
    BY <1>2, <2>5
  <2> QED BY <1>7, <2>2, <2>5, <2>6
<1> QED BY <1>6, <1>7

\* A connection breaks: TcpConnection::Finish is called for the first time.
LEMMA FinishKeeps ==
  ASSUME PoolInv, NEW t \in Threads, finish(t)
  PROVE  PoolInv'
<1> USE DEF PoolInv
<1>z. CASE conn[Of(t)].finished
  BY <1>z, FinishAgainKeeps
<1>y. CASE ~conn[Of(t)].finished
  <2>0. At(t, "finish") /\ UNCHANGED <<clients, allClients, req>>
    BY DEF finish
  <2>a. PICK c \in Clients : c = Of(t)
    BY <2>0, AtFacts
  <2>b. PICK h : /\ h = Head(todo[t]) /\ h = Task("finish", c) /\ h.op = "finish" /\ h.of = c
                 /\ h \in TasksOf(t) /\ TasksOf(t) = {h} \cup Later(t) /\ todo[t] # <<>>
                 /\ todo[t] \in Seq(TaskSet) /\ Tail(todo[t]) \in Seq(TaskSet)
    <3>1. /\ Head(todo[t]) = Task("finish", Of(t)) /\ Head(todo[t]) \in TasksOf(t)
          /\ TasksOf(t) = {Head(todo[t])} \cup Later(t) /\ todo[t] # <<>>
          /\ todo[t] \in Seq(TaskSet) /\ Tail(todo[t]) \in Seq(TaskSet)
      BY <2>0, AtFacts
    <3> QED BY <2>a, <3>1, TaskFacts
  <2>c. PICK w \in Requests \cup {NoRequest} : w = conn[c].writer
    BY DEF DataOK, ConnSet
  <2>d. PICK s : s = FinishCalls(c, w)
    OBVIOUS
  <2>e. Calls(t, s)
    BY <1>y, <2>a, <2>c, <2>d DEF finish, FinishCalls
  <2>f. /\ Breaking(s, c)
        /\ \A k \in Range(s) : \/ k.op \in {"initClient", "erase", "unlock"}
                               \/ k.op = "reqFinish" /\ k.of = w /\ w # NoRequest
    BY <2>d, FinishTasks
  <2>g. /\ s \in Seq(TaskSet) /\ s # <<>> /\ Paired(s) /\ Head(s).op # "erase"
        /\ Task("erase", c) \in Range(s)
        /\ \A k \in Rest(s) : k.op \in {"initClient", "erase", "unlock"}
        /\ \A k \in Range(s) : ~k.ok /\ (k.op = "erase" => k = Task("erase", c))
        /\ \A i, j \in DOMAIN s : s[i] = Task("erase", c) /\ s[j] = Task("erase", c) => i = j
    BY <2>f DEF Breaking
  <2>h. /\ \A k \in Rest(s) : k.op \in Behind
        /\ \A k \in Range(s) : /\ k.op \notin DoReqOps
                               /\ t \in Users => ~k.ok /\ k.op # "answered"
    BY <2>f, <2>g DEF Behind, DoReqOps
  <2>i. /\ StackInv' /\ Erasing' = Erasing
        /\ \A u \in Threads \ {t} : /\ todo'[u] = todo[u] /\ TasksOf(u)' = TasksOf(u)
                                    /\ Later(u)' = Later(u)
        /\ TasksOf(t)' = Range(s) \cup Later(t)
        /\ Later(t)' \subseteq Rest(s) \cup Later(t)
        /\ \A r \in Requests : \A o \in DoReqOps : todo'[t] # DoStack(o, r)
        /\ \A k : Once(k) /\ k \notin Range(s) => Once(k)'
    <3>1. t \notin Erasing
      BY <2>b DEF Erasing, At
    <3>2. "finish" \notin DoReqOps \cup {"initClient"}
      BY DEF DoReqOps
    <3>3. /\ StackInv' /\ Erasing' = Erasing \ {t}
          /\ \A u \in Threads \ {t} : /\ todo'[u] = todo[u] /\ TasksOf(u)' = TasksOf(u)
                                      /\ Later(u)' = Later(u)
          /\ TasksOf(t)' = Range(s) \cup Later(t)
          /\ Later(t)' \subseteq Rest(s) \cup Later(t)
          /\ \A r \in Requests : \A o \in DoReqOps : todo'[t] # DoStack(o, r)
          /\ \A k : Once(k) /\ k \notin Range(s) => Once(k)'
      BY <2>0, <2>e, <2>g, <2>h, <3>2, StepFacts
    <3> QED BY <3>1, <3>3
  <2>j. /\ conn[c].phase = "up" /\ ~conn[c].finished /\ conn[c].event /\ c \in allClients
        /\ ~Pend(Task("erase", c))
    <3>1. conn[c].phase = "up" /\ ~conn[c].finished
      BY <1>y, <2>a, <2>b DEF Held
    <3> QED BY <3>1 DEF ErasedOnce, Broken, ConnShape, ConnOK
  <2>k. PICK q : q = [conn[c] EXCEPT !.finished = TRUE, !.event = FALSE, !.writer = NoRequest,
                                     !.armed = FALSE, !.unread = {}, !.coming = <<>>]
    OBVIOUS
  <2>l. /\ conn \in [Clients -> ConnSet] /\ conn' = [conn EXCEPT ![c] = q]
    BY <1>y, <2>a, <2>k DEF finish, DataOK
  <2>m. /\ q \in ConnSet /\ q.phase = "up" /\ q.finished /\ ~q.event /\ q.writer = NoRequest /\ ~q.armed
        /\ q.reader = conn[c].reader /\ q.unread = {} /\ q.coming = <<>> /\ q.cut = conn[c].cut
    <3>1. conn[c] \in ConnSet
      BY <2>l
    <3>2. PICK z \in ConnSet : z = conn[c]
      BY <3>1
    <3>3. q = [z EXCEPT !.finished = TRUE, !.event = FALSE, !.writer = NoRequest,
                        !.armed = FALSE, !.unread = {}, !.coming = <<>>]
      BY <2>k, <3>2
    <3>4. /\ q.finished /\ ~q.event /\ q.writer = NoRequest /\ ~q.armed /\ q.phase = z.phase
          /\ q.reader = z.reader /\ q.unread = {} /\ q.coming = <<>> /\ q.cut = z.cut
      BY <3>3 DEF ConnSet
    <3>5. q \in ConnSet
      <4>0. <<>> \in Seq(Requests) /\ {} \in SUBSET Requests
        OBVIOUS
      <4>1. PICK e, n : e = <<>> /\ n = {} /\ e \in Seq(Requests) /\ n \in SUBSET Requests
        BY <4>0, Zenon
      <4>2. q = [z EXCEPT !.finished = TRUE, !.event = FALSE, !.writer = NoRequest,
                          !.armed = FALSE, !.unread = n, !.coming = e]
        BY <3>3, <4>1
      <4> QED BY <4>1, <4>2 DEF ConnSet
    <3> QED BY <2>j, <3>2, <3>4, <3>5
  <2>n. conn'[c] = q /\ conn' \in [Clients -> ConnSet] /\ \A d \in Clients : d # c => conn'[d] = conn[d]
    BY <2>l, <2>m
  <2>o. t \in Users => w = NoRequest /\ conn[c].reader = NoRequest
    <3>1. Concerned(t, c)
      BY <2>b DEF Concerned
    <3> QED BY <2>c, <2>j, <3>1 DEF UserQuiet
  <2>p. /\ \A u \in Users : u \in Threads /\ \A k \in TasksOf(u)' : k \in TasksOf(u) \/ k.op \in {"initClient", "erase", "unlock"}
        /\ \A u \in Threads : \A k \in TasksOf(u)' : \/ k \in TasksOf(u)
                                                     \/ u = t /\ k \in Range(s)
        /\ \A u \in Threads : \A k \in TasksOf(u) : k # h => k \in TasksOf(u)'
        /\ Loop \in Threads
    BY <2>b, <2>f, <2>i, <2>o DEF Threads
  <2>q. \A d \in Clients : d # c => (Pend(Task("erase", d))' <=> Pend(Task("erase", d)))
    <3>1. ASSUME NEW d \in Clients, d # c PROVE Pend(Task("erase", d))' <=> Pend(Task("erase", d))
      <4>1. PICK x : x = Task("erase", d) /\ x.op = "erase" /\ x # Task("erase", c)
        BY <3>1, TaskFacts
      <4>2. x \notin Range(s) /\ x # h
        BY <2>b, <2>g, <4>1
      <4>3. \A u \in Threads : x \in TasksOf(u)' <=> x \in TasksOf(u)
        BY <2>p, <4>2
      <4> QED BY <4>1, <4>3 DEF Pend, Task
    <3> QED BY <3>1
  <2>r. \A d : HeldBy(d)' = HeldBy(d)
    BY <2>0 DEF HeldBy
  <2>s. \A u \in Users, d \in Clients : Concerned(u, d)' => Concerned(u, d)
    BY <2>0, <2>p DEF Concerned, ReqOps, DoReqOps
  <2>t. \A d \in Clients : d # c /\ Returning(d) => Returning(d)'
    BY <2>b, <2>p DEF Returning
  <2>u. \A u \in Threads, r \in Requests : Works(u, r)' =>
           Works(u, r) \/ (u = t /\ u = Loop /\ r = w /\ conn[c].writer = r)
    <3>1. ASSUME NEW u \in Threads, NEW r \in Requests, NEW k \in TasksOf(u)', k.op \in ReqOps, k.of = r
          PROVE  Works(u, r) \/ (u = t /\ u = Loop /\ r = w /\ conn[c].writer = r)
      <4>1. CASE k \in TasksOf(u)
        BY <3>1, <4>1 DEF Works
      <4>2. CASE u = t /\ k \in Range(s)
        <5>1. k.op = "reqFinish" /\ k.of = w /\ w # NoRequest
          BY <2>f, <3>1, <4>2 DEF ReqOps, DoReqOps
        <5> QED BY <2>c, <2>o, <3>1, <4>2, <5>1 DEF Threads
      <4> QED BY <2>p, <3>1, <4>1, <4>2
    <3> QED BY <3>1 DEF Works, ReqOps, DoReqOps
  <2>v. w # NoRequest => /\ req[w].client = c /\ w \in Requests /\ t = Loop
                         /\ \A u \in Users : ~Concerned(u, c)
    BY <2>c, <2>j, <2>o DEF Attached, UserQuiet, Threads
  <2>w. \A k \in TasksOf(t)' : ~k.ok
    <3>1. \A k \in Later(t) : ~k.ok
      BY LaterFacts
    <3> QED BY <2>g, <2>i, <3>1
  <2>1. DataOK'
    BY <2>0, <2>n DEF DataOK
  <2>2. ErasedOnce'
    <3>1. ASSUME NEW d \in Clients, d # c PROVE Once(Task("erase", d))'
      <4>1. PICK x : x = Task("erase", d) /\ x.op = "erase" /\ x # Task("erase", c)
        BY <3>1, TaskFacts
      <4>2. Once(x)'
        BY <2>g, <2>i, <4>1 DEF ErasedOnce
      <4> QED BY <4>1, <4>2 DEF Task
    <3>2. Once(Task("erase", c))'
      <4>1. PICK x : x = Task("erase", c)
        OBVIOUS
      <4>2. Becomes(t, s, Tail(todo[t]))
        BY <2>b, <2>e, <2>g DEF Becomes, Calls
      <4>3. ~Pend(x) /\ \A i, j \in DOMAIN s : s[i] = x /\ s[j] = x => i = j
        BY <2>g, <2>j, <4>1
      <4>4. Once(x)'
        BY <4>2, <4>3, OncePushed DEF StackInv
      <4> QED BY <4>1, <4>4 DEF Task
    <3>3. Broken(c)' /\ \A d \in Clients : d # c => (Broken(d)' <=> Broken(d)) /\ conn'[d].phase = conn[d].phase
      BY <2>m, <2>n DEF Broken
    <3>4. ASSUME NEW d \in Clients
          PROVE  /\ Once(Task("erase", d))'
                 /\ Pend(Task("erase", d))' => d \in allClients' /\ Broken(d)'
                 /\ d \notin allClients' => conn'[d].phase = "none" \/ Broken(d)'
      <4>1. CASE d = c
        BY <2>0, <2>j, <3>2, <3>3, <4>1
      <4>2. CASE d # c
        BY <2>0, <2>q, <3>1, <3>3, <4>2 DEF ErasedOnce
      <4> QED BY <4>1, <4>2
    <3> QED BY <3>4 DEF ErasedOnce, Task
  <2>3. FinishHeld'
    <3>1. ASSUME NEW d \in Clients, NEW u \in Threads, Task("finish", d) \in TasksOf(u)'
          PROVE  Task("finish", d) \in TasksOf(u)
      <4>1. PICK x : x = Task("finish", d) /\ x.op = "finish"
        BY TaskFacts
      <4>2. x \notin Range(s)
        BY <2>f, <4>1
      <4> QED BY <2>p, <3>1, <4>1, <4>2
    <3>2. \A d \in Clients : Task("finish", d) \in Later(t)' => Task("finish", d) \in Later(t)
      <4>1. \A k \in Rest(s) : k.op # "finish"
        BY <2>g
      <4> QED BY <2>i, <4>1, TaskFacts
    <3>3. ASSUME NEW d \in Clients, HeldBy(d) = {}, NEW u \in Threads, Task("finish", d) \in TasksOf(u)'
          PROVE  u = Loop /\ Task("finish", d) \notin Later(u)'
      <4>1. u = Loop /\ Task("finish", d) \notin Later(u)
        BY <3>1, <3>3 DEF FinishHeld
      <4>2. Task("finish", d) \notin Later(u)'
        BY <2>i, <3>2, <4>1
      <4> QED BY <4>1, <4>2
    <3>4. ASSUME NEW d \in Clients, Pend(Task("erase", d))', HeldBy(d) = {}, Pend(Task("finish", d))' PROVE FALSE
      <4>1. PICK u \in Threads : Task("finish", d) \in TasksOf(u)'
        BY <3>4 DEF Pend, Task
      <4>2. Task("finish", d) \in TasksOf(u) /\ Pend(Task("finish", d))
        BY <3>1, <4>1 DEF Pend
      <4>3. CASE d # c
        BY <2>q, <3>4, <4>2, <4>3 DEF FinishHeld
      <4>4. CASE d = c
        <5>1. u = Loop /\ t = Loop /\ h \notin Later(t)
          BY <2>b, <3>4, <4>2, <4>4 DEF FinishHeld
        <5>2. h \in Range(s)
          BY <2>b, <2>i, <4>1, <4>4, <5>1
        <5> QED BY <2>b, <2>f, <5>2
      <4> QED BY <4>3, <4>4
    <3> QED BY <2>r, <3>3, <3>4 DEF FinishHeld, Task
  <2>4. Counted'
    BY <2>0, <2>i DEF Counted
  <2>5. ConnShape'
    <3>1. Range(<<>>) = {}
      BY EmptyFacts
    <3>2. ConnOK(q)
      BY <2>m, <3>1 DEF ConnOK
    <3> QED BY <2>n, <3>2 DEF ConnShape
  <2>6. Held'
    <3>1. \A d \in Clients : conn'[d].phase = conn[d].phase
      BY <2>j, <2>m, <2>n
    <3>2. ASSUME NEW d \in Clients, NEW u \in Threads, NEW x \in TasksOf(u)'
          PROVE  /\ x.op \in {"finish", "insert"} /\ x.of = d => conn[d].phase = "up"
                 /\ x = Ending("insert", d, FALSE) => HeldBy(d) # {}
                 /\ x = Task("answered", d) => conn'[d].event /\ conn'[d].reader # NoRequest
      <4>1. CASE x \in TasksOf(u)
        <5>1. /\ x.op \in {"finish", "insert"} /\ x.of = d => conn[d].phase = "up"
              /\ x = Ending("insert", d, FALSE) => HeldBy(d) # {}
              /\ x = Task("answered", d) => conn[d].event /\ conn[d].reader # NoRequest
          BY <4>1 DEF Held
        <5>2. x = Task("answered", d) => d # c
          <6>1. SUFFICES ASSUME x = Task("answered", c) PROVE FALSE
            OBVIOUS
          <6>2. x.op = "answered" /\ conn[c].reader # NoRequest
            <7>1. conn[c].reader # NoRequest
              BY <4>1, <6>1 DEF Held
            <7> QED BY <6>1, <7>1, TaskFacts
          <6>3. t \notin Users
            BY <2>o, <6>2
          <6>4. u = t
            BY <4>1, <6>2, <6>3 DEF StackInv, Threads
          <6>5. x \in Later(t) \/ x = h
            BY <2>b, <4>1, <6>4
          <6> QED BY <2>b, <6>2, <6>5, LaterFacts DEF Behind
        <5> QED BY <2>n, <5>1, <5>2
      <4>2. CASE x \notin TasksOf(u)
        <5>1. x.op \in {"initClient", "erase", "unlock", "reqFinish"}
          BY <2>f, <2>p, <4>2
        <5>2. Ending("insert", d, FALSE).op = "insert" /\ Task("answered", d).op = "answered"
          BY DEF Ending, Task
        <5> QED BY <5>1, <5>2
      <4> QED BY <4>1, <4>2
    <3> QED BY <2>r, <3>1, <3>2 DEF Held, Task, Ending
  <2>7. Attached'
    <3>1. ASSUME NEW d \in Clients, NEW x \in Requests, conn'[d].event, x \in {conn'[d].writer, conn'[d].reader}
          PROVE  req[x].client = d /\ (req[x].finished => Returning(d)')
      <4>1. d # c
        BY <2>m, <2>n, <3>1
      <4> QED BY <2>n, <2>t, <3>1, <4>1 DEF Attached
    <3> QED BY <2>0, <3>1 DEF Attached
  <2>8. UserQuiet'
    BY <2>0, <2>m, <2>n, <2>s DEF UserQuiet
  <2>9. Returned'
    <3>1. ASSUME NEW k \in TasksOf(Loop)', k.ok, NEW d, d = IF k.op = "insert" THEN k.of ELSE req[k.of].client
          PROVE  /\ d \in Clients
                 /\ conn'[d].event
                 /\ k.op # "insert" => conn'[d].reader = k.of
                 /\ k.op = "reqDone" => ~req[k.of].finished
                 /\ k.op = "insert" => d \notin clients /\ (\A u \in Users : ~Concerned(u, d)')
                                        /\ \A x \in HeldBy(d) : req[x].finished
      <4>1. t # Loop /\ t \in Users
        BY <2>w, <3>1 DEF Threads
      <4>2. k \in TasksOf(Loop)
        BY <2>p, <3>1, <4>1
      <4>3. /\ d \in Clients
            /\ conn[d].event
            /\ k.op # "insert" => conn[d].reader = k.of
            /\ k.op = "reqDone" => ~req[k.of].finished
            /\ k.op = "insert" => d \notin clients /\ (\A u \in Users : ~Concerned(u, d))
                                      /\ \A x \in HeldBy(d) : req[x].finished
        BY <3>1, <4>2 DEF Returned
      <4>4. Concerned(t, c)
        BY <2>b DEF Concerned
      <4>5. d # c
        <5>1. k.op = "insert" => d # c
          BY <4>1, <4>3, <4>4
        <5>2. k.op # "insert" => k.of \in Requests
          <6>1. k \in TaskSet
            BY <2>p, <4>2, StackBefore DEF StackInv
          <6> QED BY <3>1, <6>1 DEF TaskSet
        <5>3. k.op # "insert" => d # c
          BY <2>o, <4>1, <4>3, <5>2, NamesAssumption
        <5> QED BY <5>1, <5>3
      <4> QED BY <2>n, <2>s, <4>3, <4>5
    <3> QED BY <2>0, <2>r, <3>1 DEF Returned
  <2>10. Begun'
    <3>1. w # NoRequest => req[w].begun
      BY <2>v, NamesAssumption DEF Begun, NewReq
    <3> QED BY <2>0, <2>c, <2>u, <3>1, NamesAssumption DEF Begun, NewReq
  <2>11. Clientship'
    <3>1. ASSUME NEW r \in Requests, NEW u \in Threads, NEW k \in TasksOf(u)',
                 k.op \in {"reqFinish", "reqDone"}, k.of = r
          PROVE  req[r].client # NoClient
      <4>1. CASE k \in TasksOf(u)
        BY <3>1, <4>1 DEF Clientship
      <4>2. CASE k \notin TasksOf(u)
        <5>1. k.of = w /\ w # NoRequest
          BY <2>f, <2>p, <3>1, <4>2
        <5> QED BY <2>v, <3>1, <5>1, NamesAssumption
      <4> QED BY <4>1, <4>2
    <3> QED BY <2>0, <3>1 DEF Clientship
  <2>12. Stages'
    <3>1. ASSUME NEW x \in Requests, NEW o \in DoReqOps, NEW u \in Threads, todo'[u] = DoStack(o, x)
          PROVE  Stage(o, x)'
      <4>1. u # t /\ todo[u] = DoStack(o, x)
        BY <2>i, <3>1
      <4>2. Stage(o, x)
        BY <4>1 DEF Stages
      <4>3. req[x].client \in Clients \cup {NoClient}
        BY DEF DataOK, ReqSet
      <4> QED BY <2>0, <2>m, <2>n, <2>t, <4>2, <4>3 DEF Stage
    <3> QED BY <3>1 DEF Stages, DoStack
  <2>13. Workers'
    <3>1. \A u \in Users, r \in Requests : Works(u, r)' => Works(u, r)
      BY <2>u, NamesAssumption DEF Threads
    <3>2. w # NoRequest => \A u \in Users : ~Works(u, w)
      BY <2>v DEF Works, Concerned
    <3>3. ASSUME NEW r \in Requests, NEW u \in Threads, NEW v \in Threads, ~req[r].early,
                 Works(u, r)', Works(v, r)'
          PROVE  u = v
      <4>1. CASE Works(u, r) /\ Works(v, r)
        BY <3>3, <4>1 DEF Workers
      <4>2. CASE ~(Works(u, r) /\ Works(v, r))
        <5>1. r = w /\ t = Loop /\ w # NoRequest
          BY <2>u, <3>3, <4>2, NamesAssumption
        <5>2. u = Loop /\ v = Loop
          BY <3>1, <3>2, <3>3, <5>1 DEF Threads
        <5> QED BY <5>2
      <4> QED BY <4>1, <4>2
    <3>4. ASSUME NEW u \in Threads, NEW k \in TasksOf(u)', k.op = "reqDone" PROVE k \in TasksOf(u)
      BY <2>f, <2>p, <3>4
    <3> QED BY <2>0, <3>1, <3>3, <3>4 DEF Workers
  <2>14. Owned'
    BY <2>0, <2>r DEF Owned
  <2>15. PooledUsable'
    <3>1. Pend(Task("erase", c))'
      BY <2>g, <2>i DEF Pend, Task
    <3>2. ASSUME NEW d \in clients
          PROVE  /\ d \in allClients /\ conn'[d].phase = "up"
                 /\ (conn'[d].event /\ ~conn'[d].finished) \/ Pend(Task("erase", d))'
                 /\ conn'[d].reader = NoRequest /\ conn'[d].writer = NoRequest
      <4>1. d \in Clients
        BY DEF DataOK
      <4>2. (conn[d].event /\ ~conn[d].finished) \/ Pend(Task("erase", d))
        BY DEF PooledUsable, Pend
      <4>3. CASE d = c
        BY <2>j, <2>m, <2>n, <3>1, <4>3 DEF PooledUsable
      <4>4. CASE d # c
        BY <2>n, <2>q, <4>1, <4>2, <4>4 DEF PooledUsable
      <4> QED BY <4>3, <4>4
    <3> QED BY <2>0, <3>2 DEF PooledUsable, Pend, Task
  <2>16. OwnAnswer'
    <3>1. \A r \in Requests : req[r].client # NoClient => req[r].client \in Clients
      BY DEF DataOK, ReqSet
    <3>2. \A d \in Clients : conn'[d].cut = conn[d].cut
      BY <2>m, <2>n
    <3> QED BY <2>0, <3>1, <3>2 DEF OwnAnswer
  <2> QED BY <2>i, <2>1, <2>2, <2>3, <2>4, <2>5, <2>6, <2>7, <2>8, <2>9, <2>10, <2>11, <2>12, <2>13,
             <2>14, <2>15, <2>16
<1> QED BY <1>y, <1>z

\* The pool replaces a broken client.
LEMMA InitClientKeeps ==
  ASSUME PoolInv, NEW t \in Threads, initClient(t)
  PROVE  PoolInv'
<1> USE DEF PoolInv
<1>0. At(t, "initClient") /\ Calls(t, <<>>) /\ UNCHANGED <<clients, req>>
  BY DEF initClient
<1>a. PICK c \in Fresh : /\ allClients' = allClients \cup {c}
                         /\ conn' = [conn EXCEPT ![c] = [NoConn EXCEPT !.phase = "queued"]]
  BY DEF initClient
<1>b. /\ c \in Clients /\ c \notin allClients /\ HeldBy(c) = {}
      /\ \A u \in Threads : \A k \in TasksOf(u) : k.of # c
  BY DEF Fresh, InUse
<1>c. PICK q : q = [NoConn EXCEPT !.phase = "queued"]
  OBVIOUS
<1>d. /\ q \in ConnSet /\ q.phase = "queued" /\ ~q.finished /\ ~q.event /\ q.writer = NoRequest /\ ~q.armed
      /\ q.reader = NoRequest /\ q.unread = {} /\ q.coming = <<>>
  <2>1. NoConn \in ConnSet
    BY DEF NoConn, ConnSet
  <2>2. /\ NoConn.finished = FALSE /\ NoConn.event = FALSE /\ NoConn.writer = NoRequest
        /\ NoConn.armed = FALSE /\ NoConn.reader = NoRequest /\ NoConn.unread = {}
        /\ NoConn.coming = <<>>
    BY DEF NoConn
  <2>3. PICK z \in ConnSet : z = NoConn
    BY <2>1
  <2>4. q = [z EXCEPT !.phase = "queued"]
    BY <1>c, <2>3
  <2>5. /\ q \in ConnSet /\ q.phase = "queued" /\ q.finished = z.finished /\ q.event = z.event
        /\ q.writer = z.writer /\ q.armed = z.armed /\ q.reader = z.reader
        /\ q.unread = z.unread /\ q.coming = z.coming
    BY <2>4 DEF ConnSet
  <2> QED BY <2>2, <2>3, <2>5
<1>e. /\ conn'[c] = q /\ conn' \in [Clients -> ConnSet] /\ \A d \in Clients : d # c => conn'[d] = conn[d]
  BY <1>a, <1>b, <1>c, <1>d DEF DataOK
<1>f. PICK h : /\ h = Head(todo[t]) /\ h.op = "initClient" /\ TasksOf(t) = {h} \cup Later(t)
               /\ todo[t] # <<>> /\ Tail(todo[t]) \in Seq(TaskSet) /\ todo[t] \in Seq(TaskSet)
  BY <1>0, AtFacts
<1>g. /\ Becomes(t, <<>>, Tail(todo[t])) /\ todo' = [todo EXCEPT ![t] = Tail(todo[t])]
  <2>1. <<>> \o Tail(todo[t]) = Tail(todo[t]) /\ <<>> \in Seq(TaskSet)
    BY <1>f
  <2> QED BY <1>0, <1>f, <2>1 DEF Becomes, Calls
<1>h. /\ TodoOK' /\ todo'[t] = Tail(todo[t])
      /\ \A u \in Threads \ {t} : /\ todo'[u] = todo[u] /\ TasksOf(u)' = TasksOf(u)
                                  /\ Later(u)' = Later(u)
      /\ TasksOf(t)' = Later(t) /\ Later(t)' \subseteq Later(t)
  <2>0. PICK w : w = Tail(todo[t]) /\ Becomes(t, <<>>, w)
    BY <1>g
  <2>a. TodoOK
    BY DEF StackInv, PoolInv
  <2>b. /\ TodoOK' /\ todo'[t] = <<>> \o w
        /\ \A u \in Threads \ {t} : /\ todo'[u] = todo[u] /\ TasksOf(u)' = TasksOf(u)
                                    /\ Later(u)' = Later(u)
        /\ TasksOf(t)' = Range(<<>>) \cup Range(w)
        /\ Later(t)' \subseteq Rest(<<>>) \cup Range(w)
    BY <2>0, <2>a, StackAfter
  <2>c. Range(w) = Later(t)
    BY <1>f, <2>0 DEF Later, Rest
  <2>1. /\ TodoOK' /\ todo'[t] = <<>> \o Tail(todo[t])
        /\ \A u \in Threads \ {t} : /\ todo'[u] = todo[u] /\ TasksOf(u)' = TasksOf(u)
                                    /\ Later(u)' = Later(u)
        /\ TasksOf(t)' = Range(<<>>) \cup Range(Tail(todo[t]))
        /\ Later(t)' \subseteq Rest(<<>>) \cup Range(Tail(todo[t]))
        /\ Range(Tail(todo[t])) = Later(t)
    BY <2>0, <2>b, <2>c
  <2>2. <<>> \o Tail(todo[t]) = Tail(todo[t])
    BY <1>f
  <2> QED BY <2>1, <2>2, NoTasks
<1>i. Paired(todo'[t]) /\ At(t, "erase")'
  BY <1>0, <1>g, PairedInit DEF StackInv
<1>j. Erasing' = Erasing \cup {t} /\ t \notin Erasing
  <2>1. t \notin Erasing
    BY <1>f DEF Erasing, At
  <2> QED BY <1>h, <1>i, <2>1 DEF Erasing, At
<1>k. /\ \A u \in Threads : TasksOf(u)' \subseteq TasksOf(u) /\ Later(u)' \subseteq Later(u)
      /\ \A u \in Threads : \A k \in TasksOf(u) : k # h => k \in TasksOf(u)'
      /\ Loop \in Threads /\ \A u \in Users : u \in Threads
  BY <1>f, <1>h DEF Threads
<1>l. \A x \in Requests : \A o \in DoReqOps : \A u \in Threads : todo'[u] = DoStack(o, x) => todo[u] = DoStack(o, x)
  <2>1. ASSUME NEW x \in Requests, NEW o \in DoReqOps, todo'[t] = DoStack(o, x) PROVE FALSE
    <3>1. Head(todo'[t]) = Task(o, x)
      BY <2>1, DoStackFacts
    <3>2. Head(todo'[t]).op = "erase"
      BY <1>i DEF At
    <3> QED BY <3>1, <3>2, TaskFacts DEF DoReqOps
  <2> QED BY <1>h, <2>1
<1>m. StackInv'
  <2>1. \A u \in Threads : \A k \in Later(u)' : k.op \in Behind
    BY <1>k DEF StackInv
  <2>2. ASSUME NEW u \in Threads, NEW k \in TasksOf(u)', k.op \in DoReqOps
        PROVE  u \in Users /\ \E op \in DoReqOps : todo'[u] = DoStack(op, k.of)
    <3>1. u \in Users /\ \E op \in DoReqOps : todo[u] = DoStack(op, k.of)
      BY <1>k, <2>2 DEF StackInv
    <3>2. u # t
      <4>1. k \in TaskSet
        BY <1>h, <2>2 DEF TodoOK, TasksOf
      <4>2. k.of \in Requests
        BY <2>2, <4>1 DEF TaskSet, DoReqOps
      <4>3. SUFFICES ASSUME u = t PROVE FALSE
        OBVIOUS
      <4>4. PICK op \in DoReqOps : todo[t] = DoStack(op, k.of)
        BY <3>1, <4>3
      <4>5. Head(todo[t]) = Task(op, k.of)
        BY <4>2, <4>4, DoStackFacts
      <4> QED BY <1>f, <4>5, TaskFacts DEF DoReqOps
    <3> QED BY <1>h, <3>1, <3>2
  <2>3. \A u \in Threads : Paired(todo'[u])
    BY <1>h, <1>i DEF StackInv
  <2>4. \A u \in Users : \A k \in TasksOf(u)' : ~k.ok /\ k.op # "answered"
    BY <1>k DEF StackInv
  <2> QED BY <1>h, <2>1, <2>2, <2>3, <2>4 DEF StackInv, DoStack
<1>n. \A d \in Clients : Pend(Task("erase", d))' <=> Pend(Task("erase", d))
  <2>1. ASSUME NEW d \in Clients PROVE Pend(Task("erase", d))' <=> Pend(Task("erase", d))
    <3>1. PICK x : x = Task("erase", d) /\ x # h
      BY <1>f, TaskFacts
    <3>2. \A u \in Threads : x \in TasksOf(u)' <=> x \in TasksOf(u)
      BY <1>k, <3>1
    <3> QED BY <3>1, <3>2 DEF Pend, Task
  <2> QED BY <2>1
<1>o. \A d : HeldBy(d)' = HeldBy(d)
  BY <1>0 DEF HeldBy
<1>p. \A u \in Threads, d \in Clients : Concerned(u, d)' => Concerned(u, d)
  BY <1>0, <1>k DEF Concerned, ReqOps, DoReqOps
<1>q. \A u \in Threads : ~Concerned(u, c)
  <2>1. ASSUME NEW u \in Threads, NEW k \in TasksOf(u), k.op \in ReqOps, req[k.of].client = c PROVE FALSE
    <3>1. k \in TaskSet
      BY <2>1, StackBefore DEF StackInv
    <3>2. k.of \in HeldBy(c)
      BY <2>1, <3>1 DEF TaskSet, ReqOps, DoReqOps, HeldBy
    <3> QED BY <1>b, <3>2
  <2> QED BY <1>b, <2>1 DEF Concerned
<1>r. \A d \in Clients : Returning(d) => Returning(d)'
  BY <1>f, <1>k DEF Returning
<1>s. \A u \in Threads, r \in Requests : Works(u, r)' => Works(u, r)
  BY <1>k DEF Works, ReqOps, DoReqOps
<1>1. DataOK'
  BY <1>0, <1>a, <1>b, <1>e DEF DataOK
<1>2. ErasedOnce'
  <2>1. ASSUME NEW d \in Clients PROVE Once(Task("erase", d))'
    <3>1. PICK x : x = Task("erase", d) /\ Once(x)
      BY DEF ErasedOnce
    <3>2. x \notin Range(<<>>)
      BY EmptyFacts
    <3>3. Once(x)'
      BY <1>g, <3>1, <3>2, OnceKept DEF StackInv
    <3> QED BY <3>1, <3>3 DEF Task
  <2>2. ~Pend(Task("erase", c))
    BY <1>b, TaskFacts DEF Pend
  <2>3. ASSUME NEW d \in Clients
        PROVE  /\ Pend(Task("erase", d))' => d \in allClients' /\ Broken(d)'
               /\ d \notin allClients' => conn'[d].phase = "none" \/ Broken(d)'
    <3>1. CASE d = c
      BY <1>a, <1>n, <2>2, <3>1
    <3>2. CASE d # c
      BY <1>a, <1>e, <1>n, <3>2 DEF ErasedOnce, Broken
    <3> QED BY <3>1, <3>2
  <2> QED BY <2>1, <2>3 DEF ErasedOnce, Task
<1>3. FinishHeld'
  <2>1. \A d \in Clients : Pend(Task("finish", d))' => Pend(Task("finish", d))
    BY <1>k DEF Pend, Task
  <2> QED BY <1>k, <1>n, <1>o, <2>1 DEF FinishHeld, Task
<1>4. Counted'
  <2>1. IsFiniteSet(allClients) /\ IsFiniteSet(Erasing)
    <3>1. IsFiniteSet(Threads)
      BY FiniteAssumption, FS_AddElement DEF Threads
    <3> QED BY <3>1, FiniteAssumption, FS_Subset DEF DataOK, Erasing
  <2>2. /\ Cardinality(allClients \cup {c}) = Cardinality(allClients) + 1
        /\ Cardinality(Erasing \cup {t}) = Cardinality(Erasing) + 1
    BY <1>b, <1>j, <2>1, FS_AddElement
  <2>3. Cardinality(allClients) \in Nat /\ Cardinality(Erasing) \in Nat
    BY <2>1, FS_CardinalityType
  <2> QED BY <1>a, <1>j, <2>2, <2>3, SizeAssumption DEF Counted
<1>5. ConnShape'
  <2>1. ConnOK(q)
    <3>1. Range(<<>>) = {}
      BY EmptyFacts
    <3> QED BY <1>d, <3>1 DEF ConnOK
  <2> QED BY <1>e, <2>1 DEF ConnShape
<1>6. Held'
  <2>1. ASSUME NEW d \in Clients, HeldBy(d) # {} PROVE conn'[d].phase = "up"
    BY <1>b, <1>e, <2>1 DEF Held
  <2>2. ASSUME NEW d \in Clients, NEW u \in Threads, NEW x \in TasksOf(u)'
        PROVE  /\ x.op \in {"finish", "insert"} /\ x.of = d => conn'[d].phase = "up"
               /\ x = Ending("insert", d, FALSE) => HeldBy(d) # {}
               /\ x = Task("answered", d) => conn'[d].event /\ conn'[d].reader # NoRequest
    <3>1. x \in TasksOf(u) /\ x.of # c
      BY <1>b, <1>k
    <3>2. /\ x.op \in {"finish", "insert"} /\ x.of = d => conn[d].phase = "up"
          /\ x = Ending("insert", d, FALSE) => HeldBy(d) # {}
          /\ x = Task("answered", d) => conn[d].event /\ conn[d].reader # NoRequest
      BY <3>1 DEF Held
    <3>3. x = Task("answered", d) => d # c
      BY <3>1 DEF Task
    <3> QED BY <1>e, <3>1, <3>2, <3>3
  <2> QED BY <1>o, <2>1, <2>2 DEF Held, Task, Ending
<1>7. Attached'
  <2>1. ASSUME NEW d \in Clients, NEW x \in Requests, conn'[d].event, x \in {conn'[d].writer, conn'[d].reader}
        PROVE  req[x].client = d /\ (req[x].finished => Returning(d)')
    <3>1. conn'[d] = conn[d]
      BY <1>d, <1>e, <2>1
    <3> QED BY <1>r, <2>1, <3>1 DEF Attached
  <2> QED BY <1>0, <2>1 DEF Attached
<1>8. UserQuiet'
  <2>1. \A d \in Clients, u \in Users : Concerned(u, d)' => Concerned(u, d) /\ d # c /\ conn'[d] = conn[d]
    BY <1>e, <1>k, <1>p, <1>q
  <2> QED BY <1>0, <2>1 DEF UserQuiet
<1>9. Returned'
  <2>1. ASSUME NEW k \in TasksOf(Loop), k.ok, NEW d, d = IF k.op = "insert" THEN k.of ELSE req[k.of].client
        PROVE  /\ d \in Clients
               /\ conn'[d].event
               /\ k.op # "insert" => conn'[d].reader = k.of
               /\ k.op = "reqDone" => ~req[k.of].finished
               /\ k.op = "insert" => d \notin clients /\ (\A u \in Users : ~Concerned(u, d)')
                                      /\ \A x \in HeldBy(d) : req[x].finished
    <3>1. /\ d \in Clients
          /\ conn[d].event
          /\ k.op # "insert" => conn[d].reader = k.of
          /\ k.op = "reqDone" => ~req[k.of].finished
          /\ k.op = "insert" => d \notin clients /\ (\A u \in Users : ~Concerned(u, d))
                                      /\ \A x \in HeldBy(d) : req[x].finished
      BY <2>1 DEF Returned
    <3>2. d # c
      <4>1. k.op # "insert" => k.of \in Requests
        <5>1. k \in TaskSet
          BY <1>k, StackBefore DEF StackInv
        <5> QED BY <2>1, <5>1 DEF TaskSet
      <4>2. k.op # "insert" => k.of \in HeldBy(d)
        BY <2>1, <4>1 DEF HeldBy
      <4> QED BY <1>b, <1>k, <2>1, <4>2
    <3> QED BY <1>e, <1>k, <1>p, <3>1, <3>2
  <2> QED BY <1>0, <1>k, <1>o, <2>1 DEF Returned
<1>10. Begun'
  BY <1>0, <1>s DEF Begun, NewReq
<1>11. Clientship'
  BY <1>0, <1>k DEF Clientship
<1>12. Stages'
  <2>1. ASSUME NEW x \in Requests, NEW o \in DoReqOps, NEW u \in Threads, todo'[u] = DoStack(o, x)
        PROVE  Stage(o, x)'
    <3>1. Stage(o, x)
      BY <1>l, <2>1 DEF Stages
    <3>2. ASSUME req[x].client # NoClient PROVE req[x].client \in Clients /\ conn'[req[x].client] = conn[req[x].client]
      <4>1. req[x].client \in Clients /\ x \in HeldBy(req[x].client)
        BY <3>2 DEF DataOK, ReqSet, HeldBy
      <4> QED BY <1>b, <1>e, <4>1
    <3> QED BY <1>0, <1>r, <3>1, <3>2 DEF Stage
  <2> QED BY <2>1 DEF Stages, DoStack
<1>13. Workers'
  BY <1>0, <1>k, <1>s DEF Workers, Threads
<1>14. Owned'
  BY <1>0, <1>o DEF Owned
<1>15. PooledUsable'
  <2>1. ASSUME NEW d \in clients
        PROVE  /\ d \in allClients' /\ conn'[d].phase = "up"
               /\ (conn'[d].event /\ ~conn'[d].finished) \/ Pend(Task("erase", d))'
               /\ conn'[d].reader = NoRequest /\ conn'[d].writer = NoRequest
    <3>1. d \in Clients /\ d # c
      BY <1>b DEF DataOK, PooledUsable
    <3>2. (conn[d].event /\ ~conn[d].finished) \/ Pend(Task("erase", d))
      BY <3>1 DEF PooledUsable, Pend
    <3> QED BY <1>a, <1>e, <1>n, <3>1, <3>2 DEF PooledUsable
  <2> QED BY <1>0, <2>1 DEF PooledUsable, Pend, Task
<1>16. OwnAnswer'
  <2>1. ASSUME NEW x \in Requests, req[x].client # NoClient PROVE conn'[req[x].client] = conn[req[x].client]
    <3>1. req[x].client \in Clients /\ x \in HeldBy(req[x].client)
      BY <2>1 DEF DataOK, ReqSet, HeldBy
    <3> QED BY <1>b, <1>e, <3>1
  <2> QED BY <1>0, <2>1 DEF OwnAnswer
<1> QED BY <1>m, <1>1, <1>2, <1>3, <1>4, <1>5, <1>6, <1>7, <1>8, <1>9, <1>10, <1>11, <1>12, <1>13,
           <1>14, <1>15, <1>16

\* A request is answered: its thread calls onDone_ and gives the client back.
LEMMA ReqDoneKeeps ==
  ASSUME PoolInv, NEW t \in Threads, reqDone(t)
  PROVE  PoolInv'
<1> USE DEF PoolInv
<1>0. At(t, "reqDone") /\ UNCHANGED <<clients, allClients, conn>>
  BY DEF reqDone
<1>a. PICK r \in Requests : r = Of(t)
  BY <1>0, AtFacts DEF ReqOps
<1>b. PICK h : /\ h = Head(todo[t]) /\ h.op = "reqDone" /\ h.of = r /\ h.ok = Ok(t) /\ h.ok \in BOOLEAN
               /\ h \in TasksOf(t) /\ TasksOf(t) = {h} \cup Later(t)
               /\ (h.ok => t = Loop)
  <2>1. /\ Head(todo[t]) = Ending("reqDone", Of(t), Ok(t)) /\ Head(todo[t]) \in TasksOf(t)
        /\ TasksOf(t) = {Head(todo[t])} \cup Later(t) /\ Ok(t) \in BOOLEAN /\ (Ok(t) => t = Loop)
    BY <1>0, AtFacts
  <2> QED BY <1>a, <2>1, TaskFacts
<1>c. PICK c \in Clients : c = req[r].client
  <2>1. req[r].client # NoClient
    BY <1>b DEF Clientship
  <2> QED BY <2>1 DEF DataOK, ReqSet
<1>d. r \in HeldBy(c) /\ conn[c].phase = "up" /\ c # NoClient /\ Works(t, r) /\ Concerned(t, c)
  <2>1. r \in HeldBy(c) /\ c # NoClient
    BY <1>c, NamesAssumption DEF HeldBy
  <2>2. Works(t, r) /\ Concerned(t, c)
    BY <1>b, <1>c DEF Works, Concerned, ReqOps
  <2> QED BY <2>1, <2>2 DEF Held
<1>e. PICK a : a = Ending("insert", c, Ok(t))
  OBVIOUS
<1>f. a \in TaskSet /\ a.op = "insert" /\ a.of = c /\ a.ok = h.ok
  BY <1>b, <1>e, TaskFacts
<1>g. PICK s : s = <<a>>
  OBVIOUS
<1>h. s \in Seq(TaskSet) /\ Range(s) = {a} /\ Rest(s) = {} /\ s # <<>> /\ Head(s) = a
  BY <1>f, <1>g, OneTask
<1>i. Calls(t, s)
  BY <1>a, <1>c, <1>e, <1>g DEF reqDone
<1>j. /\ StackInv' /\ Erasing' = Erasing
      /\ \A u \in Threads \ {t} : /\ todo'[u] = todo[u] /\ TasksOf(u)' = TasksOf(u)
                                  /\ Later(u)' = Later(u)
      /\ TasksOf(t)' = {a} \cup Later(t)
      /\ Later(t)' \subseteq Later(t)
      /\ \A x \in Requests : \A o \in DoReqOps : todo'[t] # DoStack(o, x)
      /\ \A k : Once(k) /\ k # a => Once(k)'
  <2>1. t \notin Erasing /\ "reqDone" \notin DoReqOps \cup {"initClient"}
    BY <1>b DEF Erasing, At, DoReqOps
  <2>2. \A k \in Range(s) : k.op \notin DoReqOps /\ (t \in Users => ~k.ok /\ k.op # "answered")
    BY <1>b, <1>f, <1>h, NamesAssumption DEF DoReqOps
  <2>3. Paired(s)
    BY <1>f, <1>h, PlainPaired
  <2>4. /\ StackInv' /\ Erasing' = Erasing \ {t}
        /\ \A u \in Threads \ {t} : /\ todo'[u] = todo[u] /\ TasksOf(u)' = TasksOf(u)
                                    /\ Later(u)' = Later(u)
        /\ TasksOf(t)' = Range(s) \cup Later(t)
        /\ Later(t)' \subseteq Rest(s) \cup Later(t)
        /\ \A x \in Requests : \A o \in DoReqOps : todo'[t] # DoStack(o, x)
        /\ \A k : Once(k) /\ k \notin Range(s) => Once(k)'
    BY <1>0, <1>f, <1>h, <1>i, <2>1, <2>2, <2>3, StepFacts
  <2> QED BY <1>h, <2>1, <2>4
<1>k. PICK p : p = [req[r] EXCEPT !.finished = TRUE, !.answers = @ + 1]
  OBVIOUS
<1>l. /\ req' = [req EXCEPT ![r] = p] /\ req \in [Requests -> ReqSet]
  BY <1>a, <1>k DEF reqDone, DataOK
<1>m. /\ p \in ReqSet /\ p.finished /\ p.answers = req[r].answers + 1 /\ p.client = c
      /\ p.begun = req[r].begun /\ p.timer = req[r].timer /\ p.got = req[r].got /\ p.early = req[r].early
  <2>1. PICK z \in ReqSet : z = req[r]
    BY <1>l
  <2>2. PICK n \in Nat : n = z.answers + 1
    BY DEF ReqSet
  <2>3. p = [z EXCEPT !.finished = TRUE, !.answers = n]
    BY <1>k, <2>1, <2>2
  <2>4. /\ p \in ReqSet /\ p.finished /\ p.answers = n /\ p.client = z.client /\ p.begun = z.begun
        /\ p.timer = z.timer /\ p.got = z.got /\ p.early = z.early
    BY <2>2, <2>3 DEF ReqSet
  <2> QED BY <1>c, <2>1, <2>2, <2>4
<1>n. /\ req' \in [Requests -> ReqSet] /\ req'[r] = p /\ \A x \in Requests : x # r => req'[x] = req[x]
      /\ \A x \in Requests : req'[x].client = req[x].client /\ (req[x].finished => req'[x].finished)
  BY <1>c, <1>l, <1>m
<1>o. /\ \A u \in Threads : \A k \in TasksOf(u)' : k \in TasksOf(u) \/ (u = t /\ k = a)
      /\ \A u \in Threads : \A k \in TasksOf(u) : k # h => k \in TasksOf(u)'
      /\ \A u \in Threads : Later(u)' \subseteq Later(u)
      /\ Loop \in Threads /\ \A u \in Users : u \in Threads
      /\ a \in TasksOf(t)'
  BY <1>b, <1>j DEF Threads
<1>p. \A d : HeldBy(d)' = HeldBy(d)
  BY <1>n DEF HeldBy
<1>q. ASSUME NEW k, k.op \in {"erase", "finish"}, NEW u \in Threads
      PROVE  k \in TasksOf(u)' <=> k \in TasksOf(u)
  BY <1>b, <1>f, <1>o, <1>q
<1>r. \A d \in Clients : /\ Pend(Task("erase", d))' <=> Pend(Task("erase", d))
                         /\ Pend(Task("finish", d))' <=> Pend(Task("finish", d))
  <2>1. ASSUME NEW d \in Clients
        PROVE  /\ Pend(Task("erase", d))' <=> Pend(Task("erase", d))
               /\ Pend(Task("finish", d))' <=> Pend(Task("finish", d))
    <3>1. PICK x, y : x = Task("erase", d) /\ y = Task("finish", d) /\ x.op = "erase" /\ y.op = "finish"
      BY TaskFacts
    <3>2. \A u \in Threads : /\ x \in TasksOf(u)' <=> x \in TasksOf(u)
                             /\ y \in TasksOf(u)' <=> y \in TasksOf(u)
      BY <1>q, <3>1
    <3> QED BY <3>1, <3>2 DEF Pend, Task
  <2> QED BY <2>1
<1>s. \A u \in Threads : \A k \in TasksOf(u) : k \in TaskSet
  BY StackBefore DEF StackInv
<1>t. \A u \in Threads, d \in Clients : Concerned(u, d)' => Concerned(u, d)
  <2>1. ASSUME NEW u \in Threads, NEW d \in Clients, NEW k \in TasksOf(u)',
               \/ k.op \in ReqOps /\ req'[k.of].client = d
               \/ k.op \in {"insert", "finish"} /\ k.of = d
        PROVE  Concerned(u, d)
    <3>1. CASE k \in TasksOf(u)
      <4>1. k.op \in ReqOps => k.of \in Requests
        BY <1>s, <3>1 DEF TaskSet, ReqOps, DoReqOps
      <4> QED BY <1>n, <2>1, <3>1, <4>1 DEF Concerned
    <3>2. CASE u = t /\ k = a
      BY <1>d, <1>f, <2>1, <3>2 DEF ReqOps, DoReqOps
    <3> QED BY <1>o, <2>1, <3>1, <3>2
  <2> QED BY <2>1 DEF Concerned, ReqOps, DoReqOps
<1>u. \A d \in Clients : /\ Returning(d) => Returning(d)'
                         /\ d = c /\ t = Loop => Returning(d)'
  BY <1>b, <1>f, <1>o DEF Returning
<1>v. \A u \in Threads, x \in Requests : Works(u, x)' => Works(u, x)
  <2>1. ASSUME NEW u \in Threads, NEW x \in Requests, NEW k \in TasksOf(u)', k.op \in ReqOps, k.of = x
        PROVE  Works(u, x)
    BY <1>f, <1>o, <2>1 DEF Works, ReqOps, DoReqOps
  <2> QED BY <2>1 DEF Works, ReqOps, DoReqOps
<1>w. t \in Users => /\ conn[c].finished \/ (conn[c].reader = NoRequest /\ conn[c].writer = NoRequest)
                     /\ conn[c].event => conn[c].reader = NoRequest /\ conn[c].writer = NoRequest
  <2>1. conn[c].event => ~conn[c].finished
    BY <1>d DEF ConnShape, ConnOK
  <2> QED BY <1>d, <2>1 DEF UserQuiet
<1>1. DataOK'
  BY <1>0, <1>n DEF DataOK
<1>2. ErasedOnce'
  <2>1. ASSUME NEW d \in Clients PROVE Once(Task("erase", d))'
    <3>1. PICK x : x = Task("erase", d) /\ x.op = "erase"
      BY TaskFacts
    <3>2. Once(x)'
      BY <1>f, <1>j, <3>1 DEF ErasedOnce
    <3> QED BY <3>1, <3>2 DEF Task
  <2> QED BY <1>0, <1>r, <2>1 DEF ErasedOnce, Broken, Task
<1>3. FinishHeld'
  <2>1. ASSUME NEW d \in Clients, HeldBy(d) = {}, NEW u \in Threads, Task("finish", d) \in TasksOf(u)'
        PROVE  u = Loop /\ Task("finish", d) \notin Later(u)'
    <3>1. Task("finish", d) \in TasksOf(u)
      BY <1>q, <2>1, TaskFacts
    <3> QED BY <1>o, <2>1, <3>1 DEF FinishHeld
  <2> QED BY <1>p, <1>r, <2>1 DEF FinishHeld, Task
<1>4. Counted'
  BY <1>0, <1>j DEF Counted
<1>5. ConnShape'
  BY <1>0 DEF ConnShape
<1>6. Held'
  <2>1. ASSUME NEW d \in Clients, NEW u \in Threads, NEW x \in TasksOf(u)'
        PROVE  /\ x.op \in {"finish", "insert"} /\ x.of = d => conn[d].phase = "up"
               /\ x = Ending("insert", d, FALSE) => HeldBy(d) # {}
               /\ x = Task("answered", d) => conn[d].event /\ conn[d].reader # NoRequest
    <3>1. CASE x \in TasksOf(u)
      BY <3>1 DEF Held
    <3>2. CASE u = t /\ x = a
      <4>1. x.op \in {"finish", "insert"} /\ x.of = d => conn[d].phase = "up"
        BY <1>d, <1>f, <3>2
      <4>2. x = Ending("insert", d, FALSE) => d = c
        BY <1>e, <3>2 DEF Ending
      <4>3. x # Task("answered", d)
        BY <1>f, <3>2, TaskFacts
      <4> QED BY <1>d, <4>1, <4>2, <4>3
    <3> QED BY <1>o, <3>1, <3>2
  <2> QED BY <1>0, <1>p, <2>1 DEF Held, Task, Ending
<1>7. Attached'
  <2>1. ASSUME NEW d \in Clients, NEW x \in Requests, conn[d].event, x \in {conn[d].writer, conn[d].reader}
        PROVE  req[x].client = d /\ (req'[x].finished => Returning(d)')
    <3>1. req[x].client = d /\ (req[x].finished => Returning(d))
      BY <2>1 DEF Attached
    <3>2. CASE x # r
      BY <1>n, <1>u, <3>1, <3>2
    <3>3. CASE x = r
      <4>1. d = c
        BY <1>c, <3>1, <3>3
      <4>2. t \notin Users
        BY <1>w, <2>1, <4>1, NamesAssumption
      <4> QED BY <1>u, <3>1, <4>1, <4>2 DEF Threads
    <3> QED BY <3>2, <3>3
  <2> QED BY <1>0, <1>n, <2>1 DEF Attached
<1>8. UserQuiet'
  BY <1>0, <1>o, <1>t DEF UserQuiet
<1>9. Returned'
  <2>1. ASSUME NEW k \in TasksOf(Loop)', k.ok, NEW d, d = IF k.op = "insert" THEN k.of ELSE req[k.of].client
        PROVE  /\ d \in Clients
               /\ conn[d].event
               /\ k.op # "insert" => conn[d].reader = k.of
               /\ k.op = "reqDone" => ~req'[k.of].finished
               /\ k.op = "insert" => d \notin clients /\ (\A u \in Users : ~Concerned(u, d)')
                                      /\ \A x \in HeldBy(d) : req'[x].finished
    <3>1. CASE t = Loop /\ k = a
      <4>1. d = c /\ k.op = "insert" /\ h.ok /\ h \in TasksOf(Loop)
        BY <1>b, <1>f, <2>1, <3>1
      <4>2. conn[c].event /\ conn[c].reader = r /\ ~req[r].finished
        BY <1>b, <1>c, <4>1 DEF Returned
      <4>3. c \notin clients /\ \A x \in HeldBy(c) : ~req[x].finished => x = r
        BY <1>d, <4>2 DEF Owned
      <4>4. \A u \in Users : ~Concerned(u, c)
        <5>1. ~conn[c].finished
          BY <1>d, <4>2 DEF ConnShape, ConnOK
        <5> QED BY <4>2, <5>1, NamesAssumption DEF UserQuiet
      <4>5. \A x \in HeldBy(c) : x \in Requests
        BY DEF HeldBy
      <4> QED BY <1>m, <1>n, <1>o, <1>t, <4>1, <4>2, <4>3, <4>4, <4>5
    <3>2. CASE ~(t = Loop /\ k = a)
      <4>1. k \in TasksOf(Loop)
        BY <1>o, <2>1, <3>2
      <4>2. t # Loop /\ t \in Users
        <5>1. SUFFICES ASSUME t = Loop PROVE FALSE
          BY DEF Threads
        <5>2. k \in Later(t)
          BY <1>j, <2>1, <3>2, <5>1
        <5> QED BY <2>1, <5>2, LaterFacts
      <4>3. /\ d \in Clients
            /\ conn[d].event
            /\ k.op # "insert" => conn[d].reader = k.of
            /\ k.op = "reqDone" => ~req[k.of].finished
            /\ k.op = "insert" => d \notin clients /\ (\A u \in Users : ~Concerned(u, d))
                                      /\ \A x \in HeldBy(d) : req[x].finished
        BY <2>1, <4>1 DEF Returned
      <4>4. k.op = "reqDone" => k.of \in Requests
        BY <1>o, <1>s, <4>1 DEF TaskSet, DoReqOps
      <4>5. k.op = "reqDone" => k.of # r
        BY <1>c, <1>w, <2>1, <4>2, <4>3, <4>4, NamesAssumption
      <4>6. \A x \in HeldBy(d) : x \in Requests
        BY DEF HeldBy
      <4> QED BY <1>n, <1>o, <1>t, <4>3, <4>4, <4>5, <4>6
    <3> QED BY <3>1, <3>2
  <2>2. ASSUME NEW k \in TasksOf(Loop)', k.ok PROVE k.op = "insert" \/ k.of \in Requests
    <3>1. k \in TaskSet
      BY <1>f, <1>o, <1>s, <2>2
    <3> QED BY <2>2, <3>1 DEF TaskSet
  <2>3. ASSUME NEW k \in TasksOf(Loop)', k.ok
        PROVE  (IF k.op = "insert" THEN k.of ELSE req'[k.of].client)
                  = (IF k.op = "insert" THEN k.of ELSE req[k.of].client)
    BY <1>n, <2>2, <2>3
  <2> QED BY <1>0, <1>p, <2>1, <2>3 DEF Returned
<1>10. Begun'
  <2>1. req[r].begun
    BY <1>d DEF Begun
  <2> QED BY <1>m, <1>n, <1>v, <2>1 DEF Begun, NewReq
<1>11. Clientship'
  <2>1. ASSUME NEW x \in Requests, NEW u \in Threads, NEW k \in TasksOf(u)',
               k.op \in {"reqFinish", "reqDone"}, k.of = x
        PROVE  req[x].client # NoClient
    BY <1>f, <1>o, <2>1 DEF Clientship
  <2>2. ASSUME NEW x \in Requests
        PROVE  /\ req'[x].timer = "on" => req'[x].client # NoClient
               /\ req'[x].client # NoClient /\ ~req'[x].finished => req'[x].answers = 0
               /\ req'[x].client = NoClient => ~req'[x].finished /\ req'[x].answers <= 1 /\ req'[x].got = {}
    <3>1. CASE x = r
      BY <1>d, <1>m, <1>n, <3>1
    <3>2. CASE x # r
      BY <1>n, <3>2 DEF Clientship
    <3> QED BY <3>1, <3>2
  <2> QED BY <1>n, <2>1, <2>2 DEF Clientship
<1>12. Stages'
  <2>1. ASSUME NEW x \in Requests, NEW o \in DoReqOps, NEW u \in Threads, todo'[u] = DoStack(o, x)
        PROVE  Stage(o, x)'
    <3>1. u # t /\ todo[u] = DoStack(o, x)
      BY <1>j, <2>1
    <3>2. Stage(o, x)
      BY <3>1 DEF Stages
    <3>3. req[x].client \in Clients \cup {NoClient}
      BY DEF DataOK, ReqSet
    <3>4. CASE x # r
      BY <1>0, <1>n, <1>u, <3>2, <3>3, <3>4 DEF Stage
    <3>5. CASE x = r
      <4>1. o # "get"
        BY <1>c, <1>d, <3>2, <3>5 DEF Stage
      <4>2. Works(u, r) /\ u \in Users
        <5>1. Head(todo[u]) = Task(o, x) /\ todo[u] # <<>>
          BY <3>1, DoStackFacts
        <5>2. Task(o, x) \in TasksOf(u) /\ Task(o, x).op = o /\ Task(o, x).of = x
          BY <5>1, StackBefore, TaskFacts DEF StackInv
        <5> QED BY <3>5, <5>2 DEF Works, ReqOps, StackInv
      <4>3. t = Loop
        BY <1>d, <3>1, <4>2 DEF Workers, Threads
      <4>4. Returning(c)'
        BY <1>u, <4>3
      <4> QED BY <1>c, <1>d, <1>n, <3>5, <4>1, <4>4 DEF Stage
    <3> QED BY <3>4, <3>5
  <2> QED BY <2>1 DEF Stages, DoStack
<1>13. Workers'
  <2>1. ASSUME NEW x \in Requests, ~req'[x].early
        PROVE  /\ req'[x].answers <= 1
               /\ \A u, v \in Threads : Works(u, x)' /\ Works(v, x)' => u = v
               /\ \A u \in Threads : \A k \in TasksOf(u)' :
                    k.op = "reqDone" /\ k.of = x => req'[x].answers = 0
    <3>1. ~req[x].early
      BY <1>m, <1>n, <2>1
    <3>2. \A u, v \in Threads : Works(u, x)' /\ Works(v, x)' => u = v
      BY <1>v, <3>1 DEF Workers
    <3>3. CASE x # r
      BY <1>f, <1>n, <1>o, <3>1, <3>2, <3>3 DEF Workers
    <3>4. CASE x = r
      <4>1. req[r].answers = 0
        BY <1>b, <3>1, <3>4 DEF Workers
      <4>2. ASSUME NEW u \in Threads, NEW k \in TasksOf(u)', k.op = "reqDone", k.of = r PROVE FALSE
        <5>1. k \in TasksOf(u)
          BY <1>f, <1>o, <4>2
        <5>2. Works(u, r)
          BY <4>2, <5>1 DEF Works, ReqOps
        <5>3. u = t
          BY <1>d, <3>1, <3>4, <5>2 DEF Workers
        <5>4. k \in Later(t)
          BY <1>f, <1>j, <4>2, <5>3
        <5> QED BY <4>2, <5>4, LaterFacts DEF Behind
      <4> QED BY <1>m, <1>n, <3>2, <3>4, <4>1, <4>2
    <3> QED BY <3>3, <3>4
  <2> QED BY <1>o, <1>v, <2>1 DEF Workers
<1>14. Owned'
  <2>1. \A d : HeldBy(d) \subseteq Requests
    BY DEF HeldBy
  <2> QED BY <1>0, <1>n, <1>p, <2>1 DEF Owned
<1>15. PooledUsable'
  <2>1. \A d \in Clients : Pend(Task("erase", d)) => \E u \in Threads : Task("erase", d) \in TasksOf(u)'
    BY <1>r DEF Pend, Task
  <2> QED BY <1>0, <2>1 DEF PooledUsable, Pend, Task, DataOK
<1>16. OwnAnswer'
  <2>1. \A x \in Requests : req'[x].got = req[x].got
    BY <1>m, <1>n
  <2> QED BY <1>0, <1>n, <2>1 DEF OwnAnswer
<1> QED BY <1>j, <1>1, <1>2, <1>3, <1>4, <1>5, <1>6, <1>7, <1>8, <1>9, <1>10, <1>11, <1>12, <1>13,
           <1>14, <1>15, <1>16

\* What a client that is being connected cannot have.
LEMMA UnconnectedFacts ==
  ASSUME PoolInv, NEW c \in Clients, conn[c].phase \in {"queued", "connecting"}
  PROVE  /\ c \in allClients /\ c \notin clients /\ HeldBy(c) = {} /\ ~Pend(Task("erase", c))
         /\ ~conn[c].event /\ ~conn[c].finished /\ conn[c].writer = NoRequest /\ conn[c].reader = NoRequest
         /\ ~conn[c].armed /\ conn[c].unread = {} /\ conn[c].coming = <<>>
         /\ \A u \in Threads : ~Concerned(u, c)
<1> USE DEF PoolInv
<1>1. conn[c].phase \notin {"none", "failed", "up"}
  OBVIOUS
<1>2. /\ ~conn[c].event /\ ~conn[c].finished /\ conn[c].writer = NoRequest /\ conn[c].reader = NoRequest
      /\ ~conn[c].armed /\ conn[c].unread = {} /\ conn[c].coming = <<>>
  BY <1>1 DEF ConnShape, ConnOK
<1>3. c \in allClients /\ ~Pend(Task("erase", c))
  BY <1>1, <1>2 DEF ErasedOnce, Broken
<1>4. HeldBy(c) = {} /\ c \notin clients
  BY <1>1 DEF Held, PooledUsable
<1>5. ASSUME NEW u \in Threads, NEW k \in TasksOf(u), k.op \in ReqOps, req[k.of].client = c PROVE FALSE
  <2>1. k.of \in Requests
    BY <1>5, StackBefore DEF StackInv, TaskSet, ReqOps, DoReqOps
  <2> QED BY <1>4, <1>5, <2>1 DEF HeldBy
<1>6. \A u \in Threads : ~Concerned(u, c)
  BY <1>1, <1>5 DEF Concerned, Held
<1> QED BY <1>2, <1>3, <1>4, <1>6

\* A step of the connecting: c's connection becomes q, and the idle loop starts the tasks in new.
ConnectStep(c, q, new) ==
    /\ UNCHANGED <<clients, allClients, req>> /\ ConnBecomes(c, q) /\ q \in ConnSet /\ ConnOK(q)
    /\ q.writer = NoRequest /\ q.reader = NoRequest /\ q.cut = conn[c].cut
    /\ TasksOf(Loop) = {} /\ TasksOf(Loop)' = new
    /\ \A k \in Later(Loop)' : k.op # "finish"
    /\ \A k \in new : \/ k.op = "initClient" /\ ~k.ok
                      \/ k = Task("erase", c) /\ q.phase = "failed"
                      \/ k = Ending("insert", c, TRUE) /\ q.phase = "up" /\ q.event
    /\ \A r \in Requests : \A o \in DoReqOps : todo'[Loop] # DoStack(o, r)

\* Connecting leaves everything but the connection alone.
LEMMA ConnectStepKeeps ==
  ASSUME PoolInv, NEW c \in Clients, conn[c].phase \in {"queued", "connecting"},
         NEW q, NEW new, ConnectStep(c, q, new), OnlyTasks(Loop), StackInv', Erasing' = Erasing,
         \A d \in Clients : Once(Task("erase", d))'
  PROVE  PoolInv'
<1> USE DEF PoolInv
<1>0. /\ Loop \in Threads /\ Loop \notin Users
      /\ \A u \in Threads : u = Loop \/ u \in Users
      /\ \A u \in Users : u \in Threads
  BY NamesAssumption DEF Threads
<1>a. /\ c \in allClients /\ c \notin clients /\ HeldBy(c) = {} /\ ~Pend(Task("erase", c))
      /\ \A u \in Threads : ~Concerned(u, c)
  BY UnconnectedFacts
<1>b. /\ UNCHANGED <<clients, allClients, req>>
      /\ conn' \in [Clients -> ConnSet] /\ conn'[c] = q /\ \A d \in Clients : d # c => conn'[d] = conn[d]
      /\ ConnOK(q) /\ q.writer = NoRequest /\ q.reader = NoRequest /\ q.cut = conn[c].cut
  BY DEF ConnectStep, ConnBecomes, DataOK
<1>c. /\ TasksOf(Loop) = {} /\ TasksOf(Loop)' = new /\ \A k \in Later(Loop)' : k.op # "finish"
      /\ \A r \in Requests : \A o \in DoReqOps : todo'[Loop] # DoStack(o, r)
      /\ \A u \in Users : todo'[u] = todo[u] /\ TasksOf(u)' = TasksOf(u) /\ Later(u)' = Later(u)
  BY <1>0 DEF ConnectStep, OnlyTasks, Threads
<1>d. \A k \in new : /\ k.op \in {"initClient", "erase", "insert"}
                     /\ k.op = "erase" => k = Task("erase", c) /\ q.phase = "failed"
                     /\ k.op = "insert" => k.of = c /\ k.ok /\ q.phase = "up" /\ q.event
                     /\ k.ok => k.op = "insert"
  <2>1. PICK a, b : a = Task("erase", c) /\ b = Ending("insert", c, TRUE)
    OBVIOUS
  <2>2. a.op = "erase" /\ ~a.ok /\ b.op = "insert" /\ b.of = c /\ b.ok
    BY <2>1 DEF Task, Ending
  <2>3. \A k \in new : \/ k.op = "initClient" /\ ~k.ok
                       \/ k = a /\ q.phase = "failed"
                       \/ k = b /\ q.phase = "up" /\ q.event
    BY <2>1 DEF ConnectStep
  <2> QED BY <2>1, <2>2, <2>3
<1>e. \A d : HeldBy(d)' = HeldBy(d)
  BY <1>b DEF HeldBy
<1>f. \A d \in Clients : /\ d # c => (Pend(Task("erase", d))' <=> Pend(Task("erase", d)))
                         /\ d = c /\ Pend(Task("erase", d))' => q.phase = "failed"
                         /\ Pend(Task("finish", d))' => Pend(Task("finish", d))
  <2>1. ASSUME NEW d \in Clients
        PROVE  /\ d # c => (Pend(Task("erase", d))' <=> Pend(Task("erase", d)))
               /\ d = c /\ Pend(Task("erase", d))' => q.phase = "failed"
               /\ Pend(Task("finish", d))' => Pend(Task("finish", d))
    <3>1. PICK x, y : x = Task("erase", d) /\ y = Task("finish", d) /\ x.op = "erase" /\ x.of = d /\ y.op = "finish"
      BY TaskFacts
    <3>2. y \notin new /\ (x \in new => d = c /\ q.phase = "failed")
      <4>1. x = Task("erase", c) => d = c
        BY <3>1, TaskFacts
      <4> QED BY <1>d, <3>1, <4>1
    <3>3. \A u \in Threads : y \in TasksOf(u)' => y \in TasksOf(u)
      BY <1>0, <1>c, <3>2
    <3>4. d # c => \A u \in Threads : x \in TasksOf(u)' <=> x \in TasksOf(u)
      BY <1>0, <1>c, <3>2
    <3>5. d = c => \A u \in Threads : x \in TasksOf(u)' => q.phase = "failed"
      BY <1>0, <1>a, <1>c, <3>1, <3>2 DEF Pend
    <3> QED BY <3>1, <3>3, <3>4, <3>5 DEF Pend, Task
  <2> QED BY <2>1
<1>g. /\ \A u \in Users, d \in Clients : Concerned(u, d)' => Concerned(u, d)
      /\ \A u \in Threads, r \in Requests : Works(u, r)' => Works(u, r)
  <2>1. \A u \in Threads : \A k \in TasksOf(u)' : k.op \in ReqOps => k \in TasksOf(u)
    BY <1>0, <1>c, <1>d DEF ReqOps, DoReqOps
  <2>2. \A u \in Users, d \in Clients : Concerned(u, d)' => Concerned(u, d)
    BY <1>b, <1>c DEF Concerned, ReqOps, DoReqOps
  <2> QED BY <2>1, <2>2 DEF Works, ReqOps, DoReqOps
<1>h. \A r \in Requests : req[r].client # NoClient =>
         req[r].client \in Clients /\ conn'[req[r].client] = conn[req[r].client]
  <2>1. ASSUME NEW r \in Requests, req[r].client # NoClient
        PROVE  req[r].client \in Clients /\ req[r].client # c
    BY <1>a, <2>1 DEF DataOK, ReqSet, HeldBy
  <2> QED BY <1>b, <2>1
<1>i. \A d : ~Returning(d)
  BY <1>c DEF Returning
<1>1. DataOK'
  BY <1>b DEF DataOK
<1>2. ErasedOnce'
  <2>1. ASSUME NEW d \in Clients
        PROVE  /\ Pend(Task("erase", d))' => d \in allClients' /\ Broken(d)'
               /\ d \notin allClients' => conn'[d].phase = "none" \/ Broken(d)'
    <3>1. CASE d = c
      BY <1>a, <1>b, <1>f, <3>1 DEF Broken
    <3>2. CASE d # c
      BY <1>b, <1>f, <3>2 DEF ErasedOnce, Broken
    <3> QED BY <3>1, <3>2
  <2> QED BY <2>1 DEF ErasedOnce, Task
<1>3. FinishHeld'
  <2>1. ASSUME NEW d \in Clients, HeldBy(d) = {}, NEW u \in Threads, Task("finish", d) \in TasksOf(u)'
        PROVE  FALSE
    <3>1. u # Loop
      BY <1>c, <1>d, <2>1, TaskFacts
    <3> QED BY <1>0, <1>c, <2>1, <3>1 DEF FinishHeld
  <2>2. ASSUME NEW d \in Clients, Pend(Task("erase", d))', Pend(Task("finish", d))' PROVE HeldBy(d) # {}
    <3>1. PICK u \in Threads : Task("finish", d) \in TasksOf(u)'
      BY <2>2 DEF Pend, Task
    <3> QED BY <2>1, <3>1
  <2> QED BY <1>e, <2>1, <2>2 DEF FinishHeld, Task
<1>4. Counted'
  BY <1>b DEF Counted
<1>5. ConnShape'
  BY <1>b DEF ConnShape
<1>6. Held'
  <2>1. ASSUME NEW d \in Clients, NEW u \in Threads, NEW x \in TasksOf(u)'
        PROVE  /\ x.op \in {"finish", "insert"} /\ x.of = d => conn'[d].phase = "up"
               /\ x = Ending("insert", d, FALSE) => HeldBy(d) # {}
               /\ x = Task("answered", d) => conn'[d].event /\ conn'[d].reader # NoRequest
    <3>1. CASE u = Loop
      <4>1. Ending("insert", d, FALSE).op = "insert" /\ ~Ending("insert", d, FALSE).ok
            /\ Task("answered", d).op = "answered"
        BY DEF Ending, Task
      <4>2. x \in new
        BY <1>c, <3>1
      <4>3. x.op = "insert" => x.of = c /\ x.ok /\ q.phase = "up"
        BY <1>d, <4>2
      <4>4. x.op \in {"initClient", "erase", "insert"}
        BY <1>d, <4>2
      <4>5. x # Ending("insert", d, FALSE) /\ x # Task("answered", d)
        BY <4>1, <4>3, <4>4
      <4>6. x.op \in {"finish", "insert"} /\ x.of = d => conn'[d].phase = "up"
        BY <1>b, <4>3, <4>4
      <4> QED BY <4>5, <4>6
    <3>2. CASE u # Loop
      <4>1. /\ x.op \in {"finish", "insert"} /\ x.of = d => conn[d].phase = "up"
            /\ x = Ending("insert", d, FALSE) => HeldBy(d) # {}
            /\ x = Task("answered", d) => conn[d].event /\ conn[d].reader # NoRequest
        <5>1. x \in TasksOf(u)
          BY <1>0, <1>c, <3>2
        <5>2. Held
          OBVIOUS
        <5> QED BY ONLY <5>1, <5>2, d \in Clients, u \in Threads DEF Held
      <4>2. x = Task("answered", d) => d # c
        <5>1. ~conn[c].event
          BY UnconnectedFacts
        <5> QED BY <4>1, <5>1
      <4>3. x.op \in {"finish", "insert"} /\ x.of = d => d # c
        BY <4>1
      <4> QED BY <1>b, <4>1, <4>2, <4>3
    <3> QED BY <3>1, <3>2
  <2>2. \A d \in Clients : HeldBy(d) # {} => conn'[d].phase = "up"
    BY <1>a, <1>b DEF Held
  <2> QED BY <1>e, <2>1, <2>2 DEF Held, Task, Ending
<1>7. Attached'
  <2>1. ASSUME NEW d \in Clients, NEW x \in Requests, conn'[d].event, x \in {conn'[d].writer, conn'[d].reader}
        PROVE  req[x].client = d /\ ~req[x].finished
    <3>1. d # c
      BY <1>b, <2>1, NamesAssumption
    <3> QED BY <1>b, <1>i, <2>1, <3>1 DEF Attached
  <2> QED BY <1>b, <2>1 DEF Attached
<1>8. UserQuiet'
  <2>1. ASSUME NEW d \in Clients, NEW u \in Users, Concerned(u, d)' PROVE Concerned(u, d) /\ d # c
    BY <1>0, <1>a, <1>g, <2>1
  <2>2. \A d \in Clients : d # c => conn'[d] = conn[d]
    BY <1>b
  <2> QED BY <1>b, <1>g, <2>1, <2>2 DEF UserQuiet
<1>9. Returned'
  <2>1. ASSUME NEW k \in TasksOf(Loop)', k.ok PROVE k.op = "insert" /\ k.of = c /\ q.event
    BY <1>c, <1>d, <2>1
  <2>2. \A u \in Users : ~Concerned(u, c)'
    BY <1>0, <1>a, <1>g
  <2> QED BY <1>a, <1>b, <1>e, <2>1, <2>2 DEF Returned
<1>10. Begun'
  BY <1>b, <1>g DEF Begun, NewReq
<1>11. Clientship'
  <2>1. ASSUME NEW u \in Threads, NEW k \in TasksOf(u)', k.op \in {"reqFinish", "reqDone"}
        PROVE  k \in TasksOf(u)
    BY <1>0, <1>c, <1>d, <2>1
  <2> QED BY <1>b, <2>1 DEF Clientship
<1>12. Stages'
  <2>1. ASSUME NEW x \in Requests, NEW o \in DoReqOps, NEW u \in Threads, todo'[u] = DoStack(o, x)
        PROVE  Stage(o, x)'
    <3>1. todo[u] = DoStack(o, x)
      BY <1>0, <1>c, <2>1
    <3>2. Stage(o, x)
      BY <3>1 DEF Stages
    <3> QED BY <1>b, <1>h, <1>i, <3>2 DEF Stage
  <2> QED BY <2>1 DEF Stages, DoStack
<1>13. Workers'
  <2>1. ASSUME NEW u \in Threads, NEW k \in TasksOf(u)', k.op = "reqDone" PROVE k \in TasksOf(u)
    BY <1>0, <1>c, <1>d, <2>1
  <2> QED BY <1>0, <1>b, <1>g, <2>1 DEF Workers
<1>14. Owned'
  BY <1>b, <1>e DEF Owned
<1>15. PooledUsable'
  <2>1. ASSUME NEW d \in clients
        PROVE  /\ d \in allClients /\ conn'[d].phase = "up"
               /\ (conn'[d].event /\ ~conn'[d].finished) \/ Pend(Task("erase", d))'
               /\ conn'[d].reader = NoRequest /\ conn'[d].writer = NoRequest
    <3>1. d \in Clients /\ d # c
      BY <1>a DEF DataOK
    <3>2. (conn[d].event /\ ~conn[d].finished) \/ Pend(Task("erase", d))
      BY DEF PooledUsable, Pend
    <3> QED BY <1>b, <1>f, <3>1, <3>2 DEF PooledUsable
  <2> QED BY <1>b, <2>1 DEF PooledUsable, Pend, Task
<1>16. OwnAnswer'
  BY <1>b, <1>h DEF OwnAnswer
<1> QED BY <1>1, <1>2, <1>3, <1>4, <1>5, <1>6, <1>7, <1>8, <1>9, <1>10, <1>11, <1>12, <1>13,
           <1>14, <1>15, <1>16

\* A connect that fails: the pool replaces the client.
LEMMA ConnectFails ==
  ASSUME PoolInv, NEW c \in Clients, conn[c].phase \in {"queued", "connecting"},
         conn' = [conn EXCEPT ![c].phase = "failed"], Starts(Loop, Disconnected(c)),
         UNCHANGED <<clients, allClients, req>>
  PROVE  PoolInv'
<1>1. DataOK /\ StackInv /\ conn[c] \in ConnSet /\ Loop \in Threads
  BY DEF PoolInv, DataOK, Threads
<1>2. PICK q : q = [conn[c] EXCEPT !.phase = "failed"]
  OBVIOUS
<1>3. /\ q \in ConnSet /\ q.phase = "failed" /\ q.event = conn[c].event /\ q.finished = conn[c].finished
      /\ q.writer = conn[c].writer /\ q.reader = conn[c].reader /\ q.armed = conn[c].armed
      /\ q.unread = conn[c].unread /\ q.coming = conn[c].coming /\ q.cut = conn[c].cut
  <2>1. PICK z \in ConnSet : z = conn[c]
    BY <1>1
  <2> QED BY <1>2, <2>1 DEF ConnSet
<1>4. ConnBecomes(c, q)
  BY <1>1, <1>2 DEF ConnBecomes, DataOK
<1>5. ConnOK(q) /\ q.writer = NoRequest /\ q.reader = NoRequest
  <2>1. Range(<<>>) = {}
    BY EmptyFacts
  <2> QED BY <1>3, <2>1, UnconnectedFacts DEF ConnOK
<1>6. PICK s : s = Disconnected(c)
  OBVIOUS
<1>7. /\ Breaking(s, c) /\ \A k \in Range(s) : k.op \in {"initClient", "erase"}
  BY <1>6, DisconnectedFacts
<1>8. /\ s \in Seq(TaskSet) /\ s # <<>> /\ Paired(s) /\ Head(s).op # "erase"
      /\ \A k \in Rest(s) : k.op \in {"initClient", "erase", "unlock"}
      /\ \A k \in Range(s) : ~k.ok /\ (k.op = "erase" => k = Task("erase", c))
      /\ \A i, j \in DOMAIN s : s[i] = Task("erase", c) /\ s[j] = Task("erase", c) => i = j
  BY <1>7 DEF Breaking
<1>9. /\ StackInv' /\ Erasing' = Erasing
      /\ \A u \in Threads \ {Loop} : /\ todo'[u] = todo[u] /\ TasksOf(u)' = TasksOf(u)
                                     /\ Later(u)' = Later(u)
      /\ TasksOf(Loop) = {} /\ TasksOf(Loop)' = Range(s) /\ Later(Loop)' \subseteq Rest(s)
      /\ \A r \in Requests : \A o \in DoReqOps : todo'[Loop] # DoStack(o, r)
      /\ \A k : Once(k) /\ k \notin Range(s) => Once(k)'
  <2>1. /\ \A k \in Rest(s) : k.op \in Behind
        /\ \A k \in Range(s) : /\ k.op \notin DoReqOps
                               /\ Loop \in Users => ~k.ok /\ k.op # "answered"
    BY <1>7, <1>8, NamesAssumption DEF Behind, DoReqOps
  <2>2. Starts(Loop, s)
    BY <1>6
  <2> QED BY <1>1, <1>8, <2>1, <2>2, StartFacts
<1>10. ASSUME NEW d \in Clients PROVE Once(Task("erase", d))'
  <2>1. PICK x : x = Task("erase", d)
    OBVIOUS
  <2>2. CASE x \notin Range(s)
    <3>1. Once(x)
      BY <2>1 DEF PoolInv, ErasedOnce
    <3>2. Once(x)'
      BY <1>9, <2>2, <3>1
    <3> QED BY <2>1, <3>2 DEF Task
  <2>3. CASE x \in Range(s)
    <3>1. x = Task("erase", c)
      BY <1>8, <2>1, <2>3, TaskFacts
    <3>2. ~Pend(x)
      BY <3>1, UnconnectedFacts
    <3>3. <<>> \in Seq(TaskSet) /\ s \o <<>> = s
      BY <1>8
    <3>4. Becomes(Loop, s, <<>>)
      BY <1>6, <1>8, <3>3 DEF Becomes, Starts
    <3>5. Once(x)'
      BY <1>1, <1>8, <3>1, <3>2, <3>4, OncePushed DEF StackInv
    <3> QED BY <2>1, <3>5 DEF Task
  <2> QED BY <2>2, <2>3
<1>11. ConnectStep(c, q, Range(s))
  BY <1>3, <1>4, <1>5, <1>7, <1>8, <1>9 DEF ConnectStep
<1>12. OnlyTasks(Loop)
  BY <1>9 DEF OnlyTasks
<1> QED BY <1>9, <1>10, <1>11, <1>12, ConnectStepKeeps

\* A step that leaves the stacks alone.
LEMMA SameStacks ==
  ASSUME StackInv, ErasedOnce, UNCHANGED todo
  PROVE  /\ StackInv' /\ Erasing' = Erasing /\ \A c \in Clients : Once(Task("erase", c))'
         /\ \A u \in Threads : todo'[u] = todo[u] /\ TasksOf(u)' = TasksOf(u) /\ Later(u)' = Later(u)
<1>1. \A u \in Threads : todo'[u] = todo[u] /\ TasksOf(u)' = TasksOf(u) /\ Later(u)' = Later(u)
  BY DEF TasksOf, Later
<1>2. StackInv'
  <2>1. TodoOK'
    BY DEF StackInv, TodoOK
  <2>2. \A u \in Threads : Paired(todo'[u])
    BY <1>1 DEF StackInv
  <2>3. \A u \in Threads : \A k \in TasksOf(u)' : k.op \in DoReqOps =>
          u \in Users /\ \E op \in DoReqOps : todo'[u] = DoStack(op, k.of)
    BY <1>1 DEF StackInv
  <2>4. /\ \A u \in Threads : \A k \in Later(u)' : k.op \in Behind
        /\ \A u \in Users : \A k \in TasksOf(u)' : ~k.ok /\ k.op # "answered"
    BY <1>1 DEF StackInv, Threads
  <2> QED BY <2>1, <2>2, <2>3, <2>4 DEF StackInv, DoStack
<1>3. Erasing' = Erasing
  BY DEF Erasing, At
<1>4. \A k : Once(k) => Once(k)'
  BY DEF Once
<1>5. ASSUME NEW c \in Clients PROVE Once(Task("erase", c))'
  <2>1. PICK x : x = Task("erase", c) /\ Once(x)
    BY DEF ErasedOnce
  <2> QED BY <1>4, <2>1 DEF Task
<1> QED BY <1>1, <1>2, <1>3, <1>5

\* The lambda of AsyncConnect.
LEMMA ConnectKeeps ==
  ASSUME PoolInv, NEW c \in Clients, connect(c)
  PROVE  PoolInv'
<1>1. conn[c].phase = "queued" /\ UNCHANGED <<clients, allClients, req>>
  BY DEF connect
<1>2. CASE conn' = [conn EXCEPT ![c].phase = "failed"] /\ Starts(Loop, Disconnected(c))
  BY <1>1, <1>2, ConnectFails
<1>3. CASE conn' = [conn EXCEPT ![c] = Connecting(@)] /\ todo[Loop] = <<>> /\ UNCHANGED todo
  <2>1. DataOK /\ StackInv /\ conn[c] \in ConnSet /\ Loop \in Threads
    BY DEF PoolInv, DataOK, Threads
  <2>2. PICK q : q = [conn[c] EXCEPT !.phase = "connecting"]
    OBVIOUS
  <2>3. /\ q \in ConnSet /\ q.phase = "connecting" /\ q.event = conn[c].event
        /\ q.finished = conn[c].finished /\ q.writer = conn[c].writer /\ q.reader = conn[c].reader
        /\ q.armed = conn[c].armed /\ q.unread = conn[c].unread /\ q.coming = conn[c].coming
        /\ q.cut = conn[c].cut
    <3>1. PICK z \in ConnSet : z = conn[c]
      BY <2>1
    <3> QED BY <2>2, <3>1 DEF ConnSet
  <2>4. ConnBecomes(c, q)
    BY <1>3, <2>1, <2>2 DEF ConnBecomes, DataOK, Connecting
  <2>5. ConnOK(q) /\ q.writer = NoRequest /\ q.reader = NoRequest
    <3>1. Range(<<>>) = {}
      BY EmptyFacts
    <3> QED BY <1>1, <2>3, <3>1, UnconnectedFacts DEF ConnOK
  <2>6. /\ TasksOf(Loop) = {} /\ Later(Loop) = {}
        /\ \A u \in Threads : todo'[u] = todo[u] /\ TasksOf(u)' = TasksOf(u) /\ Later(u)' = Later(u)
    BY <1>3, <2>1, StackBefore DEF StackInv, TasksOf, Later
  <2>7. StackInv' /\ Erasing' = Erasing /\ \A d \in Clients : Once(Task("erase", d))'
    BY <1>3, <2>1, SameStacks DEF PoolInv
  <2>8. \A r \in Requests : \A o \in DoReqOps : todo'[Loop] # DoStack(o, r)
    BY <1>3, DoStackFacts
  <2>9. ConnectStep(c, q, {})
    BY <1>1, <2>1, <2>3, <2>4, <2>5, <2>6, <2>8 DEF ConnectStep
  <2>10. OnlyTasks(Loop)
    BY <2>6 DEF OnlyTasks
  <2> QED BY <1>1, <2>7, <2>9, <2>10, ConnectStepKeeps
<1> QED BY <1>2, <1>3 DEF connect

\* Connector::writeHandler.
LEMMA ConnectedKeeps ==
  ASSUME PoolInv, NEW c \in Clients, connected(c)
  PROVE  PoolInv'
<1>1. conn[c].phase = "connecting" /\ UNCHANGED <<clients, allClients, req>>
  BY DEF connected
<1>2. CASE conn' = [conn EXCEPT ![c].phase = "failed"] /\ Starts(Loop, Disconnected(c))
  BY <1>1, <1>2, ConnectFails
<1>3. CASE conn' = [conn EXCEPT ![c] = Connected(@)] /\ Starts(Loop, <<Ending("insert", c, TRUE)>>)
  <2>1. DataOK /\ StackInv /\ conn[c] \in ConnSet /\ Loop \in Threads
    BY DEF PoolInv, DataOK, Threads
  <2>2. PICK q : q = [conn[c] EXCEPT !.phase = "up", !.event = TRUE]
    OBVIOUS
  <2>3. /\ q \in ConnSet /\ q.phase = "up" /\ q.event
        /\ q.finished = conn[c].finished /\ q.writer = conn[c].writer /\ q.reader = conn[c].reader
        /\ q.armed = conn[c].armed /\ q.unread = conn[c].unread /\ q.coming = conn[c].coming
        /\ q.cut = conn[c].cut
    <3>1. PICK z \in ConnSet : z = conn[c]
      BY <2>1
    <3> QED BY <2>2, <3>1 DEF ConnSet
  <2>4. ConnBecomes(c, q)
    BY <1>3, <2>1, <2>2 DEF ConnBecomes, DataOK, Connected
  <2>5. ConnOK(q) /\ q.writer = NoRequest /\ q.reader = NoRequest
    <3>1. Range(<<>>) = {}
      BY EmptyFacts
    <3> QED BY <1>1, <2>3, <3>1, UnconnectedFacts DEF ConnOK
  <2>6. PICK a : a = Ending("insert", c, TRUE)
    OBVIOUS
  <2>7. a \in TaskSet /\ a.op = "insert" /\ a.of = c /\ a.ok
    BY <2>6 DEF Ending, TaskSet
  <2>8. PICK s : s = <<a>>
    OBVIOUS
  <2>9. s \in Seq(TaskSet) /\ Range(s) = {a} /\ Rest(s) = {} /\ s # <<>> /\ Head(s) = a
    BY <2>7, <2>8, OneTask
  <2>10. /\ StackInv' /\ Erasing' = Erasing
         /\ \A u \in Threads \ {Loop} : /\ todo'[u] = todo[u] /\ TasksOf(u)' = TasksOf(u)
                                        /\ Later(u)' = Later(u)
         /\ TasksOf(Loop) = {} /\ TasksOf(Loop)' = {a} /\ Later(Loop)' = {}
         /\ \A r \in Requests : \A o \in DoReqOps : todo'[Loop] # DoStack(o, r)
         /\ \A k : Once(k) /\ k # a => Once(k)'
    <3>1. \A k \in Range(s) : k.op \notin DoReqOps /\ (Loop \in Users => ~k.ok /\ k.op # "answered")
      BY <2>7, <2>9, NamesAssumption DEF DoReqOps
    <3>2. Paired(s)
      BY <2>7, <2>9, PlainPaired
    <3>3. Starts(Loop, s)
      BY <1>3, <2>6, <2>8
    <3>4. /\ StackInv' /\ Erasing' = Erasing
          /\ \A u \in Threads \ {Loop} : /\ todo'[u] = todo[u] /\ TasksOf(u)' = TasksOf(u)
                                         /\ Later(u)' = Later(u)
          /\ TasksOf(Loop) = {} /\ TasksOf(Loop)' = Range(s) /\ Later(Loop)' \subseteq Rest(s)
          /\ \A r \in Requests : \A o \in DoReqOps : todo'[Loop] # DoStack(o, r)
          /\ \A k : Once(k) /\ k \notin Range(s) => Once(k)'
      BY <2>1, <2>7, <2>9, <3>1, <3>2, <3>3, StartFacts
    <3> QED BY <2>9, <3>4
  <2>11. ASSUME NEW d \in Clients PROVE Once(Task("erase", d))'
    <3>1. PICK x : x = Task("erase", d) /\ x.op = "erase"
      BY TaskFacts
    <3>2. Once(x)'
      BY <2>7, <2>10, <3>1 DEF PoolInv, ErasedOnce
    <3> QED BY <3>1, <3>2 DEF Task
  <2>12. ConnectStep(c, q, {a})
    BY <1>1, <2>3, <2>4, <2>5, <2>6, <2>10 DEF ConnectStep
  <2>13. OnlyTasks(Loop)
    BY <2>10 DEF OnlyTasks
  <2> QED BY <1>1, <2>10, <2>11, <2>12, <2>13, ConnectStepKeeps
<1> QED BY <1>2, <1>3 DEF connected

-----------------------------------------------------------------------------
(* The requests come and go. *)

\* The owner of an answered request destroys it.
LEMMA DestroyKeeps ==
  ASSUME PoolInv, NEW r \in Requests, destroy(r)
  PROVE  PoolInv'
<1> USE DEF PoolInv
<1>0. PICK c : c = req[r].client
  OBVIOUS
<1>a. /\ req[r].answers > 0 /\ UNCHANGED <<clients, allClients, todo>>
      /\ req' = [req EXCEPT ![r] = NewReq]
      /\ \A u \in Threads : \A k \in TasksOf(u) : k.of # r /\ k.of # c
  BY <1>0 DEF destroy, InUse
<1>b. c \in Clients \cup {NoClient} /\ r \in HeldBy(c)
  BY <1>0 DEF DataOK, ReqSet, HeldBy
<1>c. c # NoClient => req[r].finished
  <2>1. req[r].answers # 0
    BY <1>a DEF DataOK, ReqSet
  <2> QED BY <1>0, <2>1 DEF Clientship
<1>d. /\ StackInv' /\ Erasing' = Erasing /\ \A d \in Clients : Once(Task("erase", d))'
      /\ \A u \in Threads : todo'[u] = todo[u] /\ TasksOf(u)' = TasksOf(u) /\ Later(u)' = Later(u)
  BY <1>a, SameStacks
<1>e. /\ req' \in [Requests -> ReqSet] /\ req'[r] = NewReq /\ \A x \in Requests : x # r => req'[x] = req[x]
  <2>1. NewReq \in ReqSet
    BY DEF NewReq, ReqSet
  <2> QED BY <1>a, <2>1 DEF DataOK
<1>f. /\ ~NewReq.begun /\ NewReq.client = NoClient /\ ~NewReq.finished /\ NewReq.timer = "none"
      /\ NewReq.answers = 0 /\ NewReq.got = {} /\ ~NewReq.early
  BY DEF NewReq
<1>g. PICK z : z = NoConn
  OBVIOUS
<1>h. /\ z \in ConnSet /\ z.phase = "none" /\ ~z.event /\ ~z.finished /\ z.writer = NoRequest
      /\ z.reader = NoRequest /\ ConnOK(z)
  <2>1. NoConn \in ConnSet
    BY DEF NoConn, ConnSet
  <2>2. /\ NoConn.phase = "none" /\ NoConn.finished = FALSE /\ NoConn.event = FALSE
        /\ NoConn.writer = NoRequest /\ NoConn.armed = FALSE /\ NoConn.reader = NoRequest
        /\ NoConn.unread = {} /\ NoConn.coming = <<>>
    BY DEF NoConn
  <2>3. Range(<<>>) = {}
    BY EmptyFacts
  <2> QED BY <1>g, <2>1, <2>2, <2>3 DEF ConnOK
<1>i. /\ conn' \in [Clients -> ConnSet]
      /\ \A d \in Clients : \/ conn'[d] = conn[d]
                            \/ conn'[d] = z /\ d = c /\ d \notin allClients /\ HeldBy(d) = {r}
  <2>1. CASE c # NoClient /\ c \notin allClients /\ HeldBy(c) = {r}
    <3>1. conn' = [conn EXCEPT ![c] = z]
      BY <1>0, <1>g, <2>1 DEF destroy
    <3> QED BY <1>h, <2>1, <3>1 DEF DataOK
  <2>2. CASE ~(c # NoClient /\ c \notin allClients /\ HeldBy(c) = {r})
    <3>1. conn' = conn
      BY <1>0, <2>2 DEF destroy
    <3> QED BY <3>1 DEF DataOK
  <2> QED BY <2>1, <2>2
<1>j. \A d \in Clients : HeldBy(d)' = HeldBy(d) \ {r} /\ (d # c => HeldBy(d)' = HeldBy(d))
  BY <1>0, <1>e, <1>f, NamesAssumption DEF HeldBy
<1>k. \A u \in Threads : \A k \in TasksOf(u) : k.op \in ReqOps =>
         k.of \in Requests /\ k.of # r /\ req'[k.of] = req[k.of]
  <2>1. ASSUME NEW u \in Threads, NEW k \in TasksOf(u), k.op \in ReqOps PROVE k.of \in Requests
    BY <2>1, StackBefore DEF StackInv, TaskSet, ReqOps, DoReqOps
  <2> QED BY <1>a, <1>e, <2>1
<1>l. /\ Loop \in Threads /\ \A u \in Users : u \in Threads
      /\ \A u \in Threads, x \in Requests : Works(u, x)' <=> Works(u, x)
      /\ \A u \in Threads, d \in Clients : Concerned(u, d)' <=> Concerned(u, d)
      /\ \A d \in Clients : Returning(d)' <=> Returning(d)
      /\ \A u \in Threads : ~Works(u, r)
      /\ ~Returning(c)
  <2>1. Loop \in Threads /\ \A u \in Users : u \in Threads
    BY DEF Threads
  <2>2. \A u \in Threads, x \in Requests : Works(u, x)' <=> Works(u, x)
    BY <1>d DEF Works, ReqOps, DoReqOps
  <2>3. \A u \in Threads, d \in Clients : Concerned(u, d)' <=> Concerned(u, d)
    BY <1>d, <1>k DEF Concerned, ReqOps, DoReqOps
  <2>4. (\A d \in Clients : Returning(d)' <=> Returning(d)) /\ ~Returning(c)
    BY <1>a, <1>d, <2>1 DEF Returning
  <2>5. \A u \in Threads : ~Works(u, r)
    BY <1>a DEF Works
  <2> QED BY <2>1, <2>2, <2>3, <2>4, <2>5
<1>m. \A d \in Clients : /\ Pend(Task("erase", d))' <=> Pend(Task("erase", d))
                         /\ Pend(Task("finish", d))' <=> Pend(Task("finish", d))
                         /\ d = c => ~Pend(Task("erase", d)) /\ ~Pend(Task("finish", d))
  <2>1. ASSUME NEW d \in Clients
        PROVE  /\ Pend(Task("erase", d))' <=> Pend(Task("erase", d))
               /\ Pend(Task("finish", d))' <=> Pend(Task("finish", d))
               /\ d = c => ~Pend(Task("erase", d)) /\ ~Pend(Task("finish", d))
    <3>1. PICK x, y : x = Task("erase", d) /\ y = Task("finish", d) /\ x.of = d /\ y.of = d
      BY TaskFacts
    <3> QED BY <1>a, <1>d, <3>1 DEF Pend, Task
  <2> QED BY <2>1
<1>n. \A x \in Requests : x # r /\ req[x].client # NoClient =>
         req[x].client \in Clients /\ conn'[req[x].client] = conn[req[x].client]
  <2>1. ASSUME NEW x \in Requests, x # r, req[x].client # NoClient
        PROVE  req[x].client \in Clients /\ HeldBy(req[x].client) # {r}
    BY <2>1 DEF DataOK, ReqSet, HeldBy
  <2> QED BY <1>i, <2>1
<1>1. DataOK'
  BY <1>a, <1>e, <1>i DEF DataOK
<1>2. ErasedOnce'
  <2>1. ASSUME NEW d \in Clients
        PROVE  /\ Pend(Task("erase", d))' => d \in allClients /\ Broken(d)'
               /\ d \notin allClients => conn'[d].phase = "none" \/ Broken(d)'
    <3>1. CASE conn'[d] = conn[d]
      BY <1>m, <3>1 DEF ErasedOnce, Broken
    <3>2. CASE conn'[d] = z /\ d = c
      BY <1>h, <1>m, <3>2
    <3> QED BY <1>i, <3>1, <3>2
  <2> QED BY <1>a, <1>d, <2>1 DEF ErasedOnce, Task
<1>3. FinishHeld'
  <2>1. ASSUME NEW d \in Clients, Pend(Task("finish", d)) PROVE HeldBy(d)' = HeldBy(d)
    BY <1>j, <1>m, <2>1
  <2>2. ASSUME NEW d \in Clients, HeldBy(d)' = {}, NEW u \in Threads, Task("finish", d) \in TasksOf(u)'
        PROVE  u = Loop /\ Task("finish", d) \notin Later(u)'
    <3>1. Task("finish", d) \in TasksOf(u)
      BY <1>d, <2>2
    <3>2. HeldBy(d) = {}
      BY <2>1, <2>2, <3>1 DEF Pend
    <3> QED BY <1>d, <3>1, <3>2 DEF FinishHeld
  <2>3. ASSUME NEW d \in Clients, Pend(Task("erase", d))', Pend(Task("finish", d))' PROVE HeldBy(d)' # {}
    BY <1>m, <2>1, <2>3 DEF FinishHeld
  <2> QED BY <2>2, <2>3 DEF FinishHeld, Task
<1>4. Counted'
  BY <1>a, <1>d DEF Counted
<1>5. ConnShape'
  <2>1. \A d \in Clients : ConnOK(conn'[d])
    BY <1>h, <1>i DEF ConnShape
  <2> QED BY <2>1 DEF ConnShape
<1>6. Held'
  <2>1. ASSUME NEW d \in Clients, HeldBy(d)' # {} PROVE conn'[d].phase = "up"
    <3>1. HeldBy(d) # {r} /\ HeldBy(d) # {}
      BY <1>j, <2>1
    <3> QED BY <1>i, <3>1 DEF Held
  <2>2. ASSUME NEW d \in Clients, NEW u \in Threads, NEW x \in TasksOf(u)
        PROVE  /\ x.op \in {"finish", "insert"} /\ x.of = d => conn'[d].phase = "up"
               /\ x = Ending("insert", d, FALSE) => HeldBy(d)' # {}
               /\ x = Task("answered", d) => conn'[d].event /\ conn'[d].reader # NoRequest
    <3>1. /\ x.op \in {"finish", "insert"} /\ x.of = d => conn[d].phase = "up"
          /\ x = Ending("insert", d, FALSE) => HeldBy(d) # {}
          /\ x = Task("answered", d) => conn[d].event /\ conn[d].reader # NoRequest
      BY <2>2 DEF Held
    <3>2. CASE d = c
      <4>1. x.of # d
        BY <1>a, <3>2
      <4> QED BY <4>1 DEF Ending, Task
    <3>3. CASE d # c
      BY <1>i, <1>j, <3>1, <3>3
    <3> QED BY <3>2, <3>3
  <2> QED BY <1>d, <2>1, <2>2 DEF Held, Task, Ending
<1>7. Attached'
  <2>1. ASSUME NEW d \in Clients, NEW x \in Requests, conn'[d].event, x \in {conn'[d].writer, conn'[d].reader}
        PROVE  req'[x].client = d /\ (req'[x].finished => Returning(d)')
    <3>1. conn'[d] = conn[d]
      BY <1>h, <1>i, <2>1
    <3>2. req[x].client = d /\ (req[x].finished => Returning(d))
      BY <2>1, <3>1 DEF Attached
    <3>3. x # r
      BY <1>0, <1>c, <1>l, <3>2, NamesAssumption
    <3> QED BY <1>e, <1>l, <3>2, <3>3
  <2> QED BY <2>1 DEF Attached
<1>8. UserQuiet'
  <2>1. ASSUME NEW d \in Clients, NEW u \in Users, Concerned(u, d)
        PROVE  conn'[d].finished \/ (conn'[d].reader = NoRequest /\ conn'[d].writer = NoRequest)
    BY <1>h, <1>i, <2>1 DEF UserQuiet
  <2> QED BY <1>a, <1>l, <2>1 DEF UserQuiet
<1>9. Returned'
  <2>1. ASSUME NEW k \in TasksOf(Loop), k.ok, NEW d, d = IF k.op = "insert" THEN k.of ELSE req[k.of].client
        PROVE  /\ d = IF k.op = "insert" THEN k.of ELSE req'[k.of].client
               /\ d \in Clients
               /\ conn'[d].event
               /\ k.op # "insert" => conn'[d].reader = k.of
               /\ k.op = "reqDone" => ~req'[k.of].finished
               /\ k.op = "insert" => d \notin clients /\ (\A u \in Users : ~Concerned(u, d)')
                                      /\ \A x \in HeldBy(d)' : req'[x].finished
    <3>1. /\ d \in Clients
          /\ conn[d].event
          /\ k.op # "insert" => conn[d].reader = k.of
          /\ k.op = "reqDone" => ~req[k.of].finished
          /\ k.op = "insert" => d \notin clients /\ (\A u \in Users : ~Concerned(u, d))
                                      /\ \A x \in HeldBy(d) : req[x].finished
      BY <2>1 DEF Returned
    <3>2. k.op # "insert" => k.of \in Requests /\ k.of # r /\ req'[k.of] = req[k.of]
      <4>1. k \in TaskSet
        BY <1>l, StackBefore DEF StackInv
      <4>2. k.op # "insert" => k.op \in ReqOps
        BY <2>1, <4>1 DEF TaskSet, ReqOps
      <4> QED BY <1>k, <1>l, <4>2
    <3>3. conn'[d] = conn[d]
      <4>1. k.op = "insert" => d # c
        BY <1>a, <1>l, <2>1
      <4>2. k.op # "insert" => conn'[d] = conn[d]
        BY <1>n, <2>1, <3>1, <3>2, NamesAssumption
      <4> QED BY <1>i, <3>1, <4>1, <4>2
    <3>4. \A x \in HeldBy(d)' : x \in HeldBy(d) /\ x # r /\ x \in Requests
      BY <1>j, <3>1 DEF HeldBy
    <3>5. k.op = "insert" => \A x \in HeldBy(d)' : req'[x].finished
      BY <1>e, <3>1, <3>4
    <3>6. k.op = "insert" => \A u \in Users : ~Concerned(u, d)'
      BY <1>l, <3>1
    <3> QED BY <2>1, <3>1, <3>2, <3>3, <3>5, <3>6
  <2> QED BY <1>a, <1>d, <1>l, <2>1 DEF Returned
<1>10. Begun'
  BY <1>e, <1>l DEF Begun, NewReq
<1>11. Clientship'
  <2>1. ASSUME NEW x \in Requests
        PROVE  /\ req'[x].timer = "on" => req'[x].client # NoClient
               /\ req'[x].client # NoClient /\ ~req'[x].finished => req'[x].answers = 0
               /\ req'[x].client = NoClient => ~req'[x].finished /\ req'[x].answers <= 1 /\ req'[x].got = {}
    <3>1. CASE x = r
      BY <1>e, <1>f, <3>1
    <3>2. CASE x # r
      BY <1>e, <3>2 DEF Clientship
    <3> QED BY <3>1, <3>2
  <2>2. ASSUME NEW x \in Requests, NEW u \in Threads, NEW k \in TasksOf(u),
               k.op \in {"reqFinish", "reqDone"}, k.of = x
        PROVE  req'[x].client # NoClient
    BY <1>k, <2>2 DEF Clientship, ReqOps
  <2> QED BY <1>d, <2>1, <2>2 DEF Clientship
<1>12. Stages'
  <2>1. ASSUME NEW x \in Requests, NEW o \in DoReqOps, NEW u \in Threads, todo'[u] = DoStack(o, x)
        PROVE  Stage(o, x)'
    <3>1. todo[u] = DoStack(o, x)
      BY <1>d, <2>1
    <3>2. x # r
      <4>1. Head(todo[u]) = Task(o, x) /\ todo[u] # <<>>
        BY <3>1, DoStackFacts
      <4>2. Task(o, x) \in TasksOf(u)
        BY <4>1, StackBefore DEF StackInv
      <4> QED BY <1>a, <4>2, TaskFacts
    <3>3. Stage(o, x)
      BY <3>1 DEF Stages
    <3> QED BY <1>e, <1>l, <1>n, <3>2, <3>3 DEF Stage
  <2> QED BY <2>1 DEF Stages, DoStack
<1>13. Workers'
  <2>1. \A x \in Requests : (req'[x].early = req[x].early /\ req'[x].answers = req[x].answers) \/ x = r
    BY <1>e
  <2>2. ASSUME NEW x \in Requests, NEW u \in Threads, NEW k \in TasksOf(u), k.op = "reqDone", k.of = x
        PROVE  x # r
    BY <1>a, <2>2
  <2>3. \A u, v \in Threads : ~(Works(u, r) /\ Works(v, r))
    BY <1>l
  <2> QED BY <1>d, <1>e, <1>f, <1>l, <2>1, <2>2, <2>3 DEF Workers
<1>14. Owned'
  <2>1. ASSUME NEW d \in Clients, NEW x \in HeldBy(d)'
        PROVE  x \in HeldBy(d) /\ x \in Requests /\ req'[x] = req[x]
    BY <1>e, <1>j, <2>1 DEF HeldBy
  <2> QED BY <1>a, <2>1 DEF Owned
<1>15. PooledUsable'
  <2>1. ASSUME NEW d \in clients PROVE conn'[d] = conn[d] /\ d \in Clients
    <3>1. d \in allClients /\ d \in Clients
      BY DEF PooledUsable, DataOK
    <3> QED BY <1>i, <3>1
  <2>2. \A d \in Clients : Pend(Task("erase", d)) => \E u \in Threads : Task("erase", d) \in TasksOf(u)'
    BY <1>m DEF Pend, Task
  <2> QED BY <1>a, <2>1, <2>2 DEF PooledUsable, Pend, Task
<1>16. OwnAnswer'
  BY <1>e, <1>f, <1>n DEF OwnAnswer
<1> QED BY <1>d, <1>1, <1>2, <1>3, <1>4, <1>5, <1>6, <1>7, <1>8, <1>9, <1>10, <1>11, <1>12, <1>13,
           <1>14, <1>15, <1>16

\* A user's thread begins a request.
LEMMA DoReqKeeps ==
  ASSUME PoolInv, NEW u \in Users, NEW r \in Requests, doReq(u, r)
  PROVE  PoolInv'
<1> USE DEF PoolInv
<1>0. /\ ~req[r].begun /\ UNCHANGED <<clients, allClients, conn>>
      /\ u \in Threads /\ u # Loop /\ Loop \in Threads /\ \A v \in Users : v \in Threads
  BY NamesAssumption DEF doReq, Threads
<1>a. /\ req[r] = NewReq /\ req[r].client = NoClient /\ req[r].answers = 0 /\ \A v \in Threads : ~Works(v, r)
  <2>1. req[r] = NewReq /\ \A v \in Threads : ~Works(v, r)
    BY <1>0 DEF Begun
  <2>2. NewReq.client = NoClient /\ NewReq.answers = 0
    BY DEF NewReq
  <2> QED BY <2>1, <2>2
<1>b. PICK p : p = [req[r] EXCEPT !.begun = TRUE]
  OBVIOUS
<1>c. /\ req' = [req EXCEPT ![r] = p] /\ req \in [Requests -> ReqSet]
  BY <1>b DEF doReq, DataOK
<1>d. /\ p \in ReqSet /\ p.begun /\ p.client = req[r].client /\ p.finished = req[r].finished
      /\ p.timer = req[r].timer /\ p.answers = req[r].answers /\ p.got = req[r].got
      /\ p.early = req[r].early
  <2>1. PICK z \in ReqSet : z = req[r]
    BY <1>c
  <2> QED BY <1>b, <2>1 DEF ReqSet
<1>e. /\ req' \in [Requests -> ReqSet] /\ req'[r] = p /\ \A x \in Requests : x # r => req'[x] = req[x]
      /\ \A x \in Requests : /\ req'[x].client = req[x].client /\ req'[x].finished = req[x].finished
                             /\ req'[x].timer = req[x].timer /\ req'[x].answers = req[x].answers
                             /\ req'[x].got = req[x].got /\ req'[x].early = req[x].early
  BY <1>c, <1>d
<1>f. PICK s : s = DoStack("get", r)
  OBVIOUS
<1>g. /\ s \in Seq(TaskSet) /\ s # <<>> /\ Head(s) = Task("get", r) /\ Paired(s)
      /\ \A k \in Range(s) : k.op \in DoReqOps /\ k.of = r /\ ~k.ok
      /\ \A k \in Rest(s) : k.op \in Behind
  BY <1>f, DoStackFacts DEF DoReqOps
<1>h. todo[u] = <<>> /\ todo' = [todo EXCEPT ![u] = s]
  BY <1>f DEF doReq, Starts, DoStack
<1>i. Becomes(u, s, <<>>)
  <2>1. <<>> \in Seq(TaskSet) /\ s \o <<>> = s
    BY <1>g
  <2> QED BY <1>g, <1>h, <2>1 DEF Becomes
<1>j. /\ TodoOK' /\ todo'[u] = s
      /\ \A v \in Threads \ {u} : /\ todo'[v] = todo[v] /\ TasksOf(v)' = TasksOf(v)
                                  /\ Later(v)' = Later(v)
      /\ TasksOf(u) = {} /\ TasksOf(u)' = Range(s) /\ Later(u)' \subseteq Rest(s)
  <2>1. /\ TodoOK'
        /\ \A v \in Threads \ {u} : /\ todo'[v] = todo[v] /\ TasksOf(v)' = TasksOf(v)
                                    /\ Later(v)' = Later(v)
        /\ TasksOf(u)' = Range(s) \cup Range(<<>>) /\ Later(u)' \subseteq Rest(s) \cup Range(<<>>)
    BY <1>0, <1>i, StackAfter DEF StackInv
  <2>2. TasksOf(u) = {} /\ todo'[u] = s
    BY <1>0, <1>h, StackBefore DEF StackInv, TodoOK
  <2> QED BY <2>1, <2>2, EmptyFacts
<1>k. /\ \A k \in TasksOf(u)' : k.op \in DoReqOps /\ k.of = r /\ ~k.ok
      /\ TasksOf(Loop)' = TasksOf(Loop) /\ Later(Loop)' = Later(Loop)
      /\ \A v \in Threads : \A k \in TasksOf(v)' : k.op \notin DoReqOps => k \in TasksOf(v)
      /\ \A v \in Threads : TasksOf(v) \subseteq TasksOf(v)'
      /\ \A v \in Threads : \A k \in TasksOf(v)' : k \in TasksOf(v) \/ v = u
  BY <1>0, <1>g, <1>j
<1>l. StackInv'
  <2>1. \A v \in Threads : \A k \in Later(v)' : k.op \in Behind
    BY <1>g, <1>j DEF StackInv
  <2>2. \A v \in Threads : \A k \in TasksOf(v)' : k.op \in DoReqOps =>
          v \in Users /\ \E op \in DoReqOps : todo'[v] = DoStack(op, k.of)
    <3>1. \A k \in TasksOf(u)' : \E op \in DoReqOps : todo'[u] = DoStack(op, k.of)
      BY <1>f, <1>j, <1>k DEF DoReqOps
    <3> QED BY <1>j, <3>1 DEF StackInv
  <2>3. \A v \in Threads : Paired(todo'[v])
    BY <1>g, <1>j DEF StackInv
  <2>4. \A v \in Users : \A k \in TasksOf(v)' : ~k.ok /\ k.op # "answered"
    BY <1>0, <1>j, <1>k DEF StackInv, DoReqOps
  <2> QED BY <1>j, <2>1, <2>2, <2>3, <2>4 DEF StackInv, DoStack
<1>m. Erasing' = Erasing
  <2>1. ~At(u, "erase") /\ ~At(u, "erase")'
    <3>1. Head(todo'[u]).op = "get"
      BY <1>g, <1>j, TaskFacts
    <3> QED BY <1>h, <3>1 DEF At
  <2> QED BY <1>j, <2>1 DEF Erasing, At
<1>n. \A d : HeldBy(d)' = HeldBy(d)
  BY <1>e DEF HeldBy
<1>o. \A k : k.op \notin DoReqOps => (Pend(k)' <=> Pend(k)) /\ \A v \in Threads : k \in TasksOf(v)' <=> k \in TasksOf(v)
  BY <1>k DEF Pend
<1>p. \A d \in Clients : /\ Pend(Task("erase", d))' <=> Pend(Task("erase", d))
                         /\ Pend(Task("finish", d))' <=> Pend(Task("finish", d))
                         /\ \A v \in Threads : Task("finish", d) \in TasksOf(v)' <=> Task("finish", d) \in TasksOf(v)
  <2>1. ASSUME NEW d \in Clients
        PROVE  /\ Pend(Task("erase", d))' <=> Pend(Task("erase", d))
               /\ Pend(Task("finish", d))' <=> Pend(Task("finish", d))
               /\ \A v \in Threads : Task("finish", d) \in TasksOf(v)' <=> Task("finish", d) \in TasksOf(v)
    <3>1. PICK x, y : /\ x = Task("erase", d) /\ y = Task("finish", d)
                      /\ x.op = "erase" /\ y.op = "finish"
      BY TaskFacts
    <3>2. /\ Pend(x)' <=> Pend(x)
          /\ Pend(y)' <=> Pend(y)
          /\ \A v \in Threads : y \in TasksOf(v)' <=> y \in TasksOf(v)
      BY <1>o, <3>1 DEF DoReqOps
    <3> QED BY <3>1, <3>2 DEF Task
  <2> QED BY <2>1
<1>q. \A v \in Threads, d \in Clients : Concerned(v, d)' => Concerned(v, d)
  <2>1. ASSUME NEW v \in Threads, NEW d \in Clients, NEW k \in TasksOf(v)',
               \/ k.op \in ReqOps /\ req'[k.of].client = d
               \/ k.op \in {"insert", "finish"} /\ k.of = d
        PROVE  Concerned(v, d)
    <3>1. CASE k \in TasksOf(v)
      <4>1. k.op \in ReqOps => k.of \in Requests
        BY <3>1, StackBefore DEF StackInv, TaskSet, ReqOps, DoReqOps
      <4> QED BY <1>e, <2>1, <3>1, <4>1 DEF Concerned
    <3>2. CASE k \notin TasksOf(v)
      <4>1. k.op \in DoReqOps /\ k.of = r
        BY <1>k, <2>1, <3>2
      <4> QED BY <1>a, <1>e, <2>1, <4>1, NamesAssumption DEF DoReqOps
    <3> QED BY <3>1, <3>2
  <2> QED BY <2>1 DEF Concerned, ReqOps, DoReqOps
<1>r. \A d \in Clients : Returning(d)' <=> Returning(d)
  BY <1>k DEF Returning
<1>s. \A v \in Threads, x \in Requests : Works(v, x)' => Works(v, x) \/ (v = u /\ x = r)
  <2>1. ASSUME NEW v \in Threads, NEW x \in Requests, NEW k \in TasksOf(v)', k.op \in ReqOps, k.of = x
        PROVE  Works(v, x) \/ (v = u /\ x = r)
    BY <1>k, <2>1 DEF Works
  <2> QED BY <2>1 DEF Works, ReqOps, DoReqOps
<1>1. DataOK'
  BY <1>0, <1>e DEF DataOK
<1>2. ErasedOnce'
  <2>1. ASSUME NEW d \in Clients PROVE Once(Task("erase", d))'
    <3>1. PICK x : x = Task("erase", d) /\ x.op = "erase"
      BY TaskFacts
    <3>2. x \notin Range(s)
      BY <1>g, <3>1 DEF DoReqOps
    <3>3. Once(x)'
      BY <1>0, <1>i, <3>1, <3>2, OnceKept DEF StackInv, ErasedOnce
    <3> QED BY <3>1, <3>3 DEF Task
  <2> QED BY <1>0, <1>p, <2>1 DEF ErasedOnce, Broken, Task
<1>3. FinishHeld'
  <2>1. ASSUME NEW d \in Clients, HeldBy(d) = {}, NEW v \in Threads, Task("finish", d) \in TasksOf(v)'
        PROVE  v = Loop /\ Task("finish", d) \notin Later(v)'
    BY <1>k, <1>p, <2>1 DEF FinishHeld
  <2> QED BY <1>n, <1>p, <2>1 DEF FinishHeld, Task
<1>4. Counted'
  BY <1>0, <1>m DEF Counted
<1>5. ConnShape'
  BY <1>0 DEF ConnShape
<1>6. Held'
  <2>1. ASSUME NEW d \in Clients, NEW v \in Threads, NEW x \in TasksOf(v)'
        PROVE  /\ x.op \in {"finish", "insert"} /\ x.of = d => conn[d].phase = "up"
               /\ x = Ending("insert", d, FALSE) => HeldBy(d) # {}
               /\ x = Task("answered", d) => conn[d].event /\ conn[d].reader # NoRequest
    <3>1. CASE x \in TasksOf(v)
      BY <3>1 DEF Held
    <3>2. CASE x \notin TasksOf(v)
      <4>1. x.op \in DoReqOps
        BY <1>k, <3>2
      <4> QED BY <4>1 DEF DoReqOps, Ending, Task
    <3> QED BY <3>1, <3>2
  <2> QED BY <1>0, <1>n, <2>1 DEF Held, Task, Ending
<1>7. Attached'
  BY <1>0, <1>e, <1>r DEF Attached
<1>8. UserQuiet'
  BY <1>0, <1>q DEF UserQuiet
<1>9. Returned'
  <2>1. ASSUME NEW k \in TasksOf(Loop), k.ok, NEW d, d = IF k.op = "insert" THEN k.of ELSE req[k.of].client
        PROVE  /\ d = IF k.op = "insert" THEN k.of ELSE req'[k.of].client
               /\ d \in Clients
               /\ conn[d].event
               /\ k.op # "insert" => conn[d].reader = k.of
               /\ k.op = "reqDone" => ~req'[k.of].finished
               /\ k.op = "insert" => d \notin clients /\ (\A v \in Users : ~Concerned(v, d)')
                                      /\ \A x \in HeldBy(d)' : req'[x].finished
    <3>1. /\ d \in Clients
          /\ conn[d].event
          /\ k.op # "insert" => conn[d].reader = k.of
          /\ k.op = "reqDone" => ~req[k.of].finished
          /\ k.op = "insert" => d \notin clients /\ (\A v \in Users : ~Concerned(v, d))
                                      /\ \A x \in HeldBy(d) : req[x].finished
      BY <2>1 DEF Returned
    <3>2. k.op # "insert" => k.of \in Requests
      <4>1. k \in TaskSet
        BY <1>0, StackBefore DEF StackInv
      <4> QED BY <2>1, <4>1 DEF TaskSet
    <3>3. \A x \in HeldBy(d)' : x \in HeldBy(d) /\ x \in Requests
      BY <1>n DEF HeldBy
    <3> QED BY <1>0, <1>e, <1>q, <2>1, <3>1, <3>2, <3>3
  <2> QED BY <1>0, <1>k, <2>1 DEF Returned
<1>10. Begun'
  <2>1. \A x \in Requests : ~req'[x].begun => x # r /\ req'[x] = req[x]
    BY <1>d, <1>e
  <2> QED BY <1>s, <2>1 DEF Begun, NewReq
<1>11. Clientship'
  <2>1. ASSUME NEW v \in Threads, NEW k \in TasksOf(v)', k.op \in {"reqFinish", "reqDone"}
        PROVE  k \in TasksOf(v)
    BY <1>k, <2>1 DEF DoReqOps
  <2> QED BY <1>e, <2>1 DEF Clientship
<1>12. Stages'
  <2>1. ASSUME NEW x \in Requests, NEW o \in DoReqOps, NEW v \in Threads, todo'[v] = DoStack(o, x)
        PROVE  Stage(o, x)'
    <3>1. CASE v = u
      <4>1. Task(o, x) = Task("get", r)
        BY <1>g, <1>j, <2>1, <3>1, DoStackFacts
      <4>2. o = "get" /\ x = r
        BY <4>1, TaskFacts
      <4> QED BY <1>a, <1>e, <4>2 DEF Stage
    <3>2. CASE v # u
      <4>1. Stage(o, x)
        BY <1>j, <2>1, <3>2 DEF Stages
      <4>2. req[x].client \in Clients \cup {NoClient}
        BY DEF DataOK, ReqSet
      <4> QED BY <1>0, <1>e, <1>r, <4>1, <4>2 DEF Stage
    <3> QED BY <3>1, <3>2
  <2> QED BY <2>1 DEF Stages, DoStack
<1>13. Workers'
  <2>1. ASSUME NEW v \in Threads, NEW k \in TasksOf(v)', k.op = "reqDone" PROVE k \in TasksOf(v)
    BY <1>k, <2>1 DEF DoReqOps
  <2>2. ASSUME NEW x \in Requests, NEW v \in Threads, NEW w \in Threads, Works(v, x)', Works(w, x)'
        PROVE  v = w \/ (Works(v, x) /\ Works(w, x))
    <3>1. CASE x = r
      BY <1>a, <1>s, <2>2, <3>1
    <3>2. CASE x # r
      BY <1>s, <2>2, <3>2
    <3> QED BY <3>1, <3>2
  <2> QED BY <1>0, <1>e, <2>1, <2>2 DEF Workers
<1>14. Owned'
  <2>1. \A d : HeldBy(d) \subseteq Requests
    BY DEF HeldBy
  <2> QED BY <1>0, <1>e, <1>n, <2>1 DEF Owned
<1>15. PooledUsable'
  <2>1. \A d \in Clients : Pend(Task("erase", d)) => \E v \in Threads : Task("erase", d) \in TasksOf(v)'
    BY <1>p DEF Pend, Task
  <2> QED BY <1>0, <2>1 DEF PooledUsable, Pend, Task, DataOK
<1>16. OwnAnswer'
  BY <1>0, <1>e DEF OwnAnswer
<1> QED BY <1>l, <1>1, <1>2, <1>3, <1>4, <1>5, <1>6, <1>7, <1>8, <1>9, <1>10, <1>11, <1>12, <1>13,
           <1>14, <1>15, <1>16

-----------------------------------------------------------------------------
(* The invariant. *)

\* At the start the pool has its clients and nobody does anything.
LEMMA InitPoolInv ==
  ASSUME Init
  PROVE  PoolInv
<1>1. NoConn \in ConnSet /\ NewReq \in ReqSet
  BY DEF NoConn, ConnSet, NewReq, ReqSet
<1>2. PICK q : q = [NoConn EXCEPT !.phase = "queued"]
  OBVIOUS
<1>3. PICK z \in ConnSet : z = NoConn
  BY <1>1
<1>4. /\ z.phase = "none" /\ ~z.event /\ ~z.finished /\ z.writer = NoRequest /\ z.reader = NoRequest
      /\ ~z.armed /\ z.unread = {} /\ z.coming = <<>>
  <2>1. /\ NoConn.phase = "none" /\ NoConn.finished = FALSE /\ NoConn.event = FALSE
        /\ NoConn.writer = NoRequest /\ NoConn.armed = FALSE /\ NoConn.reader = NoRequest
        /\ NoConn.unread = {} /\ NoConn.coming = <<>>
    BY DEF NoConn
  <2> QED BY <1>3, <2>1
<1>5. /\ q \in ConnSet /\ q.phase = "queued" /\ ~q.event /\ ~q.finished /\ q.writer = NoRequest
      /\ q.reader = NoRequest /\ ~q.armed /\ q.unread = {} /\ q.coming = <<>>
  <2>1. q = [z EXCEPT !.phase = "queued"]
    BY <1>2, <1>3
  <2>2. /\ q \in ConnSet /\ q.phase = "queued" /\ q.event = z.event /\ q.finished = z.finished
        /\ q.writer = z.writer /\ q.reader = z.reader /\ q.armed = z.armed /\ q.unread = z.unread
        /\ q.coming = z.coming
    BY <2>1 DEF ConnSet
  <2> QED BY <1>4, <2>2
<1>6. /\ clients = {} /\ allClients \subseteq Clients /\ Cardinality(allClients) = MaxSize
      /\ conn \in [Clients -> ConnSet]
      /\ \A c \in Clients : conn[c] = IF c \in allClients THEN q ELSE z
      /\ req \in [Requests -> ReqSet] /\ \A r \in Requests : req[r] = NewReq
      /\ todo = [t \in Threads |-> <<>>]
  BY <1>1, <1>2, <1>3, <1>5 DEF Init
<1>7. /\ ~NewReq.begun /\ NewReq.client = NoClient /\ ~NewReq.finished /\ NewReq.timer = "none"
      /\ NewReq.answers = 0 /\ NewReq.got = {} /\ ~NewReq.early
  BY DEF NewReq
<1>8. TodoOK /\ \A t \in Threads : todo[t] = <<>>
  BY <1>6 DEF TodoOK
<1>9. \A t \in Threads : TasksOf(t) = {} /\ Later(t) = {}
  BY <1>8, StackBefore
<1>10. Loop \in Threads /\ \A u \in Users : u \in Threads
  BY DEF Threads
<1>11. \A c \in Clients : HeldBy(c) = {}
  BY <1>6, <1>7, NamesAssumption DEF HeldBy
<1>12. \A r \in Requests : \A op \in DoReqOps : \A t \in Threads : todo[t] # DoStack(op, r)
  BY <1>8, DoStackFacts
<1>13. \A c \in Clients : /\ conn[c].phase \in {"none", "queued"} /\ ~conn[c].event /\ ~conn[c].finished
                          /\ conn[c].writer = NoRequest /\ conn[c].reader = NoRequest
                          /\ ConnOK(conn[c])
  <2>1. Range(<<>>) = {}
    BY EmptyFacts
  <2>2. ConnOK(q) /\ ConnOK(z)
    BY <1>4, <1>5, <2>1 DEF ConnOK
  <2> QED BY <1>4, <1>5, <1>6, <2>2
<1>14. DataOK
  BY <1>6 DEF DataOK
<1>15. StackInv
  <2>1. Paired(<<>>)
    BY NoTasks, PlainPaired
  <2> QED BY <1>8, <1>9, <1>10, <2>1 DEF StackInv
<1>16. ErasedOnce
  <2>1. \A k : Once(k) /\ ~Pend(k)
    BY <1>8, <1>9 DEF Once, Pend
  <2>2. \A c \in Clients : c \notin allClients => conn[c].phase = "none"
    BY <1>4, <1>6
  <2> QED BY <2>1, <2>2 DEF ErasedOnce
<1>17. FinishHeld /\ Held
  BY <1>9, <1>11 DEF FinishHeld, Held, Pend
<1>18. Counted
  <2>1. Erasing = {}
    BY <1>8 DEF Erasing, At
  <2>2. Cardinality(Erasing) = 0
    BY <2>1, FS_EmptySet
  <2> QED BY <1>6, <2>2, SizeAssumption DEF Counted
<1>19. ConnShape /\ Attached
  BY <1>13 DEF ConnShape, Attached
<1>20. UserQuiet /\ Returned
  BY <1>9, <1>10 DEF UserQuiet, Returned, Concerned
<1>21. Begun /\ Workers
  BY <1>6, <1>7, <1>9, <1>10 DEF Begun, Workers, Works
<1>22. Clientship
  BY <1>6, <1>7, <1>9 DEF Clientship
<1>23. Stages
  BY <1>12 DEF Stages
<1>24. Owned /\ PooledUsable /\ OwnAnswer
  BY <1>6, <1>7, <1>11 DEF Owned, PooledUsable, OwnAnswer
<1> QED BY <1>14, <1>15, <1>16, <1>17, <1>18, <1>19, <1>20, <1>21, <1>22, <1>23, <1>24 DEF PoolInv

\* A step that changes nothing.
LEMMA StutterKeeps ==
  ASSUME PoolInv, UNCHANGED vars
  PROVE  PoolInv'
<1> USE DEF PoolInv
<1>1. UNCHANGED <<clients, allClients, conn, req, todo>>
  BY DEF vars
<1>2. StackInv' /\ Erasing' = Erasing /\ \A c \in Clients : Once(Task("erase", c))'
  BY <1>1, SameStacks
<1>3. /\ \A t : TasksOf(t)' = TasksOf(t) /\ Later(t)' = Later(t)
      /\ \A c : HeldBy(c)' = HeldBy(c)
  BY <1>1 DEF TasksOf, Later, HeldBy
<1>4. /\ \A k : Pend(k)' <=> Pend(k)
      /\ \A t, c : Concerned(t, c)' <=> Concerned(t, c)
      /\ \A c : Returning(c)' <=> Returning(c)
      /\ \A t, r : Works(t, r)' <=> Works(t, r)
  BY <1>1, <1>3 DEF Pend, Concerned, Returning, Works, ReqOps, DoReqOps
<1>5. \A c \in Clients : /\ Pend(Task("erase", c))' <=> Pend(Task("erase", c))
                         /\ Pend(Task("finish", c))' <=> Pend(Task("finish", c))
  <2>1. ASSUME NEW c \in Clients
        PROVE  /\ Pend(Task("erase", c))' <=> Pend(Task("erase", c))
               /\ Pend(Task("finish", c))' <=> Pend(Task("finish", c))
    <3>1. PICK x, y : x = Task("erase", c) /\ y = Task("finish", c)
      OBVIOUS
    <3> QED BY <1>4, <3>1 DEF Task
  <2> QED BY <2>1
<1>6. DataOK' /\ Counted' /\ ConnShape' /\ OwnAnswer'
  BY <1>1, <1>2 DEF DataOK, Counted, ConnShape, OwnAnswer
<1>7. ErasedOnce'
  BY <1>1, <1>2, <1>5 DEF ErasedOnce, Broken, Task
<1>8. FinishHeld' /\ Held'
  BY <1>1, <1>3, <1>5 DEF FinishHeld, Held, Task, Ending
<1>9. Attached' /\ UserQuiet' /\ Returned'
  BY <1>1, <1>3, <1>4 DEF Attached, UserQuiet, Returned
<1>10. Begun' /\ Workers' /\ Clientship'
  BY <1>1, <1>3, <1>4 DEF Begun, Workers, Clientship, NewReq
<1>11. Stages'
  <2>1. \A r \in Requests : \A op \in DoReqOps : Stage(op, r)' <=> Stage(op, r)
    BY <1>1, <1>4 DEF Stage
  <2> QED BY <1>1, <2>1 DEF Stages, DoStack, Task
<1>12. Owned'
  BY <1>1, <1>3 DEF Owned
<1>13. PooledUsable'
  BY <1>1, <1>3 DEF PooledUsable, Task
<1> QED BY <1>2, <1>6, <1>7, <1>8, <1>9, <1>10, <1>11, <1>12, <1>13

\* Every step keeps the invariant.
LEMMA NextPoolInv ==
  ASSUME PoolInv, [Next]_vars
  PROVE  PoolInv'
<1>1. ASSUME NEW t \in Threads, step(t) PROVE PoolInv'
  <2>1. CASE unlock(t)
    BY <2>1, UnlockKeeps
  <2>2. CASE initClient(t)
    BY <2>2, InitClientKeeps
  <2>3. CASE erase(t)
    BY <2>3, EraseKeeps
  <2>4. CASE Get(t)
    BY <2>4, GetKeeps
  <2>5. CASE Insert(t)
    BY <2>5, InsertKeeps
  <2>6. CASE finish(t)
    BY <2>6, FinishKeeps
  <2>7. CASE AsyncWrite(t)
    <3>1. CASE conn[req[Of(t)].client].finished
      BY <2>7, <3>1, AsyncWriteFailsKeeps
    <3>2. CASE ~conn[req[Of(t)].client].finished
      BY <2>7, <3>2, AsyncWriteKeeps
    <3> QED BY <3>1, <3>2
  <2>8. CASE reqPush(t)
    BY <2>8, ReqPushKeeps
  <2>9. CASE startTimer(t)
    BY <2>9, StartTimerKeeps
  <2>10. CASE answered(t)
    BY <2>10, AnsweredKeeps
  <2>11. CASE reqFinish(t)
    BY <2>11, ReqFinishKeeps
  <2>12. CASE reqDone(t)
    BY <2>12, ReqDoneKeeps
  <2> QED BY <1>1, <2>1, <2>2, <2>3, <2>4, <2>5, <2>6, <2>7, <2>8, <2>9, <2>10, <2>11, <2>12 DEF step
<1>2. ASSUME NEW c \in Clients, event(c) PROVE PoolInv'
  <2>1. CASE connect(c)
    BY <2>1, ConnectKeeps
  <2>2. CASE connected(c)
    BY <2>2, ConnectedKeeps
  <2>3. CASE arm(c)
    BY <2>3, ArmKeeps
  <2>4. CASE written(c)
    BY <2>4, WrittenKeeps
  <2>5. CASE writeFails(c)
    BY <2>5, WriteFailsKeeps
  <2>6. CASE receive(c)
    BY <2>6, ReceiveKeeps
  <2>7. CASE closed(c)
    BY <2>7, ClosedKeeps
  <2> QED BY <1>2, <2>1, <2>2, <2>3, <2>4, <2>5, <2>6, <2>7 DEF event
<1>3. ASSUME NEW r \in Requests, expire(r) PROVE PoolInv'
  BY <1>3, ExpireKeeps
<1>4. ASSUME NEW r \in Requests, destroy(r) PROVE PoolInv'
  BY <1>4, DestroyKeeps
<1>5. ASSUME NEW r \in Requests, NEW u \in Users, doReq(u, r) PROVE PoolInv'
  BY <1>5, DoReqKeeps
<1>6. CASE UNCHANGED vars
  BY <1>6, StutterKeeps
<1> QED BY <1>1, <1>2, <1>3, <1>4, <1>5, <1>6 DEF Next

(***************************************************************************)
(* The invariant holds: the stacks are those of calls the code makes, each *)
(* client is held by one request that is not answered, and each one that   *)
(* breaks is taken out once.                                               *)
(***************************************************************************)
THEOREM PoolInvHolds == Spec => []PoolInv
<1>1. Init => PoolInv
  BY InitPoolInv
<1>2. PoolInv /\ [Next]_vars => PoolInv'
  BY NextPoolInv
<1> QED BY <1>1, <1>2, PTL DEF Spec

-----------------------------------------------------------------------------
(* What the runs check, for every pool. *)

\* Two requests that are not answered never hold the same client, nor one that is in the pool.
LEMMA PoolInvOneOwner ==
  ASSUME PoolInv
  PROVE  OneOwner
<1>1. ASSUME NEW c \in Clients, NEW users, users = {r \in HeldBy(c) : ~req[r].finished}
      PROVE  Cardinality(users) + (IF c \in clients THEN 1 ELSE 0) <= 1
  <2>1. CASE users = {}
    BY <2>1, FS_EmptySet
  <2>2. CASE users # {}
    <3>1. PICK r : r \in users
      BY <2>2
    <3>2. users = {r} /\ c \notin clients
      BY <1>1, <3>1 DEF PoolInv, Owned
    <3> QED BY <3>2, FS_Singleton
  <2> QED BY <2>1, <2>2
<1> QED BY <1>1 DEF OneOwner

\* Get and Insert never lend a client twice.
THEOREM OneOwnerHolds == Spec => []OneOwner
<1>1. PoolInv => OneOwner
  BY PoolInvOneOwner
<1> QED BY <1>1, PoolInvHolds, PTL

\* A client in the pool is connected, or the thread that saw it break is on its way.
THEOREM PooledUsableHolds == Spec => []PooledUsable
<1>1. PoolInv => PooledUsable
  BY DEF PoolInv
<1> QED BY <1>1, PoolInvHolds, PTL

\* onDone_ is called at most once unless the timer runs out during doReq.
THEOREM AnsweredOnceHolds == Spec => []AnsweredOnce
<1>1. PoolInv => AnsweredOnce
  BY DEF PoolInv, Workers, AnsweredOnce
<1> QED BY <1>1, PoolInvHolds, PTL

\* A request takes bytes of its own answer only, unless an earlier one was cut off.
THEOREM OwnAnswerHolds == Spec => []OwnAnswer
<1>1. PoolInv => OwnAnswer
  BY DEF PoolInv
<1> QED BY <1>1, PoolInvHolds, PTL

\* A place of a task in the stacks.
LEMMA PendingFacts ==
  ASSUME NEW op
  PROVE  \A x : x \in Pending(op) <=>
            \E t \in Threads : \E i \in DOMAIN todo[t] : todo[t][i].op = op /\ x = <<t, i>>
  BY DEF Pending

\* Each erase stands behind its initClient, or its thread has run that one.
LEMMA PoolInvAllCounted ==
  ASSUME PoolInv
  PROVE  AllCounted
<1> DEFINE I == Pending("initClient")
           E == Pending("erase")
           H == {x \in E : x[2] = 1}
           R == E \ H
<1>1. StackInv /\ ErasedOnce /\ Counted
  BY DEF PoolInv
<1>2. \A t \in Threads : todo[t] \in Seq(TaskSet) /\ DOMAIN todo[t] = 1..Len(todo[t]) /\ Len(todo[t]) \in Nat
  BY <1>1 DEF StackInv, TodoOK
<1>3. \A x \in E : x[1] \in Threads /\ x[2] \in DOMAIN todo[x[1]] /\ x = <<x[1], x[2]>> /\ todo[x[1]][x[2]].op = "erase"
  BY PendingFacts
<1>4. \A x \in I : x[1] \in Threads /\ x[2] \in DOMAIN todo[x[1]] /\ x = <<x[1], x[2]>> /\ todo[x[1]][x[2]].op = "initClient"
  BY PendingFacts
<1>5. \A t \in Threads : \A i \in DOMAIN todo[t] : todo[t][i].op = "erase" =>
         todo[t][i].of \in Clients /\ todo[t][i] = Task("erase", todo[t][i].of)
  <2>1. ASSUME NEW t \in Threads, NEW i \in DOMAIN todo[t], todo[t][i].op = "erase"
        PROVE  todo[t][i].of \in Clients /\ todo[t][i] = Task("erase", todo[t][i].of)
    <3>1. todo[t][i] \in TaskSet
      BY <1>2
    <3> QED BY <2>1, <3>1 DEF TaskSet, Task, DoReqOps
  <2> QED BY <2>1
<1>6. IsFiniteSet(E)
  <2> DEFINE f == [x \in E |-> todo[x[1]][x[2]].of]
  <2>1. f \in [E -> Clients]
    BY <1>3, <1>5
  <2>2. ASSUME NEW x \in E, NEW y \in E, f[x] = f[y] PROVE x = y
    <3>1. PICK k : k = Task("erase", f[x])
      OBVIOUS
    <3>2. todo[x[1]][x[2]] = k /\ todo[y[1]][y[2]] = k /\ f[x] \in Clients
      BY <1>3, <1>5, <2>2, <3>1
    <3>3. Once(k)
      BY <1>1, <3>1, <3>2 DEF ErasedOnce
    <3>4. x[1] = y[1] /\ x[2] = y[2]
      BY <1>3, <3>2, <3>3 DEF Once
    <3> QED BY <1>3, <3>4
  <2> HIDE DEF f
  <2>3. f \in Injection(E, Clients)
    BY <2>1, <2>2 DEF Injection, IsInjective
  <2> QED BY <2>3, FiniteAssumption, FS_Injection
<1>7. IsFiniteSet(H) /\ IsFiniteSet(R) /\ Cardinality(E) = Cardinality(H) + Cardinality(R)
      /\ Cardinality(H) \in Nat /\ Cardinality(R) \in Nat
  <2>1. IsFiniteSet(H) /\ IsFiniteSet(R)
    BY <1>6, FS_Subset
  <2>2. H \cup R = E /\ H \cap R = {}
    OBVIOUS
  <2>3. Cardinality(H) \in Nat /\ Cardinality(R) \in Nat
    BY <2>1, FS_CardinalityType
  <2>4. Cardinality(H \cup R) = Cardinality(H) + Cardinality(R) - Cardinality(H \cap R)
    BY <2>1, FS_Union
  <2>5. Cardinality(H \cup R) = Cardinality(E) /\ Cardinality(H \cap R) = 0
    BY <2>2, FS_EmptySet
  <2>6. Cardinality(E) = Cardinality(H) + Cardinality(R)
    <3> HIDE DEF H, R, E
    <3> QED BY <2>3, <2>4, <2>5
  <2> QED BY <2>1, <2>3, <2>6
<1>8. Cardinality(H) = Cardinality(Erasing)
  <2> DEFINE f == [x \in H |-> x[1]]
  <2>1. \A x \in H : x[1] \in Erasing /\ x = <<x[1], 1>>
    BY <1>2, <1>3 DEF Erasing, At
  <2>2. ASSUME NEW t \in Erasing PROVE <<t, 1>> \in H
    <3>1. t \in Threads /\ 1 \in DOMAIN todo[t] /\ todo[t][1].op = "erase"
      BY <1>2 DEF Erasing, At
    <3>2. <<t, 1>> \in E
      BY <3>1, PendingFacts
    <3> QED BY <3>2
  <2>3. f \in [H -> Erasing]
    BY <2>1
  <2>4. \A x, y \in H : f[x] = f[y] => x = y
    BY <2>1
  <2>5. \A t \in Erasing : f[<<t, 1>>] = t /\ <<t, 1>> \in H
    BY <2>2
  <2> HIDE DEF f, H
  <2>6. f \in Injection(H, Erasing) /\ f \in Surjection(H, Erasing)
    BY <2>3, <2>4, <2>5 DEF Injection, IsInjective, Surjection
  <2> QED BY <1>7, <2>6, FS_Surjection
<1>9. Cardinality(R) = Cardinality(I)
  <2> DEFINE f == [x \in I |-> <<x[1], x[2] + 1>>]
  <2>1. ASSUME NEW x \in I PROVE <<x[1], x[2] + 1>> \in R
    <3>1. x[1] \in Threads /\ x[2] \in Nat \ {0} /\ x[2] + 1 \in DOMAIN todo[x[1]] /\ todo[x[1]][x[2] + 1].op = "erase"
      BY <1>1, <1>2, <1>4 DEF StackInv, Paired
    <3>2. <<x[1], x[2] + 1>> \in E
      BY <3>1, PendingFacts
    <3> QED BY <3>1, <3>2
  <2>2. ASSUME NEW y \in R PROVE \E x \in I : <<x[1], x[2] + 1>> = y
    <3>1. y[1] \in Threads /\ y[2] \in Nat /\ y[2] # 1 /\ y = <<y[1], y[2]>> /\ y[2] \in DOMAIN todo[y[1]]
      BY <1>2, <1>3
    <3>2. todo[y[1]][y[2] - 1].op = "initClient" /\ y[2] - 1 \in DOMAIN todo[y[1]]
      BY <1>1, <1>2, <1>3, <3>1 DEF StackInv, Paired
    <3>3. <<y[1], y[2] - 1>> \in I
      BY <3>1, <3>2, PendingFacts
    <3> QED BY <3>1, <3>3
  <2>3. f \in [I -> R]
    BY <2>1
  <2>4. ASSUME NEW x \in I, NEW y \in I, f[x] = f[y] PROVE x = y
    <3>1. x[1] = y[1] /\ x[2] + 1 = y[2] + 1 /\ x[2] \in Nat /\ y[2] \in Nat
      BY <1>2, <1>4, <2>4
    <3> QED BY <1>4, <3>1
  <2>5. \A y \in R : \E x \in I : f[x] = y
    BY <2>2
  <2> HIDE DEF f, R, I
  <2>6. f \in Injection(I, R) /\ f \in Surjection(I, R)
    BY <2>3, <2>4, <2>5 DEF Injection, IsInjective, Surjection
  <2> QED BY <1>7, <2>6, FS_Injection
<1>10. Cardinality(allClients) = MaxSize + Cardinality(H)
  BY <1>1, <1>8 DEF Counted
<1> HIDE DEF H, R, E, I
<1>11. Cardinality(allClients) + Cardinality(I) = MaxSize + Cardinality(E)
  BY <1>7, <1>9, <1>10, SizeAssumption
<1> QED BY <1>11 DEF AllCounted, I, E

\* The pool keeps maxSize_ clients: each one that breaks is replaced and taken out once.
THEOREM AllCountedHolds == Spec => []AllCounted
<1>1. PoolInv => AllCounted
  BY PoolInvAllCounted
<1> QED BY <1>1, PoolInvHolds, PTL

-----------------------------------------------------------------------------
(***************************************************************************)
(* No client is lost.  NoneLost is inductive beside PoolInv: what matters  *)
(* of a step is where it leaves the clients, and that it drops none of the *)
(* tasks that settle one.                                                  *)
(***************************************************************************)

\* The tasks that settle what becomes of a client.
Settling == {"insert", "finish", "erase"}

\* Where a client of the pool may be.
Placed(c) ==
    \/ conn[c].phase \in {"queued", "connecting"}
    \/ conn[c].event /\ (c \in clients \/ Unanswered(c) \/ GivenBack(c))
    \/ Broken(c) /\ TakenOut(c)

\* A step leaves c as far connected as it was.
ConnSame(c) ==
    /\ conn'[c].phase = conn[c].phase /\ conn'[c].event = conn[c].event
    /\ conn'[c].finished = conn[c].finished

\* A step leaves the clients with the requests that hold them.
LoansSame == \A r \in Requests : req'[r].client = req[r].client /\ req'[r].finished = req[r].finished

\* A step runs no task that settles a client, and drops none.
NoneSettled == \A k : Pend(k) /\ k.op \in Settling => Pend(k)'

\* A client that the step does not concern stays where it is.
LEMMA PlacedStays ==
  ASSUME NEW c, Placed(c), ConnSame(c), c \in clients => c \in clients',
         Unanswered(c) => Unanswered(c)',
         \A k : Pend(k) /\ k.op \in Settling /\ k.of = c => Pend(k)'
  PROVE  Placed(c)'
<1>1. GivenBack(c) => GivenBack(c)'
  BY DEF GivenBack, Pend, Settling
<1>2. TakenOut(c) => TakenOut(c)'
  <2>1. PICK k : k = Task("erase", c)
    OBVIOUS
  <2>2. k.op = "erase" /\ k.of = c
    BY <2>1 DEF Task
  <2>3. (TakenOut(c) <=> Pend(k)) /\ (TakenOut(c)' <=> Pend(k)')
    BY <2>1 DEF TakenOut, Pend, Task
  <2> QED BY <2>2, <2>3 DEF Settling
<1> QED BY <1>1, <1>2 DEF Placed, ConnSame, Broken

\* A request that holds c and is left alone holds it still.
LEMMA LoanStays ==
  ASSUME NEW c, NEW s \in SUBSET Requests,
         \A r \in Requests \ s : req'[r].client = req[r].client /\ req'[r].finished = req[r].finished,
         \A r \in s : req[r].client # c \/ req[r].finished
  PROVE  Unanswered(c) => Unanswered(c)'
BY DEF Unanswered, HeldBy

\* All of them are placed.
LEMMA NoneLostIs == NoneLost <=> \A c \in allClients : Placed(c)
  BY DEF NoneLost, Placed, Broken

\* Most steps concern none.
LEMMA CalmStep ==
  ASSUME DataOK, NoneLost, UNCHANGED <<clients, allClients>>,
         \A c \in Clients : ConnSame(c), LoansSame, NoneSettled
  PROVE  NoneLost'
<1>1. ASSUME NEW c \in allClients PROVE Placed(c)'
  <2>1. Placed(c) /\ ConnSame(c)
    BY <1>1, NoneLostIs DEF DataOK
  <2>2. Unanswered(c) => Unanswered(c)'
    BY DEF LoansSame, Unanswered, HeldBy
  <2> QED BY <2>1, <2>2, PlacedStays DEF NoneSettled
<1> QED BY <1>1 DEF NoneLost, Placed, Broken

\* A thread runs its first task, which calls others.
LEMMA PendCalls ==
  ASSUME StackInv, NEW t \in Threads, NEW op, At(t, op), NEW tasks \in Seq(TaskSet), Calls(t, tasks)
  PROVE  /\ \A k : Pend(k) /\ k # Head(todo[t]) => Pend(k)'
         /\ \A k \in Range(tasks) : Pend(k)'
         /\ op \notin Settling => NoneSettled
<1> DEFINE rest == Tail(todo[t])
<1>1. /\ todo[t] # <<>> /\ rest \in Seq(TaskSet) /\ Head(todo[t]).op = op
      /\ TasksOf(t) = {Head(todo[t])} \cup Later(t)
  BY AtFacts
<1>2. Becomes(t, tasks, rest) /\ TodoOK
  BY <1>1 DEF Becomes, Calls, StackInv
<1>3. /\ \A u \in Threads \ {t} : TasksOf(u)' = TasksOf(u)
      /\ TasksOf(t)' = Range(tasks) \cup Range(rest)
  BY <1>2, StackAfter
<1>4. Range(rest) = Later(t)
  BY <1>1, <1>2, StackAfter
<1> HIDE DEF rest
<1>5. \A k : Pend(k) /\ k # Head(todo[t]) => Pend(k)'
  BY <1>1, <1>3, <1>4 DEF Pend
<1>6. \A k \in Range(tasks) : Pend(k)'
  BY <1>3 DEF Pend
<1> QED BY <1>1, <1>5, <1>6 DEF NoneSettled

\* An idle thread starts.
LEMMA PendStarts ==
  ASSUME TodoOK, NEW t \in Threads, NEW tasks, Starts(t, tasks)
  PROVE  /\ \A k : Pend(k) => Pend(k)'
         /\ \A k \in Range(tasks) : Pend(k)'
         /\ NoneSettled
<1>1. TasksOf(t) = {} /\ TasksOf(t)' = Range(tasks)
  BY DEF Starts, TasksOf, Range, TodoOK
<1>2. \A u \in Threads \ {t} : TasksOf(u)' = TasksOf(u)
  BY DEF Starts, TasksOf, TodoOK
<1>3. \A k : Pend(k) => Pend(k)'
  BY <1>1, <1>2 DEF Pend
<1>4. \A k \in Range(tasks) : Pend(k)'
  BY <1>1 DEF Pend
<1> QED BY <1>3, <1>4 DEF NoneSettled

\* A doReq ends: what it had still to do settled no client.
LEMMA PendEnds ==
  ASSUME StackInv, NEW t \in Threads, NEW op \in DoReqOps, At(t, op),
         NEW tasks, todo' = [todo EXCEPT ![t] = tasks]
  PROVE  NoneSettled
<1>1. todo[t] = DoStack(op, Of(t)) /\ Of(t) \in Requests
  BY AtFacts DEF ReqOps
<1>2. \A k \in TasksOf(t) : k.op \in DoReqOps
  BY <1>1, DoStackFacts DEF TasksOf, Range
<1>3. \A u \in Threads \ {t} : TasksOf(u)' = TasksOf(u)
  BY DEF TasksOf, StackInv, TodoOK
<1> QED BY <1>2, <1>3 DEF NoneSettled, Pend, Settling, DoReqOps

\* A task that settles no client, and changes none.
LEMMA CalmCall ==
  ASSUME PoolInv, NoneLost, NEW t \in Threads, NEW op, op \notin Settling, At(t, op),
         NEW tasks \in Seq(TaskSet), Calls(t, tasks), UNCHANGED <<clients, allClients>>,
         \A c \in Clients : ConnSame(c), LoansSame
  PROVE  NoneLost'
<1>1. StackInv /\ DataOK
  BY DEF PoolInv
<1>2. NoneSettled
  BY <1>1, PendCalls
<1> QED BY <1>1, <1>2, CalmStep

\* An event that changes no client.
LEMMA CalmEvent ==
  ASSUME PoolInv, NoneLost, NEW tasks, Starts(Loop, tasks), UNCHANGED <<clients, allClients>>,
         \A c \in Clients : ConnSame(c), LoansSame
  PROVE  NoneLost'
<1>1. TodoOK /\ DataOK /\ Loop \in Threads
  BY DEF PoolInv, StackInv, Threads
<1>2. NoneSettled
  BY <1>1, PendStarts
<1> QED BY <1>1, <1>2, CalmStep

\* Nothing changes but one connection, in its handlers and bytes only.
LEMMA SameConns ==
  ASSUME DataOK, NEW c \in Clients, NEW k,
         conn' = [conn EXCEPT ![c] = k],
         k.phase = conn[c].phase, k.event = conn[c].event, k.finished = conn[c].finished
  PROVE  \A d \in Clients : ConnSame(d)
BY DEF DataOK, ConnSame

\* Nothing changes but one request, in its timer and bytes only.
LEMMA SameLoans ==
  ASSUME DataOK, NEW r \in Requests, NEW q,
         req' = [req EXCEPT ![r] = q],
         q.client = req[r].client, q.finished = req[r].finished
  PROVE  LoansSame
BY DEF DataOK, LoansSame

\* The tasks of a thread that settle no client.
LEMMA StepsPlaced ==
  ASSUME PoolInv, NoneLost, NEW t \in Threads,
         unlock(t) \/ AsyncWrite(t) \/ reqPush(t) \/ startTimer(t) \/ answered(t) \/ reqFinish(t)
  PROVE  NoneLost'
<1>0. StackInv /\ DataOK /\ conn \in [Clients -> ConnSet] /\ req \in [Requests -> ReqSet]
  BY DEF PoolInv, DataOK
<1>1. CASE unlock(t)
  <2>1. At(t, "unlock") /\ Calls(t, <<>>) /\ UNCHANGED <<clients, allClients, conn, req>>
    BY <1>1 DEF unlock
  <2>2. (\A c \in Clients : ConnSame(c)) /\ LoansSame
    BY <2>1 DEF ConnSame, LoansSame
  <2> QED BY <2>1, <2>2, NoTasks, CalmCall DEF Settling
<1>2. CASE AsyncWrite(t)
  <2> DEFINE r == Of(t)
             c == req[r].client
  <2>1. At(t, "asyncWrite") /\ UNCHANGED <<clients, allClients, req>>
    BY <1>2 DEF AsyncWrite
  <2>2. r \in Requests /\ todo[t] = DoStack("asyncWrite", r)
    BY <1>0, <2>1, AtFacts DEF ReqOps, DoReqOps
  <2>3. Tail(todo[t]) = <<>>
    BY <2>2, DoStackFacts DEF DoReqOps
  <2>4. c \in Clients
    BY <1>0, <2>2 DEF PoolInv, Stages, Stage, DoReqOps, ReqSet
  <2>5. LoansSame
    BY <2>1 DEF LoansSame
  <2>6. CASE conn[c].finished
    <3>1. PICK tasks : tasks = <<Ending("reqFinish", r, FALSE), Task("unlock", c)>>
      OBVIOUS
    <3>2. Calls(t, tasks) /\ UNCHANGED conn
      BY <1>2, <2>6, <3>1 DEF AsyncWrite
    <3>3. tasks \in Seq(TaskSet)
      BY <2>2, <2>4, <3>1, TaskFacts, TwoTasks
    <3>4. \A d \in Clients : ConnSame(d)
      BY <3>2 DEF ConnSame
    <3> QED BY <2>1, <2>5, <3>2, <3>3, <3>4, CalmCall DEF Settling
  <2>7. CASE ~conn[c].finished
    <3>1. PICK k : k = [conn[c] EXCEPT !.writer = r, !.armed = FALSE]
      OBVIOUS
    <3>2. Calls(t, <<>>) /\ conn' = [conn EXCEPT ![c] = k]
      <4>1. Calls(t, <<>>) /\ conn' = [conn EXCEPT ![c].writer = r, ![c].armed = FALSE]
        BY <1>2, <2>7 DEF AsyncWrite
      <4> QED BY <1>0, <2>4, <3>1, <4>1
    <3>3. conn[c] \in ConnSet
      BY <1>0, <2>4
    <3>4. k.phase = conn[c].phase /\ k.event = conn[c].event /\ k.finished = conn[c].finished
      BY <3>1, <3>3 DEF ConnSet
    <3>5. \A d \in Clients : ConnSame(d)
      BY <1>0, <2>4, <3>2, <3>4, SameConns
    <3> QED BY <2>1, <2>5, <3>2, <3>5, NoTasks, CalmCall DEF Settling
  <2> QED BY <2>6, <2>7
<1>3. CASE reqPush(t)
  <2>1. At(t, "reqPush") /\ UNCHANGED <<clients, allClients, conn, req>>
    BY <1>3 DEF reqPush
  <2>2. (\A c \in Clients : ConnSame(c)) /\ LoansSame
    BY <2>1 DEF ConnSame, LoansSame
  <2>3. CASE Calls(t, <<>>)
    BY <2>1, <2>2, <2>3, NoTasks, CalmCall DEF Settling
  <2>4. CASE todo' = [todo EXCEPT ![t] = <<Ending("reqFinish", Of(t), FALSE)>>]
    <3>1. NoneSettled
      BY <1>0, <2>1, <2>4, PendEnds DEF DoReqOps
    <3> QED BY <1>0, <2>1, <2>2, <3>1, CalmStep
  <2> QED BY <1>3, <2>3, <2>4 DEF reqPush
<1>4. CASE startTimer(t)
  <2> DEFINE r == Of(t)
  <2>1. At(t, "startTimer") /\ UNCHANGED <<clients, allClients, conn>> /\ Calls(t, <<>>)
    BY <1>4 DEF startTimer
  <2>2. PICK timer \in {"none", "on"} : req' = [req EXCEPT ![r].timer = timer]
    BY <1>4 DEF startTimer
  <2>3. r \in Requests
    BY <1>0, <2>1, AtFacts DEF ReqOps, DoReqOps
  <2>4. PICK q : q = [req[r] EXCEPT !.timer = timer]
    OBVIOUS
  <2>5. req[r] \in ReqSet
    BY <1>0, <2>3
  <2>6. q.client = req[r].client /\ q.finished = req[r].finished /\ req' = [req EXCEPT ![r] = q]
    BY <2>2, <2>4, <2>5 DEF ReqSet
  <2>7. LoansSame
    BY <1>0, <2>3, <2>6, SameLoans
  <2>8. \A c \in Clients : ConnSame(c)
    BY <2>1 DEF ConnSame
  <2> QED BY <2>1, <2>7, <2>8, NoTasks, CalmCall DEF Settling
<1>5. CASE answered(t)
  <2> DEFINE c == Of(t)
             r == conn[c].reader
  <2>1. /\ At(t, "answered") /\ UNCHANGED <<clients, allClients>>
        /\ req' = [req EXCEPT ![r].timer = Cancelled(@), ![r].got = @ \cup conn[c].unread]
        /\ conn' = [conn EXCEPT ![c].unread = {}]
    BY <1>5 DEF answered
  <2>2. PICK outcome \in RespPop(r, conn[c]) :
          Calls(t, IF outcome = "wait" THEN <<>>
                   ELSE <<Ending("reqFinish", r, outcome = "finish")>>)
    BY <1>5 DEF answered
  <2>3. c \in Clients /\ Head(todo[t]) \in TasksOf(t) /\ Head(todo[t]) = Task("answered", c)
    BY <1>0, <2>1, AtFacts
  <2>4. r # NoRequest
    BY <2>3 DEF PoolInv, Held
  <2>5. conn[c] \in ConnSet
    BY <1>0, <2>3
  <2>6. r \in Requests
    BY <2>4, <2>5 DEF ConnSet
  <2>7. req[r] \in ReqSet
    BY <1>0, <2>6
  <2>8. PICK q : q = [req[r] EXCEPT !.timer = Cancelled(@), !.got = @ \cup conn[c].unread]
    OBVIOUS
  <2>9. q.client = req[r].client /\ q.finished = req[r].finished /\ req' = [req EXCEPT ![r] = q]
    BY <1>0, <2>1, <2>6, <2>7, <2>8 DEF ReqSet
  <2>10. LoansSame
    BY <1>0, <2>6, <2>9, SameLoans
  <2>11. PICK k : k = [conn[c] EXCEPT !.unread = {}]
    OBVIOUS
  <2>12. /\ k.phase = conn[c].phase /\ k.event = conn[c].event /\ k.finished = conn[c].finished
         /\ conn' = [conn EXCEPT ![c] = k]
    BY <1>0, <2>1, <2>3, <2>5, <2>11 DEF ConnSet
  <2>13. \A d \in Clients : ConnSame(d)
    BY <1>0, <2>3, <2>12, SameConns
  <2>14. PICK a : a = Ending("reqFinish", r, outcome = "finish")
    OBVIOUS
  <2>15. a \in TaskSet
    BY <2>6, <2>14 DEF TaskSet, Ending
  <2>16. <<a>> \in Seq(TaskSet) /\ <<>> \in Seq(TaskSet)
    BY <2>15, OneTask, NoTasks
  <2>17. Calls(t, <<>>) \/ Calls(t, <<a>>)
    BY <2>2, <2>14
  <2> QED BY <2>1, <2>10, <2>13, <2>16, <2>17, CalmCall DEF Settling
<1>6. CASE reqFinish(t)
  <2>1. At(t, "reqFinish") /\ UNCHANGED <<clients, allClients, conn, req>>
    BY <1>6 DEF reqFinish
  <2>2. (\A c \in Clients : ConnSame(c)) /\ LoansSame
    BY <2>1 DEF ConnSame, LoansSame
  <2>3. PICK a : a = Ending("reqDone", Of(t), Ok(t))
    OBVIOUS
  <2>4. Of(t) \in Requests /\ Ok(t) \in BOOLEAN
    BY <1>0, <2>1, AtFacts DEF ReqOps
  <2>5. <<a>> \in Seq(TaskSet) /\ <<>> \in Seq(TaskSet)
    BY <2>3, <2>4, TaskFacts, OneTask, NoTasks
  <2>6. Calls(t, <<>>) \/ Calls(t, <<a>>)
    BY <1>6, <2>3 DEF reqFinish
  <2> QED BY <2>1, <2>2, <2>5, <2>6, CalmCall DEF Settling
<1> QED BY <1>1, <1>2, <1>3, <1>4, <1>5, <1>6

\* The events that only change handlers, bytes and timers, or start what settles
\* a client.
LEMMA EventsPlaced ==
  ASSUME PoolInv, NoneLost, NEW c \in Clients,
         arm(c) \/ written(c) \/ writeFails(c) \/ receive(c) \/ closed(c)
  PROVE  NoneLost'
<1>0. DataOK /\ conn \in [Clients -> ConnSet] /\ req \in [Requests -> ReqSet] /\ conn[c] \in ConnSet
  BY DEF PoolInv, DataOK
<1>1. CASE arm(c)
  <2>1. UNCHANGED <<clients, allClients, req, todo>> /\ conn' = [conn EXCEPT ![c].armed = TRUE]
    BY <1>1 DEF arm
  <2>2. PICK k : k = [conn[c] EXCEPT !.armed = TRUE]
    OBVIOUS
  <2>3. /\ k.phase = conn[c].phase /\ k.event = conn[c].event /\ k.finished = conn[c].finished
        /\ conn' = [conn EXCEPT ![c] = k]
    BY <1>0, <2>1, <2>2 DEF ConnSet
  <2>4. \A d \in Clients : ConnSame(d)
    BY <1>0, <2>3, SameConns
  <2>5. LoansSame
    BY <2>1 DEF LoansSame
  <2>6. NoneSettled
    BY <2>1 DEF NoneSettled, Pend, TasksOf
  <2> QED BY <1>0, <2>1, <2>4, <2>5, <2>6, CalmStep
<1>2. CASE written(c)
  <2>1. /\ UNCHANGED <<clients, allClients, req>>
        /\ \E parts \in 1..(MaxParts - Len(conn[c].coming)) :
             conn' = [conn EXCEPT ![c].writer = NoRequest, ![c].armed = FALSE, ![c].reader = conn[c].writer,
                                  ![c].coming = @ \o [i \in 1..parts |-> conn[c].writer]]
    BY <1>2 DEF written
  <2>2. PICK tasks : Starts(Loop, tasks)
    BY <1>2 DEF written
  <2>3. PICK more : conn' = [conn EXCEPT ![c].writer = NoRequest, ![c].armed = FALSE,
                                         ![c].reader = conn[c].writer, ![c].coming = @ \o more]
    BY <2>1
  <2>4. PICK k : k = [conn[c] EXCEPT !.writer = NoRequest, !.armed = FALSE,
                                     !.reader = conn[c].writer, !.coming = @ \o more]
    OBVIOUS
  <2>5. k.phase = conn[c].phase /\ k.event = conn[c].event /\ k.finished = conn[c].finished
    BY <1>0, <2>4 DEF ConnSet
  <2>6. conn' = [conn EXCEPT ![c] = k]
    BY <1>0, <2>3, <2>4
  <2>7. \A d \in Clients : ConnSame(d)
    BY <1>0, <2>5, <2>6, SameConns
  <2>8. LoansSame
    BY <2>1 DEF LoansSame
  <2> QED BY <2>1, <2>2, <2>7, <2>8, CalmEvent
<1>3. CASE writeFails(c)
  <2>1. /\ UNCHANGED <<clients, allClients, req>>
        /\ conn' = [conn EXCEPT ![c].writer = NoRequest, ![c].armed = FALSE]
    BY <1>3 DEF writeFails
  <2>2. PICK tasks : Starts(Loop, tasks)
    BY <1>3 DEF writeFails
  <2>3. PICK k : k = [conn[c] EXCEPT !.writer = NoRequest, !.armed = FALSE]
    OBVIOUS
  <2>4. /\ k.phase = conn[c].phase /\ k.event = conn[c].event /\ k.finished = conn[c].finished
        /\ conn' = [conn EXCEPT ![c] = k]
    BY <1>0, <2>1, <2>3 DEF ConnSet
  <2>5. \A d \in Clients : ConnSame(d)
    BY <1>0, <2>4, SameConns
  <2>6. LoansSame
    BY <2>1 DEF LoansSame
  <2> QED BY <2>1, <2>2, <2>5, <2>6, CalmEvent
<1>4. CASE receive(c)
  <2>1. /\ UNCHANGED <<clients, allClients, req>>
        /\ conn' = [conn EXCEPT ![c].unread = @ \cup {Head(conn[c].coming)}, ![c].coming = Tail(@)]
    BY <1>4 DEF receive
  <2>2. PICK tasks : Starts(Loop, tasks)
    BY <1>4 DEF receive
  <2>3. PICK k : k = [conn[c] EXCEPT !.unread = @ \cup {Head(conn[c].coming)}, !.coming = Tail(@)]
    OBVIOUS
  <2>4. k.phase = conn[c].phase /\ k.event = conn[c].event /\ k.finished = conn[c].finished
    BY <1>0, <2>3 DEF ConnSet
  <2>5. conn' = [conn EXCEPT ![c] = k]
    BY <1>0, <2>1, <2>3
  <2>6. \A d \in Clients : ConnSame(d)
    BY <1>0, <2>4, <2>5, SameConns
  <2>7. LoansSame
    BY <2>1 DEF LoansSame
  <2> QED BY <2>1, <2>2, <2>6, <2>7, CalmEvent
<1>5. CASE closed(c)
  <2> DEFINE r == conn[c].reader
  <2>1. UNCHANGED <<clients, allClients, conn>>
    BY <1>5 DEF closed
  <2>2. PICK tasks : Starts(Loop, tasks)
    BY <1>5 DEF closed
  <2>3. \A d \in Clients : ConnSame(d)
    BY <2>1 DEF ConnSame
  <2>4. CASE r = NoRequest
    <3>1. UNCHANGED req
      BY <1>5, <2>4 DEF closed
    <3>2. LoansSame
      BY <3>1 DEF LoansSame
    <3> QED BY <2>1, <2>2, <2>3, <3>2, CalmEvent
  <2>5. CASE r # NoRequest
    <3>1. req' = [req EXCEPT ![r].timer = Cancelled(@)]
      BY <1>5, <2>5 DEF closed
    <3>2. r \in Requests /\ req[r] \in ReqSet
      BY <1>0, <2>5 DEF ConnSet
    <3>3. PICK q : q = [req[r] EXCEPT !.timer = Cancelled(@)]
      OBVIOUS
    <3>4. q.client = req[r].client /\ q.finished = req[r].finished /\ req' = [req EXCEPT ![r] = q]
      BY <1>0, <3>1, <3>2, <3>3 DEF ReqSet
    <3>5. LoansSame
      BY <1>0, <3>2, <3>4, SameLoans
    <3> QED BY <2>1, <2>2, <2>3, <3>5, CalmEvent
  <2> QED BY <2>4, <2>5
<1> QED BY <1>1, <1>2, <1>3, <1>4, <1>5

\* A timeout ends its request, which gives back the client later.
LEMMA ExpirePlaced ==
  ASSUME PoolInv, NoneLost, NEW r \in Requests, expire(r)
  PROVE  NoneLost'
<1>1. DataOK /\ req \in [Requests -> ReqSet] /\ req[r] \in ReqSet
  BY DEF PoolInv, DataOK
<1>2. PICK early : early = (req[r].early \/ \E u \in Users : \E k \in TasksOf(u) : k.of = r)
  OBVIOUS
<1>3. /\ req' = [req EXCEPT ![r].timer = "off", ![r].early = early]
      /\ UNCHANGED <<clients, allClients, conn>>
  BY <1>2 DEF expire
<1>4. PICK tasks : Starts(Loop, tasks)
  BY DEF expire
<1>5. PICK q : q = [req[r] EXCEPT !.timer = "off", !.early = early]
  OBVIOUS
<1>6. q.client = req[r].client /\ q.finished = req[r].finished /\ req' = [req EXCEPT ![r] = q]
  BY <1>1, <1>3, <1>5 DEF ReqSet
<1>7. LoansSame
  BY <1>1, <1>6, SameLoans
<1>8. \A c \in Clients : ConnSame(c)
  BY <1>3 DEF ConnSame
<1> QED BY <1>3, <1>4, <1>7, <1>8, CalmEvent

\* A request begins.
LEMMA DoReqPlaced ==
  ASSUME PoolInv, NoneLost, NEW r \in Requests, NEW u \in Users, doReq(u, r)
  PROVE  NoneLost'
<1>1. DataOK /\ TodoOK /\ u \in Threads /\ req \in [Requests -> ReqSet] /\ req[r] \in ReqSet
  BY DEF PoolInv, DataOK, StackInv, Threads
<1>2. req' = [req EXCEPT ![r].begun = TRUE] /\ UNCHANGED <<clients, allClients, conn>>
  BY DEF doReq
<1>3. PICK tasks : Starts(u, tasks)
  BY DEF doReq
<1>4. NoneSettled
  BY <1>1, <1>3, PendStarts
<1>5. PICK q : q = [req[r] EXCEPT !.begun = TRUE]
  OBVIOUS
<1>6. q.client = req[r].client /\ q.finished = req[r].finished /\ req' = [req EXCEPT ![r] = q]
  BY <1>1, <1>2, <1>5 DEF ReqSet
<1>7. LoansSame
  BY <1>1, <1>6, SameLoans
<1>8. \A c \in Clients : ConnSame(c)
  BY <1>2 DEF ConnSame
<1> QED BY <1>1, <1>2, <1>4, <1>7, <1>8, CalmStep

\* A request was answered before it is destroyed.
LEMMA DestroyPlaced ==
  ASSUME PoolInv, NoneLost, NEW r \in Requests, destroy(r)
  PROVE  NoneLost'
<1>1. DataOK /\ req \in [Requests -> ReqSet] /\ conn \in [Clients -> ConnSet] /\ allClients \subseteq Clients
  BY DEF PoolInv, DataOK
<1>2. PICK c : c = req[r].client
  OBVIOUS
<1>3. /\ req[r].answers > 0 /\ UNCHANGED <<clients, allClients, todo>>
      /\ req' = [req EXCEPT ![r] = NewReq]
      /\ conn' = IF c # NoClient /\ c \notin allClients /\ HeldBy(c) = {r}
                 THEN [conn EXCEPT ![c] = NoConn] ELSE conn
  BY <1>2 DEF destroy
<1>4. req[r].client # NoClient => req[r].finished
  <2>1. req[r].answers # 0
    BY <1>1, <1>3 DEF ReqSet
  <2> QED BY <2>1 DEF PoolInv, Clientship
<1>5. \A x \in Requests \ {r} : req'[x] = req[x]
  BY <1>1, <1>3
<1>6. ASSUME NEW d \in allClients PROVE Placed(d)'
  <2>1. Placed(d) /\ d \in Clients
    BY <1>1, <1>6, NoneLostIs
  <2>2. conn'[d] = conn[d]
    BY <1>1, <1>3, <2>1
  <2>3. ConnSame(d)
    BY <2>2 DEF ConnSame
  <2>4. req[r].client # d \/ req[r].finished
    BY <1>4, <2>1, NamesAssumption
  <2>5. Unanswered(d) => Unanswered(d)'
    BY <1>5, <2>4 DEF Unanswered, HeldBy
  <2>6. \A k : Pend(k) => Pend(k)'
    BY <1>3 DEF Pend, TasksOf
  <2> QED BY <1>3, <2>1, <2>3, <2>5, <2>6, PlacedStays
<1> QED BY <1>3, <1>6 DEF NoneLost, Placed, Broken

\* A client that is about to be given back or taken out.
LEMMA SettledBy ==
  ASSUME NEW c, NEW k, Pend(k)'
  PROVE  /\ k.op \in {"insert", "finish"} /\ k.of = c => GivenBack(c)'
         /\ k = Task("erase", c) => TakenOut(c)'
<1>1. k.op \in {"insert", "finish"} /\ k.of = c => GivenBack(c)'
  BY DEF Pend, GivenBack
<1>2. k = Task("erase", c) => TakenOut(c)'
  BY DEF Pend, TakenOut, Task
<1> QED BY <1>1, <1>2

\* A thread that has another task first leaves a client to be taken out.
LEMMA TakenStays ==
  ASSUME NEW c, TakenOut(c), \A k : Pend(k) /\ k.op = "erase" /\ k.of = c => Pend(k)'
  PROVE  TakenOut(c)'
<1>1. PICK k : k = Task("erase", c)
  OBVIOUS
<1>2. k.op = "erase" /\ k.of = c
  BY <1>1 DEF Task
<1>3. Pend(k)
  BY <1>1 DEF TakenOut, Pend
<1>4. Pend(k)'
  BY <1>2, <1>3
<1> QED BY <1>1, <1>4, SettledBy

\* The requests keep their clients.
LEMMA LoansStay ==
  ASSUME LoansSame, NEW c
  PROVE  Unanswered(c) => Unanswered(c)'
BY DEF LoansSame, Unanswered, HeldBy

\* A task leaves alone the clients that it is not about.
LEMMA OthersPlaced ==
  ASSUME PoolInv, NoneLost, NEW t \in Threads, NEW op, At(t, op), NEW tasks \in Seq(TaskSet),
         Calls(t, tasks), NEW c \in allClients, op \notin Settling \/ Of(t) # c, ConnSame(c),
         c \in clients => c \in clients', Unanswered(c) => Unanswered(c)'
  PROVE  Placed(c)'
<1>1. StackInv /\ Placed(c)
  BY NoneLostIs DEF PoolInv
<1>2. \A k : Pend(k) /\ k # Head(todo[t]) => Pend(k)'
  BY <1>1, PendCalls
<1>3. Head(todo[t]).op = op /\ Head(todo[t]).of = Of(t)
  BY DEF At, Of
<1>4. \A k : Pend(k) /\ k.op \in Settling /\ k.of = c => Pend(k)'
  BY <1>2, <1>3
<1> QED BY <1>1, <1>4, PlacedStays

\* A client that is about to be given back is placed.
LEMMA GivenPlaced ==
  ASSUME PoolInv, NoneLost, NEW t \in Threads, NEW op, At(t, op), op # "erase",
         NEW tasks \in Seq(TaskSet), Calls(t, tasks), NEW c \in allClients, ConnSame(c), GivenBack(c)'
  PROVE  Placed(c)'
<1>1. StackInv /\ Placed(c)
  BY NoneLostIs DEF PoolInv
<1>2. \A k : Pend(k) /\ k # Head(todo[t]) => Pend(k)'
  BY <1>1, PendCalls
<1>3. Head(todo[t]).op = op
  BY DEF At
<1>4. TakenOut(c) => TakenOut(c)'
  BY <1>2, <1>3, TakenStays
<1> QED BY <1>1, <1>4 DEF Placed, ConnSame, Broken

\* A new client is being connected.
LEMMA InitClientPlaced ==
  ASSUME PoolInv, NoneLost, NEW t \in Threads, initClient(t)
  PROVE  NoneLost'
<1>1. At(t, "initClient") /\ Calls(t, <<>>) /\ UNCHANGED <<clients, req>>
  BY DEF initClient
<1>2. PICK c \in Fresh : /\ allClients' = allClients \cup {c}
                         /\ conn' = [conn EXCEPT ![c] = [NoConn EXCEPT !.phase = "queued"]]
  BY DEF initClient
<1>3. c \in Clients /\ c \notin allClients /\ conn \in [Clients -> ConnSet] /\ allClients \subseteq Clients
  BY <1>2 DEF Fresh, PoolInv, DataOK
<1>4. conn'[c].phase = "queued"
  BY <1>2, <1>3 DEF NoConn
<1>5. LoansSame
  BY <1>1 DEF LoansSame
<1>6. ASSUME NEW d \in allClients PROVE Placed(d)'
  <2>1. conn'[d] = conn[d]
    BY <1>2, <1>3
  <2>2. ConnSame(d) /\ (Unanswered(d) => Unanswered(d)')
    BY <1>5, <2>1, LoansStay DEF ConnSame
  <2>3. "initClient" \notin Settling /\ (d \in clients => d \in clients')
    BY <1>1 DEF Settling
  <2> QED BY <1>1, <2>2, <2>3, NoTasks, OthersPlaced
<1> QED BY <1>2, <1>4, <1>6 DEF NoneLost, Placed, Broken

\* A client that was replaced leaves the pool.
LEMMA ErasePlaced ==
  ASSUME PoolInv, NoneLost, NEW t \in Threads, erase(t)
  PROVE  NoneLost'
<1> DEFINE c == Of(t)
<1>1. /\ At(t, "erase") /\ Calls(t, <<>>) /\ UNCHANGED req
      /\ clients' = clients \ {c} /\ allClients' = allClients \ {c}
      /\ conn' = IF HeldBy(c) = {} THEN [conn EXCEPT ![c] = NoConn] ELSE conn
  BY DEF erase
<1>2. conn \in [Clients -> ConnSet] /\ allClients \subseteq Clients
  BY DEF PoolInv, DataOK
<1>3. LoansSame
  BY <1>1 DEF LoansSame
<1> HIDE DEF c
<1>4. ASSUME NEW d \in allClients, d # c PROVE Placed(d)'
  <2>1. conn'[d] = conn[d]
    BY <1>1, <1>2, <1>4
  <2>2. ConnSame(d) /\ (Unanswered(d) => Unanswered(d)')
    BY <1>3, <2>1, LoansStay DEF ConnSame
  <2>3. d \in clients => d \in clients'
    BY <1>1, <1>4
  <2> QED BY <1>1, <1>4, <2>2, <2>3, NoTasks, OthersPlaced DEF c
<1> QED BY <1>1, <1>4 DEF NoneLost, Placed, Broken

\* A client is lent, or there is none.
LEMMA GetPlaced ==
  ASSUME PoolInv, NoneLost, NEW t \in Threads, Get(t)
  PROVE  NoneLost'
<1>1. At(t, "get") /\ UNCHANGED <<allClients, conn>>
  BY DEF Get
<1>2. StackInv /\ DataOK /\ req \in [Requests -> ReqSet] /\ clients \subseteq Clients /\ allClients \subseteq Clients
  BY DEF PoolInv, DataOK
<1>3. PICK r : r = Of(t)
  OBVIOUS
<1>4. r \in Requests /\ todo[t] = DoStack("get", r)
  BY <1>1, <1>2, <1>3, AtFacts DEF ReqOps, DoReqOps
<1>5. \A d \in Clients : ConnSame(d)
  BY <1>1 DEF ConnSame
<1>6. CASE /\ clients = {} /\ todo' = [todo EXCEPT ![t] = <<>>] /\ UNCHANGED clients
           /\ req' = [req EXCEPT ![r].answers = @ + 1]
  <2>1. NoneSettled
    BY <1>1, <1>2, <1>6, PendEnds DEF DoReqOps
  <2>2. PICK q : q = [req[r] EXCEPT !.answers = @ + 1]
    OBVIOUS
  <2>3. req[r] \in ReqSet
    BY <1>2, <1>4
  <2>4. q.client = req[r].client /\ q.finished = req[r].finished
    BY <2>2, <2>3 DEF ReqSet
  <2>5. req' = [req EXCEPT ![r] = q]
    BY <1>2, <1>4, <1>6, <2>2
  <2>6. LoansSame
    BY <1>2, <1>4, <2>4, <2>5, SameLoans
  <2> QED BY <1>1, <1>2, <1>5, <1>6, <2>1, <2>6, CalmStep
<1>7. ASSUME NEW c \in clients, clients' = clients \ {c}, Calls(t, <<>>),
             req' = [req EXCEPT ![r].client = c]
      PROVE  NoneLost'
  <2>1. req[r].client = NoClient
    BY <1>4 DEF PoolInv, Stages, Stage, DoReqOps
  <2>2. ~req[r].finished
    BY <1>4, <2>1 DEF PoolInv, Clientship
  <2>3. req[r] \in ReqSet
    BY <1>2, <1>4
  <2>4. req'[r].client = c /\ req'[r].finished = req[r].finished
    BY <1>2, <1>4, <1>7, <2>3 DEF ReqSet
  <2>5. Unanswered(c)'
    BY <1>4, <2>2, <2>4 DEF Unanswered, HeldBy
  <2>6. \A x \in Requests \ {r} : req'[x].client = req[x].client /\ req'[x].finished = req[x].finished
    BY <1>2, <1>4, <1>7
  <2>7. "get" \notin Settling
    BY DEF Settling
  <2>8. ASSUME NEW d \in allClients PROVE Placed(d)'
    <3>1. ConnSame(d) /\ d \in Clients
      BY <1>2, <1>5
    <3>2. CASE d = c
      <4>1. conn[c].phase = "up"
        BY <1>7 DEF PoolInv, PooledUsable
      <4>2. Placed(c)
        BY <2>8, <3>2, NoneLostIs
      <4>3. conn[c].phase \notin {"queued", "connecting"}
        BY <4>1
      <4>4. conn[c].event \/ (Broken(c) /\ TakenOut(c))
        BY <4>2, <4>3 DEF Placed
      <4>5. \A k : Pend(k) /\ k.op \in Settling => Pend(k)'
        BY <1>1, <1>2, <1>7, <2>7, NoTasks, PendCalls DEF NoneSettled
      <4>6. TakenOut(c) => TakenOut(c)'
        BY <4>5, TakenStays DEF Settling
      <4>7. conn[c].event => conn'[c].event
        BY <3>1, <3>2 DEF ConnSame
      <4>8. Broken(c) => Broken(c)'
        BY <3>1, <3>2 DEF ConnSame, Broken
      <4> QED BY <2>5, <3>2, <4>4, <4>6, <4>7, <4>8 DEF Placed
    <3>3. CASE d # c
      <4>1. req[r].client # d
        BY <2>1, <3>1, NamesAssumption
      <4>2. Unanswered(d) => Unanswered(d)'
        <5>1. {r} \in SUBSET Requests /\ \A x \in {r} : req[x].client # d \/ req[x].finished
          BY <1>4, <4>1
        <5> QED BY <2>6, <5>1, LoanStays
      <4>3. d \in clients => d \in clients'
        BY <1>7, <3>3
      <4> QED BY <1>1, <1>7, <2>7, <3>1, <4>2, <4>3, NoTasks, OthersPlaced
    <3> QED BY <3>2, <3>3
  <2> QED BY <1>1, <2>8 DEF NoneLost, Placed, Broken
<1> QED BY <1>3, <1>6, <1>7 DEF Get

\* A client is given back, or is to be finished.
LEMMA InsertPlaced ==
  ASSUME PoolInv, NoneLost, NEW t \in Threads, Insert(t)
  PROVE  NoneLost'
<1>1. At(t, "insert") /\ UNCHANGED <<allClients, req>>
  BY DEF Insert
<1>2. StackInv /\ conn \in [Clients -> ConnSet] /\ allClients \subseteq Clients
  BY DEF PoolInv, DataOK
<1>3. PICK c : c = Of(t)
  OBVIOUS
<1>4. c \in Clients /\ conn[c] \in ConnSet
  BY <1>1, <1>2, <1>3, AtFacts
<1>5. LoansSame
  BY <1>1 DEF LoansSame
<1>6. CASE ~Ok(t)
  <2>1. PICK f, u : f = Task("finish", c) /\ u = Task("unlock", Pool)
    OBVIOUS
  <2>2. Calls(t, <<f, u>>) /\ UNCHANGED <<clients, conn>>
    BY <1>3, <1>6, <2>1 DEF Insert
  <2>3. f \in TaskSet /\ u \in TaskSet /\ f.op = "finish" /\ f.of = c
    BY <1>4, <2>1, TaskFacts DEF Task
  <2>4. <<f, u>> \in Seq(TaskSet) /\ f \in Range(<<f, u>>)
    <3>1. <<f, u>> \in Seq(TaskSet) /\ Range(<<f, u>>) = {f, u}
      BY <2>3, TwoTasks
    <3> QED BY <3>1
  <2>5. Pend(f)'
    BY <1>1, <1>2, <2>2, <2>4, PendCalls
  <2>6. GivenBack(c)'
    BY <2>3, <2>5, SettledBy
  <2>7. ASSUME NEW d \in allClients PROVE Placed(d)'
    <3>1. ConnSame(d) /\ (Unanswered(d) => Unanswered(d)') /\ (d \in clients => d \in clients')
      BY <1>5, <2>2, LoansStay DEF ConnSame
    <3>2. CASE d = c
      BY <1>1, <2>2, <2>4, <2>6, <2>7, <3>1, <3>2, GivenPlaced
    <3>3. CASE d # c
      BY <1>1, <1>3, <2>2, <2>4, <3>1, <3>3, OthersPlaced
    <3> QED BY <3>2, <3>3
  <2> QED BY <1>1, <2>7 DEF NoneLost, Placed, Broken
<1>7. CASE Ok(t)
  <2>1. Calls(t, <<>>) /\ conn' = [conn EXCEPT ![c] = ConnReset(@)] /\ clients' = clients \cup {c}
    BY <1>3, <1>7 DEF Insert
  <2>2. /\ t = Loop /\ Head(todo[t]) \in TasksOf(t) /\ Head(todo[t]) = Ending("insert", c, Ok(t))
    BY <1>1, <1>2, <1>3, <1>7, AtFacts
  <2>3. PICK k : k = Head(todo[t])
    OBVIOUS
  <2>4. k \in TasksOf(Loop) /\ k.op = "insert" /\ k.of = c /\ k.ok
    BY <1>7, <2>2, <2>3 DEF Ending
  <2>5. conn[c].event
    BY <2>4 DEF PoolInv, Returned
  <2>6. ConnReset(conn[c]).event = conn[c].event
    BY <1>4 DEF ConnReset, ConnSet
  <2>7. conn'[c].event /\ c \in clients'
    BY <1>2, <1>4, <2>1, <2>5, <2>6
  <2>8. ASSUME NEW d \in allClients, d # c PROVE Placed(d)'
    <3>1. conn'[d] = conn[d]
      BY <1>2, <2>1, <2>8
    <3>2. ConnSame(d) /\ (Unanswered(d) => Unanswered(d)') /\ (d \in clients => d \in clients')
      BY <1>5, <2>1, <3>1, LoansStay DEF ConnSame
    <3> QED BY <1>1, <1>3, <2>1, <2>8, <3>2, NoTasks, OthersPlaced
  <2> QED BY <1>1, <2>7, <2>8 DEF NoneLost, Placed, Broken
<1> QED BY <1>6, <1>7

\* A connection that finishes is taken out, or is being taken out already.
LEMMA FinishPlaced ==
  ASSUME PoolInv, NoneLost, NEW t \in Threads, finish(t)
  PROVE  NoneLost'
<1>1. At(t, "finish") /\ UNCHANGED <<clients, allClients, req>>
  BY DEF finish
<1>2. StackInv /\ conn \in [Clients -> ConnSet] /\ allClients \subseteq Clients
  BY DEF PoolInv, DataOK
<1>3. PICK c : c = Of(t)
  OBVIOUS
<1>4. c \in Clients /\ conn[c] \in ConnSet /\ Head(todo[t]) \in TasksOf(t)
  BY <1>1, <1>2, <1>3, AtFacts
<1>5. LoansSame
  BY <1>1 DEF LoansSame
<1>6. conn[c].phase = "up"
  <2>1. PICK k : k = Head(todo[t])
    OBVIOUS
  <2>2. k \in TasksOf(t) /\ k.op = "finish" /\ k.of = c
    BY <1>1, <1>3, <1>4, <2>1 DEF At, Of
  <2> QED BY <1>4, <2>2 DEF PoolInv, Held
<1>7. ConnOK(conn[c])
  BY <1>4 DEF PoolInv, ConnShape
<1>8. PICK tasks : /\ tasks \in Seq(TaskSet) /\ Calls(t, tasks)
                   /\ \A d \in Clients \ {c} : conn'[d] = conn[d]
                   /\ c \in allClients => Broken(c)' /\ TakenOut(c)'
  <2>1. CASE conn[c].finished
    <3>1. Calls(t, <<>>) /\ UNCHANGED conn
      BY <1>3, <2>1 DEF finish
    <3>2. ASSUME c \in allClients PROVE Broken(c)' /\ TakenOut(c)'
      <4>1. Placed(c)
        BY <3>2, NoneLostIs
      <4>2. ~conn[c].event
        BY <1>4, <1>6, <1>7, <2>1 DEF ConnOK, ConnSet
      <4>3. conn[c].phase \notin {"queued", "connecting"}
        BY <1>6
      <4>4. Broken(c) /\ TakenOut(c)
        BY <4>1, <4>2, <4>3 DEF Placed
      <4>5. \A k : Pend(k) /\ k # Head(todo[t]) => Pend(k)'
        BY <1>1, <1>2, <3>1, NoTasks, PendCalls
      <4>6. Head(todo[t]).op # "erase"
        BY <1>1 DEF At
      <4>7. TakenOut(c)'
        BY <4>4, <4>5, <4>6, TakenStays
      <4> QED BY <2>1, <3>1, <4>7 DEF Broken
    <3> QED BY <3>1, <3>2, NoTasks
  <2>2. CASE ~conn[c].finished
    <3>1. PICK w : w = conn[c].writer
      OBVIOUS
    <3>2. PICK s : s = FinishCalls(c, w)
      OBVIOUS
    <3>3. PICK k : k = [conn[c] EXCEPT !.finished = TRUE, !.event = FALSE, !.writer = NoRequest,
                                       !.armed = FALSE, !.unread = {}, !.coming = <<>>]
      OBVIOUS
    <3>4. Calls(t, s) /\ conn' = [conn EXCEPT ![c] = k]
      BY <1>2, <1>3, <1>4, <2>2, <3>1, <3>2, <3>3 DEF finish, FinishCalls
    <3>5. w \in Requests \cup {NoRequest}
      BY <1>4, <3>1 DEF ConnSet
    <3>6. Breaking(s, c)
      BY <1>4, <3>2, <3>5, FinishTasks
    <3>7. s \in Seq(TaskSet) /\ Task("erase", c) \in Range(s)
      BY <3>6 DEF Breaking
    <3>8. Pend(Task("erase", c))'
      BY <1>1, <1>2, <3>4, <3>7, PendCalls
    <3>9. TakenOut(c)'
      BY <3>8 DEF Pend, TakenOut, Task
    <3>10. k.finished
      BY <1>4, <3>3 DEF ConnSet
    <3>11. conn'[c].finished
      BY <1>2, <1>4, <3>4, <3>10
    <3>12. \A d \in Clients \ {c} : conn'[d] = conn[d]
      BY <1>2, <3>4
    <3> QED BY <3>4, <3>7, <3>9, <3>11, <3>12 DEF Broken
  <2> QED BY <2>1, <2>2
<1>9. ASSUME NEW d \in allClients PROVE Placed(d)'
  <2>1. CASE d = c
    BY <1>8, <1>9, <2>1 DEF Placed
  <2>2. CASE d # c
    <3>1. conn'[d] = conn[d]
      BY <1>2, <1>8, <2>2
    <3>2. ConnSame(d) /\ (Unanswered(d) => Unanswered(d)') /\ (d \in clients => d \in clients')
      BY <1>1, <1>5, <3>1, LoansStay DEF ConnSame
    <3> QED BY <1>1, <1>3, <1>8, <2>2, <3>2, OthersPlaced
  <2> QED BY <2>1, <2>2
<1> QED BY <1>1, <1>9 DEF NoneLost, Placed, Broken

\* An answered request gives its client back.
LEMMA ReqDonePlaced ==
  ASSUME PoolInv, NoneLost, NEW t \in Threads, reqDone(t)
  PROVE  NoneLost'
<1>1. At(t, "reqDone") /\ UNCHANGED <<clients, allClients, conn>>
  BY DEF reqDone
<1>2. StackInv /\ req \in [Requests -> ReqSet] /\ allClients \subseteq Clients
  BY DEF PoolInv, DataOK
<1>3. PICK r, c, k : r = Of(t) /\ c = req[r].client /\ k = Ending("insert", c, Ok(t))
  OBVIOUS
<1>4. Calls(t, <<k>>) /\ req' = [req EXCEPT ![r].finished = TRUE, ![r].answers = @ + 1]
  BY <1>3 DEF reqDone
<1>5. /\ r \in Requests /\ req[r] \in ReqSet /\ Ok(t) \in BOOLEAN /\ Head(todo[t]) \in TasksOf(t)
  BY <1>1, <1>2, <1>3, AtFacts DEF ReqOps
<1>6. req[r].client # NoClient
  <2>1. PICK h : h = Head(todo[t])
    OBVIOUS
  <2>2. h \in TasksOf(t) /\ h.op = "reqDone" /\ h.of = r
    BY <1>1, <1>3, <1>5, <2>1 DEF At, Of
  <2> QED BY <1>5, <2>2 DEF PoolInv, Clientship
<1>7. c \in Clients
  BY <1>3, <1>5, <1>6 DEF ReqSet
<1>8. k.op = "insert" /\ k.of = c /\ k \in TaskSet
  BY <1>3, <1>5, <1>7, TaskFacts DEF Ending
<1>9. <<k>> \in Seq(TaskSet) /\ Range(<<k>>) = {k}
  BY <1>8, OneTask
<1>10. Pend(k)'
  BY <1>1, <1>2, <1>4, <1>9, PendCalls
<1>11. GivenBack(c)'
  BY <1>8, <1>10, SettledBy
<1>12. \A x \in Requests \ {r} : req'[x].client = req[x].client /\ req'[x].finished = req[x].finished
  BY <1>2, <1>4
<1>13. "reqDone" \notin Settling
  BY DEF Settling
<1>14. ASSUME NEW d \in allClients PROVE Placed(d)'
  <2>1. ConnSame(d) /\ (d \in clients => d \in clients')
    BY <1>1 DEF ConnSame
  <2>2. CASE d = c
    BY <1>1, <1>4, <1>9, <1>11, <1>14, <2>1, <2>2, GivenPlaced
  <2>3. CASE d # c
    <3>1. {r} \in SUBSET Requests /\ \A x \in {r} : req[x].client # d \/ req[x].finished
      BY <1>3, <1>5, <2>3
    <3>2. Unanswered(d) => Unanswered(d)'
      BY <1>12, <3>1, LoanStays
    <3> QED BY <1>1, <1>4, <1>9, <1>13, <2>1, <2>3, <3>2, OthersPlaced
  <2> QED BY <2>2, <2>3
<1> QED BY <1>1, <1>14 DEF NoneLost, Placed, Broken

\* A client that connects, or fails to, is on its way into the pool or out of it.
LEMMA ConnectingPlaced ==
  ASSUME PoolInv, NoneLost, NEW c \in Clients, NEW q, conn' = [conn EXCEPT ![c] = q],
         UNCHANGED <<clients, allClients, req>>, \A k : Pend(k) => Pend(k)',
         \/ q.phase = "connecting"
         \/ q.event /\ GivenBack(c)'
         \/ q.phase = "failed" /\ TakenOut(c)'
  PROVE  NoneLost'
<1>1. conn \in [Clients -> ConnSet] /\ allClients \subseteq Clients
  BY DEF PoolInv, DataOK
<1>2. conn'[c] = q
  BY <1>1
<1>3. Placed(c)'
  BY <1>2 DEF Placed, Broken
<1>4. LoansSame
  BY DEF LoansSame
<1>5. ASSUME NEW d \in allClients, d # c PROVE Placed(d)'
  <2>1. conn'[d] = conn[d]
    BY <1>1, <1>5
  <2>2. ConnSame(d) /\ (Unanswered(d) => Unanswered(d)') /\ (d \in clients => d \in clients')
    BY <1>4, <2>1, LoansStay DEF ConnSame
  <2>3. Placed(d)
    BY <1>5, NoneLostIs
  <2> QED BY <2>2, <2>3, PlacedStays
<1> QED BY <1>3, <1>5 DEF NoneLost, Placed, Broken

\* A connect that fails takes its client out.
LEMMA ConnectFailsPlaced ==
  ASSUME PoolInv, NoneLost, NEW c \in Clients, conn' = [conn EXCEPT ![c].phase = "failed"],
         Starts(Loop, Disconnected(c)), UNCHANGED <<clients, allClients, req>>
  PROVE  NoneLost'
<1>1. TodoOK /\ Loop \in Threads /\ conn[c] \in ConnSet
  BY DEF PoolInv, StackInv, DataOK, Threads
<1>2. PICK k, q : k = Task("erase", c) /\ q = [conn[c] EXCEPT !.phase = "failed"]
  OBVIOUS
<1>3. conn' = [conn EXCEPT ![c] = q] /\ q.phase = "failed"
  BY <1>1, <1>2 DEF ConnSet
<1>4. Breaking(Disconnected(c), c)
  BY DisconnectedFacts
<1>5. k \in Range(Disconnected(c))
  BY <1>2, <1>4 DEF Breaking
<1>6. (\A x : Pend(x) => Pend(x)') /\ \A x \in Range(Disconnected(c)) : Pend(x)'
  BY <1>1, PendStarts
<1>7. TakenOut(c)'
  BY <1>2, <1>5, <1>6, SettledBy
<1> QED BY <1>3, <1>6, <1>7, ConnectingPlaced

\* A connect starts, or fails at once.
LEMMA ConnectPlaced ==
  ASSUME PoolInv, NoneLost, NEW c \in Clients, connect(c)
  PROVE  NoneLost'
<1>1. UNCHANGED <<clients, allClients, req>>
  BY DEF connect
<1>2. ASSUME conn' = [conn EXCEPT ![c] = Connecting(@)], UNCHANGED todo PROVE NoneLost'
  <2>1. PICK q : q = Connecting(conn[c])
    OBVIOUS
  <2>2. conn[c] \in ConnSet
    BY DEF PoolInv, DataOK
  <2>3. q.phase = "connecting"
    BY <2>1, <2>2 DEF Connecting, ConnSet
  <2>4. conn' = [conn EXCEPT ![c] = q]
    BY <1>2, <2>1
  <2>5. \A x : Pend(x) => Pend(x)'
    BY <1>2 DEF Pend, TasksOf
  <2> QED BY <1>1, <2>3, <2>4, <2>5, ConnectingPlaced
<1> QED BY <1>1, <1>2, ConnectFailsPlaced DEF connect

\* A connect succeeds, or fails.
LEMMA ConnectedPlaced ==
  ASSUME PoolInv, NoneLost, NEW c \in Clients, connected(c)
  PROVE  NoneLost'
<1>1. UNCHANGED <<clients, allClients, req>>
  BY DEF connected
<1>2. PICK k, q : k = Ending("insert", c, TRUE) /\ q = Connected(conn[c])
  OBVIOUS
<1>3. ASSUME conn' = [conn EXCEPT ![c] = q], Starts(Loop, <<k>>) PROVE NoneLost'
  <2>1. TodoOK /\ Loop \in Threads /\ conn[c] \in ConnSet
    BY DEF PoolInv, StackInv, DataOK, Threads
  <2>2. q.event
    BY <1>2, <2>1 DEF Connected, ConnSet
  <2>3. k.op = "insert" /\ k.of = c
    BY <1>2 DEF Ending
  <2>4. k \in Range(<<k>>)
    BY OneTask
  <2>5. (\A x : Pend(x) => Pend(x)') /\ \A x \in Range(<<k>>) : Pend(x)'
    BY <1>3, <2>1, PendStarts
  <2>6. GivenBack(c)'
    BY <2>3, <2>4, <2>5, SettledBy
  <2> QED BY <1>1, <1>3, <2>2, <2>5, <2>6, ConnectingPlaced
<1>4. CASE conn' = [conn EXCEPT ![c].phase = "failed"] /\ Starts(Loop, Disconnected(c))
  BY <1>1, <1>4, ConnectFailsPlaced
<1> QED BY <1>2, <1>3, <1>4 DEF connected

\* At first every client is queued.
LEMMA InitPlaced ==
  ASSUME Init
  PROVE  NoneLost
<1>1. ASSUME NEW c \in allClients PROVE conn[c].phase = "queued"
  <2>1. PICK q : q = [NoConn EXCEPT !.phase = "queued"]
    OBVIOUS
  <2>2. q.phase = "queued"
    BY <2>1 DEF NoConn
  <2>3. c \in Clients /\ conn[c] = q
    BY <1>1, <2>1 DEF Init
  <2> QED BY <2>2, <2>3
<1> QED BY <1>1 DEF NoneLost

\* Every step keeps every client.
LEMMA NextNoneLost ==
  ASSUME PoolInv, NoneLost, [Next]_vars
  PROVE  NoneLost'
<1>1. ASSUME NEW t \in Threads, step(t) PROVE NoneLost'
  <2>1. CASE unlock(t) \/ AsyncWrite(t) \/ reqPush(t) \/ startTimer(t) \/ answered(t) \/ reqFinish(t)
    BY <2>1, StepsPlaced
  <2>2. CASE initClient(t)
    BY <2>2, InitClientPlaced
  <2>3. CASE erase(t)
    BY <2>3, ErasePlaced
  <2>4. CASE Get(t)
    BY <2>4, GetPlaced
  <2>5. CASE Insert(t)
    BY <2>5, InsertPlaced
  <2>6. CASE finish(t)
    BY <2>6, FinishPlaced
  <2>7. CASE reqDone(t)
    BY <2>7, ReqDonePlaced
  <2> QED BY <1>1, <2>1, <2>2, <2>3, <2>4, <2>5, <2>6, <2>7 DEF step
<1>2. ASSUME NEW c \in Clients, event(c) PROVE NoneLost'
  <2>1. CASE connect(c)
    BY <2>1, ConnectPlaced
  <2>2. CASE connected(c)
    BY <2>2, ConnectedPlaced
  <2>3. CASE arm(c) \/ written(c) \/ writeFails(c) \/ receive(c) \/ closed(c)
    BY <2>3, EventsPlaced
  <2> QED BY <1>2, <2>1, <2>2, <2>3 DEF event
<1>3. ASSUME NEW r \in Requests, expire(r) PROVE NoneLost'
  BY <1>3, ExpirePlaced
<1>4. ASSUME NEW r \in Requests, destroy(r) PROVE NoneLost'
  BY <1>4, DestroyPlaced
<1>5. ASSUME NEW r \in Requests, NEW u \in Users, doReq(u, r) PROVE NoneLost'
  BY <1>5, DoReqPlaced
<1>6. CASE UNCHANGED vars
  <2>1. UNCHANGED <<clients, allClients, conn, req, todo>>
    BY <1>6 DEF vars
  <2>2. (\A c \in Clients : ConnSame(c)) /\ LoansSame
    BY <2>1 DEF ConnSame, LoansSame
  <2>3. NoneSettled
    BY <2>1 DEF NoneSettled, Pend, TasksOf
  <2>4. DataOK
    BY DEF PoolInv
  <2> QED BY <2>1, <2>2, <2>3, <2>4, CalmStep
<1> QED BY <1>1, <1>2, <1>3, <1>4, <1>5, <1>6 DEF Next

(***************************************************************************)
(* No client that the pool counts is lost: whoever had it last, some       *)
(* thread, request or event has still to settle what becomes of it.        *)
(***************************************************************************)
THEOREM NoneLostHolds == Spec => []NoneLost
<1>1. Init => PoolInv /\ NoneLost
  BY InitPoolInv, InitPlaced
<1>2. PoolInv /\ NoneLost /\ [Next]_vars => (PoolInv /\ NoneLost)'
  BY NextPoolInv, NextNoneLost
<1> QED BY <1>1, <1>2, PTL DEF Spec
=============================================================================
