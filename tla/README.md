# Verification of sheep_cpp

TLA+ models of the concurrent core of sheep_cpp, the TLC runs that check them on
small instances, and TLAPS proofs that lift the most important results to every
value of the constants. Paths below are relative to the repository's `src/`
unless they start with `test/`; `PROJECT.json` maps every definition to the lines
it models.

## 1. The system

sheep_cpp is a C++ library in three layers: a coroutine runtime, a network library
on one event loop per thread, and clients and servers (redis, http, grpc, etcd)
made from the two.

| component | state | operations | who calls it |
|---|---|---|---|
| coroutine scheduler (`coroutine/coroutine_scheduler.cpp`) | four intrusive lists of slots (free, yield, suspend, resume), `resumeQueue_` under `mtx_`, `sleepQueue_` | `run`, `addCoroutine`, `yield`, `suspend`, `sleep`, `resume`, `stop` | its own thread; `addCoroutine` and `resume` from any thread |
| coroutine_info (`coroutine_info.cpp`) | contexts, stacks, `endFunc_` | `switchTo`, `switchBack`, `registerFunc` | the scheduler |
| `CoMutex`, `CoConditionVariable` (`coroutine_mutex.h`) | `isLock_`, a queue of waiters | `lock`, `unlock`, `wait`, `notify` | coroutines, and plain threads by mistake |
| `Mutex`, `ConditionVariable` | `isLock_`, `waitings_`, a wait queue for each kind of caller | the same, for threads and coroutines | user code, `SharedState` |
| `Async`, `Promise`, `Future`, `SharedState` | `isReady_`, value or `eptr_`, the schedulers | `async`, `setValue`, `setException`, `wait` | any thread or coroutine |
| event loop, `Event`, pollers (`net/common`) | the events of each poller | `doPoller`, `Update/RemoveEvent` | the loop's thread; registration from any thread |
| `Asyncer` | `done_`, one event | `AsyncDo`, `Cancel`, destructor | any thread to the loop's |
| `Timer` | `used_`, `done_`, an Asyncer, one event, `lock_` | `AsyncWait`, `Cancel`, destructor | any thread |
| `Buffer` | a vector and two indices | `Push`, `PopHead`, `Write`, `Read`, `UpdateReadIndex`, `Reset` | `TcpConnection` |
| `TcpConnection` | `event_`, handlers, `finished_`, `writeDone_`, `readedSize_`, two buffers, `lock_` | `AsyncRead(Any)`, `AsyncWrite`, `Finish`, `Reset` and the event's handlers | users, and the loop |
| `Connector`, `Client`, `ClientPool` (`net/client`) | the clients of a pool, in it or lent | `AsyncConnect`, `Init`, `Get`, `Insert`, the connect and disconnect handlers | request threads and the loop |
| `BaseClient` (`small_client/base_client.h`) | `finished_`, the borrowed client, a timer | `doReq`, `Finish` | a request's thread, then the loop |
| `ClientChannel`, `ClientManager`, `Balancer`, resolvers | the map from address to pool | `Update`, `GetClientPool` | a resolver's thread, request threads |
| `DnsResolver`, `BlockQueue` | `cbs_`, `stop_` | `Push`, `looper`, `resolveOnce` | the thread that makes a channel, the looper |
| `Acceptor`, `Server`, `CoServer` (`net/server`) | the table of connections | `Serve`, accept, disconnect | the loop |
| `CoTcpConnection`, `CoClient` | a suspended coroutine for each call | `Read`, `Write`, `Connect`, `Finish` | coroutines on the loop's thread |
| `GrpcServerEvent`, `GrpcServiceEvent`, `GrpcClient`, `FlowService` (`small_server`, `extends/small_flow`) | the status, the recursive lock and the flow context of a call | `Proceed`, `Finish`, `Run`, `DoReq` | the grpc looper's thread, the network loop |
| `Etcd`, `WatcherResolver` (`extends/small_watcher`) | the pending request or timer; the lease is etcd's | `CreateEphemeral`, `refresh`, `List`, `watch` | the network loop |

What makes it hard: the scheduler's lists are changed by its thread without the lock
that other threads take; wake-ups carry a pointer and not the suspension they are
meant for; an `Asyncer`'s `done_` is tested and set on two threads; handlers call
one another across objects while holding recursive locks; timeouts, answers and
closed connections race to end the same operation; and unsigned indices take
`-1`. `PROJECT.json` lists each of these under `hazards`, at its line, with the
properties that would catch it. Correctness per component: no slot, wake-up, byte or
client is lost or used twice; whoever waits is answered, once; a lock has one
owner; nothing is used after it is gone.

## 2. The modules and how they correspond to the code

| module | models | composes / used by |
|---|---|---|
| `CoroutineLists`, `CoroutineScheduler` | the scheduler, its coroutines and one condition variable | |
| `IntrusiveList` | `util/intrusive_list.h` on the pointers | in step with the scheduler in `MCCoroutineScheduler`; store by store in `AddRace` |
| `AddRace` | `addCoroutine` against `run` on the list pointers | `IntrusiveList` |
| `HandoffLock` | abstract: a lock that is handed to the first in its queue | refined by `CoMutex` |
| `CoMutex`, `Mutex` | the two locks | summed in `MCLocks` |
| `Async` | tasks, futures and the schedulers' slots | summed with the locks in `MCLocks` |
| `Timer` | Timer, Asyncer, two events, two pollers, the loop | |
| `TcpConnection` | `AsyncWrite`, `writeHandler`, `Finish`, `Reset`, Asyncer, event | |
| `TcpReader` | `AsyncRead`, `AsyncReadAny`, `readHandler`, counting bytes | summed with `Buffer` and `Epoller` in `MCTcpReader` |
| `ByteQueue` | abstract: a queue of bytes | refined by `Buffer` |
| `Buffer` | the ring-less buffer with its index arithmetic, modulo `Wrap` | |
| `Epoller` | `Event`, `Epoller`, `doPoller`, and the kernel's registrations | `MCTcpReader` |
| `ClientPool` | ClientPool, Client, Connector, BaseClient on the loop and the user's threads | |
| `ClientChannel` | ClientChannel, Balancer, RandomLbPolicy, ClientManager between a resolver and requests | `MCServices` |
| `DnsResolver` | DnsResolver and its BlockQueue | |
| `CoServer` | Acceptor, Server, CoServer, CoClient, CoTcpConnection with their coroutines: what the scheduler, the reader, the writer and the Asyncer do to one call | `MCServices` |
| `GrpcService` | the events of gRPC calls, the flow of ploys, the clients' callbacks | `MCServices` |
| `Etcd` | registration and list-watch, with etcd itself as an external part | `MCServices` |
| `SeqLemmas`, `*_proofs` | lemmas and proofs | |

Conventions: an action has the name of the function, or of the part of it between two
points where another thread may come in; a variable that is not in the code is called
history in its comment. `Mutant` definitions are wrong versions of the action below
them: the run named in `PROJECT.json` refutes its property when one replaces the
right version.

**Scheduler.** `run` is cut at each switch of context: `drainOne`, `startResume`,
`switchTo`, `startYield`, `endIteration`, `leaveRun`. Whoever is switched to does one
of `yield`, `sleep`, `waitPush` then `waitSuspend` or `waitSleep`, or `endFunc`;
`Tick` lets time pass for `sleepQueue_`. `batch` is the copied vector that `run`
iterates over while the lists change under it. `addCoroutine` is atomic here, and
`AddRace` takes it apart.

**Locks.** Each of `lock` and `unlock` is a sequence of places (`pc`, `at`): fast path,
`mtx_` taken, queued, suspended, woken. A plain thread in `CoMutex` queues itself and
throws, as `CoroutineWaiter::wait` does, and stays in the queue.

**Async.** A scheduler is its number of free slots; that a coroutine added or resumed
runs is what `CoroutineScheduler` shows.

**Timer.** Every access to the Asyncer's `done_` is a step. Dropping the last reference
runs the destructor, on whichever thread does it; the loop's callbacks hold one.

**TcpConnection.** One step per access to `event_`, `finished_` and `done_` that is
outside `lock_`. `overlapped` is history: the user wrote a second time without `Reset`,
which the client pool never does; so is `raced`: a thread other than the loop's called `Finish`.

**TcpReader and Buffer.** `TcpReader` counts bytes, `Buffer` keeps them: each byte that
is read or sent is checked against the queue that was pushed. `inTurns` is history:
the peer sends only what a read waits for, and all of it is taken before the next
read.

**ClientPool.** Handlers nest: a response ends a request, which inserts a client, which
finishes a connection, which tells the client, which tells the pool. Each thread
has a stack of tasks; a lock is held while its `unlock` task is on the stack, so
that recursive locking needs no counter. `connect`, `connected`, `arm`, `written`,
`receive`, `closed`, `expire` start on the loop's empty stack, `doReq` on a user's.
Asyncer and Timer are atomic here; `TcpConnection` and `Timer` look inside. A client
or request object is used again once nothing refers to it, so that no bound on their
number is needed.

**Epoller.** `EpollWait` is the system call, `LookUp` one turn of Poll's loop, `Do` one of
`doPoller`'s. `pollEvents` keeps what earlier calls wrote, because an entry whose event
is gone is skipped without being counted. `Destroy` may come from any thread and
between any two of them; the other changes are those of handlers, which run on the
loop's thread. `strayed` is history: the events Poll
has taken from an entry of an earlier call; `early` too: a Connector's `event_` is declared before its `socket_`,
so that the descriptor is closed, and may be used again, before the event is destroyed.

**CoServer.** One thread runs the loop and the coroutines, so an action is an event's handler or
what a coroutine does up to its next suspension. A wake-up in `queue` is the number of
the call whose handler resumed the coroutine: the code keeps the coroutine only,
and `WakeForOwnCall` is about the difference. `unheard` marks the two calls the code
does not answer: a read of a connection that is finished already, and a second write that meets
a `Finish`. The sizes of messages are `TcpReader`'s matter.

**GrpcService.** A frame is one activation of `FlowService::Run`; a client whose request cannot be
sent calls back at once, inside the ploy, so frames nest. The lock of an event is
recursive and is held while frames of it are on a stack. `inner` is history: calls in
which such a nested run failed, and which the outer run then finishes again.

**Etcd.** Time is counted in ticks. A PUT may be refused, lost before etcd has handled it, answered
too late, or answered by something that is not JSON; a list and a watch may fail or be
answered. `missed` is history: a change that came while etcd held no watch.

**ClientChannel.** The policy's swap of the keys, its `size_`, each pool added or removed, and each
read of a request is a step of its own. `disturbed` is history: requests that an
update ran beside. A read that does not fit any more is the place `fault`.

**DnsResolver.** The looper holds `mtx_` except while it waits, so a round is a sequence of its steps.

## 3. The runs

| run | question | what it shows |
|---|---|---|
| `scheduler` | slots, wake-ups and pointers | four lists always share out the slots; the list operations do to the pointers what the model does to its sequences (`PointersAgree`); until the first timed wait nobody has two wake-ups; who yielded or was resumed is switched to, or the scheduler stops |
| `timed_wait_assert` (violation) | `assert(false)` of `coroutine_info.cpp:103` | see section 7 |
| `add_race` (violation) | lists without a lock | see section 7 |
| `locks` | hand-off, barging and futures | `CoMutex` refines the hand-off lock and no queued coroutine is forgotten; `Mutex` has no lost wake-up; slots of `Async` come back, results and exceptions reach the right waiter, who waits is answered |
| `timer` | Timer shared by threads | at most one call of the handler, nothing used after destruction; the handler is answered in the end |
| `tcp_write` | AsyncWrite against Finish | one answer per write, and every write of a user that resets is answered |
| `tcp_finish_race` (violation) | Finish by another thread | see section 7 |
| `tcp_read` | how bytes come in | nobody waits for unread bytes; `Buffer` implements `ByteQueue` and loses nothing when the socket would block; the Epoller's table, the events' flags and the kernel agree (`KernelMatches`), callbacks are for what was reported in this turn unless Poll once took their event from an entry of an earlier call (`CalledWhenReported`), and what can be read is read in the end |
| `client_pool` | requests borrow and give back | one owner per client, usable pooled clients, as many clients as `maxSize_` and none of them lost, one answer per request, from its own bytes |
| `client_pool_locks` (violation) | lock order | see section 7 |
| `services` | what is built on connections | the server's table is exactly the open connections; a call returns once its connection is finished, and a coroutine is woken for the call it is in while both sides take turns; a gRPC call is answered, finished once and destroyed with nobody inside; a registered key survives any one failed PUT; a change is told to the watcher unless it was missed between two requests; a request fails only beside an update |
| `dns_update` (violation) | DNS changes | see section 7 |

`CoMutex`, `Mutex` and `Async` share nothing, and neither do `TcpReader`, `Buffer` and
`Epoller`, or the four modules of `services`. Each such group is one run whose
behaviours use one member while the others stay in their initial state (`LocksSpec`,
`ReadSpec`, `ServicesSpec`): the properties are those of the single modules, and no
interleavings are spent on parts that cannot meet. `ReadTypesOK` is the
type invariant of its group; that of `services`, `ServicesTypesOK`, is left to its proof.

`CHECK_DEADLOCK FALSE` stands in the runs whose system may stop: a scheduler that was
stopped, a Timer that was answered, bounds that are used up, and the lock cycle of
the client pool.

## 4. Bounds

* `scheduler`: 3 slots (free, running and waiting at once), sleeps of 1 tick, 3 entries
  in `waiters_` (a duplicate needs 2), 1 timed wait (the second wake-up needs 1).
* `locks`: 3 coroutines (an owner, one queued, a newcomer) and 1 plain thread for
  `CoMutex`; 3 coroutines and 2 threads for `Mutex` (each queue has two).
  `Async`: 3 calls over 2 schedulers with 1 slot each: one call has to wrap around and
  meets a full pool; 1 plain thread.
* `timer`: 2 threads, each with up to 2 cancels: two cancels overlap with each other and
  with the drop of the last reference.
* `tcp_write`: 3 writes (one under way, one in the queue, one replaced), 2 chunks to send,
  one time at which the socket would block.
* `tcp_read`: sizes up to 2, 4 bytes unread and 3 reads, which gives every relation of
  expected, counted and unread bytes. `Buffer`: chunk and initial size 2, 4 bytes (the
  vector grows and both indices restart), and index arithmetic modulo 16, beyond
  every index that is reached except through `-1`. `Epoller`: 2 events and 2 descriptors: one
  event dies, or its descriptor is used again, while the other is in the same batch.
* `client_pool`: one pooled client (`maxSize_` is what the requests fight for), 2 requests on
  2 threads, 4 client objects (one in the pool, one lent to each request, one being made: a
  fifth changes nothing, TLC finds the same states), answers of up to 2 parts.

* `services`: one accepted and one connected connection, which fight for one slot, with 3
  calls each (a read, a write and one after `Finish`); 2 gRPC calls (the second arrives while
  the first is inside) through 2 asynchronous ploys and one that may fail (a callback nests in a
  ploy and goes on to the next); 2 nodes and 2 requests (an index of the old keys is out of range of
  the new); half seconds with the code's times: a lease of 12 s, a refresh after 5 s, a retry after 1 s,
  requests over within half a second.
* `dns_update`: 2 changes of the addresses, one before and one after the handler was told.

Every bound is a constant in the module and named as a bound there. A cap on a counter
is in a guard, never in the property.

## 5. Fairness

* `FairSpec` of the scheduler: its thread runs (`WF(run or the coroutine)`) and time passes.
  Nobody must notify or resume; `EventuallySwitchedTo` speaks of coroutines that yielded or
  were resumed.
* Locks: each thread makes progress and who has a lock gives it back. Nobody must ask for it.
  A coroutine's thread runs because its scheduler does.
* `Async`: schedulers run and functions end; nobody must call `async` or `wait`.
* `timer`: the loop polls, and a `Cancel` that has begun goes on.
* `tcp_write`: the loop polls each poller; strong fairness for the Asyncer's poll, which is
  enabled again and again between other polls, and for writing, because `Epoller::Poll`
  prefers reading: the socket has to be unreadable from time to time.
* `tcp_read`: the loop's thread goes on (`WF` of its next step). `ReadsServed` needs no more: an
  event that can be read is reported in every turn.
* `services`: the scheduler's thread drains its queue and runs the Asyncer; no peer has to answer. The
  two gRPC threads run, take every completion, and a client that was asked calls back. A request of
  the watch gets to etcd, and what etcd has to say gets back or the request fails.
* `dns_update`: the looper's thread runs, and not every attempt to resolve fails.
* `client_pool`, the other violations: none, only safety is claimed.

## 6. What is proved

Assumptions: the named ASSUMEs on constants (a name outside a set, bounds that are
naturals, list heads that are no slots, finite sets of clients, users, connections and descriptors, of which there is one at least,
indices of the Buffer that are wide enough for its sizes, a lease that outlasts two waits and three requests),
nothing else.

| module | theorems | the inductive invariant, and why the property needs it |
|---|---|---|
| `CoroutineScheduler_proofs` | `TypeCorrect`, `ListsPartitionHolds`, `PointersAgreeHolds`; `OneWakerHolds`, `BatchFreshHolds`, `UntimedNeverFinishedHolds` | `LInv`, with timed waits, for the partition of slots. The pointers: a list is `Threaded` through a heap if `next` and `prev` join neighbours, the head being before the first and after the last. Remove and insert keep the threads of all lists that share out the slots, because no two lists have a node in common, and on a threaded list the loop of `GetAllNodes` finds the list after as many steps as it is long. Its steps and the constructor's turns are recursive functions: that they exist and what they compute is by induction over the number of steps (`StepsExist`, `NumbersInduct`). `UInv` adds, while nobody had a deadline: who is awaited by which source (waiter, sleep queue, resume queue), that the batch lists fresh coroutines, and that a finished context is on no list but the free one |
| `Locks_proofs` | `CoMutexTypeCorrect`, `MutualExclusionHolds`, `HandOffHolds`, `RefinesHandoffLock`; `OneHolderHolds`, `NoLostWakeupHolds`; `SlotsConservedHolds`, `OwnResultHolds`, `SleepersUnreadyHolds` | `CoMutex`: the hand-off of ownership at `unlock` and who may be in the queue, for mutual exclusion alone does not say who owns the lock between `unlock` and the return of `suspend`. `Mutex`: `waitings_` is exact and each waiter is in the queue of its kind, since `unlock` notifies only if the count says so. `Async`: the free slots of a scheduler and the tasks in its hands make up its slots, a task and the future it answers share the call, and who sleeps on a future waits for one that is not ready |
| `Timer_proofs` | `AtMostOnceHolds`, `NoUseAfterDestroyHolds`, `NoDanglingEventHolds`, `MissedOnlyWhileArmingHolds` | no call before `done_`, a dead Timer has no users, and `MissInv` says what a `Cancel` found |
| `TcpConnection_proofs` | `AtMostOnceHolds`, `LoopFinishSafeHolds`, `NotifyOnlyWhenPendingHolds`; `LastInvHolds`, `FinishAnswersHolds` | `OneAnswer`: a write that was answered is not open to any of the four that may answer it; `EventUntilFinish`. Up to the first `Finish` of another thread, which breaks both. `LastInv` goes on from there, for users that reset: a last write that has no answer is in the hands of the thread in `Finish`, or of the loop that had taken its Asyncer before, so that it has one when both have gone on |
| `Reads_proofs` | `CountedIsBufferedHolds`, `FailureReportedHolds`, `EnoughWhenCalledHolds`, `NoWaitForUnreadHolds`; `BufferInvHolds`, `BufferIsByteQueue`, `NothingLostHolds`; `EpollerInvHolds`, `KernelMatchesHolds`, `CalledWhenReportedHolds`; `ReadTypesHold` | reader: counted bytes come after the bytes already told of, and `TurnInv` describes a read between its call and its answer. `Buffer`: what is unread lies between the two indices, where a read index that sockets that block took below zero is the number `ReadAt` modulo `Wrap`; each operation then does to `Unread` what `ByteQueue` does to its sequence, and moves along the place that each byte pushed has in what was sent and is unread. `Epoller`: `TableInv`, where an event is in the table and in the kernel exactly while it wants something; `FreshTold` and `BatchTold`, what the entries of this turn say of their events; `NoneLeft`, no flag outlives its turn but one that Poll took from an old entry |
| `ClientPool_proofs` | `PoolInvHolds`, `OneOwnerHolds`, `PooledUsableHolds`, `AllCountedHolds`, `NoneLostHolds`, `AnsweredOnceHolds`, `OwnAnswerHolds` | `PoolInv` says what a stack of nested calls may look like: which task may stand on which, which lock the tasks below hold, and which client and request a task has in its hands. Between two locks a client then has one owner: the pool, a request, a connector, or a task on a stack, which is what the properties need when handlers of three objects call one another. `NoneLost` is not implied by it and is inductive beside it: of each step one shows where it leaves the clients and that it drops no task that gives one back, finishes it or takes it out |
| `Services_proofs` | `KeySurvivesHolds`, `PoolsMatchKeysHolds`, `RefusedOnlyBesideUpdateHolds`, `TableMatchesOpenHolds`, `FinishedOnceHolds`, `NobodyInsideGoneHolds`; `OwnInvHolds`, `WakeForOwnCallHolds`; `ServicesTypesHold` | etcd: what is left of the lease at least, by stage and number of failures. Channel: an update in progress disturbs every request, and the policy and the map differ only by what is still to be added or removed. Server: the table follows the sockets step by step. gRPC: `GrpcInv`, where a stack holds frames of one event, whose lock the thread has and of which all but the innermost are inside a ploy (`StacksInv`), events are made one after the other (`InTurn`), and a call that is not `inner` is in the hands of one: the frame that goes on with its flow, a client that was asked, or nobody once it was finished (`InOneHand`). Coroutines: `OwnInv`, while the peer takes turns at most one wake-up is on its way, for the call the coroutine is in, and the Asyncer, event or handler that may still wake it was set by that call. The types of the four are inductive beside these |

`SeqLemmas` states what the list operations of the models do to the elements, once.

Only model-checked: liveness under fairness (`EventuallySwitchedTo`, `QueuedGetsLock`,
`FreeLockTaken`, `WaitReturns`, `AlwaysAnswered`, `WriteAnswered`, `ReadsServed`, `CallReturns`,
`CallAnswered`, `ChangesListed`), which TLAPS cannot reach. Every safety property that a passing run lists
is a theorem. The theorems whose properties
no run lists (`UntimedNeverFinishedHolds`, `HandOffHolds`, `SleepersUnreadyHolds`, `NoDanglingEventHolds`,
`MissedOnlyWhileArmingHolds`, `LoopFinishSafeHolds`, `NotifyOnlyWhenPendingHolds`, `CountedIsBufferedHolds`,
`FailureReportedHolds`, `EnoughWhenCalledHolds`, `BufferInvHolds`, `EpollerInvHolds`, `PoolInvHolds`,
`PoolsMatchKeysHolds`, `LastInvHolds`, `OwnInvHolds`, `ServicesTypesHold`) are parts of those arguments that say something of the code on their own.

## 7. Where the code falls short of what it says

Five runs end in a counterexample:

1. `timed_wait_assert`: a wait with a deadline leaves the coroutine in the queue of the
   condition variable and in `sleepQueue_`. Both wake it; the second wake-up
   switches to a finished context (`coroutine_info.cpp:103`, `assert(false)`). The
   comment at `coroutine_scheduler.cpp:100` names the problem.
2. `add_race`: `addCoroutine` holds `mtx_`, the scheduler's thread moves slots without
   it, and the interleaved stores lose a slot.
3. `tcp_finish_race`: `Finish` on another thread sets `event_` to null between two steps of
   the loop. `net/README.md:162` says that the locks make this safe.
4. `client_pool_locks`: `ClientPool::Insert` takes the pool's lock and then the connection's;
   the disconnected handler takes them the other way round. A request whose `ReqPush` fails
   on the user's thread just as the peer closes stops both threads. `net/README.md:191`
   excludes this course of events.
5. `dns_update`: `BlockQueue::looper` waits until the queue is empty, and nothing is ever taken out of
   it: once the first callback was pushed the looper sleeps for ever (unless it got there first, and then
   it resolves every 100 s inside one round). `README.md:128` says that addresses are updated when
   the DNS changes. The destructor joins the looper and waits with it.

The passing runs limit themselves by history variables (`raced`, `overlapped`, `early`, `cut`,
`inTurns`, `timedWaits`, `strayed`, `inner`, `missed`, `disturbed`, `unheard`) and their properties say so. What these limits leave out is
reachable in the models:

* A `Cancel` that meets the loop while it arms the timer is lost: the handler is called later.
* An event that dies inside `TimerPoller::Poll` needs the poller's lock, which is held and
  not recursive: the loop stops (the place `stuck` of `Timer`).
* A second `AsyncWrite` without `Reset` after a first that was answered finds `writeDone_`
  set, so that `Finish` does not answer it.
* A `write` that would block returns -1, which `UpdateReadIndex` adds: the byte before the
  read index is sent again (`Repeat` of `ByteQueue`).
* The handler of a read stays in place after its answer, and is called by later bytes; and
  `AsyncRead` counts only bytes that arrived since the last answer.
* A plain thread that calls `CoMutex::lock` on a taken mutex throws, but keeps its place in
  the queue: a later `unlock` hands it the lock for good.
* `async` ignores that `addCoroutine` returned false: the future is never answered.
* `BaseClient::Finish` tests `finished_` without a lock: a timeout that fires while
  `doReq` still runs on another thread may call `onDone_` a second time.
* `RedisClient::RespPop` leaves `finish` unset when it has only a part of the answer: if the
  uninitialised value reads as true the client goes back to the pool, and the
  rest of the answer is read by the next request. The first part also cancels the
  timeout.
* A read of a connection that is finished already is never answered, and neither is a second write
  that meets a `Finish`: the coroutine stays suspended and keeps its slot.
* `CoClient::Connect` gives the client a disconnected handler that does nothing: when the connect
  fails, the coroutine that waits for it is never resumed (`co_client.cpp:20`).
* `CoServer` ignores that `addCoroutine` returned false: the connection stays open and in the table with
  nobody to read it. `InitAccepted` that fails still gets a coroutine.
* `Epoller::Poll` looks at `EPOLLIN` first and leaves the rest: a descriptor that can always be read
  is never written to. An entry without an event makes it go on into entries of earlier calls, so that
  a callback may run for a readiness that was reported turns ago. The flag it sets on the event is not
  cleared while the event does not want that notification: the callback may come any number of turns later
  (it takes three events, and was met while `CalledWhenReported` was proved).
* `GrpcClient::doReq` and `BaseClient::doReq` call back at once when there is nothing to send with. The
  ploy sets `ctx.suspend` afterwards and, when the nested run failed, its own run finishes the call
  a second time (`small_flow.h:59`).
* `Etcd::WatchOnce` takes `afterIndex` and does not send it: a change between a list and the watch
  after it is told with the next change only. `createEphemeral`, after a failed request, goes on with
  the path in the place of the value (`etcd.cpp:59`, `72`, `124`). Some of the clients it keeps in a set
  are never taken out (`etcd.cpp:95`, `102`). Its requests have no timeout: `Latency` is an assumption.
* `RandomLbPolicy::Get` and `ClientManager::GetClientPool` read without a lock what the resolver's thread
  changes: a key out of range, or a pool that is not there yet.
* `DefaultDns::Resolver` walks over the addresses of a host and inserts the first of them each time
  (`dns_resolver.h:27`).
* Stacks of ended functions are not freed (`coroutine_info.cpp:106`); memory is not modelled.

## 8. Not modelled, and the plan

Outside the scope: the assembly of the context switch (its effect is `switchTo`), the vendored
parsers, formatting, configuration (reflection over text, no state that changes) and logging. Thin
wrappers of system calls appear as what they return to their callers: most of `socket.cpp` is one
outcome, worked or failed. `EventLoop::Stop` and the interrupter, the destruction of a server that serves,
the deadline of a gRPC client and the start of the gRPC server are not modelled; several timers or
Asyncers of one poller are not either, since one event of each shows the races with their owners.
What a torn `std::map` or `std::vector` does under a data race is not modelled beyond the index that does
not fit.

The order of the work was: the scheduler and its lists, the locks and futures, the Timer, the connection and
its buffers, the client pool (the core that everything else uses); then the server and the coroutines' calls,
the Epoller, the client channel with its resolvers, gRPC with its flow, and etcd. What is left:

1. The answers of redis and http as sequences of parts with an end, in place of the outcomes of `RespPop`
   in `ClientPool`.
2. `EventLoop::Stop`, and the destruction of a `Server` and of a `Client` while the loop runs.

Independent components share a run, as a sum like `MCLocks`; when a deeper property is found for
a component, it takes the place of its shallowest one.
