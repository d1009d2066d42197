--------------------------- MODULE Services_proofs ---------------------------
(***************************************************************************)
(* What stands around the connections: the lease of a registration, the    *)
(* pools of a channel, the server's table, the calls of the gRPC service   *)
(* and the wake-ups of the coroutines, for any sizes and times.            *)
(***************************************************************************)
EXTENDS MCServices, FiniteSetTheorems, SequenceTheorems, TLAPS

-----------------------------------------------------------------------------
(* The lease of a registered service.                                      *)

\* How much of the lease is left when no PUT has failed since it was
\* renewed, and after one.
LeaseAfter(lost) ==
    IF lost = 0 THEN TTL - Latency - RefreshAfter
                ELSE TTL - Latency - Latency - RefreshAfter - RefreshAfter

\* A timer or a request is pending for the time that is left of it.
OnTime ==
    /\ put = "off" => failed = 2
    /\ put = "sleepRefresh" => putLeft <= RefreshAfter
    /\ put = "sleepCreate" => putLeft <= RetryAfter /\ failed # 0
    /\ Pending => putLeft <= Latency

\* The lease that an applied PUT renewed, and what two failures leave of it.
LeaseLasts ==
    /\ Pending /\ applied = "done" => ttl >= TTL - Latency + putLeft
    /\ put = "sleepRefresh" /\ failed < 2 => ttl >= LeaseAfter(failed) + putLeft
    /\ put = "sleepCreate" /\ failed < 2
        => ttl >= LeaseAfter(failed) + RefreshAfter - RetryAfter + putLeft
    /\ Pending /\ failed < 2 => ttl >= LeaseAfter(failed) - Latency + putLeft

LeaseInv == PutTypeOK /\ OnTime /\ LeaseLasts

\* Nothing is registered at first.
LEMMA LeaseInit == EtcdInit => LeaseInv
BY EtcdAssumption DEF EtcdInit, PutTypeOK, PutStages, LeaseInv, OnTime, LeaseLasts, Pending

\* A step of the watch leaves the registration alone.
LEMMA LeaseKept ==
  ASSUME LeaseInv, UNCHANGED putVars
  PROVE  LeaseInv'
BY EtcdAssumption
DEF LeaseInv, PutTypeOK, PutStages, OnTime, LeaseLasts, LeaseAfter, Pending, putVars

\* A PUT is sent when its timer fires.
LEMMA LeaseSent ==
  ASSUME LeaseInv, CreateEphemeral \/ createEphemeral \/ refresh
  PROVE  LeaseInv'
BY EtcdAssumption DEF LeaseInv, PutTypeOK, PutStages, OnTime, LeaseLasts, LeaseAfter, Pending,
       CreateEphemeral, createEphemeral, refresh, send

\* etcd handles it: a key that is kept is renewed.
LEMMA LeaseApplied ==
  ASSUME LeaseInv, PutApplied
  PROVE  LeaseInv'
BY EtcdAssumption
DEF LeaseInv, PutTypeOK, PutStages, OnTime, LeaseLasts, LeaseAfter, Pending, PutApplied

\* It is answered, or fails.
LEMMA LeaseAnswered ==
  ASSUME LeaseInv, PutOk \/ PutErrorCode \/ PutError \/ PutParseError
  PROVE  LeaseInv'
<1>1. CASE PutOk
  BY <1>1, EtcdAssumption
  DEF LeaseInv, PutTypeOK, PutStages, OnTime, LeaseLasts, LeaseAfter, Pending,
              PutOk, nextRefresh
<1>2. CASE PutErrorCode \/ PutError
  BY <1>2, EtcdAssumption
  DEF LeaseInv, PutTypeOK, PutStages, OnTime, LeaseLasts, LeaseAfter, Pending,
              PutErrorCode, PutError, nextCreateEphemral, Failed
<1>3. CASE PutParseError
  BY <1>3, EtcdAssumption
  DEF LeaseInv, PutTypeOK, PutStages, OnTime, LeaseLasts, LeaseAfter, Pending,
              PutParseError, nextRefresh, Failed
<1> QED BY <1>1, <1>2, <1>3

\* Time passes for the timer and the lease alike.
LEMMA LeaseTick ==
  ASSUME LeaseInv, Tick
  PROVE  LeaseInv'
BY EtcdAssumption DEF LeaseInv, PutTypeOK, PutStages, OnTime, LeaseLasts, LeaseAfter, Pending, Tick

\* Every step of the registration, and of the watch beside it.
LEMMA LeaseStep == LeaseInv /\ [EtcdNext]_etcdVars => LeaseInv'
<1> SUFFICES ASSUME LeaseInv, [EtcdNext]_etcdVars PROVE LeaseInv'
  OBVIOUS
<1>1. CASE CreateEphemeral \/ createEphemeral \/ refresh
  BY <1>1, LeaseSent
<1>2. CASE PutApplied
  BY <1>2, LeaseApplied
<1>3. CASE PutOk \/ PutErrorCode \/ PutError \/ PutParseError
  BY <1>3, LeaseAnswered
<1>4. CASE Tick
  BY <1>4, LeaseTick
<1>5. CASE ListWatch \/ OthersChange \/ ListRead \/ ListOk \/ ListError
           \/ WatchArrives \/ WatchOk \/ WatchError \/ watch
  <2>1. UNCHANGED putVars
    BY <1>5 DEF ListWatch, OthersChange, ListRead, ListOk, ListError,
                WatchArrives, WatchOk, WatchError, watch
  <2> QED BY <2>1, LeaseKept
<1>6. CASE UNCHANGED etcdVars
  BY <1>6, LeaseKept DEF etcdVars
<1> QED BY <1>1, <1>2, <1>3, <1>4, <1>5, <1>6 DEF EtcdNext

(***************************************************************************)
(* The key of a registered service outlives any one failed request, for    *)
(* every lease that is longer than two waits and three requests            *)
(* (etcd.cpp, createEphemeral and refresh).                                *)
(***************************************************************************)
THEOREM KeySurvivesHolds == EtcdSpec => []KeySurvives
<1>1. LeaseInv => KeySurvives
  BY EtcdAssumption DEF LeaseInv, PutTypeOK, PutStages, OnTime, LeaseLasts, LeaseAfter,
                        Pending, KeySurvives
<1> QED BY <1>1, LeaseInit, LeaseStep, PTL DEF EtcdSpec

-----------------------------------------------------------------------------
(* The channel of pools.                                                   *)

\* The keys, the pools and what an update has still to do about them.
UpdateInv ==
    /\ keys \subseteq Nodes
    /\ update \in {"idle", "swapped", "pools"}
    /\ update = "idle" => /\ size = Cardinality(keys) /\ pools \subseteq keys
                          /\ keys \ pools \subseteq unmade
    /\ update = "pools" => /\ size = Cardinality(keys)
                           /\ pools \ needRemove \subseteq keys
                           /\ (keys \ pools) \ needAdd \subseteq unmade
                           /\ needAdd \subseteq keys /\ needRemove \cap keys = {}

\* A request that no update ran beside has seen what is there now.
RequestInv ==
    /\ get \in [Requests -> GetStages]
    /\ index \in [Requests -> Nat]
    /\ DOMAIN node = Requests
    /\ \A r \in Requests \ disturbed :
        /\ get[r] # "idle" => update = "idle"
        /\ get[r] = "sized" => keys # {}
        /\ get[r] = "indexed" => index[r] < Cardinality(keys)
        /\ get[r] = "picked" => node[r] \in keys
        /\ get[r] = "refused" => keys = {} \/ node[r] \in unmade
        /\ get[r] # "fault"

ChannelInv == UpdateInv /\ RequestInv

\* The number of keys tells whether there are any.
LEMMA CountKeys ==
  ASSUME UpdateInv
  PROVE  Cardinality(keys) \in Nat /\ (Cardinality(keys) = 0 <=> keys = {})
<1>1. IsFiniteSet(keys)
  BY ClientChannelAssumption, FS_Subset DEF UpdateInv
<1> QED BY <1>1, FS_EmptySet, FS_CardinalityType

\* A step of the update disturbs whoever is on the way.
LEMMA DisturbKeeps ==
  ASSUME RequestInv, Disturb
  PROVE  RequestInv'
BY DEF RequestInv, Disturb, getVars, GetStages

LEMMA ChannelInitInv == ChannelInit => ChannelInv
<1> SUFFICES ASSUME ChannelInit PROVE ChannelInv
  OBVIOUS
<1>1. UpdateInv
  BY FS_EmptySet DEF ChannelInit, UpdateInv
<1>2. RequestInv
  BY DEF ChannelInit, RequestInv, GetStages
<1> QED BY <1>1, <1>2 DEF ChannelInv

\* The resolver's thread.
LEMMA UpdateStep ==
  ASSUME UpdateInv,
         \/ \E nodes \in SUBSET Nodes : UpdateKeys(nodes)
         \/ UpdateSize \/ UpdateDone
         \/ \E n \in Nodes : addAddr(n) \/ removeAddr(n)
  PROVE  UpdateInv' /\ Disturb
<1>1. CASE \E nodes \in SUBSET Nodes : UpdateKeys(nodes)
  BY <1>1 DEF UpdateInv, UpdateKeys
<1>2. CASE UpdateSize
  BY <1>2 DEF UpdateInv, UpdateSize
<1>3. CASE UpdateDone
  BY <1>3 DEF UpdateInv, UpdateDone
<1>4. CASE \E n \in Nodes : addAddr(n)
  BY <1>4 DEF UpdateInv, addAddr
<1>5. CASE \E n \in Nodes : removeAddr(n)
  BY <1>5 DEF UpdateInv, removeAddr
<1> QED BY <1>1, <1>2, <1>3, <1>4, <1>5

\* A request's thread.
LEMMA RequestStep ==
  ASSUME ChannelInv, NEW r \in Requests,
         CheckSize(r) \/ DrawIndex(r) \/ PickKey(r) \/ FindPool(r) \/ NextRequest(r)
  PROVE  ChannelInv'
<1> USE CountKeys DEF ChannelInv
<1>1. UpdateInv'
  BY DEF CheckSize, DrawIndex, PickKey, FindPool, NextRequest, to, updateVars, UpdateInv
<1>2. CASE CheckSize(r)
  BY <1>1, <1>2 DEF CheckSize, to, updateVars, UpdateInv, RequestInv, GetStages
<1>3. CASE DrawIndex(r)
  BY <1>1, <1>3 DEF DrawIndex, to, updateVars, UpdateInv, RequestInv, GetStages
<1>4. CASE PickKey(r)
  BY <1>1, <1>4 DEF PickKey, to, updateVars, UpdateInv, RequestInv, GetStages
<1>5. CASE FindPool(r)
  BY <1>1, <1>5 DEF FindPool, to, updateVars, UpdateInv, RequestInv, GetStages
<1>6. CASE NextRequest(r)
  BY <1>1, <1>6 DEF NextRequest, to, updateVars, UpdateInv, RequestInv, GetStages
<1> QED BY <1>2, <1>3, <1>4, <1>5, <1>6

LEMMA ChannelStep == ChannelInv /\ [ChannelNext]_channelVars => ChannelInv'
<1> SUFFICES ASSUME ChannelInv, [ChannelNext]_channelVars PROVE ChannelInv'
  OBVIOUS
<1>1. CASE \/ \E nodes \in SUBSET Nodes : UpdateKeys(nodes)
           \/ UpdateSize \/ UpdateDone
           \/ \E n \in Nodes : addAddr(n) \/ removeAddr(n)
  BY <1>1, UpdateStep, DisturbKeeps DEF ChannelInv
<1>2. CASE \E r \in Requests :
              CheckSize(r) \/ DrawIndex(r) \/ PickKey(r) \/ FindPool(r) \/ NextRequest(r)
  BY <1>2, RequestStep
<1>3. CASE UNCHANGED channelVars
  BY <1>3 DEF ChannelInv, UpdateInv, RequestInv, channelVars, updateVars, getVars
<1> QED BY <1>1, <1>2, <1>3 DEF ChannelNext

(***************************************************************************)
(* Between two updates every node that can be picked has its pool, unless  *)
(* that could not be made (client_manager.h, Update).                      *)
(***************************************************************************)
THEOREM PoolsMatchKeysHolds == ChannelSpec => []PoolsMatchKeys
<1>1. ChannelInv => PoolsMatchKeys
  BY DEF ChannelInv, UpdateInv, PoolsMatchKeys
<1> QED BY <1>1, ChannelInitInv, ChannelStep, PTL DEF ChannelSpec

(***************************************************************************)
(* A request that no update ran beside finds a pool if there is one, and   *)
(* never an index that does not fit (client_channel.h, GetClientPool).     *)
(***************************************************************************)
THEOREM RefusedOnlyBesideUpdateHolds == ChannelSpec => []RefusedOnlyBesideUpdate
<1>1. ChannelInv => RefusedOnlyBesideUpdate
  BY DEF ChannelInv, RequestInv, RefusedOnlyBesideUpdate
<1> QED BY <1>1, ChannelInitInv, ChannelStep, PTL DEF ChannelSpec

-----------------------------------------------------------------------------
(* The table of the server.                                                *)

TableInv ==
    /\ sock \in [Conns -> {"none", "open", "finished", "unusable"}]
    /\ table = {c \in Accepted : sock[c] = "open"}

LEMMA TableInit == CoServerInit => TableInv
BY DEF CoServerInit, TableInv, Conns

\* A connection that is finished is taken out.
LEMMA FinishKeepsTable ==
  ASSUME TableInv, NEW c \in Conns, NEW before, NEW done, finish(c, before, done)
  PROVE  TableInv'
BY DEF TableInv, finish, Set, Conns

LEMMA TableStep == TableInv /\ [CoServerNext]_coServerVars => TableInv'
<1> SUFFICES ASSUME TableInv, [CoServerNext]_coServerVars PROVE TableInv'
  OBVIOUS
<1>1. CASE UNCHANGED <<sock, table>>
  BY <1>1 DEF TableInv
<1>2. ASSUME NEW c \in Conns, NEW ok \in BOOLEAN, Accept(c, ok) PROVE TableInv'
  BY <1>2 DEF TableInv, Accept, Set, Conns
<1>3. ASSUME NEW c \in Conns, NEW ok \in BOOLEAN, ConnectDone(c, ok) PROVE TableInv'
  <2>1. c \notin Accepted
    BY <1>3, CoServerAssumption DEF ConnectDone
  <2> QED BY <1>3, <2>1 DEF TableInv, ConnectDone, Set, Conns
<1>4. ASSUME NEW c \in Conns, Return(c) PROVE TableInv'
  BY <1>4, CoServerAssumption DEF TableInv, Return, Set, Conns
<1>5. ASSUME NEW c \in Conns, Finish(c) \/ PeerCloses(c) \/ WriteFails(c) PROVE TableInv'
  BY <1>5, FinishKeepsTable DEF Finish, PeerCloses, WriteFails
<1>6. ASSUME \/ Serve \/ Listen("listening") \/ Listen("failed")
             \/ \E c \in Conns :
                   UseCoClient(c) \/ Connect(c) \/ Read(c) \/ Write(c) \/ wakeUp(c)
                     \/ MessageComes(c) \/ AsyncerRuns(c) \/ WriteDone(c)
      PROVE  TableInv'
  <2>1. UNCHANGED <<sock, table>>
    BY <1>6 DEF Serve, Listen, UseCoClient, Connect, Read, Write, wakeUp, MessageComes,
                AsyncerRuns, WriteDone
  <2> QED BY <2>1, <1>1
<1>7. CASE UNCHANGED coServerVars
  BY <1>7, <1>1 DEF coServerVars
<1> QED BY <1>2, <1>3, <1>4, <1>5, <1>6, <1>7 DEF CoServerNext

(***************************************************************************)
(* The server's table holds the accepted connections that are open, for    *)
(* any number of connections and coroutines (server.cpp,                   *)
(* newConnectionHandler).                                                  *)
(***************************************************************************)
THEOREM TableMatchesOpenHolds == CoServerSpec => []TableMatchesOpen
<1>1. TableInv => TableMatchesOpen
  BY DEF TableInv, TableMatchesOpen
<1> QED BY <1>1, TableInit, TableStep, PTL DEF CoServerSpec

-----------------------------------------------------------------------------
(* The calls of the gRPC service.                                          *)

\* The frames of one thread are activations of one flow, and all but the
\* innermost are inside a ploy.
Stack(s, c) ==
    /\ s \in Seq(Frame)
    /\ \A k \in 1..Len(s) : s[k].of = c /\ (k < Len(s) => s[k].at = "suspend")

StacksInv ==
    \A l \in Loops : frames[l] # <<>> =>
        /\ Stack(frames[l], Top(l).of)
        /\ lock[Top(l).of] = l /\ status[Top(l).of] = "open"

Within(c) == \E l \in Loops : frames[l] # <<>> /\ Top(l).of = c

\* A frame that goes on with the flow.
Active(l) == Top(l).at = "next" \/ (Top(l).at = "check" /\ Top(l).of \notin suspend)

\* The call was finished, or a client that was asked will go on with it.
Owed(c) == finishes[c] = 1 <=> asked[c] = Free

(***************************************************************************)
(* A call is in the hands of one: the frame that goes on with its flow,    *)
(* the client that was asked, or the completion that Finish is to bring.   *)
(***************************************************************************)
InOneHand(c) ==
    /\ finishes[c] <= 1
    /\ status[c] \in {"none", "listening", "arrived"} =>
           finishes[c] = 0 /\ asked[c] = Free /\ c \notin flowFailed
    /\ status[c] = "gone" => asked[c] = Free
    /\ status[c] = "open" /\ ~Within(c) => Owed(c)
    /\ \A l \in Loops : frames[l] # <<>> /\ Top(l).of = c =>
        IF Active(l)
        THEN /\ finishes[c] = 0 /\ asked[c] = Free
             /\ Top(l).at = "next" => c \notin suspend
             /\ c \in flowFailed => Len(frames[l]) = 1 /\ Top(l).at = "check"
        ELSE Owed(c) /\ c \notin flowFailed

\* Events are made one after the other.
InTurn ==
    \A c, d \in Events :
        d > c /\ status[c] \in {"none", "listening", "arrived"} => status[d] = "none"

GrpcInv == GrpcTypeOK /\ StacksInv /\ InTurn /\ \A c \in Events \ inner : InOneHand(c)

\* A frame on top of frames that are inside a ploy.
LEMMA PushFacts ==
  ASSUME NEW c, NEW s, Stack(s, c), s # <<>> => s[Len(s)].at = "suspend",
         NEW f \in Frame, f.of = c
  PROVE  /\ Stack(Append(s, f), c) /\ Append(s, f) # <<>>
         /\ Append(s, f)[Len(Append(s, f))] = f /\ Len(Append(s, f)) = Len(s) + 1
<1>1. /\ Append(s, f) \in Seq(Frame) /\ Len(Append(s, f)) = Len(s) + 1 /\ Len(s) \in Nat
      /\ Append(s, f)[Len(s) + 1] = f /\ \A k \in 1..Len(s) : Append(s, f)[k] = s[k]
  BY DEF Stack
<1>2. \A k \in 1..Len(s) : s[k].of = c /\ s[k].at = "suspend"
  BY <1>1 DEF Stack
<1> QED BY <1>1, <1>2 DEF Stack

\* The frames below one.
LEMMA BelowFacts ==
  ASSUME NEW c, NEW s, Stack(s, c), s # <<>>
  PROVE  LET b == SubSeq(s, 1, Len(s) - 1)
         IN  /\ Stack(b, c) /\ Len(b) = Len(s) - 1
             /\ b # <<>> => b[Len(b)].of = c /\ b[Len(b)].at = "suspend"
<1> DEFINE b == SubSeq(s, 1, Len(s) - 1)
<1>1. s \in Seq(Frame) /\ Len(s) \in Nat \ {0}
  BY DEF Stack
<1>2. \A k \in 1..(Len(s) - 1) : s[k] \in Frame
  BY <1>1
<1>3. b \in Seq(Frame) /\ Len(b) = Len(s) - 1 /\ \A k \in 1..Len(b) : b[k] = s[k]
  <2> DEFINE n == Len(s) - 1
  <2>1. n \in Nat /\ 1 \in Int /\ n \in Int
    BY <1>1
  <2>2. \A k \in 1..n : s[k] \in Frame
    BY <1>2
  <2> HIDE DEF n
  <2>3. /\ SubSeq(s, 1, n) \in Seq(Frame)
        /\ Len(SubSeq(s, 1, n)) = IF 1 <= n THEN n - 1 + 1 ELSE 0
        /\ \A k \in 1..n - 1 + 1 : SubSeq(s, 1, n)[k] = s[1 + k - 1]
    BY <2>1, <2>2, SubSeqProperties
  <2>4. Len(SubSeq(s, 1, n)) = n
    BY <2>1, <2>3
  <2>5. \A k \in 1..n : SubSeq(s, 1, n)[k] = s[k]
    <3> TAKE k \in 1..n
    <3>1. k \in 1..n - 1 + 1 /\ 1 + k - 1 = k
      BY <2>1
    <3> QED BY <2>3, <3>1
  <2>6. b = SubSeq(s, 1, n)
    BY DEF n
  <2> QED BY <2>1, <2>3, <2>4, <2>5, <2>6 DEF n
<1> HIDE DEF b
<1>4. b # <<>> => Len(b) \in 1..Len(b)
  BY <1>3
<1>5. /\ Stack(b, c) /\ Len(b) = Len(s) - 1
      /\ b # <<>> => b[Len(b)].of = c /\ b[Len(b)].at = "suspend"
  BY <1>1, <1>3, <1>4 DEF Stack
<1> QED BY <1>5 DEF b

\* The thread's innermost frame.
LEMMA TopFacts ==
  ASSUME GrpcTypeOK, StacksInv, NEW l \in Loops, frames[l] # <<>>
  PROVE  /\ Stack(frames[l], Top(l).of) /\ Top(l) \in Frame
         /\ frames[l] \in Seq(Frame) /\ Len(frames[l]) \in Nat \ {0}
BY DEF GrpcTypeOK, StacksInv, Stack, Top

\* An event is held by one thread.
LEMMA OneThread ==
  ASSUME StacksInv, NEW l \in Loops, NEW k \in Loops, NEW c,
         lock[c] \in {l, Free}, k # l, frames[k] # <<>>
  PROVE  Top(k).of # c
BY DEF StacksInv, Loops, Free

\* One thread's frames change, those of one event.
LEMMA StacksKept ==
  ASSUME GrpcTypeOK, StacksInv, NEW l \in Loops, NEW c \in Events, NEW s,
         frames' = [frames EXCEPT ![l] = s],
         s # <<>> => Stack(s, c) /\ lock'[c] = l /\ status'[c] = "open",
         frames[l] # <<>> => Top(l).of = c,
         lock[c] \in {l, Free},
         \A d \in Events \ {c} : lock'[d] = lock[d] /\ (status[d] = "open" => status'[d] = "open")
  PROVE  StacksInv'
<1> SUFFICES ASSUME NEW k \in Loops, frames'[k] # <<>>
             PROVE  /\ Stack(frames[k], Top(k).of)'
                    /\ (lock[Top(k).of] = k /\ status[Top(k).of] = "open")'
  BY DEF StacksInv
<1>1. CASE k = l
  <2>1. frames'[k] = s /\ Stack(s, c)
    BY <1>1 DEF GrpcTypeOK
  <2>2. Top(k)' = s[Len(s)] /\ Len(s) \in 1..Len(s)
    BY <2>1 DEF Top, Stack
  <2>3. Top(k)'.of = c
    BY <2>1, <2>2 DEF Stack
  <2> QED BY <1>1, <2>1, <2>3 DEF Stack
<1>2. CASE k # l
  <2>1. frames'[k] = frames[k] /\ Top(k)' = Top(k)
    BY <1>2 DEF GrpcTypeOK, Top
  <2>2. Top(k).of \in Events \ {c}
    BY <1>2, <2>1, OneThread, TopFacts DEF Frame
  <2> QED BY <2>1, <2>2 DEF StacksInv, Stack
<1> QED BY <1>1, <1>2

\* The other events are as they were.
LEMMA OthersKept ==
  ASSUME GrpcTypeOK, StacksInv, NEW l \in Loops, NEW c \in Events, NEW s,
         frames' = [frames EXCEPT ![l] = s],
         s # <<>> => Stack(s, c),
         frames[l] # <<>> => Top(l).of = c,
         NEW d \in Events, d # c, InOneHand(d),
         status'[d] = status[d] \/ (status[d] = "none" /\ status'[d] = "listening"),
         finishes'[d] = finishes[d], asked'[d] = asked[d],
         d \in suspend' <=> d \in suspend, d \in flowFailed' <=> d \in flowFailed
  PROVE  InOneHand(d)'
<1>1. \A k \in Loops : k # l => frames'[k] = frames[k] /\ Top(k)' = Top(k)
  BY DEF GrpcTypeOK, Top
<1>2. frames'[l] = s /\ (s # <<>> => Top(l)'.of = c)
  BY DEF GrpcTypeOK, Top, Stack
<1>3. Within(d)' <=> Within(d)
  BY <1>1, <1>2 DEF Within
<1>4. ASSUME NEW k \in Loops, frames'[k] # <<>>, Top(k)'.of = d
      PROVE  k # l /\ frames'[k] = frames[k] /\ Top(k)' = Top(k) /\ (Active(k)' <=> Active(k))
  BY <1>1, <1>2, <1>4 DEF Active
<1>5. Owed(d)' <=> Owed(d)
  BY DEF Owed
<1> QED BY <1>3, <1>4, <1>5 DEF InOneHand

\* A step leaves the other events alone, but that one of them may begin to
\* listen.
Apart(c) ==
    \A d \in Events \ {c} :
        /\ lock'[d] = lock[d] /\ finishes'[d] = finishes[d] /\ asked'[d] = asked[d]
        /\ d \in suspend' <=> d \in suspend
        /\ d \in flowFailed' <=> d \in flowFailed
        /\ status'[d] = status[d] \/ (status[d] = "none" /\ status'[d] = "listening")

\* What a step that leaves the frames s on the stack of c's thread does to c.
Handed(s, c) ==
    /\ finishes'[c] <= 1
    /\ s = <<>> => Owed(c)'
    /\ s # <<>> =>
        IF s[Len(s)].at = "next" \/ (s[Len(s)].at = "check" /\ c \notin suspend')
        THEN /\ finishes'[c] = 0 /\ asked'[c] = Free
             /\ s[Len(s)].at = "next" => c \notin suspend'
             /\ c \in flowFailed' => Len(s) = 1 /\ s[Len(s)].at = "check"
        ELSE Owed(c)' /\ c \notin flowFailed'

\* What a step of the thread l in the event c, whose frames become s, keeps.
LEMMA StepKept ==
  ASSUME GrpcInv, GrpcTypeOK', NEW l \in Loops, NEW c \in Events, NEW s,
         frames' = [frames EXCEPT ![l] = s],
         s # <<>> => Stack(s, c) /\ lock'[c] = l,
         frames[l] # <<>> => Top(l).of = c,
         lock[c] \in {l, Free},
         inner \subseteq inner', status'[c] = "open",
         Apart(c),
         c \notin inner' => Handed(s, c)
  PROVE  StacksInv' /\ \A d \in Events \ inner' : InOneHand(d)'
<1>1. StacksInv'
  BY StacksKept DEF GrpcInv, Apart
<1>2. ASSUME NEW d \in Events \ inner', d # c PROVE InOneHand(d)'
  <2>1. GrpcTypeOK /\ StacksInv /\ d \in Events /\ d # c
    BY <1>2 DEF GrpcInv
  <2>2. InOneHand(d)
    BY <1>2 DEF GrpcInv
  <2>3. /\ status'[d] = status[d] \/ (status[d] = "none" /\ status'[d] = "listening")
        /\ finishes'[d] = finishes[d] /\ asked'[d] = asked[d]
        /\ d \in suspend' <=> d \in suspend
        /\ d \in flowFailed' <=> d \in flowFailed
    BY <1>2 DEF Apart
  <2>4. s # <<>> => Stack(s, c)
    OBVIOUS
  <2> QED BY <2>1, <2>2, <2>3, <2>4, OthersKept
<1>3. ASSUME c \notin inner' PROVE InOneHand(c)'
  <2>1. frames'[l] = s /\ (s # <<>> => Top(l)' = s[Len(s)] /\ Top(l)'.of = c)
    BY DEF GrpcInv, GrpcTypeOK, Top, Stack
  <2>2. ASSUME NEW k \in Loops, frames'[k] # <<>>, Top(k)'.of = c PROVE k = l /\ s # <<>>
    <3>1. CASE k # l
      <4>1. frames'[k] = frames[k] /\ Top(k)' = Top(k)
        BY <3>1 DEF GrpcInv, GrpcTypeOK, Top
      <4> QED BY <2>2, <3>1, <4>1, OneThread DEF GrpcInv
    <3>2. CASE k = l
      BY <2>1, <2>2, <3>2
    <3> QED BY <3>1, <3>2
  <2>3. s # <<>> => Within(c)'
    BY <2>1 DEF Within
  <2>4. ~Within(c)' => Owed(c)'
    BY <1>3, <2>3 DEF Handed
  <2>5. ASSUME NEW k \in Loops, frames'[k] # <<>>, Top(k)'.of = c
        PROVE  IF Active(k)'
               THEN /\ finishes'[c] = 0 /\ asked'[c] = Free
                    /\ Top(k)'.at = "next" => c \notin suspend'
                    /\ c \in flowFailed' => Len(frames'[k]) = 1 /\ Top(k)'.at = "check"
               ELSE Owed(c)' /\ c \notin flowFailed'
    <3>1. k = l /\ s # <<>> /\ frames'[k] = s /\ Top(k)' = s[Len(s)] /\ Top(k)'.of = c
      BY <2>1, <2>2, <2>5
    <3>2. Active(k)' <=> s[Len(s)].at = "next" \/ (s[Len(s)].at = "check" /\ c \notin suspend')
      BY <3>1 DEF Active
    <3> QED BY <1>3, <3>1, <3>2 DEF Handed
  <2> QED BY <1>3, <2>4, <2>5 DEF InOneHand, Handed
<1> QED BY <1>1, <1>2, <1>3

\* Finish is counted.
LEMMA FinishFacts ==
  ASSUME GrpcTypeOK, NEW c \in Events, FinishCall(c)
  PROVE  /\ finishes' \in [Events -> 0..2]
         /\ \A d \in Events \ {c} : finishes'[d] = finishes[d]
         /\ finishes[c] = 0 => finishes'[c] = 1
BY DEF GrpcTypeOK, FinishCall

\* Run is entered with the frames of under on the stack.
LEMMA EnterKept ==
  ASSUME GrpcInv, NEW l \in Loops, NEW c \in Events, NEW under, NEW fails \in BOOLEAN,
         enter(l, c, under, fails),
         Stack(under, c), under # <<>> => under[Len(under)].at = "suspend",
         frames[l] # <<>> => Top(l).of = c,
         lock[c] \in {l, Free},
         nextIndex' \in [Events -> 0..Ploys],
         asked' \in [Events -> Loops \cup {Free}],
         status' \in [Events -> {"none", "listening", "arrived", "open", "gone"}],
         status'[c] = "open",
         \A d \in Events \ {c} :
             /\ asked'[d] = asked[d]
             /\ status'[d] = status[d] \/ (status[d] = "none" /\ status'[d] = "listening"),
         c \notin inner => finishes[c] = 0 /\ asked'[c] = Free /\ (under # <<>> => c \notin flowFailed)
  PROVE  GrpcTypeOK' /\ StacksInv' /\ \A d \in Events \ inner' : InOneHand(d)'
<1>0. GrpcTypeOK
  BY DEF GrpcInv
<1>1. /\ suspend' = suspend \ {c}
      /\ flowFailed' = IF fails THEN flowFailed \cup {c} ELSE flowFailed
      /\ inner' = IF fails /\ under # <<>> THEN inner \cup {c} ELSE inner
  BY DEF enter
<1>2. suspend' \subseteq Events /\ flowFailed' \subseteq Events /\ inner' \subseteq Events
  BY <1>0, <1>1 DEF GrpcTypeOK
<1>3. /\ inner \subseteq inner' /\ c \notin suspend'
      /\ \A d \in Events \ {c} :
             /\ d \in suspend' <=> d \in suspend
             /\ d \in flowFailed' <=> d \in flowFailed
  BY <1>1
<1>4. CASE c \in flowFailed'
  <2>1. /\ FinishCall(c) /\ frames' = [frames EXCEPT ![l] = under]
        /\ lock' = [lock EXCEPT ![c] = IF under = <<>> THEN Free ELSE l]
    BY <1>4 DEF enter
  <2>2. /\ finishes' \in [Events -> 0..2]
        /\ finishes[c] = 0 => finishes'[c] = 1
        /\ \A d \in Events \ {c} : finishes'[d] = finishes[d]
    BY <1>0, <2>1, FinishFacts
  <2>3. frames' \in [Loops -> Seq(Frame)]
    BY <1>0, <2>1 DEF GrpcTypeOK, Stack
  <2>4. /\ lock' \in [Events -> Loops \cup {Free}]
        /\ \A d \in Events \ {c} : lock'[d] = lock[d]
        /\ under # <<>> => lock'[c] = l
    BY <1>0, <2>1 DEF GrpcTypeOK
  <2>5. GrpcTypeOK'
    BY <1>2, <2>2, <2>3, <2>4 DEF GrpcTypeOK
  <2>6. c \notin inner' => under = <<>> /\ finishes'[c] = 1 /\ asked'[c] = Free
    BY <1>1, <1>4, <2>2
  <2>7. c \notin inner' => Handed(under, c)
    BY <2>6 DEF Handed, Owed
  <2>8. Apart(c)
    BY <1>3, <2>2, <2>4 DEF Apart
  <2> QED BY <1>3, <2>1, <2>4, <2>5, <2>7, <2>8, StepKept
<1>5. CASE c \notin flowFailed'
  <2> DEFINE f == [of |-> c, i |-> nextIndex'[c], at |-> "next"]
             s == Append(under, f)
  <2>1. /\ frames' = [frames EXCEPT ![l] = s]
        /\ lock' = [lock EXCEPT ![c] = l] /\ finishes' = finishes
    BY <1>5 DEF enter
  <2>2. f \in Frame /\ f.of = c /\ f.at = "next"
    BY DEF Frame
  <2> HIDE DEF f
  <2>3. Stack(s, c) /\ s # <<>> /\ s[Len(s)] = f
    BY <2>2, PushFacts
  <2> HIDE DEF s
  <2>4. frames' \in [Loops -> Seq(Frame)]
    BY <1>0, <2>1, <2>3 DEF GrpcTypeOK, Stack
  <2>5. /\ lock' \in [Events -> Loops \cup {Free}] /\ lock'[c] = l
        /\ \A d \in Events \ {c} : lock'[d] = lock[d]
    BY <1>0, <2>1 DEF GrpcTypeOK
  <2>6. GrpcTypeOK'
    BY <1>0, <1>2, <2>1, <2>4, <2>5 DEF GrpcTypeOK
  <2>7. c \notin inner' => finishes'[c] = 0 /\ asked'[c] = Free
    BY <1>1, <2>1
  <2>8. c \notin inner' => Handed(s, c)
    BY <1>3, <1>5, <2>2, <2>3, <2>7 DEF Handed
  <2>9. Apart(c)
    BY <1>3, <2>1, <2>5 DEF Apart
  <2> QED BY <1>3, <2>1, <2>3, <2>5, <2>6, <2>8, <2>9, StepKept
<1> QED BY <1>4, <1>5

\* Who holds an event that is free?
LEMMA FreeNotWithin ==
  ASSUME StacksInv, NEW c, lock[c] = Free
  PROVE  ~Within(c)
BY DEF StacksInv, Within, Loops, Free

LEMMA CallArrivesKept ==
  ASSUME GrpcInv, NEW c \in Events, CallArrives(c)
  PROVE  GrpcInv'
<1>1. /\ GrpcTypeOK /\ StacksInv /\ InTurn
      /\ \A d \in Events \ inner : InOneHand(d)
  BY DEF GrpcInv
<1>2. /\ status[c] = "listening" /\ status' = [status EXCEPT ![c] = "arrived"]
      /\ UNCHANGED <<lock, frames, flowVars>>
  BY DEF CallArrives
<1>3. GrpcTypeOK'
  BY <1>1, <1>2 DEF GrpcTypeOK, flowVars
<1>4. \A d \in Events : status'[d] = IF d = c THEN "arrived" ELSE status[d]
  BY <1>1, <1>2 DEF GrpcTypeOK
<1>5. \A l \in Loops : Top(l)' = Top(l)
  BY <1>2 DEF Top
<1>6. \A l \in Loops : frames[l] # <<>> => Top(l).of \in Events /\ Top(l).of # c
  BY <1>1, <1>2, TopFacts DEF StacksInv, Frame
<1>7. StacksInv'
  BY <1>1, <1>2, <1>4, <1>5, <1>6 DEF StacksInv, Stack
<1>8. InTurn'
  BY <1>1, <1>2, <1>4 DEF InTurn
<1>9. ASSUME NEW d \in Events \ inner' PROVE InOneHand(d)'
  <2>1. InOneHand(d)
    BY <1>1, <1>2 DEF flowVars
  <2>2. /\ Owed(d)' <=> Owed(d)
        /\ Within(d)' <=> Within(d)
        /\ \A l \in Loops : Active(l)' <=> Active(l)
    BY <1>2, <1>5 DEF Owed, Within, Active, flowVars
  <2> QED BY <1>2, <1>4, <1>5, <2>1, <2>2 DEF InOneHand, flowVars
<1> QED BY <1>3, <1>7, <1>8, <1>9 DEF GrpcInv

LEMMA FinishedKept ==
  ASSUME GrpcInv, NEW c \in Events, Finished(c)
  PROVE  GrpcInv'
<1>1. /\ GrpcTypeOK /\ StacksInv /\ InTurn
      /\ \A d \in Events \ inner : InOneHand(d)
  BY DEF GrpcInv
<1>2. /\ status[c] = "open" /\ finishes[c] > 0 /\ lock[c] = Free
      /\ status' = [status EXCEPT ![c] = "gone"]
      /\ UNCHANGED <<lock, frames, flowVars>>
  BY DEF Finished
<1>3. GrpcTypeOK'
  BY <1>1, <1>2 DEF GrpcTypeOK, flowVars
<1>4. \A d \in Events : status'[d] = IF d = c THEN "gone" ELSE status[d]
  BY <1>1, <1>2 DEF GrpcTypeOK
<1>5. \A l \in Loops : Top(l)' = Top(l)
  BY <1>2 DEF Top
<1>6. ~Within(c) /\ \A l \in Loops : frames[l] # <<>> => Top(l).of \in Events /\ Top(l).of # c
  BY <1>1, <1>2, FreeNotWithin, TopFacts DEF Within, Frame
<1>7. StacksInv'
  BY <1>1, <1>2, <1>4, <1>5, <1>6 DEF StacksInv, Stack
<1>8. InTurn'
  BY <1>1, <1>2, <1>4 DEF InTurn
<1>9. ASSUME NEW d \in Events \ inner' PROVE InOneHand(d)'
  <2>1. InOneHand(d)
    BY <1>1, <1>2 DEF flowVars
  <2>2. /\ Owed(d)' <=> Owed(d)
        /\ Within(d)' <=> Within(d)
        /\ \A l \in Loops : Active(l)' <=> Active(l)
    BY <1>2, <1>5 DEF Owed, Within, Active, flowVars
  <2>3. d = c => asked[d] = Free
    <3>1. SUFFICES ASSUME d = c PROVE asked[c] = Free
      OBVIOUS
    <3>2. finishes[c] = 1
      <4>1. finishes[c] \in 0..2
        BY <1>1 DEF GrpcTypeOK
      <4>2. finishes[c] <= 1
        BY <2>1, <3>1 DEF InOneHand
      <4> QED BY <1>2, <4>1, <4>2
    <3> QED BY <1>2, <1>6, <2>1, <3>1, <3>2 DEF InOneHand, Owed
  <2> QED BY <1>2, <1>4, <1>5, <1>6, <2>1, <2>2, <2>3 DEF InOneHand, flowVars
<1> QED BY <1>3, <1>7, <1>8, <1>9 DEF GrpcInv

LEMMA ProcessKept ==
  ASSUME GrpcInv, NEW c \in Events, Process(c)
  PROVE  GrpcInv'
<1>1. /\ GrpcTypeOK /\ StacksInv /\ InTurn
      /\ \A d \in Events \ inner : InOneHand(d)
  BY DEF GrpcInv
<1>2. /\ status[c] = "arrived" /\ frames["grpc"] = <<>> /\ lock[c] = Free
      /\ status' = [d \in Events |-> IF d = c THEN "open"
                                   ELSE IF d = c + 1 THEN "listening" ELSE status[d]]
      /\ UNCHANGED <<nextIndex, asked>>
      /\ enter("grpc", c, <<>>, FALSE)
  BY DEF Process
<1>3. status' \in [Events -> {"none", "listening", "arrived", "open", "gone"}]
  BY <1>1, <1>2 DEF GrpcTypeOK
<1>4. \A d \in Events :
          /\ d = c => status'[d] = "open"
          /\ d = c + 1 => status[d] = "none" /\ status'[d] = "listening"
          /\ d # c /\ d # c + 1 => status'[d] = status[d]
  BY <1>1, <1>2 DEF InTurn, Events
<1>5. InTurn'
  <2> SUFFICES ASSUME NEW a \in Events, NEW d \in Events, d > a,
                      status'[a] \in {"none", "listening", "arrived"}
               PROVE  status'[d] = "none"
    BY DEF InTurn
  <2>1. a # c
    BY <1>4
  <2>2. CASE a = c + 1
    <3>1. d > c /\ d # c /\ d # c + 1
      BY <2>2 DEF Events
    <3> QED BY <1>1, <1>2, <1>4, <3>1 DEF InTurn
  <2>3. CASE a # c + 1
    <3>1. status[a] \in {"none", "listening", "arrived"}
      BY <1>4, <2>1, <2>3
    <3>2. ~(c > a)
      BY <1>1, <1>2, <3>1 DEF InTurn
    <3>3. d # c /\ d # c + 1
      BY <2>1, <3>2 DEF Events
    <3> QED BY <1>1, <1>4, <3>1, <3>3 DEF InTurn
  <2> QED BY <2>2, <2>3
<1>6. c \notin inner => finishes[c] = 0 /\ asked[c] = Free /\ c \notin flowFailed
  BY <1>1, <1>2 DEF InOneHand
<1>8. Stack(<<>>, c)
  BY DEF Stack
<1>9. GrpcTypeOK' /\ StacksInv' /\ \A d \in Events \ inner' : InOneHand(d)'
  BY <1>1, <1>2, <1>3, <1>4, <1>6, <1>8, EnterKept DEF GrpcTypeOK, Loops
<1> QED BY <1>5, <1>9 DEF GrpcInv

LEMMA CallbackKept ==
  ASSUME GrpcInv, NEW l \in Loops, NEW c \in Events, Callback(l, c)
  PROVE  GrpcInv'
<1>1. /\ GrpcTypeOK /\ StacksInv /\ InTurn
      /\ \A d \in Events \ inner : InOneHand(d)
  BY DEF GrpcInv
<1>2. /\ asked[c] = l /\ frames[l] = <<>> /\ status[c] = "open" /\ lock[c] = Free
      /\ asked' = [asked EXCEPT ![c] = Free]
      /\ UNCHANGED <<status, nextIndex>>
  BY DEF Callback
<1>3. PICK fails \in BOOLEAN : enter(l, c, <<>>, fails)
  BY DEF Callback
<1>4. InTurn'
  BY <1>1, <1>2 DEF InTurn
<1>5. /\ asked' \in [Events -> Loops \cup {Free}] /\ asked'[c] = Free
      /\ \A d \in Events \ {c} : asked'[d] = asked[d]
  BY <1>1, <1>2 DEF GrpcTypeOK
<1>6. c \notin inner => finishes[c] = 0
  <2>1. asked[c] # Free /\ finishes[c] \in 0..2 /\ ~Within(c)
    BY <1>1, <1>2, FreeNotWithin DEF GrpcTypeOK, Loops, Free
  <2>2. c \notin inner => Owed(c) /\ finishes[c] <= 1
    BY <1>1, <1>2, <2>1 DEF InOneHand
  <2> QED BY <2>1, <2>2 DEF Owed
<1>7. Stack(<<>>, c)
  BY DEF Stack
<1>8. GrpcTypeOK' /\ StacksInv' /\ \A d \in Events \ inner' : InOneHand(d)'
  <2>1. /\ nextIndex' \in [Events -> 0..Ploys]
        /\ status' \in [Events -> {"none", "listening", "arrived", "open", "gone"}]
    BY <1>1, <1>2 DEF GrpcTypeOK
  <2>2. status'[c] = "open" /\ lock[c] \in {l, Free}
    BY <1>2
  <2>3. \A d \in Events \ {c} :
            /\ asked'[d] = asked[d]
            /\ status'[d] = status[d] \/ (status[d] = "none" /\ status'[d] = "listening")
    BY <1>2, <1>5
  <2>4. c \notin inner => finishes[c] = 0 /\ asked'[c] = Free
    BY <1>5, <1>6
  <2>5. asked' \in [Events -> Loops \cup {Free}] /\ frames[l] = <<>>
    BY <1>2, <1>5
  <2> QED BY <1>3, <1>7, <2>1, <2>2, <2>3, <2>4, <2>5, EnterKept
<1> QED BY <1>4, <1>8 DEF GrpcInv

\* The rest of Run: the call the thread l is in, and the frames below.
LEMMA FrameFacts ==
  ASSUME GrpcInv, NEW l \in Loops, frames[l] # <<>>
  PROVE  /\ GrpcTypeOK /\ StacksInv /\ InTurn
         /\ Top(l) \in Frame /\ Top(l).of \in Events /\ Top(l).i \in 0..Ploys
         /\ lock[Top(l).of] = l /\ status[Top(l).of] = "open"
         /\ Stack(below(l), Top(l).of) /\ below(l) \in Seq(Frame)
         /\ Len(below(l)) = Len(frames[l]) - 1 /\ Len(below(l)) \in Nat
         /\ below(l) # <<>> => below(l)[Len(below(l))].at = "suspend"
         /\ Top(l).of \notin inner => InOneHand(Top(l).of)
<1>1. GrpcTypeOK /\ StacksInv /\ InTurn /\ \A d \in Events \ inner : InOneHand(d)
  BY DEF GrpcInv
<1>2. /\ Stack(frames[l], Top(l).of) /\ Top(l) \in Frame
      /\ frames[l] \in Seq(Frame) /\ Len(frames[l]) \in Nat \ {0}
  BY <1>1, TopFacts
<1>3. Top(l).of \in Events /\ Top(l).i \in 0..Ploys
  BY <1>2 DEF Frame
<1>4. lock[Top(l).of] = l /\ status[Top(l).of] = "open"
  BY <1>1 DEF StacksInv
<1>5. /\ Stack(below(l), Top(l).of) /\ Len(below(l)) = Len(frames[l]) - 1
      /\ below(l) # <<>> => below(l)[Len(below(l))].at = "suspend"
  <2> DEFINE s == frames[l]
             b == below(l)
             c == Top(l).of
  <2>1. Stack(s, c) /\ s # <<>> /\ b = SubSeq(s, 1, Len(s) - 1)
    BY <1>2 DEF below
  <2> HIDE DEF s, b, c
  <2>2. /\ Stack(b, c) /\ Len(b) = Len(s) - 1
        /\ b # <<>> => b[Len(b)].at = "suspend"
    BY <2>1, BelowFacts
  <2> QED BY <2>2 DEF s, b, c
<1> QED BY <1>1, <1>2, <1>3, <1>4, <1>5 DEF Stack

\* A frame takes the place of the innermost one.
LEMMA PlaceFacts ==
  ASSUME GrpcInv, NEW l \in Loops, frames[l] # <<>>, NEW f \in Frame, f.of = Top(l).of
  PROVE  LET s == Append(below(l), f)
         IN  /\ Stack(s, Top(l).of) /\ s # <<>> /\ s[Len(s)] = f
             /\ Len(s) = Len(below(l)) + 1 /\ s \in Seq(Frame)
<1> DEFINE b == below(l)
           c == Top(l).of
<1>1. Stack(b, c) /\ (b # <<>> => b[Len(b)].at = "suspend")
  BY FrameFacts
<1>2. f.of = c
  OBVIOUS
<1> HIDE DEF b, c
<1>3. /\ Stack(Append(b, f), c) /\ Append(b, f) # <<>>
      /\ Append(b, f)[Len(Append(b, f))] = f /\ Len(Append(b, f)) = Len(b) + 1
  BY <1>1, <1>2, PushFacts
<1>4. Append(b, f) \in Seq(Frame)
  BY <1>3 DEF Stack
<1> QED BY <1>3, <1>4 DEF b, c

\* The innermost frame is left.
LEMMA LeaveFacts ==
  ASSUME GrpcInv, NEW l \in Loops, frames[l] # <<>>, leave(l)
  PROVE  /\ frames' = [frames EXCEPT ![l] = below(l)] /\ frames' \in [Loops -> Seq(Frame)]
         /\ lock' \in [Events -> Loops \cup {Free}]
         /\ below(l) # <<>> => lock'[Top(l).of] = l
         /\ \A d \in Events \ {Top(l).of} : lock'[d] = lock[d]
BY FrameFacts DEF leave, GrpcTypeOK

\* A ploy has run, or its request is on the way.
LEMMA SuspendKept ==
  ASSUME GrpcInv, NEW l \in Loops, Suspend(l)
  PROVE  GrpcInv'
<1>0. PICK c : c = Top(l).of
  OBVIOUS
<1> DEFINE f == [Top(l) EXCEPT !.at = "check"]
           s == Append(below(l), f)
<1>1. /\ frames[l] # <<>> /\ Top(l).at = "suspend"
      /\ suspend' = suspend \cup {c}
      /\ frames' = [frames EXCEPT ![l] = s]
      /\ UNCHANGED <<status, lock, nextIndex, flowFailed, asked, finishes, inner>>
  BY <1>0 DEF Suspend, At, goOn
<1>2. /\ GrpcTypeOK /\ StacksInv /\ InTurn /\ c \in Events
      /\ Top(l) \in Frame /\ lock[c] = l /\ status[c] = "open"
      /\ c \notin inner => InOneHand(c)
  BY <1>0, <1>1, FrameFacts
<1>3. f \in Frame /\ f.of = c /\ f.at = "check"
  BY <1>0, <1>2 DEF Frame
<1> HIDE DEF f
<1>4. Stack(s, c) /\ s # <<>> /\ s[Len(s)] = f /\ s \in Seq(Frame)
  BY <1>0, <1>1, <1>3, PlaceFacts
<1> HIDE DEF s
<1>5. GrpcTypeOK'
  BY <1>1, <1>2, <1>4 DEF GrpcTypeOK
<1>6. InTurn'
  BY <1>1, <1>2 DEF InTurn
<1>7. c \notin inner' => Handed(s, c)
  <2>1. c \notin inner => Owed(c) /\ c \notin flowFailed /\ finishes[c] <= 1
    BY <1>0, <1>1, <1>2 DEF InOneHand, Active
  <2>2. Owed(c)' <=> Owed(c)
    BY <1>1 DEF Owed
  <2> QED BY <1>1, <1>3, <1>4, <2>1, <2>2 DEF Handed
<1>8. Apart(c)
  BY <1>1, <1>2 DEF Apart
<1>9. lock'[c] = l /\ inner \subseteq inner' /\ status'[c] = "open"
  BY <1>1, <1>2
<1>10. StacksInv' /\ \A d \in Events \ inner' : InOneHand(d)'
  BY <1>0, <1>1, <1>2, <1>4, <1>5, <1>7, <1>8, <1>9, StepKept
<1> QED BY <1>5, <1>6, <1>10 DEF GrpcInv

\* A frame is left that has finished its call.
LEMMA FinishLeaveKept ==
  ASSUME GrpcInv, NEW l \in Loops, frames[l] # <<>>,
         FinishCall(Top(l).of), leave(l),
         UNCHANGED <<status, nextIndex, suspend, flowFailed, asked, inner>>,
         Top(l).of \notin inner =>
             /\ finishes[Top(l).of] = 0 /\ asked[Top(l).of] = Free
             /\ Len(frames[l]) # 1 => Top(l).of \notin flowFailed
  PROVE  GrpcInv'
<1>0. PICK c : c = Top(l).of
  OBVIOUS
<1>1. PICK s : s = below(l)
  OBVIOUS
<1>2. /\ GrpcTypeOK /\ StacksInv /\ InTurn /\ c \in Events
      /\ lock[c] = l /\ status[c] = "open"
      /\ Stack(s, c) /\ Len(s) = Len(frames[l]) - 1
      /\ s # <<>> => s[Len(s)].at = "suspend"
  BY <1>0, <1>1, FrameFacts
<1>3. /\ frames' = [frames EXCEPT ![l] = s] /\ frames' \in [Loops -> Seq(Frame)]
      /\ lock' \in [Events -> Loops \cup {Free}]
      /\ s # <<>> => lock'[c] = l
      /\ \A d \in Events \ {c} : lock'[d] = lock[d]
  BY <1>0, <1>1, LeaveFacts
<1>4. /\ finishes' \in [Events -> 0..2]
      /\ finishes[c] = 0 => finishes'[c] = 1
      /\ \A d \in Events \ {c} : finishes'[d] = finishes[d]
  BY <1>0, <1>2, FinishFacts
<1>5. GrpcTypeOK'
  BY <1>2, <1>3, <1>4 DEF GrpcTypeOK
<1>6. InTurn'
  BY <1>2 DEF InTurn
<1>7. c \notin inner' => Handed(s, c)
  <2>1. s # <<>> => Len(frames[l]) # 1
    <3>1. Len(s) = 0 => s = <<>>
      BY <1>2 DEF Stack
    <3>2. Len(frames[l]) = 1 => Len(s) = 0
      BY <1>2
    <3> QED BY <3>1, <3>2
  <2>2. c \notin inner => finishes'[c] = 1 /\ asked'[c] = Free /\ (s # <<>> => c \notin flowFailed')
    BY <1>0, <1>4, <2>1
  <2> QED BY <1>2, <2>2 DEF Handed, Owed
<1>8. Apart(c)
  BY <1>3, <1>4 DEF Apart
<1>9. StacksInv' /\ \A d \in Events \ inner' : InOneHand(d)'
  BY <1>0, <1>2, <1>3, <1>5, <1>7, <1>8, StepKept
<1> QED BY <1>5, <1>6, <1>9 DEF GrpcInv

LEMMA FlowEndKept ==
  ASSUME GrpcInv, NEW l \in Loops, FlowEnd(l)
  PROVE  GrpcInv'
<1>1. /\ frames[l] # <<>> /\ Top(l).at = "next" /\ FinishCall(Top(l).of) /\ leave(l)
      /\ UNCHANGED <<status, nextIndex, suspend, flowFailed, asked, inner>>
  BY DEF FlowEnd, At
<1>2. Top(l).of \notin inner =>
          finishes[Top(l).of] = 0 /\ asked[Top(l).of] = Free /\ Top(l).of \notin flowFailed
  BY <1>1, FrameFacts DEF InOneHand, Active
<1> QED BY <1>1, <1>2, FinishLeaveKept

LEMMA CheckKept ==
  ASSUME GrpcInv, NEW l \in Loops, Check(l)
  PROVE  GrpcInv'
<1>0. PICK c : c = Top(l).of
  OBVIOUS
<1>1. /\ frames[l] # <<>> /\ Top(l).at = "check"
      /\ UNCHANGED <<status, nextIndex, suspend, flowFailed, asked, inner>>
  BY DEF Check, At
<1>2. /\ GrpcTypeOK /\ StacksInv /\ InTurn /\ c \in Events
      /\ Top(l) \in Frame /\ lock[c] = l /\ status[c] = "open"
      /\ c \notin inner => InOneHand(c)
  BY <1>0, <1>1, FrameFacts
<1>3. CASE c \in flowFailed
  <2>1. FinishCall(c) /\ leave(l)
    BY <1>0, <1>3 DEF Check
  <2>2. c \notin inner => finishes[c] = 0 /\ asked[c] = Free /\ Len(frames[l]) = 1
    BY <1>0, <1>1, <1>2, <1>3 DEF InOneHand
  <2> QED BY <1>0, <1>1, <2>1, <2>2, FinishLeaveKept
<1>4. CASE c \notin flowFailed /\ c \in suspend
  <2>1. PICK s : s = below(l)
    OBVIOUS
  <2>2. leave(l) /\ finishes' = finishes
    BY <1>0, <1>4 DEF Check
  <2>3. s # <<>> => s[Len(s)].at = "suspend"
    BY <1>0, <1>1, <2>1, FrameFacts
  <2>4. Stack(s, c)
    BY <1>0, <1>1, <2>1, FrameFacts
  <2>5. /\ frames' = [frames EXCEPT ![l] = s] /\ frames' \in [Loops -> Seq(Frame)]
        /\ lock' \in [Events -> Loops \cup {Free}]
        /\ s # <<>> => lock'[c] = l
        /\ \A d \in Events \ {c} : lock'[d] = lock[d]
    BY <1>0, <1>1, <2>1, <2>2, LeaveFacts
  <2>6. GrpcTypeOK' /\ InTurn'
    BY <1>1, <1>2, <2>2, <2>5 DEF GrpcTypeOK, InTurn
  <2>7. c \notin inner' => Handed(s, c)
    <3>1. c \notin inner => Owed(c) /\ finishes[c] <= 1
      BY <1>0, <1>1, <1>2, <1>4 DEF InOneHand, Active
    <3>2. Owed(c)' <=> Owed(c)
      BY <1>1, <2>2 DEF Owed
    <3> QED BY <1>1, <1>4, <2>2, <2>3, <2>4, <3>1, <3>2 DEF Handed
  <2>8. Apart(c)
    BY <1>1, <2>2, <2>5 DEF Apart
  <2>9. StacksInv' /\ \A d \in Events \ inner' : InOneHand(d)'
    BY <1>0, <1>1, <1>2, <2>4, <2>5, <2>6, <2>7, <2>8, StepKept
  <2> QED BY <2>6, <2>9 DEF GrpcInv
<1>5. CASE c \notin flowFailed /\ c \notin suspend
  <2> DEFINE f == [Top(l) EXCEPT !.at = "next"]
             s == Append(below(l), f)
  <2>1. frames' = [frames EXCEPT ![l] = s] /\ finishes' = finishes /\ lock' = lock
    BY <1>0, <1>5 DEF Check, goOn
  <2>2. f \in Frame /\ f.of = c /\ f.at = "next"
    BY <1>0, <1>2 DEF Frame
  <2> HIDE DEF f
  <2>3. Stack(s, c) /\ s # <<>> /\ s[Len(s)] = f /\ s \in Seq(Frame)
    BY <1>0, <1>1, <2>2, PlaceFacts
  <2> HIDE DEF s
  <2>4. GrpcTypeOK' /\ InTurn'
    BY <1>1, <1>2, <2>1, <2>3 DEF GrpcTypeOK, InTurn
  <2>5. c \notin inner' => Handed(s, c)
    <3>1. c \notin inner => finishes[c] = 0 /\ asked[c] = Free
      BY <1>0, <1>1, <1>2, <1>5 DEF InOneHand, Active
    <3> QED BY <1>1, <1>5, <2>1, <2>2, <2>3, <3>1 DEF Handed
  <2>6. Apart(c)
    BY <1>1, <2>1 DEF Apart
  <2>7. StacksInv' /\ \A d \in Events \ inner' : InOneHand(d)'
    BY <1>0, <1>1, <1>2, <2>1, <2>3, <2>4, <2>5, <2>6, StepKept
  <2> QED BY <2>4, <2>7 DEF GrpcInv
<1> QED BY <1>3, <1>4, <1>5

\* The ploy sets ctx.errMsg, or it does not.
LEMMA PloySyncKept ==
  ASSUME GrpcInv, NEW l \in Loops, frames[l] # <<>>, Top(l).at = "next", Top(l).i < Ploys,
         NEW fails \in BOOLEAN,
         nextIndex' = [nextIndex EXCEPT ![Top(l).of] = Top(l).i + 1],
         flowFailed' = IF fails THEN flowFailed \cup {Top(l).of} ELSE flowFailed,
         inner' = IF fails /\ below(l) # <<>> THEN inner \cup {Top(l).of} ELSE inner,
         frames' = [frames EXCEPT ![l] =
                       Append(below(l), [of |-> Top(l).of, i |-> Top(l).i + 1, at |-> "check"])],
         UNCHANGED <<status, lock, suspend, asked, finishes>>
  PROVE  GrpcInv'
<1>0. PICK c : c = Top(l).of
  OBVIOUS
<1>1. /\ GrpcTypeOK /\ StacksInv /\ InTurn /\ c \in Events
      /\ Top(l).i \in 0..Ploys /\ lock[c] = l /\ status[c] = "open"
      /\ Len(below(l)) \in Nat /\ below(l) \in Seq(Frame)
      /\ c \notin inner => InOneHand(c)
  BY <1>0, FrameFacts
<1> DEFINE f == [of |-> c, i |-> Top(l).i + 1, at |-> "check"]
           s == Append(below(l), f)
<1>2. f \in Frame /\ f.of = c /\ f.at = "check" /\ Top(l).i + 1 \in 0..Ploys
  BY <1>1, GrpcServiceAssumption DEF Frame
<1>3. frames' = [frames EXCEPT ![l] = s]
  BY <1>0
<1> HIDE DEF f
<1>4. Stack(s, c) /\ s # <<>> /\ s[Len(s)] = f /\ s \in Seq(Frame) /\ Len(s) = Len(below(l)) + 1
  BY <1>0, <1>2, PlaceFacts
<1> HIDE DEF s
<1>5. GrpcTypeOK' /\ InTurn'
  <2>1. nextIndex' \in [Events -> 0..Ploys] /\ frames' \in [Loops -> Seq(Frame)]
    BY <1>0, <1>1, <1>2, <1>3, <1>4 DEF GrpcTypeOK
  <2>2. flowFailed' \subseteq Events /\ inner' \subseteq Events
    BY <1>0, <1>1 DEF GrpcTypeOK
  <2> QED BY <1>1, <2>1, <2>2 DEF GrpcTypeOK, InTurn
<1>6. c \notin inner' => Handed(s, c)
  <2>1. c \notin inner => /\ finishes[c] = 0 /\ asked[c] = Free
                         /\ c \notin suspend /\ c \notin flowFailed
    BY <1>0, <1>1 DEF InOneHand, Active
  <2>2. c \notin inner' => c \notin inner /\ (fails => below(l) = <<>>)
    BY <1>0
  <2>3. below(l) = <<>> => Len(s) = 1
    BY <1>1, <1>4
  <2>4. c \notin inner /\ c \in flowFailed' => fails
    BY <1>0, <2>1
  <2> QED BY <1>2, <1>4, <2>1, <2>2, <2>3, <2>4 DEF Handed
<1>7. Apart(c) /\ inner \subseteq inner'
  BY <1>0 DEF Apart
<1>8. StacksInv' /\ \A d \in Events \ inner' : InOneHand(d)'
  BY <1>0, <1>1, <1>3, <1>4, <1>5, <1>6, <1>7, StepKept
<1> QED BY <1>5, <1>8 DEF GrpcInv

\* The request is on its way.
LEMMA PloyAsksKept ==
  ASSUME GrpcInv, NEW l \in Loops, frames[l] # <<>>, Top(l).at = "next", Top(l).i < Ploys,
         NEW answerer \in Loops,
         nextIndex' = [nextIndex EXCEPT ![Top(l).of] = Top(l).i + 1],
         asked' = [asked EXCEPT ![Top(l).of] = answerer],
         frames' = [frames EXCEPT ![l] =
                       Append(below(l), [of |-> Top(l).of, i |-> Top(l).i + 1, at |-> "suspend"])],
         UNCHANGED <<status, lock, suspend, flowFailed, finishes, inner>>
  PROVE  GrpcInv'
<1>0. PICK c : c = Top(l).of
  OBVIOUS
<1>1. /\ GrpcTypeOK /\ StacksInv /\ InTurn /\ c \in Events
      /\ Top(l).i \in 0..Ploys /\ lock[c] = l /\ status[c] = "open"
      /\ c \notin inner => InOneHand(c)
  BY <1>0, FrameFacts
<1> DEFINE f == [of |-> c, i |-> Top(l).i + 1, at |-> "suspend"]
           s == Append(below(l), f)
<1>2. f \in Frame /\ f.of = c /\ f.at = "suspend" /\ Top(l).i + 1 \in 0..Ploys
  BY <1>1, GrpcServiceAssumption DEF Frame
<1>3. frames' = [frames EXCEPT ![l] = s]
  BY <1>0
<1> HIDE DEF f
<1>4. Stack(s, c) /\ s # <<>> /\ s[Len(s)] = f /\ s \in Seq(Frame)
  BY <1>0, <1>2, PlaceFacts
<1> HIDE DEF s
<1>5. /\ asked' \in [Events -> Loops \cup {Free}] /\ asked'[c] # Free
      /\ \A d \in Events \ {c} : asked'[d] = asked[d]
  BY <1>0, <1>1 DEF GrpcTypeOK, Loops, Free
<1>6. GrpcTypeOK' /\ InTurn'
  <2>1. nextIndex' \in [Events -> 0..Ploys] /\ frames' \in [Loops -> Seq(Frame)]
    BY <1>0, <1>1, <1>2, <1>3, <1>4 DEF GrpcTypeOK
  <2> QED BY <1>1, <1>5, <2>1 DEF GrpcTypeOK, InTurn
<1>7. c \notin inner' => Handed(s, c)
  <2>1. c \notin inner => finishes[c] = 0 /\ c \notin flowFailed
    BY <1>0, <1>1 DEF InOneHand, Active
  <2> QED BY <1>2, <1>4, <1>5, <2>1 DEF Handed, Owed
<1>8. Apart(c)
  BY <1>0, <1>5 DEF Apart
<1>9. StacksInv' /\ \A d \in Events \ inner' : InOneHand(d)'
  BY <1>0, <1>1, <1>3, <1>4, <1>6, <1>7, <1>8, StepKept
<1> QED BY <1>6, <1>9 DEF GrpcInv

\* The request cannot be sent, and its callback runs the flow here.
LEMMA PloyFailsKept ==
  ASSUME GrpcInv, NEW l \in Loops, frames[l] # <<>>, Top(l).at = "next", Top(l).i < Ploys,
         NEW fails \in BOOLEAN,
         nextIndex' = [nextIndex EXCEPT ![Top(l).of] = Top(l).i + 1],
         enter(l, Top(l).of,
               Append(below(l), [of |-> Top(l).of, i |-> Top(l).i + 1, at |-> "suspend"]), fails),
         UNCHANGED <<status, asked>>
  PROVE  GrpcInv'
<1>0. PICK c : c = Top(l).of
  OBVIOUS
<1>1. /\ GrpcTypeOK /\ StacksInv /\ InTurn /\ c \in Events
      /\ Top(l).i \in 0..Ploys /\ lock[c] = l /\ status[c] = "open"
      /\ c \notin inner => InOneHand(c)
  BY <1>0, FrameFacts
<1> DEFINE f == [of |-> c, i |-> Top(l).i + 1, at |-> "suspend"]
           s == Append(below(l), f)
<1>2. f \in Frame /\ f.of = c /\ f.at = "suspend" /\ Top(l).i + 1 \in 0..Ploys
  BY <1>1, GrpcServiceAssumption DEF Frame
<1>3. enter(l, c, s, fails)
  BY <1>0
<1> HIDE DEF f
<1>4. Stack(s, c) /\ s # <<>> /\ s[Len(s)] = f
  BY <1>0, <1>2, PlaceFacts
<1> HIDE DEF s
<1>5. /\ nextIndex' \in [Events -> 0..Ploys] /\ InTurn'
      /\ asked' \in [Events -> Loops \cup {Free}]
      /\ status' \in [Events -> {"none", "listening", "arrived", "open", "gone"}]
  BY <1>0, <1>1, <1>2 DEF GrpcTypeOK, InTurn
<1>6. c \notin inner => finishes[c] = 0 /\ asked'[c] = Free /\ c \notin flowFailed
  BY <1>0, <1>1 DEF InOneHand, Active
<1>7. GrpcTypeOK' /\ StacksInv' /\ \A d \in Events \ inner' : InOneHand(d)'
  BY <1>0, <1>1, <1>2, <1>3, <1>4, <1>5, <1>6, EnterKept
<1> QED BY <1>5, <1>7 DEF GrpcInv

LEMMA RunPloyKept ==
  ASSUME GrpcInv, NEW l \in Loops, RunPloy(l)
  PROVE  GrpcInv'
<1> DEFINE c == Top(l).of
           p == Top(l).i + 1
           here(at) == Append(below(l), [of |-> c, i |-> p, at |-> at])
<1>1. /\ frames[l] # <<>> /\ Top(l).at = "next" /\ Top(l).i < Ploys
      /\ nextIndex' = [nextIndex EXCEPT ![c] = p] /\ UNCHANGED status
  BY Zenon DEF RunPloy, At
<1>2. CASE /\ \E fails \in {FALSE, (p \in MayFail)} :
                /\ flowFailed' = IF fails THEN flowFailed \cup {c} ELSE flowFailed
                /\ inner' = IF fails /\ below(l) # <<>> THEN inner \cup {c} ELSE inner
           /\ frames' = [frames EXCEPT ![l] = here("check")]
           /\ UNCHANGED <<lock, suspend, asked, finishes>>
  <2>1. PICK fails \in BOOLEAN :
            /\ flowFailed' = IF fails THEN flowFailed \cup {c} ELSE flowFailed
            /\ inner' = IF fails /\ below(l) # <<>> THEN inner \cup {c} ELSE inner
    BY <1>2
  <2> QED BY <1>1, <1>2, <2>1, PloySyncKept
<1>3. CASE /\ \E answerer \in Loops : asked' = [asked EXCEPT ![c] = answerer]
           /\ frames' = [frames EXCEPT ![l] = here("suspend")]
           /\ UNCHANGED <<lock, suspend, flowFailed, finishes, inner>>
  BY <1>1, <1>3, PloyAsksKept
<1>4. CASE (\E fails \in BOOLEAN : enter(l, c, here("suspend"), fails)) /\ UNCHANGED asked
  BY <1>1, <1>4, PloyFailsKept
<1> QED BY <1>2, <1>3, <1>4 DEF RunPloy

LEMMA GrpcInvInit == GrpcInit => GrpcInv
BY GrpcServiceAssumption
DEF GrpcInit, GrpcInv, GrpcTypeOK, StacksInv, InTurn, InOneHand, Owed, Within, Events, Loops, Free

LEMMA GrpcInvStep == GrpcInv /\ [GrpcNext]_grpcVars => GrpcInv'
<1>1. CASE UNCHANGED grpcVars
  BY <1>1 DEF grpcVars, flowVars, GrpcInv, GrpcTypeOK, StacksInv, Stack, InTurn, InOneHand,
              Owed, Within, Active, Top
<1>2. CASE GrpcInv /\ GrpcNext
  BY <1>2, CallArrivesKept, ProcessKept, FinishedKept, RunPloyKept, SuspendKept, CheckKept,
     FlowEndKept, CallbackKept DEF GrpcNext
<1> QED BY <1>1, <1>2

LEMMA GrpcInvHolds == GrpcSpec => []GrpcInv
BY GrpcInvInit, GrpcInvStep, PTL DEF GrpcSpec

(***************************************************************************)
(* For any number of calls and any flow, a call is finished once, on       *)
(* whichever of the two threads its ploys and callbacks run (small_flow.h, *)
(* Run).                                                                   *)
(***************************************************************************)
THEOREM FinishedOnceHolds == GrpcSpec => []FinishedOnce
<1>1. GrpcInv => FinishedOnce
  BY DEF GrpcInv, InOneHand, FinishedOnce
<1> QED BY <1>1, GrpcInvHolds, PTL

(***************************************************************************)
(* For any number of calls and any flow, no thread is in an event, and no  *)
(* client has yet to answer it, when it is destroyed (grpc_service.h,      *)
(* Proceed).                                                               *)
(***************************************************************************)
THEOREM NobodyInsideGoneHolds == GrpcSpec => []NobodyInsideGone
<1>1. GrpcInv => NobodyInsideGone
  <2> SUFFICES ASSUME GrpcInv, NEW c \in Events, status[c] = "gone"
               PROVE  /\ \A l \in Loops : \A k \in DOMAIN frames[l] : frames[l][k].of # c
                      /\ c \notin inner => asked[c] = Free
    BY DEF NobodyInsideGone
  <2>1. ASSUME NEW l \in Loops, NEW k \in DOMAIN frames[l] PROVE frames[l][k].of # c
    <3>1. frames[l] # <<>>
      OBVIOUS
    <3>2. Stack(frames[l], Top(l).of) /\ status[Top(l).of] = "open"
      BY <3>1 DEF GrpcInv, StacksInv
    <3> QED BY <3>2 DEF Stack
  <2>2. c \notin inner => asked[c] = Free
    BY DEF GrpcInv, InOneHand
  <2> QED BY <2>1, <2>2
<1> QED BY <1>1, GrpcInvHolds, PTL

-----------------------------------------------------------------------------
(* The types of the coroutines' connections.                               *)

CoTypes ==
    /\ serving \in {"no", "asked", "listening", "failed"}
    /\ sock \in [Conns -> {"none", "open", "finished", "unusable"}]
    /\ table \subseteq Accepted
    /\ coro \in [Conns -> {"none", "dropped", "ready", "connecting", "reading", "writing", "ended"}]
    /\ call \in [Conns -> 0..MaxCalls] /\ readFor \in [Conns -> 0..MaxCalls]
    /\ asyncFor \in [Conns -> 0..MaxCalls] /\ writeFor \in [Conns -> 0..MaxCalls]
    /\ notify \in [Conns -> BOOLEAN] /\ writeDone \in [Conns -> BOOLEAN]
    /\ counted \in [Conns -> BOOLEAN] /\ inTurns \in [Conns -> BOOLEAN]
    /\ unheard \in [Conns -> BOOLEAN]
    /\ queue \in [Conns -> Seq(1..MaxCalls)]

\* The type invariant, one variable after the other.
LEMMA CoTypesAre == CoServerTypeOK <=> CoTypes
<1>1. {call, readFor, asyncFor, writeFor} \subseteq [Conns -> 0..MaxCalls] <=>
        /\ call \in [Conns -> 0..MaxCalls] /\ readFor \in [Conns -> 0..MaxCalls]
        /\ asyncFor \in [Conns -> 0..MaxCalls] /\ writeFor \in [Conns -> 0..MaxCalls]
  OBVIOUS
<1>2. {notify, writeDone, counted, inTurns, unheard} \subseteq [Conns -> BOOLEAN] <=>
        /\ notify \in [Conns -> BOOLEAN] /\ writeDone \in [Conns -> BOOLEAN]
        /\ counted \in [Conns -> BOOLEAN] /\ inTurns \in [Conns -> BOOLEAN]
        /\ unheard \in [Conns -> BOOLEAN]
  OBVIOUS
<1> QED BY <1>1, <1>2, Zenon DEF CoServerTypeOK, CoTypes

\* A handler wakes for its call, and nullptr for none.
LEMMA WakeFacts ==
  ASSUME NEW k \in 0..MaxCalls
  PROVE  /\ wake(k) \in Seq(1..MaxCalls)
         /\ k = 0 => wake(k) = <<>>
         /\ k # 0 => wake(k) = <<k>>
<1>1. CASE k = 0
  BY <1>1 DEF wake
<1>2. CASE k # 0
  <2>1. k \in 1..MaxCalls /\ wake(k) = <<k>>
    BY <1>2, CoServerAssumption DEF wake
  <2> QED BY <1>2, <2>1
<1> QED BY <1>1, <1>2

\* Of wake-ups in a row those for nullptr leave nothing.
LEMMA RowFacts ==
  ASSUME NEW S, NEW s \in Seq(S)
  PROVE  /\ <<>> \o s = s
         /\ <<>> \o (s \o <<>> \o <<>>) = s
         /\ <<>> \o (<<>> \o s \o <<>>) = s
         /\ <<>> \o (<<>> \o <<>> \o s) = s
         /\ s \o (<<>> \o <<>> \o <<>>) = s
<1>1. s \o <<>> = s /\ <<>> \o s = s
  BY ConcatEmptySeq
<1>2. <<>> \o <<>> = <<>>
  OBVIOUS
<1> QED BY <1>1, <1>2

\* Wake-ups go to the end of the queue of their coroutine.
LEMMA ResumeFacts ==
  ASSUME CoTypes, NEW c \in Conns, NEW s \in Seq(1..MaxCalls), resume(c, s)
  PROVE  /\ queue' \in [Conns -> Seq(1..MaxCalls)]
         /\ queue'[c] = queue[c] \o s
         /\ \A d \in Conns \ {c} : queue'[d] = queue[d]
<1>1. queue[c] \o s \in Seq(1..MaxCalls)
  BY DEF CoTypes
<1> QED BY <1>1 DEF CoTypes, resume

\* The variables of a connection that Finish writes keep their types.
FinishedTypes ==
    /\ sock' \in [Conns -> {"none", "open", "finished", "unusable"}] /\ table' \subseteq Accepted
    /\ asyncFor' \in [Conns -> 0..MaxCalls]
    /\ notify' \in [Conns -> BOOLEAN] /\ writeDone' \in [Conns -> BOOLEAN]
    /\ queue' \in [Conns -> Seq(1..MaxCalls)]

\* The connection that Finish ends.
FinishedAt(c, before, done) ==
    /\ sock'[c] = "finished" /\ asyncFor'[c] = 0 /\ ~notify'[c]
    /\ writeDone'[c] <=> done \/ writeFor[c] # 0
    /\ queue'[c] = queue[c] \o (before \o wake(asyncFor[c]) \o wake(IF done THEN 0 ELSE writeFor[c]))

\* What Finish leaves, whoever calls it.
LEMMA FinishLeaves ==
  ASSUME CoTypes, NEW c \in Conns, NEW before \in Seq(1..MaxCalls), NEW done \in BOOLEAN,
         finish(c, before, done)
  PROVE  /\ FinishedTypes /\ FinishedAt(c, before, done)
         /\ \A d \in Conns \ {c} :
               /\ sock'[d] = sock[d] /\ asyncFor'[d] = asyncFor[d] /\ notify'[d] = notify[d]
               /\ writeDone'[d] = writeDone[d] /\ queue'[d] = queue[d]
<1>1. asyncFor[c] \in 0..MaxCalls /\ (IF done THEN 0 ELSE writeFor[c]) \in 0..MaxCalls
  BY CoServerAssumption DEF CoTypes
<1> DEFINE s == before \o wake(asyncFor[c]) \o wake(IF done THEN 0 ELSE writeFor[c])
<1>2. s \in Seq(1..MaxCalls)
  BY <1>1, WakeFacts
<1>3. resume(c, s)
  BY DEF finish
<1>4. /\ queue' \in [Conns -> Seq(1..MaxCalls)] /\ queue'[c] = queue[c] \o s
      /\ \A d \in Conns \ {c} : queue'[d] = queue[d]
  BY <1>2, <1>3, ResumeFacts
<1>5. /\ sock' = [sock EXCEPT ![c] = "finished"] /\ table' \subseteq table
      /\ asyncFor' = [asyncFor EXCEPT ![c] = 0] /\ notify' = [notify EXCEPT ![c] = FALSE]
      /\ writeDone' = [writeDone EXCEPT ![c] = (done \/ writeFor[c] # 0)]
  BY DEF finish, Set
<1>6. 0 \in 0..MaxCalls
  BY CoServerAssumption
<1> HIDE DEF s
<1>7. /\ sock' \in [Conns -> {"none", "open", "finished", "unusable"}] /\ table' \subseteq Accepted
      /\ asyncFor' \in [Conns -> 0..MaxCalls]
      /\ notify' \in [Conns -> BOOLEAN] /\ writeDone' \in [Conns -> BOOLEAN]
  BY <1>5, <1>6 DEF CoTypes
<1>8. sock'[c] = "finished" /\ asyncFor'[c] = 0 /\ ~notify'[c]
  BY <1>5 DEF CoTypes
<1>9. writeDone'[c] <=> done \/ writeFor[c] # 0
  BY <1>5 DEF CoTypes
<1>10. \A d \in Conns \ {c} :
           /\ sock'[d] = sock[d] /\ asyncFor'[d] = asyncFor[d] /\ notify'[d] = notify[d]
           /\ writeDone'[d] = writeDone[d]
  BY <1>5 DEF CoTypes
<1>11. FinishedTypes
  BY <1>4, <1>7 DEF FinishedTypes
<1>12. FinishedAt(c, before, done)
  BY <1>4, <1>8, <1>9 DEF s, FinishedAt
<1> QED BY <1>4, <1>10, <1>11, <1>12

\* Every variable keeps its type.
LEMMA CoTypesStep ==
  ASSUME CoTypes, [CoServerNext]_coServerVars
  PROVE  CoTypes'
<1> USE CoServerAssumption
<1>s. CASE UNCHANGED coServerVars
  BY <1>s DEF coServerVars, CoTypes
<1>1. CASE Serve \/ Listen("listening") \/ Listen("failed")
  BY <1>1 DEF Serve, Listen, CoTypes
<1>2. ASSUME NEW c \in Conns, NEW ok \in BOOLEAN, Accept(c, ok) PROVE CoTypes'
  BY <1>2 DEF Accept, addCoroutine, Set, CoTypes
<1>3. ASSUME NEW c \in Conns, NEW ok \in BOOLEAN, ConnectDone(c, ok) PROVE CoTypes'
  <2>1. wake(call[c]) \in Seq(1..MaxCalls)
    BY WakeFacts DEF CoTypes
  <2>2. queue' \in [Conns -> Seq(1..MaxCalls)]
    BY <1>3, <2>1, ResumeFacts DEF ConnectDone, CoTypes
  <2> QED BY <1>3, <2>2 DEF ConnectDone, Set, CoTypes
<1>4. ASSUME NEW c \in Conns, UseCoClient(c) PROVE CoTypes'
  BY <1>4 DEF UseCoClient, addCoroutine, Set, CoTypes
<1>5. ASSUME NEW c \in Conns, Connect(c) PROVE CoTypes'
  <2>1. call[c] + 1 \in 0..MaxCalls
    BY <1>5 DEF Connect, CoTypes
  <2> QED BY <1>5, <2>1 DEF Connect, Set, CoTypes
<1>6. ASSUME NEW c \in Conns, Read(c) PROVE CoTypes'
  <2>1. call' = [call EXCEPT ![c] = call[c] + 1] /\ call[c] + 1 \in 0..MaxCalls
    BY <1>6 DEF Read, mayCall, Set, CoTypes
  <2>2. call'[c] \in 0..MaxCalls /\ call' \in [Conns -> 0..MaxCalls]
    BY <2>1 DEF CoTypes
  <2>3. queue' \in [Conns -> Seq(1..MaxCalls)]
    BY <1>6, <2>2, WakeFacts, ResumeFacts DEF Read, CoTypes
  <2>4. /\ coro' = [coro EXCEPT ![c] = "reading"] /\ counted' \in [Conns -> BOOLEAN]
        /\ readFor' \in [Conns -> 0..MaxCalls]
    BY <1>6, <2>2 DEF Read, Set, CoTypes
  <2>5. unheard' \in [Conns -> BOOLEAN]
    BY <1>6 DEF Read, Set, CoTypes
  <2> QED BY <1>6, <2>2, <2>3, <2>4, <2>5 DEF Read, CoTypes
<1>7. ASSUME NEW c \in Conns, Write(c) PROVE CoTypes'
  <2>1. call' = [call EXCEPT ![c] = call[c] + 1] /\ call[c] + 1 \in 0..MaxCalls
    BY <1>7 DEF Write, mayCall, Set, CoTypes
  <2>2. call'[c] \in 0..MaxCalls /\ call' \in [Conns -> 0..MaxCalls]
    BY <2>1 DEF CoTypes
  <2>3. queue' \in [Conns -> Seq(1..MaxCalls)]
    BY <1>7, <2>2, WakeFacts, ResumeFacts DEF Write, CoTypes
  <2>4. coro' = [coro EXCEPT ![c] = "writing"] /\ asyncFor' \in [Conns -> 0..MaxCalls]
    BY <1>7, <2>2 DEF Write, Set, CoTypes
  <2>5. unheard' \in [Conns -> BOOLEAN]
    <3>1. unheard' = unheard \/ unheard' = [unheard EXCEPT ![c] = writeDone[c]]
      BY <1>7 DEF Write, Set
    <3> QED BY <3>1 DEF CoTypes
  <2> QED BY <1>7, <2>2, <2>3, <2>4, <2>5 DEF Write, CoTypes
<1>8. ASSUME NEW c \in Conns, Finish(c) PROVE CoTypes'
  <2>1. finish(c, <<>>, writeDone[c]) /\ <<>> \in Seq(1..MaxCalls) /\ writeDone[c] \in BOOLEAN
    BY <1>8 DEF Finish, CoTypes
  <2>2. FinishedTypes
    BY <2>1, FinishLeaves
  <2> QED BY <1>8, <2>2 DEF FinishedTypes, Finish, CoTypes
<1>9. ASSUME NEW c \in Conns, Return(c) PROVE CoTypes'
  <2>1. wake(asyncFor[c]) \in Seq(1..MaxCalls)
    BY WakeFacts DEF CoTypes
  <2>2. queue' \in [Conns -> Seq(1..MaxCalls)]
    BY <1>9, <2>1, ResumeFacts DEF Return, CoTypes
  <2>3. asyncFor' \in [Conns -> 0..MaxCalls]
    <3>1. asyncFor' = asyncFor \/ asyncFor' = [asyncFor EXCEPT ![c] = 0]
      BY <1>9 DEF Return, Set
    <3>2. 0 \in 0..MaxCalls
      OBVIOUS
    <3> QED BY <3>1, <3>2 DEF CoTypes
  <2>4. /\ sock' \in [Conns -> {"none", "open", "finished", "unusable"}]
        /\ notify' \in [Conns -> BOOLEAN]
    BY <1>9 DEF Return, Set, CoTypes
  <2>5. coro' = [coro EXCEPT ![c] = "ended"]
    BY <1>9 DEF Return, Set
  <2>6. coro' \in [Conns -> {"none", "dropped", "ready", "connecting", "reading", "writing", "ended"}]
    BY <2>5 DEF CoTypes
  <2>7. UNCHANGED <<serving, table, call, readFor, writeFor, writeDone, counted, inTurns, unheard>>
    BY <1>9 DEF Return
  <2> QED BY <2>2, <2>3, <2>4, <2>6, <2>7 DEF CoTypes
<1>10. ASSUME NEW c \in Conns, wakeUp(c) PROVE CoTypes'
  <2>1. Tail(queue[c]) \in Seq(1..MaxCalls) /\ queue' = [queue EXCEPT ![c] = Tail(queue[c])]
    BY <1>10 DEF wakeUp, CoTypes
  <2> QED BY <1>10, <2>1 DEF wakeUp, Set, CoTypes
<1>11. ASSUME NEW c \in Conns, MessageComes(c) PROVE CoTypes'
  <2>1. wake(readFor[c]) \in Seq(1..MaxCalls)
    BY WakeFacts DEF CoTypes
  <2>2. queue' \in [Conns -> Seq(1..MaxCalls)]
    BY <1>11, <2>1, ResumeFacts DEF MessageComes, CoTypes
  <2>3. inTurns' \in [Conns -> BOOLEAN]
    BY <1>11 DEF MessageComes, Set, CoTypes
  <2> QED BY <1>11, <2>2, <2>3 DEF MessageComes, Set, CoTypes
<1>12. ASSUME NEW c \in Conns, PeerCloses(c) PROVE CoTypes'
  <2>1. wake(readFor[c]) \in Seq(1..MaxCalls) /\ writeDone[c] \in BOOLEAN
    BY WakeFacts DEF CoTypes
  <2>2. inTurns' \in [Conns -> BOOLEAN] /\ counted' \in [Conns -> BOOLEAN]
    BY <1>12 DEF PeerCloses, Set, CoTypes
  <2>3. finish(c, wake(readFor[c]), writeDone[c])
    BY <1>12 DEF PeerCloses
  <2>4. FinishedTypes
    BY <2>1, <2>3, FinishLeaves
  <2> QED BY <1>12, <2>2, <2>4 DEF FinishedTypes, PeerCloses, CoTypes
<1>13. ASSUME NEW c \in Conns, AsyncerRuns(c) PROVE CoTypes'
  BY <1>13 DEF AsyncerRuns, Set, CoTypes
<1>14. ASSUME NEW c \in Conns, WriteDone(c) PROVE CoTypes'
  <2>1. wake(writeFor[c]) \in Seq(1..MaxCalls)
    BY WakeFacts DEF CoTypes
  <2>2. queue' \in [Conns -> Seq(1..MaxCalls)]
    BY <1>14, <2>1, ResumeFacts DEF WriteDone
  <2> QED BY <1>14, <2>2 DEF WriteDone, Set, CoTypes
<1>15. ASSUME NEW c \in Conns, WriteFails(c) PROVE CoTypes'
  <2>1. wake(writeFor[c]) \in Seq(1..MaxCalls)
    BY WakeFacts DEF CoTypes
  <2>2. finish(c, wake(writeFor[c]), TRUE)
    BY <1>15 DEF WriteFails
  <2>3. FinishedTypes
    BY <2>1, <2>2, FinishLeaves
  <2> QED BY <1>15, <2>3 DEF FinishedTypes, WriteFails, CoTypes
<1> QED
  BY <1>s, <1>1, <1>2, <1>3, <1>4, <1>5, <1>6, <1>7, <1>8, <1>9, <1>10, <1>11, <1>12, <1>13,
     <1>14, <1>15
  DEF CoServerNext

-----------------------------------------------------------------------------
(***************************************************************************)
(* Wake-ups of a coroutine whose peer keeps to its turns: at most one is   *)
(* on its way, and it is for the call the coroutine is suspended in.  What *)
(* may still wake it (the connector, the Asyncer, the event) belongs to    *)
(* that call too.                                                          *)
(***************************************************************************)
OwnCall(c) ==
    /\ queue[c] = <<>> \/ (Suspended(c) /\ queue[c] = <<call[c]>>)
    /\ Suspended(c) => call[c] # 0
    /\ asyncFor[c] # 0 =>
          coro[c] = "writing" /\ asyncFor[c] = call[c] /\ queue[c] = <<>> /\ ~notify[c]
    /\ notify[c] => coro[c] = "writing" /\ writeFor[c] = call[c] /\ queue[c] = <<>>
    /\ writeFor[c] # 0 => writeDone[c] \/ notify[c]
    /\ coro[c] = "reading" /\ queue[c] = <<>> => readFor[c] = call[c]
    /\ sock[c] = "none" => /\ queue[c] = <<>> /\ coro[c] \notin {"reading", "writing"}
                           /\ c \in Accepted => coro[c] = "none"

OwnInv == CoServerTypeOK /\ \A c \in Conns : inTurns[c] => OwnCall(c)

\* What a step did to other connections does not matter to this one.
LEMMA OwnKept ==
  ASSUME NEW d \in Conns, OwnCall(d),
         sock'[d] = sock[d], coro'[d] = coro[d], call'[d] = call[d], readFor'[d] = readFor[d],
         asyncFor'[d] = asyncFor[d], writeFor'[d] = writeFor[d], notify'[d] = notify[d],
         writeDone'[d] = writeDone[d], queue'[d] = queue[d]
  PROVE  OwnCall(d)'
BY DEF OwnCall, Suspended

\* The state of one connection, in one record.
Of(d) == <<sock[d], coro[d], call[d], readFor[d], asyncFor[d], writeFor[d], notify[d],
           writeDone[d], queue[d], inTurns[d]>>

\* Each connection is on its own: a step of c leaves the others as they are.
LEMMA OthersAsTheyAre ==
  ASSUME CoTypes, NEW c \in Conns, NEW d \in Conns \ {c},
         \/ \E ok \in BOOLEAN : Accept(c, ok) \/ ConnectDone(c, ok)
         \/ UseCoClient(c) \/ Connect(c) \/ Read(c) \/ Write(c) \/ Finish(c) \/ Return(c)
         \/ wakeUp(c) \/ MessageComes(c) \/ PeerCloses(c)
         \/ AsyncerRuns(c) \/ WriteDone(c) \/ WriteFails(c)
  PROVE  Of(d)' = Of(d)
<1> USE DEF Set, resume, Of, CoTypes
<1>1. CASE \E ok \in BOOLEAN : Accept(c, ok) \/ ConnectDone(c, ok)
  BY <1>1 DEF Accept, ConnectDone, addCoroutine
<1>2. CASE UseCoClient(c) \/ Connect(c)
  BY <1>2 DEF UseCoClient, Connect, addCoroutine
<1>3. CASE Read(c)
  BY <1>3 DEF Read, mayCall
<1>4. CASE Write(c)
  BY <1>4 DEF Write, mayCall
<1>5. CASE Finish(c)
  BY <1>5 DEF Finish, finish
<1>6. CASE PeerCloses(c)
  BY <1>6 DEF PeerCloses, finish
<1>7. CASE WriteFails(c)
  BY <1>7 DEF WriteFails, finish
<1>8. CASE Return(c)
  BY <1>8 DEF Return
<1>9. CASE wakeUp(c) \/ AsyncerRuns(c)
  BY <1>9 DEF wakeUp, AsyncerRuns
<1>10. CASE MessageComes(c) \/ WriteDone(c)
  BY <1>10 DEF MessageComes, WriteDone
<1> QED BY <1>1, <1>2, <1>3, <1>4, <1>5, <1>6, <1>7, <1>8, <1>9, <1>10

\* A wake-up that finds the queue empty.
LEMMA FirstInQueue ==
  ASSUME CoTypes, NEW c \in Conns, NEW k \in 0..MaxCalls, queue[c] = <<>>, resume(c, wake(k))
  PROVE  (k = 0 => queue'[c] = <<>>) /\ (k # 0 => queue'[c] = <<k>>)
<1>1. wake(k) \in Seq(1..MaxCalls) /\ queue[c] \in Seq(1..MaxCalls)
  BY WakeFacts DEF CoTypes
<1>2. queue'[c] = queue[c] \o wake(k)
  BY <1>1, ResumeFacts
<1>3. queue'[c] = wake(k)
  BY <1>1, <1>2, RowFacts
<1> QED BY <1>3, WakeFacts

\* A step of c, while its peer keeps to its turns, leaves it with wake-ups of its own call.
LEMMA OwnStep ==
  ASSUME CoTypes, CoTypes', NEW c \in Conns, inTurns[c] => OwnCall(c), inTurns'[c],
         \/ \E ok \in BOOLEAN : Accept(c, ok) \/ ConnectDone(c, ok)
         \/ UseCoClient(c) \/ Connect(c) \/ Read(c) \/ Write(c) \/ Finish(c) \/ Return(c)
         \/ wakeUp(c) \/ MessageComes(c) \/ PeerCloses(c)
         \/ AsyncerRuns(c) \/ WriteDone(c) \/ WriteFails(c)
  PROVE  OwnCall(c)'
<1> USE CoServerAssumption
<1>i. inTurns[c]
  BY DEF Accept, ConnectDone, UseCoClient, Connect, Read, Write, Finish, Return, wakeUp,
     MessageComes,
         PeerCloses, AsyncerRuns, WriteDone, WriteFails, Set, CoTypes
<1>o. OwnCall(c)
  BY <1>i
<1>t. /\ call[c] \in 0..MaxCalls /\ readFor[c] \in 0..MaxCalls /\ asyncFor[c] \in 0..MaxCalls
      /\ writeFor[c] \in 0..MaxCalls /\ queue[c] \in Seq(1..MaxCalls) /\ call'[c] \in 0..MaxCalls
      /\ writeDone[c] \in BOOLEAN /\ notify[c] \in BOOLEAN
  BY DEF CoTypes
<1>w. ASSUME NEW k \in 0..MaxCalls
      PROVE  /\ wake(k) \in Seq(1..MaxCalls) /\ (k = 0 => wake(k) = <<>>) /\ (k # 0 => wake(k) = <<k>>)
  BY <1>w, WakeFacts
<1>1. ASSUME NEW ok \in BOOLEAN, Accept(c, ok) PROVE OwnCall(c)'
  <2>1. /\ coro'[c] \in {"ready", "dropped"} /\ sock'[c] # "none"
        /\ UNCHANGED <<call, readFor, asyncFor, writeFor, notify, writeDone, queue>>
    BY <1>1 DEF Accept, addCoroutine, Set, CoTypes
  <2>2. coro[c] = "none"
    BY <1>1, <1>o DEF Accept, OwnCall
  <2> QED BY <1>o, <2>1, <2>2 DEF OwnCall, Suspended
<1>2. ASSUME NEW ok \in BOOLEAN, ConnectDone(c, ok) PROVE OwnCall(c)'
  <2>1. /\ coro[c] = "connecting" /\ sock[c] = "none" /\ sock'[c] # "none"
        /\ UNCHANGED <<coro, call, readFor, asyncFor, writeFor, notify, writeDone>>
        /\ resume(c, wake(call[c])) \/ UNCHANGED queue
    BY <1>2 DEF ConnectDone, Set, CoTypes
  <2>2. queue[c] = <<>> /\ call[c] # 0 /\ asyncFor[c] = 0 /\ ~notify[c]
    BY <1>o, <2>1 DEF OwnCall, Suspended
  <2>3. queue'[c] = <<>> \/ queue'[c] = <<call[c]>>
    BY <1>t, <2>1, <2>2, FirstInQueue
  <2> QED BY <1>o, <2>1, <2>2, <2>3 DEF OwnCall, Suspended
<1>3. CASE UseCoClient(c)
  <2>1. /\ coro[c] = "none" /\ coro'[c] \in {"ready", "dropped"} /\ c \notin Accepted
        /\ UNCHANGED <<sock, call, readFor, asyncFor, writeFor, notify, writeDone, queue>>
    BY <1>3 DEF UseCoClient, addCoroutine, Set, CoTypes
  <2> QED BY <1>o, <2>1 DEF OwnCall, Suspended
<1>4. CASE Connect(c)
  <2>1. /\ coro[c] = "ready" /\ coro'[c] = "connecting" /\ c \notin Accepted
        /\ call'[c] = call[c] + 1
        /\ UNCHANGED <<sock, readFor, asyncFor, writeFor, notify, writeDone, queue>>
    BY <1>4 DEF Connect, Set, CoTypes
  <2> QED BY <1>o, <1>t, <2>1 DEF OwnCall, Suspended
<1>5. CASE Read(c)
  <2>1. /\ coro[c] = "ready" /\ coro'[c] = "reading" /\ sock[c] # "none" /\ call'[c] = call[c] + 1
        /\ UNCHANGED <<sock, asyncFor, writeFor, notify, writeDone>>
        /\ \/ resume(c, wake(call'[c])) /\ UNCHANGED readFor
           \/ readFor'[c] = call'[c] /\ UNCHANGED queue
    BY <1>5 DEF Read, mayCall, Set, CoTypes
  <2>2. queue[c] = <<>> /\ asyncFor[c] = 0 /\ ~notify[c] /\ call'[c] # 0
    BY <1>o, <1>t, <2>1 DEF OwnCall, Suspended
  <2>3. queue'[c] = <<call'[c]>> \/ (queue'[c] = <<>> /\ readFor'[c] = call'[c])
    <3>1. CASE resume(c, wake(call'[c]))
      BY <1>t, <2>2, <3>1, FirstInQueue
    <3>2. CASE readFor'[c] = call'[c] /\ UNCHANGED queue
      BY <2>2, <3>2
    <3> QED BY <2>1, <3>1, <3>2
  <2>4. <<call'[c]>> # <<>>
    OBVIOUS
  <2> QED BY <1>o, <2>1, <2>2, <2>3, <2>4 DEF OwnCall, Suspended
<1>6. CASE Write(c)
  <2>1. /\ coro[c] = "ready" /\ coro'[c] = "writing" /\ sock[c] # "none" /\ call'[c] = call[c] + 1
        /\ UNCHANGED <<sock, readFor, writeFor, notify, writeDone>>
        /\ \/ resume(c, wake(call'[c])) /\ UNCHANGED asyncFor
           \/ asyncFor'[c] = call'[c] /\ UNCHANGED queue
    BY <1>6 DEF Write, mayCall, Set, CoTypes
  <2>2. queue[c] = <<>> /\ asyncFor[c] = 0 /\ ~notify[c] /\ call'[c] # 0
    BY <1>o, <1>t, <2>1 DEF OwnCall, Suspended
  <2>3. \/ queue'[c] = <<call'[c]>> /\ asyncFor'[c] = 0
        \/ queue'[c] = <<>> /\ asyncFor'[c] = call'[c]
    BY <1>t, <2>1, <2>2, FirstInQueue
  <2> QED BY <1>o, <2>1, <2>2, <2>3 DEF OwnCall, Suspended
<1>7. CASE Finish(c)
  <2>1. finish(c, <<>>, writeDone[c]) /\ coro[c] = "ready" /\ UNCHANGED <<coro, call, readFor, writeFor>>
    BY <1>7 DEF Finish
  <2>2. /\ sock'[c] = "finished" /\ asyncFor'[c] = 0 /\ ~notify'[c]
        /\ writeDone'[c] <=> writeDone[c] \/ writeFor[c] # 0
        /\ queue'[c] = queue[c] \o (<<>> \o wake(asyncFor[c])
                                      \o wake(IF writeDone[c] THEN 0 ELSE writeFor[c]))
    <3>1. <<>> \in Seq(1..MaxCalls)
      OBVIOUS
    <3>2. FinishedAt(c, <<>>, writeDone[c])
      BY <1>t, <2>1, <3>1, FinishLeaves
    <3> QED BY <3>2 DEF FinishedAt
  <2>3. queue[c] = <<>> /\ asyncFor[c] = 0 /\ (IF writeDone[c] THEN 0 ELSE writeFor[c]) = 0
    BY <1>o, <2>1 DEF OwnCall, Suspended
  <2>4. wake(0) = <<>>
    BY <1>w
  <2>5. queue'[c] = <<>>
    <3>1. queue'[c] = <<>> \o (<<>> \o <<>> \o <<>>)
      BY <2>2, <2>3, <2>4
    <3> QED BY <3>1
  <2> QED BY <1>o, <2>1, <2>2, <2>5 DEF OwnCall, Suspended
<1>8. CASE Return(c)
  <2>1. /\ coro[c] = "ready" /\ coro'[c] = "ended"
        /\ UNCHANGED <<call, readFor, writeFor, writeDone>>
        /\ \/ /\ sock'[c] = "finished" /\ ~notify'[c] /\ resume(c, wake(asyncFor[c])) /\ asyncFor'[c] = 0
           \/ UNCHANGED <<sock, notify, asyncFor, queue>> /\ c \in Accepted
    BY <1>8 DEF Return, Set, CoTypes, Conns
  <2>2. queue[c] = <<>> /\ asyncFor[c] = 0 /\ ~notify[c]
    BY <1>o, <2>1 DEF OwnCall, Suspended
  <2>3. queue'[c] = <<>> /\ asyncFor'[c] = 0 /\ ~notify'[c]
    BY <1>t, <2>1, <2>2, FirstInQueue
  <2>4. sock'[c] # "none"
    BY <1>o, <2>1 DEF OwnCall
  <2> QED BY <1>o, <2>1, <2>2, <2>3, <2>4 DEF OwnCall, Suspended
<1>9. CASE wakeUp(c)
  <2>1. /\ queue[c] # <<>> /\ queue'[c] = Tail(queue[c])
        /\ Suspended(c) => coro'[c] = "ready"
        /\ UNCHANGED <<sock, call, readFor, asyncFor, writeFor, notify, writeDone>>
    BY <1>9 DEF wakeUp, Set, CoTypes
  <2>2. Suspended(c) /\ queue[c] = <<call[c]>> /\ sock[c] # "none"
    BY <1>o, <2>1 DEF OwnCall
  <2>3. queue'[c] = <<>>
    BY <2>1, <2>2
  <2> QED BY <1>o, <2>1, <2>2, <2>3 DEF OwnCall, Suspended
<1>10. CASE MessageComes(c)
  <2>1. /\ sock[c] = "open" /\ readsNow(c)
        /\ UNCHANGED <<sock, coro, call, asyncFor, writeFor, notify, writeDone, readFor>>
        /\ \/ readFor[c] = 0 /\ UNCHANGED queue
           \/ readFor[c] # 0 /\ resume(c, wake(readFor[c]))
    <3>1. readsNow(c)
      BY <1>10 DEF MessageComes, Set, CoTypes
    <3>2. UNCHANGED <<sock, coro, call, asyncFor, writeFor, notify, writeDone, readFor>>
      BY <1>10 DEF MessageComes
    <3>3. CASE readFor[c] = 0
      BY <1>10, <3>1, <3>2, <3>3 DEF MessageComes
    <3>4. CASE readFor[c] # 0
      BY <1>10, <3>1, <3>2, <3>4 DEF MessageComes
    <3> QED BY <3>3, <3>4
  <2>2. CASE readFor[c] = 0
    BY <1>o, <2>1, <2>2 DEF OwnCall, Suspended
  <2>3. CASE readFor[c] # 0
    <3>1. coro[c] = "reading" /\ queue[c] = <<>> /\ readFor[c] = call[c]
      BY <1>o, <2>1, <2>3 DEF readsNow, OwnCall
    <3>2. queue'[c] = <<call[c]>>
      BY <1>t, <2>1, <2>3, <3>1, FirstInQueue
    <3> QED BY <1>o, <2>1, <3>1, <3>2 DEF OwnCall, Suspended
  <2> QED BY <2>2, <2>3
<1>11. CASE PeerCloses(c)
  <2>1. /\ finish(c, wake(readFor[c]), writeDone[c]) /\ readsNow(c)
        /\ UNCHANGED <<coro, call, readFor, writeFor>>
    BY <1>11 DEF PeerCloses, Set, CoTypes
  <2> DEFINE late == IF writeDone[c] THEN 0 ELSE writeFor[c]
  <2>2. /\ sock'[c] = "finished" /\ asyncFor'[c] = 0 /\ ~notify'[c]
        /\ writeDone'[c] <=> writeDone[c] \/ writeFor[c] # 0
        /\ queue'[c] = queue[c] \o (wake(readFor[c]) \o wake(asyncFor[c]) \o wake(late))
    <3>1. FinishedAt(c, wake(readFor[c]), writeDone[c])
      BY <1>t, <1>w, <2>1, FinishLeaves
    <3> QED BY <3>1 DEF FinishedAt
  <2>3. late \in 0..MaxCalls /\ (late # 0 => notify[c] /\ late = call[c])
    BY <1>o, <1>t DEF OwnCall
  <2> HIDE DEF late
  <2>4. wake(0) = <<>> /\ (call[c] # 0 => wake(call[c]) = <<call[c]>>)
    BY <1>t, <1>w
  <2>5. CASE readFor[c] # 0 /\ coro[c] = "reading" /\ queue[c] = <<>>
    <3>1. readFor[c] = call[c] /\ asyncFor[c] = 0 /\ late = 0
      BY <1>o, <2>3, <2>5 DEF OwnCall
    <3>2. queue'[c] = <<call[c]>>
      <4>1. queue'[c] = <<>> \o (<<call[c]>> \o <<>> \o <<>>) /\ call[c] \in Nat
        <5>1. wake(readFor[c]) = <<call[c]>> /\ wake(asyncFor[c]) = <<>> /\ wake(late) = <<>>
          BY <2>4, <2>5, <3>1
        <5>2. call[c] \in Nat
          BY <1>t
        <5> QED BY <2>2, <2>5, <5>1, <5>2, Zenon
      <4>2. <<call[c]>> \in Seq(Nat)
        BY <4>1
      <4> QED BY <4>1, <4>2, RowFacts
    <3> QED BY <1>o, <2>1, <2>2, <2>5, <3>2 DEF OwnCall, Suspended
  <2>6. CASE readFor[c] = 0 /\ coro[c] = "reading" /\ queue[c] = <<>>
    BY <1>o, <2>6 DEF OwnCall, Suspended
  <2>7. CASE readFor[c] = 0 /\ ~(coro[c] = "reading" /\ queue[c] = <<>>)
    <3>1. CASE asyncFor[c] # 0
      <4>1. late = 0 /\ queue[c] = <<>> /\ asyncFor[c] = call[c] /\ coro[c] = "writing"
        BY <1>o, <2>3, <3>1 DEF OwnCall
      <4>2. queue'[c] = <<call[c]>>
        <5>1. queue'[c] = <<>> \o (<<>> \o <<call[c]>> \o <<>>) /\ call[c] \in Nat
          <6>1. wake(readFor[c]) = <<>> /\ wake(asyncFor[c]) = <<call[c]>> /\ wake(late) = <<>>
            BY <2>4, <2>7, <3>1, <4>1
          <6>2. call[c] \in Nat
            BY <1>t
          <6> QED BY <2>2, <4>1, <6>1, <6>2, Zenon
        <5>2. <<call[c]>> \in Seq(Nat)
          BY <5>1
        <5> QED BY <5>1, <5>2, RowFacts
      <4> QED BY <1>o, <2>1, <2>2, <4>1, <4>2 DEF OwnCall, Suspended
    <3>2. CASE asyncFor[c] = 0 /\ late # 0
      <4>1. queue[c] = <<>> /\ late = call[c] /\ coro[c] = "writing"
        BY <1>o, <2>3, <3>2 DEF OwnCall
      <4>2. queue'[c] = <<call[c]>>
        <5>1. queue'[c] = <<>> \o (<<>> \o <<>> \o <<call[c]>>) /\ call[c] \in Nat
          <6>1. wake(readFor[c]) = <<>> /\ wake(asyncFor[c]) = <<>> /\ wake(late) = <<call[c]>>
            BY <2>4, <2>7, <3>2, <4>1
          <6>2. call[c] \in Nat
            BY <1>t
          <6> QED BY <2>2, <4>1, <6>1, <6>2, Zenon
        <5>2. <<call[c]>> \in Seq(Nat)
          BY <5>1
        <5> QED BY <5>1, <5>2, RowFacts
      <4> QED BY <1>o, <2>1, <2>2, <4>1, <4>2 DEF OwnCall, Suspended
    <3>3. CASE asyncFor[c] = 0 /\ late = 0
      <4>1. queue'[c] = queue[c]
        <5>1. queue'[c] = queue[c] \o (<<>> \o <<>> \o <<>>)
          BY <2>2, <2>4, <2>7, <3>3
        <5> QED BY <1>t, <5>1, RowFacts
      <4> QED BY <1>o, <2>1, <2>2, <2>7, <4>1 DEF OwnCall, Suspended
    <3> QED BY <3>1, <3>2, <3>3
  <2> QED BY <2>1, <2>5, <2>6, <2>7 DEF readsNow
<1>12. CASE AsyncerRuns(c)
  <2>1. /\ asyncFor[c] # 0 /\ writeFor'[c] = asyncFor[c] /\ asyncFor'[c] = 0 /\ notify'[c]
        /\ UNCHANGED <<sock, coro, call, readFor, writeDone, queue>>
    BY <1>12 DEF AsyncerRuns, Set, CoTypes
  <2> QED BY <1>o, <2>1 DEF OwnCall, Suspended
<1>13. CASE WriteDone(c)
  <2>1. /\ notify[c] /\ ~notify'[c] /\ writeDone'[c] /\ resume(c, wake(writeFor[c]))
        /\ UNCHANGED <<sock, coro, call, readFor, asyncFor, writeFor>>
    BY <1>13 DEF WriteDone, Set, CoTypes
  <2>2. coro[c] = "writing" /\ writeFor[c] = call[c] /\ queue[c] = <<>> /\ call[c] # 0 /\ asyncFor[c] = 0
        /\ sock[c] # "none"
    BY <1>o, <2>1 DEF OwnCall, Suspended
  <2>3. queue'[c] = <<call[c]>>
    BY <1>t, <2>1, <2>2, FirstInQueue
  <2> QED BY <1>o, <2>1, <2>2, <2>3 DEF OwnCall, Suspended
<1>14. CASE WriteFails(c)
  <2>1. notify[c] /\ finish(c, wake(writeFor[c]), TRUE) /\ UNCHANGED <<coro, call, readFor, writeFor>>
    BY <1>14 DEF WriteFails
  <2>2. /\ sock'[c] = "finished" /\ asyncFor'[c] = 0 /\ ~notify'[c] /\ writeDone'[c]
        /\ queue'[c] = queue[c] \o (wake(writeFor[c]) \o wake(asyncFor[c]) \o wake(0))
    <3>1. FinishedAt(c, wake(writeFor[c]), TRUE)
      BY <1>t, <1>w, <2>1, FinishLeaves
    <3> QED BY <3>1 DEF FinishedAt
  <2>3. coro[c] = "writing" /\ writeFor[c] = call[c] /\ queue[c] = <<>> /\ call[c] # 0 /\ asyncFor[c] = 0
    BY <1>o, <2>1 DEF OwnCall, Suspended
  <2>4. wake(0) = <<>> /\ wake(call[c]) = <<call[c]>>
    BY <1>t, <1>w, <2>3
  <2>5. queue'[c] = <<call[c]>>
    <3>1. queue'[c] = <<>> \o (<<call[c]>> \o <<>> \o <<>>) /\ call[c] \in Nat
      <4>1. wake(writeFor[c]) = <<call[c]>> /\ wake(asyncFor[c]) = <<>>
        BY <2>3, <2>4
      <4>2. call[c] \in Nat
        BY <1>t
      <4> QED BY <2>2, <2>3, <2>4, <4>1, <4>2, Zenon
    <3>2. <<call[c]>> \in Seq(Nat)
      BY <3>1
    <3> QED BY <3>1, <3>2, RowFacts
  <2> QED BY <1>o, <2>1, <2>2, <2>3, <2>5 DEF OwnCall, Suspended
<1> QED
  BY <1>1, <1>2, <1>3, <1>4, <1>5, <1>6, <1>7, <1>8, <1>9, <1>10, <1>11, <1>12, <1>13, <1>14

\* Every connection whose peer keeps to its turns.
LEMMA OwnInvStep ==
  ASSUME OwnInv, [CoServerNext]_coServerVars
  PROVE  OwnInv'
<1>1. CoTypes /\ CoTypes'
  BY CoTypesAre, CoTypesStep DEF OwnInv
<1>2. CoServerTypeOK'
  <2>1. CoServerTypeOK' <=> CoTypes'
    BY DEF CoServerTypeOK, CoTypes
  <2> QED BY <1>1, <2>1
<1> SUFFICES ASSUME NEW d \in Conns, inTurns'[d] PROVE OwnCall(d)'
  BY <1>2 DEF OwnInv
<1>3. inTurns[d] => OwnCall(d)
  BY DEF OwnInv
<1>s. CASE UNCHANGED <<sock, coro, call, readFor, asyncFor, writeFor, notify, writeDone, queue, inTurns>>
  BY <1>3, <1>s DEF OwnCall, Suspended
<1>4. ASSUME NEW c \in Conns,
             \/ \E ok \in BOOLEAN : Accept(c, ok) \/ ConnectDone(c, ok)
             \/ UseCoClient(c) \/ Connect(c) \/ Read(c) \/ Write(c) \/ Finish(c) \/ Return(c)
             \/ wakeUp(c) \/ MessageComes(c) \/ PeerCloses(c)
             \/ AsyncerRuns(c) \/ WriteDone(c) \/ WriteFails(c)
      PROVE  OwnCall(d)'
  <2>1. CASE c = d
    BY <1>1, <1>3, <1>4, <2>1, OwnStep
  <2>2. CASE c # d
    <3>1. Of(d)' = Of(d)
      BY <1>1, <1>4, <2>2, OthersAsTheyAre
    <3>2. /\ sock'[d] = sock[d] /\ coro'[d] = coro[d] /\ call'[d] = call[d]
          /\ readFor'[d] = readFor[d] /\ asyncFor'[d] = asyncFor[d] /\ writeFor'[d] = writeFor[d]
          /\ notify'[d] = notify[d] /\ writeDone'[d] = writeDone[d] /\ queue'[d] = queue[d]
          /\ inTurns'[d] = inTurns[d]
      BY <3>1 DEF Of
    <3>3. OwnCall(d)
      BY <1>3, <3>2
    <3> QED BY <3>2, <3>3, OwnKept
  <2> QED BY <2>1, <2>2
<1>5. CASE Serve \/ Listen("listening") \/ Listen("failed") \/ UNCHANGED coServerVars
  BY <1>5, <1>s DEF Serve, Listen, coServerVars
<1> QED BY <1>4, <1>5 DEF CoServerNext

LEMMA OwnInvInit == CoServerInit => OwnInv
<1> SUFFICES ASSUME CoServerInit PROVE OwnInv
  OBVIOUS
<1>1. 0 \in 0..MaxCalls /\ <<>> \in Seq(1..MaxCalls)
  BY CoServerAssumption
<1>2. CoTypes
  BY <1>1 DEF CoServerInit, CoTypes
<1>3. \A c \in Conns : OwnCall(c)
  BY DEF CoServerInit, OwnCall, Suspended
<1> QED BY <1>2, <1>3, CoTypesAre DEF OwnInv

\* The wake-ups on their way, in every behaviour of the server.
THEOREM OwnInvHolds == CoServerSpec => []OwnInv
<1> QED BY OwnInvInit, OwnInvStep, PTL DEF CoServerSpec

(***************************************************************************)
(* The scheduler resumes a coroutine for the call it is suspended in, for  *)
(* any number of connections and calls, as long as its peer sends and      *)
(* closes only when it is read from (co_tcp_connection.cpp, Read, Write).  *)
(***************************************************************************)
THEOREM WakeForOwnCallHolds == CoServerSpec => WakeForOwnCall
<1>1. ASSUME OwnInv, NEW c \in Conns, inTurns[c], wakeUp(c), Suspended(c)
      PROVE  Head(queue[c]) = call[c]
  <2>1. queue[c] = <<call[c]>>
    BY <1>1 DEF OwnInv, OwnCall, wakeUp
  <2> QED BY <2>1
<1>2. OwnInv => \A c \in Conns : inTurns[c] /\ wakeUp(c) /\ Suspended(c) => Head(queue[c]) = call[c]
  BY <1>1
<1> QED BY <1>2, OwnInvHolds, PTL DEF WakeForOwnCall

-----------------------------------------------------------------------------
(***************************************************************************)
(* The four together (MCServices.tla): one is in use, and the others are   *)
(* as they were made.                                                      *)
(***************************************************************************)

\* The watch of the directory.
LEMMA LookTypesStep == LookTypeOK /\ [EtcdNext]_etcdVars => LookTypeOK'
<1> SUFFICES ASSUME LookTypeOK, [EtcdNext]_etcdVars PROVE LookTypeOK'
  OBVIOUS
<1> USE DEF LookTypeOK
<1>1. ASSUME UNCHANGED lookVars PROVE LookTypeOK'
  BY <1>1 DEF lookVars
<1>2. ASSUME Changed PROVE LookTypeOK'
  BY <1>2 DEF Changed, Held
<1>3. CASE \/ CreateEphemeral \/ createEphemeral \/ refresh \/ PutApplied
           \/ PutOk \/ PutErrorCode \/ PutError \/ PutParseError \/ Tick \/ OthersChange
  BY <1>1, <1>2, <1>3 DEF CreateEphemeral, createEphemeral, refresh, send, PutApplied, PutOk,
     PutErrorCode, PutError, PutParseError, Tick, OthersChange
<1>4. CASE ListWatch \/ ListRead \/ ListOk \/ ListError
  BY <1>4 DEF ListWatch, List, ListRead, ListOk, ListError, WatchOnce
<1>5. CASE WatchArrives \/ WatchOk \/ WatchError \/ watch
  BY <1>5 DEF WatchArrives, WatchOk, WatchError, watch, List, WatchOnce
<1>6. CASE UNCHANGED etcdVars
  BY <1>1, <1>6 DEF etcdVars
<1> QED BY <1>3, <1>4, <1>5, <1>6 DEF EtcdNext

\* No policy has more keys than there are nodes.
LEMMA FewKeys ==
  ASSUME keys \subseteq Nodes
  PROVE  /\ Cardinality(keys) \in 0..Cardinality(Nodes)
         /\ keys = {} <=> Cardinality(keys) = 0
<1>1. IsFiniteSet(Nodes) /\ IsFiniteSet(keys) /\ Cardinality(keys) <= Cardinality(Nodes)
  BY ClientChannelAssumption, FS_Subset
<1>2. Cardinality(keys) \in Nat /\ Cardinality(Nodes) \in Nat
  BY <1>1, FS_CardinalityType
<1> QED BY <1>1, <1>2, FS_EmptySet

\* An index is drawn for the keys there are: it fits the nodes, even when it
\* no longer fits the keys.
LEMMA ChannelTypesStep ==
    ChannelTypeOK /\ ChannelInv /\ [ChannelNext]_channelVars => ChannelTypeOK'
<1> SUFFICES ASSUME ChannelTypeOK, ChannelInv, [ChannelNext]_channelVars PROVE ChannelTypeOK'
  OBVIOUS
<1>k. /\ Cardinality(keys) \in 0..Cardinality(Nodes) /\ Cardinality(Nodes) \in Nat
      /\ keys = {} <=> Cardinality(keys) = 0
  BY FewKeys, ClientChannelAssumption, FS_CardinalityType DEF ChannelTypeOK
<1>n. DOMAIN node = Requests
  BY DEF ChannelInv, RequestInv
<1> USE DEF ChannelTypeOK
<1>1. ASSUME UNCHANGED getVars, disturbed' \subseteq Requests,
             /\ keys' \subseteq Nodes /\ pools' \subseteq Nodes /\ unmade' \subseteq Nodes
             /\ needAdd' \subseteq Nodes /\ needRemove' \subseteq Nodes
             /\ size' \in 0..Cardinality(Nodes) /\ update' \in {"idle", "swapped", "pools"}
      PROVE  ChannelTypeOK'
  BY <1>1 DEF getVars
<1>2. CASE \/ \E nodes \in SUBSET Nodes : UpdateKeys(nodes)
           \/ UpdateSize \/ UpdateDone
           \/ \E n \in Nodes : addAddr(n) \/ removeAddr(n)
  <2>1. UNCHANGED getVars /\ disturbed' \subseteq Requests
    BY <1>2 DEF UpdateKeys, UpdateSize, UpdateDone, addAddr, removeAddr, Disturb
  <2>2. /\ keys' \subseteq Nodes /\ pools' \subseteq Nodes /\ unmade' \subseteq Nodes
        /\ needAdd' \subseteq Nodes /\ needRemove' \subseteq Nodes
    BY <1>2 DEF UpdateKeys, UpdateSize, UpdateDone, addAddr, removeAddr
  <2>3. size' \in 0..Cardinality(Nodes) /\ update' \in {"idle", "swapped", "pools"}
    BY <1>2, <1>k DEF UpdateKeys, UpdateSize, UpdateDone, addAddr, removeAddr
  <2> QED BY <1>1, <2>1, <2>2, <2>3
<1>3. ASSUME NEW r \in Requests,
             CheckSize(r) \/ DrawIndex(r) \/ PickKey(r) \/ FindPool(r) \/ NextRequest(r)
      PROVE  ChannelTypeOK'
  <2> USE <1>k, <1>n DEF to, updateVars, GetStages
  <2>1. CASE CheckSize(r) \/ FindPool(r)
    BY <2>1 DEF CheckSize, FindPool
  <2>2. CASE DrawIndex(r)
    BY <2>2 DEF DrawIndex
  <2>3. CASE PickKey(r)
    BY <2>3 DEF PickKey
  <2>4. CASE NextRequest(r)
    BY <2>4 DEF NextRequest
  <2> QED BY <1>3, <2>1, <2>2, <2>3, <2>4
<1>4. CASE UNCHANGED channelVars
  BY <1>4 DEF channelVars, updateVars, getVars
<1> QED BY <1>2, <1>3, <1>4 DEF ChannelNext

ServicesInv ==
    /\ OwnInv /\ GrpcInv /\ LeaseInv /\ LookTypeOK
    /\ ChannelInv /\ ChannelTypeOK

(***************************************************************************)
(* The coroutines of servers and clients, the calls of the gRPC service,   *)
(* the registration, its watch and the channel stay what their variables'  *)
(* comments say, for all constants (the classes' members, co_server.cpp,   *)
(* grpc_service.h, etcd.cpp and client_channel.h).                         *)
(***************************************************************************)
THEOREM ServicesTypesHold == ServicesSpec => []ServicesTypesOK
<1>1. ServicesInit => ServicesInv
  <2> SUFFICES ASSUME ServicesInit PROVE ServicesInv
    OBVIOUS
  <2>1. OwnInv /\ GrpcInv /\ LeaseInv /\ ChannelInv
    BY OwnInvInit, GrpcInvInit, LeaseInit, ChannelInitInv DEF ServicesInit
  <2>2. LookTypeOK
    BY DEF ServicesInit, EtcdInit, LookTypeOK
  <2>3. ChannelTypeOK
    <3>1. Cardinality(Nodes) \in Nat
      BY ClientChannelAssumption, FS_CardinalityType
    <3> QED BY <3>1 DEF ServicesInit, ChannelInit, ChannelTypeOK, GetStages
  <2> QED BY <2>1, <2>2, <2>3 DEF ServicesInv
<1>2. [ServicesNext]_servicesVars
        => /\ [CoServerNext]_coServerVars /\ [GrpcNext]_grpcVars
           /\ [EtcdNext]_etcdVars /\ [ChannelNext]_channelVars
  BY DEF ServicesNext, servicesVars
<1>3. ServicesInv /\ [ServicesNext]_servicesVars => ServicesInv'
  BY <1>2, OwnInvStep, GrpcInvStep, LeaseStep, LookTypesStep, ChannelStep, ChannelTypesStep
     DEF ServicesInv
<1>4. ServicesInv => ServicesTypesOK
  BY DEF ServicesInv, OwnInv, GrpcInv, LeaseInv, ServicesTypesOK, EtcdTypeOK
<1> QED BY <1>1, <1>3, <1>4, PTL DEF ServicesSpec

=============================================================================
