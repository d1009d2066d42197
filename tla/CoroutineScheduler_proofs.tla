--------------------- MODULE CoroutineScheduler_proofs ---------------------
(***************************************************************************)
(* The scheduler's lists for every pool of slots and every way of waiting, *)
(* and its wake-ups for every pool when no wait has a timeout.             *)
(***************************************************************************)
EXTENDS MCCoroutineScheduler, SeqLemmas, WellFoundedInduction

\* ls is four lists that share out the slots.
FourLists(ls) == ls \in [ListNames -> Seq(Coros)] /\ Partition(ls, Coros)

\* ns is ls with c moved to the list l.
Moved(ls, ns, c, l) ==
    /\ Range(ns[l]) = Range(ls[l]) \cup {c}
    /\ \A m \in ListNames \ {l} : Range(ns[m]) = Range(ls[m]) \ {c}

\* Moving a slot changes the two lists it leaves and joins, and nothing else.
LEMMA MoveFacts ==
  ASSUME NEW ls, FourLists(ls), NEW c \in Coros, NEW l \in ListNames,
         NEW ns, ns = moveTo(ls, c, l)
  PROVE  FourLists(ns) /\ Moved(ls, ns, c, l)
<1> DEFINE S == Coros
<1>f. ls \in [ListNames -> Seq(S)] /\ Partition(ls, S)
  BY DEF FourLists
<1> USE <1>f
<1>0. ns = [m \in ListNames |->
              IF m = l THEN Cons(c, RemoveFirst(ls[m], c)) ELSE RemoveFirst(ls[m], c)]
  BY DEF moveTo
<1>1. ASSUME NEW m \in ListNames
      PROVE  /\ RemoveFirst(ls[m], c) \in Seq(S)
             /\ Range(RemoveFirst(ls[m], c)) = Range(ls[m]) \ {c}
             /\ IsInjective(RemoveFirst(ls[m], c))
  BY RemoveFirstFacts DEF Partition
<1>2. /\ ns[l] \in Seq(S) /\ IsInjective(ns[l])
      /\ Range(ns[l]) = Range(ls[l]) \cup {c}
  <2>1. ns[l] = Cons(c, RemoveFirst(ls[l], c))
    BY <1>0
  <2>2. c \notin Range(RemoveFirst(ls[l], c))
    BY <1>1
  <2> QED BY <1>1, <2>1, <2>2, ConsFacts
<1>3. ASSUME NEW m \in ListNames \ {l}
      PROVE  /\ ns[m] \in Seq(S) /\ IsInjective(ns[m])
             /\ Range(ns[m]) = Range(ls[m]) \ {c}
  BY <1>0, <1>1
<1>4. ns \in [ListNames -> Seq(S)]
  BY <1>0, <1>2, <1>3
<1>5. Partition(ns, S)
  <2>1. \A m \in ListNames : IsInjective(ns[m])
    BY <1>2, <1>3
  <2>2. ASSUME NEW m \in ListNames, NEW k \in ListNames, m # k
        PROVE  Range(ns[m]) \cap Range(ns[k]) = {}
    <3>1. Range(ls[m]) \cap Range(ls[k]) = {}
      BY <2>2 DEF Partition
    <3>2. CASE m = l
      BY <1>2, <1>3, <2>2, <3>1, <3>2
    <3>3. CASE k = l
      BY <1>2, <1>3, <2>2, <3>1, <3>3
    <3>4. CASE m # l /\ k # l
      BY <1>3, <3>1, <3>4
    <3> QED BY <3>2, <3>3, <3>4
  <2>3. \A d \in S : \E m \in ListNames : d \in Range(ns[m])
    BY <1>2, <1>3 DEF Partition
  <2> QED BY <2>1, <2>2, <2>3 DEF Partition
<1> QED BY <1>2, <1>3, <1>4, <1>5 DEF FourLists, Moved

\* An element of a sequence over S is in S.
LEMMA RangeIn ==
  ASSUME NEW S, NEW s \in Seq(S) PROVE Range(s) \subseteq S
  BY DEF Range

-----------------------------------------------------------------------------
(* The lists, whatever the coroutines do. *)

LInv == TypeOK /\ ListsPartition

\* The constructor leaves every slot on the free list.
LEMMA InitLInv == Init => LInv
<1> SUFFICES ASSUME Init PROVE LInv
  OBVIOUS
<1>1. PICK order \in SetToSeqs(Coros) :
        lists = [l \in ListNames |-> IF l = "free" THEN order ELSE <<>>]
  BY DEF Init
<1>2. order \in Seq(Coros) /\ Range(order) = Coros /\ IsInjective(order)
  BY CorosAssumption, EnumerationFacts
<1>3. lists \in [ListNames -> Seq(Coros)]
  BY <1>1, <1>2
<1>4. /\ lists["free"] = order
      /\ \A l \in ListNames \ {"free"} : lists[l] = <<>>
  BY <1>1 DEF ListNames
<1>5. ListsPartition
  <2>1. \A l \in ListNames : IsInjective(lists[l])
    BY <1>2, <1>4, EmptyFacts
  <2>2. \A l, m \in ListNames : l # m => Range(lists[l]) \cap Range(lists[m]) = {}
    BY <1>4, EmptyFacts
  <2>3. \A c \in Coros : \E l \in ListNames : c \in Range(lists[l])
    BY <1>2, <1>4 DEF ListNames
  <2> QED BY <2>1, <2>2, <2>3 DEF ListsPartition, Partition
<1>6. TypeOK
  <2>1. resumeQueue \in Seq(Coros) /\ waiters \in Seq(Coros) /\ batch \in Seq(Coros)
    BY DEF Init
  <2>2. pc \in [Coros -> Places]
    BY DEF Init, Places
  <2>3. isRunning \in BOOLEAN
    BY DEF Init
  <2>4. sleepQueue \subseteq [coro : Coros, left : 0..MaxSleep]
    BY DEF Init
  <2>5. phase \in Phases /\ cur \in Coros \cup {NoCoro}
    BY DEF Init, Phases
  <2>6. timedWaits \in 0..MaxTimed
    BY BoundsAssumption DEF Init
  <2> QED BY <1>3, <2>1, <2>2, <2>3, <2>4, <2>5, <2>6 DEF TypeOK
<1> QED BY <1>5, <1>6 DEF LInv

\* A step that moves one slot and gives the other variables legal values.
LEMMA MoveLInv ==
  ASSUME LInv, NEW c \in Coros, NEW l \in ListNames, lists' = moveTo(lists, c, l)
  PROVE  /\ lists' \in [ListNames -> Seq(Coros)] /\ ListsPartition'
         /\ Range(lists'[l]) = Range(lists[l]) \cup {c}
         /\ \A m \in ListNames \ {l} : Range(lists'[m]) = Range(lists[m]) \ {c}
<1>1. PICK ls : ls = lists /\ FourLists(ls)
  BY DEF LInv, TypeOK, ListsPartition, FourLists
<1>2. PICK ns : ns = moveTo(ls, c, l)
  OBVIOUS
<1>3. FourLists(ns) /\ Moved(ls, ns, c, l)
  BY <1>1, <1>2, MoveFacts
<1>4. lists' = ns
  BY <1>1, <1>2
<1> QED BY <1>1, <1>3, <1>4 DEF ListsPartition, FourLists, Moved

\* The due sleepers are finitely many coroutines.
LEMMA DueFacts ==
  ASSUME TypeOK
  PROVE  /\ {e.coro : e \in Due} \subseteq Coros
         /\ IsFiniteSet({e.coro : e \in Due})
<1>1. {e.coro : e \in Due} \subseteq Coros
  BY DEF TypeOK, Due
<1> QED BY <1>1, CorosAssumption, FS_Subset

\* Every step keeps the types and the partition of the slots.
LEMMA NextLInv == LInv /\ [Next]_vars => LInv'
<1> SUFFICES ASSUME LInv, [Next]_vars PROVE LInv'
  OBVIOUS
<1> USE BoundsAssumption
<1>t. TypeOK BY DEF LInv
<1>n. /\ "free" \in ListNames /\ "yield" \in ListNames
      /\ "suspend" \in ListNames /\ "resume" \in ListNames
  BY DEF ListNames
<1>1. CASE wakeUpSleep
  <2>1. PICK order \in SetToSeqs({e.coro : e \in Due}) : resumeQueue' = resumeQueue \o order
    BY <1>1 DEF wakeUpSleep
  <2>2. order \in Seq({e.coro : e \in Due})
    BY <1>t, DueFacts, EnumerationFacts
  <2>3. order \in Seq(Coros)
    BY <1>t, <2>2, DueFacts
  <2>4. resumeQueue' \in Seq(Coros)
    BY <1>t, <2>1, <2>3, ConcatFacts DEF TypeOK
  <2>5. phase' \in Phases /\ sleepQueue' \subseteq [coro : Coros, left : 0..MaxSleep]
    BY <1>t, <1>1 DEF wakeUpSleep, TypeOK, Phases
  <2> QED BY <1>1, <2>4, <2>5 DEF wakeUpSleep, LInv, TypeOK, ListsPartition
<1>2. CASE drainOne
  <2>1. Head(resumeQueue) \in Coros /\ resumeQueue' \in Seq(Coros)
    BY <1>t, <1>2, TailFacts DEF drainOne, TypeOK
  <2>2. lists' \in [ListNames -> Seq(Coros)] /\ ListsPartition'
    BY <1>n, <1>2, <2>1, MoveLInv DEF drainOne
  <2> QED BY <1>t, <1>2, <2>1, <2>2 DEF drainOne, LInv, TypeOK
<1>3. CASE startResume \/ startYield
  <2>1. batch' \in Seq(Coros) /\ phase' \in Phases
    BY <1>t, <1>n, <1>3 DEF startResume, startYield, TypeOK, Phases
  <2> QED BY <1>3, <2>1 DEF startResume, startYield, LInv, TypeOK, ListsPartition
<1>4. CASE switchTo
  <2>1. cur' \in Coros /\ batch' \in Seq(Coros)
    BY <1>t, <1>4, TailFacts DEF switchTo, TypeOK
  <2> QED BY <1>4, <2>1 DEF switchTo, LInv, TypeOK, ListsPartition
<1>5. CASE endIteration \/ leaveRun
  BY <1>5 DEF endIteration, leaveRun, LInv, TypeOK, ListsPartition, Phases
<1>6. CASE yield \/ endFunc \/ waitSuspend
  <2>1. cur \in Coros /\ cur' \in Coros \cup {NoCoro}
    BY <1>t, <1>6 DEF yield, endFunc, waitSuspend, InBody, TypeOK
  <2>2. lists' \in [ListNames -> Seq(Coros)] /\ ListsPartition'
    BY <1>n, <1>6, <2>1, MoveLInv DEF yield, endFunc, waitSuspend
  <2>3. pc' \in [Coros -> Places]
    BY <1>t, <1>6, <2>1 DEF yield, endFunc, waitSuspend, TypeOK, Places
  <2> QED BY <1>t, <1>6, <2>1, <2>2, <2>3 DEF yield, endFunc, waitSuspend, LInv, TypeOK
<1>7. ASSUME NEW ms \in 0..MaxSleep, sleep(ms) \/ waitSleep(ms) PROVE LInv'
  <2>1. cur \in Coros /\ cur' \in Coros \cup {NoCoro}
    BY <1>t, <1>7 DEF sleep, waitSleep, InBody, TypeOK
  <2>2. lists' \in [ListNames -> Seq(Coros)] /\ ListsPartition'
    BY <1>n, <1>7, <2>1, MoveLInv DEF sleep, waitSleep
  <2>3. pc' \in [Coros -> Places]
    BY <1>t, <1>7, <2>1 DEF sleep, waitSleep, TypeOK, Places
  <2>4. sleepQueue' \subseteq [coro : Coros, left : 0..MaxSleep]
    <3>1. sleepQueue' = sleepQueue \cup {[coro |-> cur, left |-> ms]}
      BY <1>7 DEF sleep, waitSleep
    <3> QED BY <1>t, <2>1, <3>1 DEF TypeOK
  <2> QED BY <1>t, <1>7, <2>1, <2>2, <2>3, <2>4 DEF sleep, waitSleep, LInv, TypeOK
<1>8. CASE waitPush
  <2>1. cur \in Coros
    BY <1>t, <1>8 DEF waitPush, InBody, TypeOK
  <2>2. waiters' \in Seq(Coros)
    BY <1>t, <1>8, <2>1, AppendFacts DEF waitPush, TypeOK
  <2>3. pc' \in [Coros -> Places]
    BY <1>t, <1>8, <2>1 DEF waitPush, TypeOK, Places
  <2>4. timedWaits' \in 0..MaxTimed
    BY <1>t, <1>8 DEF waitPush, TypeOK
  <2> QED BY <1>8, <2>2, <2>3, <2>4 DEF waitPush, LInv, TypeOK, ListsPartition
<1>9. CASE addCoroutine
  <2>1. PICK info : info = Head(lists["free"])
    OBVIOUS
  <2>2. info \in Coros
    BY <1>t, <1>n, <1>9, <2>1, TailFacts DEF addCoroutine, TypeOK
  <2>3. lists' \in [ListNames -> Seq(Coros)] /\ ListsPartition'
    BY <1>n, <1>9, <2>1, <2>2, MoveLInv DEF addCoroutine
  <2>4. pc' \in [Coros -> Places]
    BY <1>t, <1>9, <2>1, <2>2 DEF addCoroutine, TypeOK, Places
  <2> QED BY <1>t, <1>9, <2>3, <2>4 DEF addCoroutine, LInv, TypeOK
<1>10. CASE notify_one
  <2>1. waiters' \in Seq(Coros) /\ resumeQueue' \in Seq(Coros)
    BY <1>t, <1>10, TailFacts, AppendFacts DEF notify_one, TypeOK
  <2> QED BY <1>10, <2>1 DEF notify_one, LInv, TypeOK, ListsPartition
<1>11. CASE notify_all
  <2>1. waiters' \in Seq(Coros) /\ resumeQueue' \in Seq(Coros)
    BY <1>t, <1>11, ConcatFacts DEF notify_all, TypeOK
  <2> QED BY <1>11, <2>1 DEF notify_all, LInv, TypeOK, ListsPartition
<1>12. CASE stop
  BY <1>12 DEF stop, LInv, TypeOK, ListsPartition
<1>13. CASE Tick
  <2>1. sleepQueue' \subseteq [coro : Coros, left : 0..MaxSleep]
    <3>1. ASSUME NEW e \in sleepQueue
          PROVE  [e EXCEPT !.left = IF @ > 0 THEN @ - 1 ELSE 0]
                    \in [coro : Coros, left : 0..MaxSleep]
      <4>1. e \in [coro : Coros, left : 0..MaxSleep]
        BY <1>t DEF TypeOK
      <4>2. (IF e.left > 0 THEN e.left - 1 ELSE 0) \in 0..MaxSleep
        BY <4>1
      <4> QED BY <4>1, <4>2
    <3> QED BY <1>13, <3>1 DEF Tick
  <2> QED BY <1>13, <2>1 DEF Tick, LInv, TypeOK, ListsPartition
<1>14. CASE UNCHANGED vars
  BY <1>14 DEF vars, LInv, TypeOK, ListsPartition
<1> QED
  BY <1>1, <1>2, <1>3, <1>4, <1>5, <1>6, <1>7, <1>8, <1>9, <1>10, <1>11, <1>12, <1>13, <1>14
  DEF Next, run, Coroutine, AnyThread

\* Types and lists, for every pool and with or without timed waits.
THEOREM LInvHolds == Spec => []LInv
  BY InitLInv, NextLInv, PTL DEF Spec

\* The variables of the scheduler keep their types.
THEOREM TypeCorrect == Spec => []TypeOK
  BY LInvHolds, PTL DEF LInv

\* No slot is ever lost from the pool or linked into two lists.
THEOREM ListsPartitionHolds == Spec => []ListsPartition
  BY LInvHolds, PTL DEF LInv

-----------------------------------------------------------------------------
(***************************************************************************)
(* The wake-ups, when no wait has a timeout.  SoleWaker and FreshBatch      *)
(* depend on each other and on where the running coroutine and the ones    *)
(* without a context are: only with all of it does a step keep any of it.  *)
(***************************************************************************)
\* The coroutine that runs is still on the list it was taken from.
CurListed == cur # NoCoro => phase \in {"resume", "yield"} /\ cur \in Range(lists[phase])

\* The free slots are those without a context; only the running one is inside wait.
PcListed ==
    \A c \in Coros : /\ c \in Range(lists["free"]) <=> pc[c] = "none"
                     /\ pc[c] = "wait" => cur = c
                     /\ pc[c] # "timedWait"

IInv == LInv /\ FreshBatch /\ SoleWaker /\ CurListed /\ PcListed

\* Nothing runs and nothing is left to switch to at the top and in the drain.
LEMMA Idle ==
  ASSUME FreshBatch, CurListed, phase \notin {"resume", "yield"}
  PROVE  cur = NoCoro /\ batch = <<>>
  BY DEF FreshBatch, CurListed

\* The constructor's state: no coroutine exists.
LEMMA InitIInv == Init => IInv
<1> SUFFICES ASSUME Init PROVE IInv
  OBVIOUS
<1>1. LInv
  BY InitLInv
<1>2. PICK order \in SetToSeqs(Coros) :
        lists = [l \in ListNames |-> IF l = "free" THEN order ELSE <<>>]
  BY DEF Init
<1>3. Range(order) = Coros
  BY CorosAssumption, EnumerationFacts
<1>4. Range(lists["free"]) = Coros /\ Range(lists["suspend"]) = {}
  BY <1>2, <1>3, EmptyFacts DEF ListNames
<1>5. FreshBatch /\ CurListed
  BY EmptyFacts DEF Init, FreshBatch, CurListed
<1>6. PcListed
  BY <1>4 DEF Init, PcListed
<1>7. SoleWaker
  <2>1. Sleepers = {}
    BY DEF Init, Sleepers
  <2>2. \A c \in Coros : ~Blocking(c)
    BY <1>4 DEF Init, Blocking
  <2> QED BY <2>1, <2>2, EmptyFacts DEF Init, SoleWaker
<1> QED BY <1>1, <1>5, <1>6, <1>7 DEF IInv

\* Where everything is after a move, list by list.
LEMMA MovedRanges ==
  ASSUME LInv, NEW c \in Coros, NEW l \in ListNames, lists' = moveTo(lists, c, l)
  PROVE  \A m \in ListNames :
            Range(lists'[m]) = IF m = l THEN Range(lists[m]) \cup {c}
                                        ELSE Range(lists[m]) \ {c}
<1>1. Range(lists'[l]) = Range(lists[l]) \cup {c}
  BY MoveLInv
<1>2. \A m \in ListNames \ {l} : Range(lists'[m]) = Range(lists[m]) \ {c}
  BY MoveLInv
<1> QED BY <1>1, <1>2

\* Every step keeps all of it.
LEMMA NextIInv ==
  IInv /\ [Next]_vars /\ Untimed' => IInv'
<1> SUFFICES ASSUME IInv, [Next]_vars, Untimed' PROVE IInv'
  OBVIOUS
<1>l. LInv /\ LInv' /\ TypeOK /\ ListsPartition
  BY NextLInv DEF IInv, LInv
<1>i. FreshBatch /\ SoleWaker /\ CurListed /\ PcListed
  BY DEF IInv
<1>n. /\ "free" \in ListNames /\ "yield" \in ListNames
      /\ "suspend" \in ListNames /\ "resume" \in ListNames
  BY DEF ListNames
<1>d. /\ \A l, m \in ListNames : l # m => Range(lists[l]) \cap Range(lists[m]) = {}
      /\ \A l \in ListNames : lists[l] \in Seq(Coros) /\ IsInjective(lists[l])
      /\ \A l \in ListNames : Range(lists[l]) \subseteq Coros
  BY <1>l, RangeIn DEF ListsPartition, Partition, TypeOK
<1>c. NoCoro \notin Coros
  BY NoCoroAssumption
<1>s. ASSUME UNCHANGED <<lists, resumeQueue, sleepQueue, waiters, pc>> PROVE SoleWaker'
  BY <1>i, <1>s DEF SoleWaker, Blocking, Sleepers
<1>1. CASE wakeUpSleep
  <2>0. cur = NoCoro /\ batch = <<>>
    BY <1>i, <1>1, Idle DEF wakeUpSleep
  <2>1. PICK order \in SetToSeqs({e.coro : e \in Due}) : resumeQueue' = resumeQueue \o order
    BY <1>1 DEF wakeUpSleep
  <2>2. PICK D : D = {e.coro : e \in Due}
    OBVIOUS
  <2>3. D \subseteq Coros /\ order \in Seq(D) /\ Range(order) = D /\ IsInjective(order)
    BY <1>l, <2>1, <2>2, DueFacts, EnumerationFacts
  <2>4. D \subseteq Sleepers
    BY <2>2 DEF Due, Sleepers
  <2>5. Sleepers' = Sleepers \ D
    <3>1. sleepQueue' = sleepQueue \ Due
      BY <1>1 DEF wakeUpSleep
    <3>2. ASSUME NEW e \in sleepQueue \ Due PROVE e.coro \notin D
      BY <1>i, <2>2 DEF SoleWaker, Due
    <3> QED BY <2>2, <3>1, <3>2 DEF Sleepers, Due
  <2>6. D \cap Range(resumeQueue) = {}
    BY <1>i, <2>4 DEF SoleWaker
  <2>7. order \in Seq(Coros)
    BY <2>3
  <2>8. Range(resumeQueue') = Range(resumeQueue) \cup D /\ IsInjective(resumeQueue')
    BY <1>l, <1>i, <2>1, <2>3, <2>6, <2>7, ConcatFacts DEF TypeOK, SoleWaker
  <2>9. SoleWaker'
    <3>1. UNCHANGED <<lists, waiters, pc>> /\ sleepQueue' \subseteq sleepQueue
      BY <1>1 DEF wakeUpSleep
    <3>2. \A e, f \in sleepQueue' : e.coro = f.coro => e = f
      BY <1>i, <3>1 DEF SoleWaker
    <3>3. \A c \in Coros : Blocking(c)' <=> Blocking(c)
      BY <3>1 DEF Blocking
    <3> QED BY <1>i, <2>4, <2>5, <2>8, <3>1, <3>2, <3>3 DEF SoleWaker
  <2> QED BY <1>l, <1>i, <1>1, <2>0, <2>9, EmptyFacts
          DEF wakeUpSleep, IInv, FreshBatch, CurListed, PcListed
<1>2. CASE drainOne
  <2>0. cur = NoCoro /\ batch = <<>>
    BY <1>i, <1>2, Idle DEF drainOne
  <2>1. PICK h : h = Head(resumeQueue)
    OBVIOUS
  <2>2. /\ h \in Coros /\ h \in Range(resumeQueue)
        /\ Range(resumeQueue') = Range(resumeQueue) \ {h} /\ IsInjective(resumeQueue')
    BY <1>l, <1>i, <1>2, <2>1, TailFacts DEF drainOne, TypeOK, SoleWaker
  <2>3. \A c \in Coros : pc[c] # "wait"
    BY <1>i, <1>c, <2>0 DEF PcListed
  <2>4. h \in Range(lists["suspend"])
    BY <1>i, <2>2, <2>3 DEF SoleWaker, Blocking
  <2>5. /\ Range(lists'["suspend"]) = Range(lists["suspend"]) \ {h}
        /\ Range(lists'["free"]) = Range(lists["free"])
    <3>1. lists' = moveTo(lists, h, "resume")
      BY <1>2, <2>1 DEF drainOne
    <3>2. \A m \in ListNames :
            Range(lists'[m]) = IF m = "resume" THEN Range(lists[m]) \cup {h}
                                               ELSE Range(lists[m]) \ {h}
      BY <1>l, <1>n, <2>2, <3>1, MovedRanges
    <3>3. h \notin Range(lists["free"])
      BY <1>n, <1>d, <2>4
    <3> QED BY <1>n, <3>2, <3>3
  <2>6. SoleWaker'
    <3>1. UNCHANGED <<sleepQueue, waiters, pc, Sleepers>>
      BY <1>2 DEF drainOne, Sleepers
    <3>2. \A c \in Coros : Blocking(c)' <=> Blocking(c) /\ c # h
      BY <2>3, <2>5, <3>1 DEF Blocking
    <3> QED BY <1>i, <2>2, <3>1, <3>2 DEF SoleWaker
  <2> QED BY <1>l, <1>i, <1>2, <2>0, <2>5, <2>6
          DEF drainOne, IInv, FreshBatch, CurListed, PcListed
<1>3. CASE startResume \/ startYield
  <2>0. cur = NoCoro
    BY <1>i, <1>3, Idle DEF startResume, startYield
  <2>1. FreshBatch'
    BY <1>n, <1>d, <1>c, <1>3, <2>0 DEF startResume, startYield, FreshBatch
  <2> QED BY <1>l, <1>i, <1>s, <1>3, <2>0, <2>1
          DEF startResume, startYield, IInv, CurListed, PcListed
<1>4. CASE switchTo
  <2>1. /\ cur' \in Range(batch) /\ cur' \notin Range(batch')
        /\ Range(batch') \subseteq Range(batch) /\ IsInjective(batch')
    BY <1>l, <1>i, <1>4, TailFacts DEF switchTo, TypeOK, FreshBatch
  <2>2. \A c \in Coros : pc[c] # "wait"
    BY <1>i, <1>c, <1>4 DEF switchTo, PcListed
  <2> QED BY <1>l, <1>i, <1>s, <1>4, <2>1, <2>2
          DEF switchTo, IInv, FreshBatch, CurListed, PcListed
<1>5. CASE endIteration \/ leaveRun
  <2>0. cur = NoCoro /\ batch = <<>>
    BY <1>i, <1>5, Idle DEF endIteration, leaveRun
  <2> QED BY <1>l, <1>i, <1>s, <1>5, <2>0, EmptyFacts
          DEF endIteration, leaveRun, IInv, FreshBatch, CurListed, PcListed
<1>6. ASSUME cur # NoCoro
      PROVE  /\ cur \in Coros /\ phase \in {"resume", "yield"} /\ cur \in Range(lists[phase])
             /\ cur \notin Range(lists["suspend"]) /\ cur \notin Range(lists["free"])
             /\ pc[cur] = "body" => cur \notin Sleepers \cup Range(waiters) \cup Range(resumeQueue)
             /\ pc[cur] = "wait" => cur \in Sleepers \cup Range(waiters) \cup Range(resumeQueue)
             /\ \A c \in Coros \ {cur} : pc[c] # "wait"
  <2>1. cur \in Coros /\ phase \in {"resume", "yield"} /\ cur \in Range(lists[phase])
    BY <1>l, <1>i, <1>6 DEF TypeOK, CurListed
  <2>2. cur \notin Range(lists["suspend"]) /\ cur \notin Range(lists["free"])
    BY <1>n, <1>d, <2>1
  <2>3. Blocking(cur) <=> cur \in Sleepers \cup Range(waiters) \cup Range(resumeQueue)
    BY <1>i, <2>1 DEF SoleWaker
  <2>4. Blocking(cur) <=> pc[cur] = "wait"
    BY <2>2 DEF Blocking
  <2>5. \A c \in Coros \ {cur} : pc[c] # "wait"
    BY <1>i DEF PcListed
  <2> QED BY <2>1, <2>2, <2>3, <2>4, <2>5
\* The running coroutine gives control back: it moves, and the rest of the batch stays put.
<1>7. ASSUME cur # NoCoro, NEW l \in ListNames, lists' = moveTo(lists, cur, l),
             cur' = NoCoro, UNCHANGED <<batch, phase>>
      PROVE  /\ FreshBatch' /\ CurListed'
             /\ \A m \in ListNames :
                  Range(lists'[m]) = IF m = l THEN Range(lists[m]) \cup {cur}
                                              ELSE Range(lists[m]) \ {cur}
  <2>1. PICK c \in Coros : c = cur
    BY <1>6, <1>7
  <2>2. \A m \in ListNames :
          Range(lists'[m]) = IF m = l THEN Range(lists[m]) \cup {c}
                                      ELSE Range(lists[m]) \ {c}
    BY <1>l, <1>7, <2>1, MovedRanges
  <2>3. Range(batch) \subseteq Coros
    BY <1>l, RangeIn DEF TypeOK
  <2>4. Range(batch') \subseteq Range(lists'[phase'])
    BY <1>n, <1>i, <1>6, <1>7, <2>1, <2>2 DEF FreshBatch
  <2> QED BY <1>i, <1>c, <1>6, <1>7, <2>1, <2>2, <2>3, <2>4 DEF FreshBatch, CurListed
<1>8. CASE yield
  <2>0. /\ cur # NoCoro /\ pc[cur] = "body" /\ lists' = moveTo(lists, cur, "yield")
        /\ cur' = NoCoro /\ UNCHANGED <<resumeQueue, sleepQueue, waiters, phase, batch, pc, Sleepers>>
    BY <1>8 DEF yield, InBody, Sleepers
  <2>1. FreshBatch' /\ CurListed'
    BY <1>n, <1>7, <2>0
  <2>2. /\ Range(lists'["free"]) = Range(lists["free"])
        /\ Range(lists'["suspend"]) = Range(lists["suspend"])
    <3>1. \A m \in ListNames :
            Range(lists'[m]) = IF m = "yield" THEN Range(lists[m]) \cup {cur}
                               ELSE Range(lists[m]) \ {cur}
      BY <1>n, <1>7, <2>0
    <3>2. cur \notin Range(lists["suspend"]) /\ cur \notin Range(lists["free"])
      BY <1>6, <2>0
    <3> QED BY <1>n, <3>1, <3>2
  <2>3. PcListed'
    BY <1>i, <2>0, <2>2 DEF PcListed
  <2>4. SoleWaker'
    BY <1>i, <2>0, <2>2 DEF SoleWaker, Blocking
  <2> QED BY <1>l, <2>1, <2>3, <2>4 DEF IInv
<1>9. ASSUME NEW ms \in 0..MaxSleep, sleep(ms) PROVE IInv'
  <2>0. /\ cur # NoCoro /\ pc[cur] = "body" /\ lists' = moveTo(lists, cur, "suspend")
        /\ cur' = NoCoro /\ UNCHANGED <<resumeQueue, waiters, phase, batch, pc>>
        /\ sleepQueue' = sleepQueue \cup {[coro |-> cur, left |-> ms]}
    BY <1>9 DEF sleep, InBody
  <2>1. FreshBatch' /\ CurListed'
    BY <1>n, <1>7, <2>0
  <2>2. /\ Range(lists'["free"]) = Range(lists["free"])
        /\ Range(lists'["suspend"]) = Range(lists["suspend"]) \cup {cur}
    <3>1. \A m \in ListNames :
            Range(lists'[m]) = IF m = "suspend" THEN Range(lists[m]) \cup {cur}
                               ELSE Range(lists[m]) \ {cur}
      BY <1>n, <1>7, <2>0
    <3>2. cur \notin Range(lists["suspend"]) /\ cur \notin Range(lists["free"])
      BY <1>6, <2>0
    <3> QED BY <1>n, <3>1, <3>2
  <2>3. PcListed'
    BY <1>i, <2>0, <2>2, <1>6 DEF PcListed
  <2>4. SoleWaker'
    <3>1. Sleepers' = Sleepers \cup {cur}
      <4>1. PICK e : e = [coro |-> cur, left |-> ms]
        OBVIOUS
      <4>2. e.coro = cur /\ sleepQueue' = sleepQueue \cup {e}
        BY <2>0, <4>1
      <4> QED BY <4>2 DEF Sleepers
    <3>2. \A e \in sleepQueue : e.coro # cur
      BY <1>6, <2>0 DEF Sleepers
    <3>3. \A e, f \in sleepQueue' : e.coro = f.coro => e = f
      BY <1>i, <2>0, <3>2 DEF SoleWaker
    <3>4. \A c \in Coros : Blocking(c)' <=> Blocking(c) \/ c = cur
      BY <2>0, <2>2 DEF Blocking
    <3> QED BY <1>i, <1>6, <2>0, <3>1, <3>3, <3>4 DEF SoleWaker
  <2> QED BY <1>l, <2>1, <2>3, <2>4 DEF IInv
<1>10. CASE waitPush
  <2>0. /\ cur # NoCoro /\ pc[cur] = "body" /\ pc' = [pc EXCEPT ![cur] = "wait"]
        /\ waiters' = Append(waiters, cur)
        /\ UNCHANGED <<lists, resumeQueue, sleepQueue, phase, batch, cur, Sleepers>>
    <3>1. timedWaits \in Nat /\ timedWaits' = 0
      BY <1>l, BoundsAssumption DEF TypeOK, Untimed
    <3> QED BY <1>10, <3>1 DEF waitPush, InBody, Sleepers
  <2>1. FreshBatch' /\ CurListed'
    BY <1>i, <2>0 DEF FreshBatch, CurListed
  <2>2. PcListed'
    BY <1>l, <1>i, <1>6, <2>0 DEF PcListed, TypeOK
  <2>3. Range(waiters') = Range(waiters) \cup {cur} /\ IsInjective(waiters')
    BY <1>l, <1>i, <1>6, <2>0, AppendFacts DEF TypeOK, SoleWaker
  <2>4. \A c \in Coros : Blocking(c)' <=> Blocking(c) \/ c = cur
    BY <1>l, <1>6, <2>0 DEF Blocking, TypeOK
  <2>5. SoleWaker'
    BY <1>i, <1>6, <2>0, <2>3, <2>4 DEF SoleWaker
  <2> QED BY <1>l, <2>1, <2>2, <2>5 DEF IInv
<1>11. CASE waitSuspend
  <2>0. /\ cur # NoCoro /\ pc[cur] = "wait" /\ pc' = [pc EXCEPT ![cur] = "body"]
        /\ lists' = moveTo(lists, cur, "suspend") /\ cur' = NoCoro
        /\ UNCHANGED <<resumeQueue, sleepQueue, waiters, phase, batch, Sleepers>>
    BY <1>11 DEF waitSuspend, Sleepers
  <2>1. FreshBatch' /\ CurListed'
    BY <1>n, <1>7, <2>0
  <2>2. /\ Range(lists'["free"]) = Range(lists["free"])
        /\ Range(lists'["suspend"]) = Range(lists["suspend"]) \cup {cur}
    <3>1. \A m \in ListNames :
            Range(lists'[m]) = IF m = "suspend" THEN Range(lists[m]) \cup {cur}
                               ELSE Range(lists[m]) \ {cur}
      BY <1>n, <1>7, <2>0
    <3>2. cur \notin Range(lists["suspend"]) /\ cur \notin Range(lists["free"])
      BY <1>6, <2>0
    <3> QED BY <1>n, <3>1, <3>2
  <2>3. PcListed'
    BY <1>l, <1>i, <1>6, <2>0, <2>2 DEF PcListed, TypeOK
  <2>4. \A c \in Coros : Blocking(c)' <=> Blocking(c)
    BY <1>l, <1>6, <2>0, <2>2 DEF Blocking, TypeOK
  <2>5. SoleWaker'
    BY <1>i, <2>0, <2>4 DEF SoleWaker
  <2> QED BY <1>l, <2>1, <2>3, <2>5 DEF IInv
<1>12. ASSUME NEW ms \in 0..MaxSleep PROVE ~waitSleep(ms)
  BY <1>i, <1>6 DEF waitSleep, PcListed
<1>13. CASE endFunc
  <2>0. /\ cur # NoCoro /\ pc[cur] = "body" /\ pc' = [pc EXCEPT ![cur] = "none"]
        /\ lists' = moveTo(lists, cur, "free") /\ cur' = NoCoro
        /\ UNCHANGED <<resumeQueue, sleepQueue, waiters, phase, batch, Sleepers>>
    BY <1>13 DEF endFunc, InBody, Sleepers
  <2>1. FreshBatch' /\ CurListed'
    BY <1>n, <1>7, <2>0
  <2>2. /\ Range(lists'["free"]) = Range(lists["free"]) \cup {cur}
        /\ Range(lists'["suspend"]) = Range(lists["suspend"])
    <3>1. \A m \in ListNames :
            Range(lists'[m]) = IF m = "free" THEN Range(lists[m]) \cup {cur}
                               ELSE Range(lists[m]) \ {cur}
      BY <1>n, <1>7, <2>0
    <3>2. cur \notin Range(lists["suspend"]) /\ cur \notin Range(lists["free"])
      BY <1>6, <2>0
    <3> QED BY <1>n, <3>1, <3>2
  <2>3. PcListed'
    BY <1>l, <1>i, <1>6, <2>0, <2>2 DEF PcListed, TypeOK
  <2>4. \A c \in Coros : Blocking(c)' <=> Blocking(c)
    BY <1>l, <1>6, <2>0, <2>2 DEF Blocking, TypeOK
  <2>5. SoleWaker'
    BY <1>i, <2>0, <2>4 DEF SoleWaker
  <2> QED BY <1>l, <2>1, <2>3, <2>5 DEF IInv
<1>14. CASE addCoroutine
  <2>1. PICK info : info = Head(lists["free"])
    OBVIOUS
  <2>2. info \in Coros /\ info \in Range(lists["free"])
    BY <1>n, <1>d, <1>14, <2>1, TailFacts DEF addCoroutine
  <2>3. /\ lists' = moveTo(lists, info, "yield") /\ pc' = [pc EXCEPT ![info] = "body"]
        /\ UNCHANGED <<resumeQueue, sleepQueue, waiters, phase, batch, cur, Sleepers>>
    BY <1>14, <2>1 DEF addCoroutine, Sleepers
  <2>4. pc[info] = "none" /\ \A m \in ListNames \ {"free"} : info \notin Range(lists[m])
    BY <1>i, <1>n, <1>d, <2>2 DEF PcListed
  <2>5. \A m \in ListNames :
          Range(lists'[m]) = IF m = "yield" THEN Range(lists[m]) \cup {info}
                                            ELSE Range(lists[m]) \ {info}
    BY <1>l, <1>n, <2>2, <2>3, MovedRanges
  <2>6. \A m \in ListNames \ {"free"} : Range(lists[m]) \subseteq Range(lists'[m])
    BY <2>4, <2>5
  <2>7. FreshBatch' /\ CurListed'
    <3>1. "resume" \in ListNames \ {"free"} /\ "yield" \in ListNames \ {"free"}
      BY <1>n
    <3> QED BY <1>i, <2>3, <2>6, <3>1 DEF FreshBatch, CurListed
  <2>8. PcListed'
    BY <1>l, <1>i, <1>n, <2>2, <2>3, <2>4, <2>5 DEF PcListed, TypeOK
  <2>9. \A c \in Coros : Blocking(c)' <=> Blocking(c)
    BY <1>l, <1>n, <2>2, <2>3, <2>4, <2>5 DEF Blocking, TypeOK
  <2>10. SoleWaker'
    BY <1>i, <2>3, <2>9 DEF SoleWaker
  <2> QED BY <1>l, <2>7, <2>8, <2>10 DEF IInv
<1>15. CASE notify_one
  <2>1. PICK h : h = Head(waiters)
    OBVIOUS
  <2>2. /\ h \in Coros /\ h \in Range(waiters)
        /\ Range(waiters') = Range(waiters) \ {h} /\ IsInjective(waiters')
    BY <1>l, <1>i, <1>15, <2>1, TailFacts DEF notify_one, TypeOK, SoleWaker
  <2>3. h \notin Range(resumeQueue)
    BY <1>i, <2>2 DEF SoleWaker
  <2>4. Range(resumeQueue') = Range(resumeQueue) \cup {h} /\ IsInjective(resumeQueue')
    BY <1>l, <1>i, <1>15, <2>1, <2>2, <2>3, AppendFacts DEF notify_one, TypeOK, SoleWaker
  <2>5. UNCHANGED <<sleepQueue, Sleepers>> /\ \A c \in Coros : Blocking(c)' <=> Blocking(c)
    BY <1>15 DEF notify_one, Blocking, Sleepers
  <2>6. SoleWaker'
    BY <1>i, <2>2, <2>4, <2>5 DEF SoleWaker
  <2> QED BY <1>l, <1>i, <1>15, <2>6 DEF notify_one, IInv, FreshBatch, CurListed, PcListed
<1>16. CASE notify_all
  <2>1. Range(waiters') = {} /\ IsInjective(waiters')
    BY <1>16, EmptyFacts DEF notify_all
  <2>2. /\ Range(resumeQueue') = Range(resumeQueue) \cup Range(waiters)
        /\ IsInjective(resumeQueue')
    BY <1>l, <1>i, <1>16, ConcatFacts DEF notify_all, TypeOK, SoleWaker
  <2>3. UNCHANGED <<sleepQueue, Sleepers>> /\ \A c \in Coros : Blocking(c)' <=> Blocking(c)
    BY <1>16 DEF notify_all, Blocking, Sleepers
  <2>4. SoleWaker'
    BY <1>i, <2>1, <2>2, <2>3 DEF SoleWaker
  <2> QED BY <1>l, <1>i, <1>16, <2>4 DEF notify_all, IInv, FreshBatch, CurListed, PcListed
<1>17. CASE Tick
  <2> DEFINE aged(e) == [e EXCEPT !.left = IF @ > 0 THEN @ - 1 ELSE 0]
  <2>1. sleepQueue' = {aged(e) : e \in sleepQueue}
    BY <1>17 DEF Tick
  <2>2. \A e \in sleepQueue : aged(e).coro = e.coro
    BY <1>l DEF TypeOK
  <2> HIDE DEF aged
  <2>3. Sleepers' = Sleepers
    BY <2>1, <2>2 DEF Sleepers
  <2>4. \A e, f \in sleepQueue' : e.coro = f.coro => e = f
    BY <1>i, <2>1, <2>2 DEF SoleWaker
  <2>5. \A c \in Coros : Blocking(c)' <=> Blocking(c)
    BY <1>17 DEF Tick, Blocking
  <2>6. SoleWaker'
    BY <1>i, <1>17, <2>3, <2>4, <2>5 DEF Tick, SoleWaker
  <2> QED BY <1>l, <1>i, <1>17, <2>6 DEF Tick, IInv, FreshBatch, CurListed, PcListed
<1>18. CASE stop \/ UNCHANGED vars
  BY <1>l, <1>i, <1>s, <1>18 DEF stop, vars, IInv, FreshBatch, CurListed, PcListed
<1> QED
  BY <1>1, <1>2, <1>3, <1>4, <1>5, <1>8, <1>9, <1>10, <1>11, <1>12, <1>13, <1>14, <1>15,
     <1>16, <1>17, <1>18
  DEF Next, run, Coroutine, AnyThread

\* As long as no timed wait has begun.
UInv == Untimed => IInv

\* The whole invariant, up to the first timed wait of any behaviour.
THEOREM UInvHolds == Spec => []UInv
<1>1. Init => UInv
  BY InitIInv DEF UInv
<1>2. UInv /\ LInv /\ [Next]_vars => UInv'
  <2> SUFFICES ASSUME UInv, LInv, [Next]_vars, Untimed' PROVE IInv'
    BY DEF UInv
  <2>1. timedWaits \in Nat /\ (timedWaits' = timedWaits \/ timedWaits' = timedWaits + 1)
    <3>1. timedWaits \in Nat
      BY BoundsAssumption DEF LInv, TypeOK
    <3> QED
      BY <3>1
      DEF Next, vars, run, wakeUpSleep, drainOne, startResume, switchTo, startYield, endIteration,
          leaveRun, Coroutine, yield, waitPush, waitSuspend, endFunc, sleep, waitSleep, AnyThread,
          addCoroutine, notify_one, notify_all, stop, Tick
  <2>2. Untimed
    BY <2>1 DEF Untimed
  <2> QED BY <2>2, NextIInv DEF UInv
<1> QED BY <1>1, <1>2, LInvHolds, PTL DEF Spec

\* Until a timed wait begins every blocked coroutine has one wake-up coming, in
\* one place, whatever yield, sleep, wait, notify and the main loop interleave to.
THEOREM OneWakerHolds == Spec => []OneWaker
<1>1. UInv => OneWaker
  BY DEF UInv, IInv, OneWaker
<1> QED BY <1>1, UInvHolds, PTL

\* Until a timed wait begins the vector run() iterates over is never stale.
THEOREM BatchFreshHolds == Spec => []BatchFresh
<1>1. UInv => BatchFresh
  BY DEF UInv, IInv, BatchFresh
<1> QED BY <1>1, UInvHolds, PTL

\* Until a timed wait begins the assert(false) of initContext is never reached.
THEOREM UntimedNeverFinishedHolds == Spec => []UntimedNeverFinished
<1>1. IInv => NeverSwitchToFinished
  <2> SUFFICES ASSUME IInv, cur # NoCoro PROVE pc[cur] # "none"
    BY DEF NeverSwitchToFinished
  <2>1. cur \in Coros /\ phase \in {"resume", "yield"} /\ cur \in Range(lists[phase])
    BY DEF IInv, LInv, TypeOK, CurListed
  <2>2. cur \notin Range(lists["free"])
    BY <2>1 DEF IInv, LInv, ListsPartition, Partition, ListNames
  <2> QED BY <2>1, <2>2 DEF IInv, PcListed
<1>2. UInv => UntimedNeverFinished
  BY <1>1 DEF UInv, UntimedNeverFinished
<1> QED BY <1>2, UInvHolds, PTL

-----------------------------------------------------------------------------
(* The pointers of the lists. *)

Heaps == [next : [Nodes -> Nodes], prev : [Nodes -> Nodes]]

\* next and prev of m lead through the list s and back to its head l.
Threaded(m, l, s) ==
    \A i \in 0..Len(s) : /\ m.next[NodeAt(l, s, i)] = NodeAt(l, s, i + 1)
                         /\ m.prev[NodeAt(l, s, i + 1)] = NodeAt(l, s, i)

\* The nodes of a list and where they stand.
LEMMA NodeAtFacts ==
  ASSUME NEW l \in ListNames, NEW s \in Seq(Coros)
  PROVE  /\ Len(s) \in Nat
         /\ NodeAt(l, s, 0) = l /\ NodeAt(l, s, Len(s) + 1) = l
         /\ \A i \in 1..Len(s) : NodeAt(l, s, i) = s[i] /\ s[i] \in Coros /\ s[i] \notin ListNames
         /\ \A i \in 0..(Len(s) + 1) : NodeAt(l, s, i) \in Nodes
<1>1. Len(s) \in Nat /\ \A i \in 1..Len(s) : s[i] \in Coros
  OBVIOUS
<1>2. NodeAt(l, s, 0) = l /\ NodeAt(l, s, Len(s) + 1) = l
  BY <1>1 DEF NodeAt
<1>3. \A i \in 1..Len(s) : s[i] \notin ListNames
  BY <1>1, HeadsAssumption
<1>4. \A i \in 1..Len(s) : NodeAt(l, s, i) = s[i]
  BY DEF NodeAt
<1>5. \A i \in 0..(Len(s) + 1) : NodeAt(l, s, i) \in Nodes
  BY <1>1 DEF NodeAt, Nodes
<1> QED BY <1>1, <1>2, <1>3, <1>4, <1>5

\* A list visits no node twice before it comes back.
LEMMA NodesDiffer ==
  ASSUME NEW l \in ListNames, NEW s \in Seq(Coros), IsInjective(s)
  PROVE  /\ \A i, j \in 0..Len(s) : NodeAt(l, s, i) = NodeAt(l, s, j) => i = j
         /\ \A i, j \in 1..(Len(s) + 1) : NodeAt(l, s, i) = NodeAt(l, s, j) => i = j
<1>1. Len(s) \in Nat /\ DOMAIN s = 1..Len(s)
  OBVIOUS
<1>2. \A i, j \in 1..Len(s) : s[i] = s[j] => i = j
  BY <1>1 DEF IsInjective
<1>3. \A i \in 1..Len(s) : s[i] # l
  BY NodeAtFacts
<1>4. ASSUME NEW i \in 0..Len(s), NEW j \in 0..Len(s), NodeAt(l, s, i) = NodeAt(l, s, j)
      PROVE  i = j
  BY <1>1, <1>2, <1>3, <1>4 DEF NodeAt
<1>5. ASSUME NEW i \in 1..(Len(s) + 1), NEW j \in 1..(Len(s) + 1),
             NodeAt(l, s, i) = NodeAt(l, s, j)
      PROVE  i = j
  BY <1>1, <1>2, <1>3, <1>5 DEF NodeAt
<1> QED BY <1>4, <1>5

\* A list that a change of the heap does not touch stays threaded.
LEMMA ThreadKept ==
  ASSUME NEW m, NEW r, NEW l \in ListNames, NEW s \in Seq(Coros), Threaded(m, l, s),
         \A i \in 0..(Len(s) + 1) : /\ r.next[NodeAt(l, s, i)] = m.next[NodeAt(l, s, i)]
                                    /\ r.prev[NodeAt(l, s, i)] = m.prev[NodeAt(l, s, i)]
  PROVE  Threaded(r, l, s)
<1> SUFFICES ASSUME NEW i \in 0..Len(s)
             PROVE  /\ r.next[NodeAt(l, s, i)] = NodeAt(l, s, i + 1)
                    /\ r.prev[NodeAt(l, s, i + 1)] = NodeAt(l, s, i)
  BY DEF Threaded
<1>1. i \in 0..(Len(s) + 1) /\ i + 1 \in 0..(Len(s) + 1)
  BY NodeAtFacts
<1> QED BY <1>1 DEF Threaded

\* Two lists that share no slot share no node.
LEMMA NodesApart ==
  ASSUME NEW l \in ListNames, NEW k \in ListNames, l # k,
         NEW s \in Seq(Coros), NEW t \in Seq(Coros), Range(s) \cap Range(t) = {},
         NEW i \in 0..(Len(s) + 1), NEW j \in 0..(Len(t) + 1)
  PROVE  NodeAt(l, s, i) # NodeAt(k, t, j)
<1>1. \A x \in 1..Len(s) : \A y \in 1..Len(t) : s[x] # t[y]
  BY DEF Range
<1>2. \A x \in 1..Len(s) : s[x] # k
  BY NodeAtFacts
<1>3. \A y \in 1..Len(t) : t[y] # l
  BY NodeAtFacts
<1> QED BY <1>1, <1>2, <1>3 DEF NodeAt

\* What IntrusiveListRemove stores.
Unlinked(m, c, r) ==
    /\ r \in Heaps
    /\ r.next = [m.next EXCEPT ![m.prev[c]] = m.next[c]]
    /\ r.prev = [m.prev EXCEPT ![m.next[c]] = m.prev[c]]
LEMMA RemoveStores ==
  ASSUME NEW m \in Heaps, NEW c \in Nodes, NEW r, r = IntrusiveListRemove(m, c)
  PROVE  Unlinked(m, c, r)
<1> DEFINE p == m.prev[c]
           q == m.next[c]
           a == Remove1(m, c)
<1>1. p \in Nodes /\ q \in Nodes /\ m.next \in [Nodes -> Nodes] /\ m.prev \in [Nodes -> Nodes]
  BY DEF Heaps
<1>2. a = [m EXCEPT !.next = [m.next EXCEPT ![p] = q]]
  BY DEF Remove1
<1>3. a.next = [m.next EXCEPT ![p] = q] /\ a.prev = m.prev /\ a \in Heaps
  BY <1>1, <1>2 DEF Heaps
<1>4. a.next[c] = q /\ a.prev[c] = p
  BY <1>1, <1>3
<1>5. r = [a EXCEPT !.prev = [a.prev EXCEPT ![a.next[c]] = a.prev[c]]]
  BY DEF IntrusiveListRemove, Remove2
<1>6. r = [a EXCEPT !.prev = [m.prev EXCEPT ![q] = p]]
  BY <1>3, <1>4, <1>5
<1> HIDE DEF a, p, q
<1> QED BY <1>1, <1>3, <1>6 DEF Heaps, Unlinked, p, q

\* What IntrusiveListInsert stores.
Linked(m, h, c, r) ==
    /\ r \in Heaps
    /\ r.next = [m.next EXCEPT ![c] = m.next[h], ![h] = c]
    /\ r.prev = [m.prev EXCEPT ![c] = h, ![m.next[h]] = c]
LEMMA InsertStores ==
  ASSUME NEW m \in Heaps, NEW h \in Nodes, NEW c \in Nodes, c # h,
         NEW r, r = IntrusiveListInsert(m, h, c)
  PROVE  Linked(m, h, c, r)
<1> DEFINE f == m.next[h]
           a1 == Insert1(m, h, c)
           a2 == Insert2(a1, h, c)
           a3 == Insert3(a2, h, c)
<1>1. f \in Nodes /\ m.next \in [Nodes -> Nodes] /\ m.prev \in [Nodes -> Nodes]
  BY DEF Heaps
<1>2. a1.next = m.next /\ a1.prev = [m.prev EXCEPT ![c] = h] /\ a1 \in Heaps
  BY <1>1 DEF Insert1, Heaps
<1> HIDE DEF a1
<1>3. a2.next = [m.next EXCEPT ![c] = f] /\ a2.prev = a1.prev /\ a2 \in Heaps
  BY <1>1, <1>2 DEF Insert2, Heaps
<1> HIDE DEF a2
<1>4. a2.next[h] = f
  BY <1>1, <1>3
<1>5. a3.next = a2.next /\ a3.prev = [a2.prev EXCEPT ![f] = c] /\ a3 \in Heaps
  BY <1>1, <1>3, <1>4 DEF Insert3, Heaps
<1> HIDE DEF a3
<1>6. r = [a3 EXCEPT !.next = [a3.next EXCEPT ![h] = c]]
  BY DEF IntrusiveListInsert, Insert4, a3, a2, a1
<1>7. r.next = [a3.next EXCEPT ![h] = c] /\ r.prev = a3.prev /\ r \in Heaps
  BY <1>5, <1>6 DEF Heaps
<1> HIDE DEF f
<1> QED BY <1>2, <1>3, <1>5, <1>7 DEF f, Linked

\* The nodes whose pointers IntrusiveListInsert leaves alone.
LEMMA InsertLeaves ==
  ASSUME NEW m \in Heaps, NEW h \in Nodes, NEW c \in Nodes, c # h,
         NEW r, r = IntrusiveListInsert(m, h, c),
         NEW n \in Nodes, n # c, n # h, n # m.next[h]
  PROVE  r.next[n] = m.next[n] /\ r.prev[n] = m.prev[n]
<1>1. /\ r.next = [m.next EXCEPT ![c] = m.next[h], ![h] = c]
      /\ r.prev = [m.prev EXCEPT ![c] = h, ![m.next[h]] = c]
  <2>1. Linked(m, h, c, r)
    BY InsertStores
  <2> QED BY <2>1 DEF Linked
<1> QED BY <1>1 DEF Heaps

\* IntrusiveListRemove threads the list past the node.
LEMMA RemoveHere ==
  ASSUME NEW m \in Heaps, NEW l \in ListNames, NEW s \in Seq(Coros), IsInjective(s),
         Threaded(m, l, s), NEW c \in Range(s), NEW r, r = IntrusiveListRemove(m, c)
  PROVE  Threaded(r, l, RemoveFirst(s, c))
<1>1. PICK k \in 1..Len(s) : s[k] = c
  BY DEF Range
<1> DEFINE n == Len(s)
           at(i) == NodeAt(l, s, i)
           t == RemoveFirst(s, c)
<1>2. n \in Nat /\ k \in 1..n /\ at(k) = c /\ c \in Nodes
  BY <1>1, NodeAtFacts DEF Nodes
<1>3. /\ \A i \in 0..n : m.next[at(i)] = at(i + 1) /\ at(i) \in Nodes
      /\ \A i \in 1..(n + 1) : m.prev[at(i)] = at(i - 1) /\ at(i) \in Nodes
  <2>1. ASSUME NEW i \in 0..n PROVE m.next[at(i)] = at(i + 1) /\ at(i) \in Nodes
    BY NodeAtFacts DEF Threaded
  <2>2. ASSUME NEW i \in 1..(n + 1) PROVE m.prev[at(i)] = at(i - 1) /\ at(i) \in Nodes
    <3>1. i - 1 \in 0..n /\ (i - 1) + 1 = i
      BY <1>2
    <3>2. m.prev[at((i - 1) + 1)] = at(i - 1)
      BY <3>1 DEF Threaded
    <3> QED BY <1>2, <3>1, <3>2, NodeAtFacts
  <2> QED BY <2>1, <2>2
<1>4. /\ \A i, j \in 0..n : at(i) = at(j) => i = j
      /\ \A i, j \in 1..(n + 1) : at(i) = at(j) => i = j
  BY NodesDiffer
<1>5. Len(t) = n - 1 /\ \A i \in 0..n : NodeAt(l, t, i) = IF i < k THEN at(i) ELSE at(i + 1)
  <2>1. /\ t \in Seq(Coros) /\ Len(t) = n - 1
        /\ \A i \in 1..(n - 1) : t[i] = IF i < k THEN s[i] ELSE s[i + 1]
    BY <1>1, RemoveFirstAt
  <2> HIDE DEF t
  <2>2. ASSUME NEW i \in 0..n PROVE NodeAt(l, t, i) = IF i < k THEN at(i) ELSE at(i + 1)
    BY <1>2, <2>1 DEF NodeAt
  <2> QED BY <2>1, <2>2
<1> HIDE DEF t, at, n
<1>6. m.prev[c] = at(k - 1) /\ m.next[c] = at(k + 1)
  BY <1>2, <1>3
<1>7. /\ r.next = [m.next EXCEPT ![at(k - 1)] = at(k + 1)]
      /\ r.prev = [m.prev EXCEPT ![at(k + 1)] = at(k - 1)]
      /\ m.next \in [Nodes -> Nodes] /\ m.prev \in [Nodes -> Nodes]
  <2>1. Unlinked(m, c, r)
    BY <1>2, RemoveStores
  <2> QED BY <1>6, <2>1 DEF Heaps, Unlinked
<1>8. /\ \A i \in 0..n : r.next[at(i)] = IF i = k - 1 THEN at(k + 1) ELSE at(i + 1)
      /\ \A i \in 1..(n + 1) : r.prev[at(i)] = IF i = k + 1 THEN at(k - 1) ELSE at(i - 1)
  <2>1. k - 1 \in 0..n /\ k + 1 \in 1..(n + 1)
    BY <1>2
  <2>2. ASSUME NEW i \in 0..n
        PROVE  r.next[at(i)] = IF i = k - 1 THEN at(k + 1) ELSE at(i + 1)
    BY <1>3, <1>4, <1>7, <2>1
  <2>3. ASSUME NEW i \in 1..(n + 1)
        PROVE  r.prev[at(i)] = IF i = k + 1 THEN at(k - 1) ELSE at(i - 1)
    BY <1>3, <1>4, <1>7, <2>1
  <2> QED BY <2>2, <2>3
<1>9. ASSUME NEW i \in 0..(n - 1)
      PROVE  /\ r.next[NodeAt(l, t, i)] = NodeAt(l, t, i + 1)
             /\ r.prev[NodeAt(l, t, i + 1)] = NodeAt(l, t, i)
  <2>1. i \in 0..n /\ i + 1 \in 0..n /\ i + 1 \in 1..(n + 1) /\ i \in Int /\ k \in Int
    BY <1>2
  <2>2. CASE i + 1 < k
    BY <1>2, <1>5, <1>8, <2>1, <2>2
  <2>3. CASE i + 1 = k
    BY <1>2, <1>5, <1>8, <2>1, <2>3
  <2>4. CASE i + 1 > k
    <3>1. /\ ~(i < k) /\ ~(i + 1 < k) /\ i + 1 # k - 1 /\ (i + 1) + 1 # k + 1
          /\ (i + 1) + 1 \in 1..(n + 1) /\ ((i + 1) + 1) - 1 = i + 1
      BY <1>2, <2>1, <2>4
    <3> QED BY <1>5, <1>8, <2>1, <3>1
  <2> QED BY <2>1, <2>2, <2>3, <2>4
<1>10. 0..Len(t) = 0..(n - 1)
  BY <1>5
<1>11. Threaded(r, l, t)
  BY <1>9, <1>10 DEF Threaded
<1> QED BY <1>11 DEF t

\* IntrusiveListInsert threads the list through the node.
LEMMA InsertHere ==
  ASSUME NEW m \in Heaps, NEW l \in ListNames, NEW s \in Seq(Coros), IsInjective(s),
         Threaded(m, l, s), NEW c \in Coros, c \notin Range(s),
         NEW r, r = IntrusiveListInsert(m, l, c)
  PROVE  Threaded(r, l, Cons(c, s))
<1> DEFINE n == Len(s)
           at(i) == NodeAt(l, s, i)
           t == Cons(c, s)
<1>1. n \in Nat /\ at(0) = l /\ at(n + 1) = l /\ c # l /\ l \in Nodes /\ c \in Nodes
  BY NodeAtFacts, HeadsAssumption DEF Nodes
<1>2. /\ \A i \in 0..n : m.next[at(i)] = at(i + 1) /\ at(i) \in Nodes
      /\ \A i \in 1..(n + 1) : m.prev[at(i)] = at(i - 1) /\ at(i) \in Nodes
  <2>1. ASSUME NEW i \in 0..n PROVE m.next[at(i)] = at(i + 1) /\ at(i) \in Nodes
    BY NodeAtFacts DEF Threaded
  <2>2. ASSUME NEW i \in 1..(n + 1) PROVE m.prev[at(i)] = at(i - 1) /\ at(i) \in Nodes
    <3>1. i - 1 \in 0..n /\ (i - 1) + 1 = i
      BY <1>1
    <3>2. m.prev[at((i - 1) + 1)] = at(i - 1)
      BY <3>1 DEF Threaded
    <3> QED BY <1>1, <3>1, <3>2, NodeAtFacts
  <2> QED BY <2>1, <2>2
<1>3. /\ \A i, j \in 0..n : at(i) = at(j) => i = j
      /\ \A i, j \in 1..(n + 1) : at(i) = at(j) => i = j
  BY NodesDiffer
<1>4. \A i \in 0..(n + 1) : at(i) # c
  <2>1. \A i \in 1..n : s[i] # c
    BY DEF Range
  <2> QED BY <1>1, <2>1 DEF NodeAt
<1>5. /\ Len(t) = n + 1 /\ NodeAt(l, t, 0) = l /\ NodeAt(l, t, 1) = c
      /\ \A i \in 2..(n + 2) : NodeAt(l, t, i) = at(i - 1)
  <2>1. Len(t) = n + 1 /\ t[1] = c /\ \A i \in 2..(n + 1) : t[i] = s[i - 1]
    <3>1. InFront(c, s, t)
      BY ConsIndex
    <3> HIDE DEF t
    <3> QED BY <3>1 DEF InFront
  <2> HIDE DEF t
  <2>2. ASSUME NEW i \in 2..(n + 2) PROVE NodeAt(l, t, i) = at(i - 1)
    <3> HIDE DEF n
    <3>1. i \in 1..Len(t) <=> i - 1 \in 1..n
      BY <1>1, <2>1
    <3>2. i - 1 \in 1..n => i \in 2..(n + 1)
      BY <1>1
    <3> QED BY <2>1, <3>1, <3>2 DEF NodeAt, n
  <2>3. NodeAt(l, t, 0) = l /\ NodeAt(l, t, 1) = c
    <3> HIDE DEF n
    <3>1. 0 \notin 1..Len(t) /\ 1 \in 1..Len(t)
      BY <1>1, <2>1
    <3> QED BY <2>1, <3>1 DEF NodeAt
  <2> QED BY <2>1, <2>2, <2>3
<1> HIDE DEF t, at, n
<1>6. m.next[l] = at(1)
  BY <1>1, <1>2
<1>7. /\ r.next = [m.next EXCEPT ![c] = at(1), ![l] = c]
      /\ r.prev = [m.prev EXCEPT ![c] = l, ![at(1)] = c]
      /\ m.next \in [Nodes -> Nodes] /\ m.prev \in [Nodes -> Nodes]
  <2>1. /\ r.next = [m.next EXCEPT ![c] = m.next[l], ![l] = c]
        /\ r.prev = [m.prev EXCEPT ![c] = l, ![m.next[l]] = c]
    <3>1. Linked(m, l, c, r)
      BY <1>1, InsertStores
    <3> QED BY <3>1 DEF Linked
  <2> QED BY <1>6, <2>1 DEF Heaps
<1>8. 1 \in 1..(n + 1) /\ 1 \in 0..(n + 1) /\ at(1) \in Nodes /\ at(1) # c
  BY <1>1, <1>2, <1>4
<1>9. r.next[l] = c /\ r.prev[c] = l /\ r.next[c] = at(1) /\ r.prev[at(1)] = c
  BY <1>1, <1>7, <1>8
<1>10. ASSUME NEW i \in 1..n
       PROVE  r.next[at(i)] = at(i + 1) /\ r.prev[at(i + 1)] = at(i)
  <2>1. /\ i \in 0..n /\ 0 \in 0..n /\ i \in 0..(n + 1) /\ i # 0
        /\ i + 1 \in 1..(n + 1) /\ i + 1 \in 0..(n + 1) /\ i + 1 # 1 /\ (i + 1) - 1 = i
    BY <1>1
  <2>2. at(i) # l /\ at(i) # c /\ at(i) \in Nodes
    BY <1>1, <1>2, <1>3, <1>4, <2>1
  <2>3. at(i + 1) # at(1) /\ at(i + 1) # c /\ at(i + 1) \in Nodes
    BY <1>2, <1>3, <1>4, <1>8, <2>1
  <2>4. r.next[at(i)] = m.next[at(i)]
    BY <1>7, <2>2
  <2>5. r.prev[at(i + 1)] = m.prev[at(i + 1)]
    BY <1>7, <2>3
  <2> QED BY <1>2, <2>1, <2>4, <2>5
<1>11. ASSUME NEW i \in 0..(n + 1)
       PROVE  /\ r.next[NodeAt(l, t, i)] = NodeAt(l, t, i + 1)
              /\ r.prev[NodeAt(l, t, i + 1)] = NodeAt(l, t, i)
  <2>1. CASE i = 0
    BY <1>5, <1>9, <2>1
  <2>2. CASE i = 1
    <3>1. 2 \in 2..(n + 2) /\ 2 - 1 = 1 /\ 1 + 1 = 2
      BY <1>1
    <3> QED BY <1>5, <1>9, <2>2, <3>1
  <2>3. CASE i > 1
    <3>1. /\ i \in 2..(n + 2) /\ i + 1 \in 2..(n + 2) /\ (i + 1) - 1 = i
          /\ i - 1 \in 1..n /\ (i - 1) + 1 = i
      BY <1>1, <2>3
    <3>2. NodeAt(l, t, i) = at(i - 1) /\ NodeAt(l, t, i + 1) = at(i)
      BY <1>5, <3>1
    <3>3. r.next[at(i - 1)] = at((i - 1) + 1) /\ r.prev[at((i - 1) + 1)] = at(i - 1)
      BY <1>10, <3>1
    <3> QED BY <3>1, <3>2, <3>3
  <2> QED BY <1>1, <2>1, <2>2, <2>3
<1>12. 0..Len(t) = 0..(n + 1)
  BY <1>5
<1>13. Threaded(r, l, t)
  BY <1>11, <1>12 DEF Threaded
<1> QED BY <1>13 DEF t

\* IntrusiveListRemove of a node of the list s leaves the other lists alone.
LEMMA RemoveElsewhere ==
  ASSUME NEW m \in Heaps, NEW l \in ListNames, NEW s \in Seq(Coros), Threaded(m, l, s),
         NEW k \in ListNames, l # k, NEW t \in Seq(Coros), Range(s) \cap Range(t) = {},
         Threaded(m, k, t), NEW c \in Range(s), NEW r, r = IntrusiveListRemove(m, c)
  PROVE  Threaded(r, k, t)
<1>1. PICK j \in 1..Len(s) : s[j] = c
  BY DEF Range
<1>2. Len(s) \in Nat /\ NodeAt(l, s, j) = c /\ c \in Nodes
  BY <1>1, NodeAtFacts DEF Nodes
<1>3. /\ j \in 0..Len(s) /\ j - 1 \in 0..Len(s) /\ (j - 1) + 1 = j
      /\ j - 1 \in 0..(Len(s) + 1) /\ j + 1 \in 0..(Len(s) + 1)
  BY <1>2
<1>4. m.next[c] = NodeAt(l, s, j + 1)
  BY <1>2, <1>3 DEF Threaded
<1>5. m.prev[c] = NodeAt(l, s, j - 1)
  <2>1. m.prev[NodeAt(l, s, (j - 1) + 1)] = NodeAt(l, s, j - 1)
    BY <1>3 DEF Threaded
  <2> QED BY <1>2, <1>3, <2>1
<1>6. /\ r.next = [m.next EXCEPT ![m.prev[c]] = m.next[c]]
      /\ r.prev = [m.prev EXCEPT ![m.next[c]] = m.prev[c]]
  <2>1. Unlinked(m, c, r)
    BY <1>2, RemoveStores
  <2> QED BY <2>1 DEF Unlinked
<1>7. ASSUME NEW i \in 0..(Len(t) + 1)
      PROVE  /\ r.next[NodeAt(k, t, i)] = m.next[NodeAt(k, t, i)]
             /\ r.prev[NodeAt(k, t, i)] = m.prev[NodeAt(k, t, i)]
  <2>1. NodeAt(k, t, i) # m.prev[c] /\ NodeAt(k, t, i) # m.next[c]
    BY <1>3, <1>4, <1>5, NodesApart
  <2>2. NodeAt(k, t, i) \in Nodes
    BY NodeAtFacts
  <2> QED BY <1>6, <2>1, <2>2 DEF Heaps
<1> QED BY <1>7, ThreadKept

\* IntrusiveListInsert of a slot into the list s leaves the lists alone that do
\* not hold the slot.
LEMMA InsertElsewhere ==
  ASSUME NEW m \in Heaps, NEW l \in ListNames, NEW s \in Seq(Coros), Threaded(m, l, s),
         NEW k \in ListNames, l # k, NEW t \in Seq(Coros), Range(s) \cap Range(t) = {},
         Threaded(m, k, t), NEW c \in Coros, c \notin Range(t),
         NEW r, r = IntrusiveListInsert(m, l, c)
  PROVE  Threaded(r, k, t)
<1>1. /\ Len(s) \in Nat /\ NodeAt(l, s, 0) = l /\ l \in Nodes /\ c \in Nodes /\ c # l
  BY NodeAtFacts, HeadsAssumption DEF Nodes
<1>2. /\ 0 \in 0..Len(s) /\ 0 + 1 = 1 /\ 0 \in 0..(Len(s) + 1) /\ 1 \in 0..(Len(s) + 1)
  BY <1>1
<1>3. m.next[l] = NodeAt(l, s, 1)
  BY <1>1, <1>2 DEF Threaded
<1>4. ASSUME NEW i \in 0..(Len(t) + 1)
      PROVE  /\ r.next[NodeAt(k, t, i)] = m.next[NodeAt(k, t, i)]
             /\ r.prev[NodeAt(k, t, i)] = m.prev[NodeAt(k, t, i)]
  <2>1. NodeAt(k, t, i) # l /\ NodeAt(k, t, i) # m.next[l]
    BY <1>1, <1>2, <1>3, NodesApart
  <2>2. NodeAt(k, t, i) # c
    <3>1. \A j \in 1..Len(t) : t[j] # c
      BY DEF Range
    <3>2. k # c
      BY HeadsAssumption
    <3>3. CASE i \in 1..Len(t)
      BY <3>1, <3>3 DEF NodeAt
    <3>4. CASE i \notin 1..Len(t)
      BY <3>2, <3>4 DEF NodeAt
    <3> QED BY <3>3, <3>4
  <2>3. NodeAt(k, t, i) \in Nodes
    BY NodeAtFacts
  <2> QED BY <1>1, <2>1, <2>2, <2>3, InsertLeaves
<1> QED BY <1>4, ThreadKept

\* The heap m threads the lists ls.
ThreadsAll(m, ls) == m \in Heaps /\ \A l \in ListNames : Threaded(m, l, ls[l])

\* IntrusiveListRemove and IntrusiveListInsert do to the pointers what moveTo does
\* to the lists.
LEMMA MoveThreads ==
  ASSUME NEW ls, FourLists(ls), NEW m, ThreadsAll(m, ls), NEW c \in Coros, NEW l \in ListNames
  PROVE  ThreadsAll(IntrusiveListInsert(IntrusiveListRemove(m, c), l, c), moveTo(ls, c, l))
<1> DEFINE rs == [k \in ListNames |-> RemoveFirst(ls[k], c)]
           a == IntrusiveListRemove(m, c)
           r == IntrusiveListInsert(a, l, c)
<1>1. /\ \A k \in ListNames : /\ ls[k] \in Seq(Coros) /\ IsInjective(ls[k])
                                /\ Threaded(m, k, ls[k])
      /\ \A j, k \in ListNames : j # k => Range(ls[j]) \cap Range(ls[k]) = {}
      /\ m \in Heaps /\ c \in Nodes /\ l \in Nodes /\ c # l
  BY HeadsAssumption DEF FourLists, Partition, ThreadsAll, Nodes
<1>2. PICK h \in ListNames : c \in Range(ls[h])
  BY DEF FourLists, Partition
<1>3. ASSUME NEW k \in ListNames
      PROVE  /\ rs[k] \in Seq(Coros) /\ IsInjective(rs[k])
             /\ Range(rs[k]) = Range(ls[k]) \ {c}
  BY <1>1, RemoveFirstFacts
<1>4. a \in Heaps
  BY <1>1, RemoveStores DEF Unlinked
<1>5. ASSUME NEW k \in ListNames PROVE Threaded(a, k, rs[k])
  <2>1. CASE k = h
    BY <1>1, <1>2, <2>1, RemoveHere
  <2>2. CASE k # h
    <3>1. c \notin Range(ls[k])
      BY <1>1, <1>2, <2>2
    <3>2. rs[k] = ls[k]
      BY <1>1, <3>1, RemoveFirstNone
    <3>3. Threaded(a, k, ls[k])
      BY <1>1, <1>2, <2>2, RemoveElsewhere
    <3> QED BY <3>2, <3>3
  <2> QED BY <2>1, <2>2
<1>6. moveTo(ls, c, l) = [k \in ListNames |-> IF k = l THEN Cons(c, rs[k]) ELSE rs[k]]
  BY DEF moveTo
<1> HIDE DEF rs, a
<1>7. r \in Heaps
  BY <1>1, <1>4, InsertStores DEF Linked
<1>8. Threaded(r, l, Cons(c, rs[l]))
  <2>1. c \notin Range(rs[l])
    BY <1>3
  <2> QED BY <1>3, <1>4, <1>5, <2>1, InsertHere
<1>9. ASSUME NEW k \in ListNames, k # l PROVE Threaded(r, k, rs[k])
  <2>1. c \notin Range(rs[k]) /\ Range(rs[l]) \cap Range(rs[k]) = {}
    BY <1>1, <1>3, <1>9
  <2> QED BY <1>3, <1>4, <1>5, <1>9, <2>1, InsertElsewhere
<1>10. ASSUME NEW k \in ListNames PROVE Threaded(r, k, moveTo(ls, c, l)[k])
  BY <1>6, <1>8, <1>9
<1> HIDE DEF r
<1>11. ThreadsAll(r, moveTo(ls, c, l))
  BY <1>7, <1>10 DEF ThreadsAll
<1> QED BY <1>11 DEF r, a

\* The pointers of lists that share out the slots form rings.
LEMMA ThreadedRing ==
  ASSUME NEW ls, FourLists(ls), NEW m, ThreadsAll(m, ls)
  PROVE  Ring(m)
<1> SUFFICES ASSUME NEW n \in Nodes
             PROVE  m.prev[m.next[n]] = n /\ m.next[m.prev[n]] = n
  BY DEF Ring
<1>1. PICK l \in ListNames : n = l \/ n \in Range(ls[l])
  BY DEF FourLists, Partition, Nodes
<1> DEFINE s == ls[l]
           at(i) == NodeAt(l, s, i)
<1>2. s \in Seq(Coros) /\ Threaded(m, l, s)
  BY DEF FourLists, ThreadsAll
<1> HIDE DEF s
<1>3. Len(s) \in Nat /\ at(0) = l /\ at(Len(s) + 1) = l
  BY <1>2, NodeAtFacts
<1>4. /\ \A i \in 0..Len(s) : m.next[at(i)] = at(i + 1)
      /\ \A i \in 0..Len(s) : m.prev[at(i + 1)] = at(i)
  BY <1>2 DEF Threaded
<1>5. CASE n = l
  <2>1. 0 \in 0..Len(s) /\ Len(s) \in 0..Len(s)
    BY <1>3
  <2> QED BY <1>3, <1>4, <1>5, <2>1
<1>6. CASE n \in Range(ls[l])
  <2>1. PICK i \in 1..Len(s) : n = s[i]
    BY <1>6 DEF Range, s
  <2>2. /\ i \in 0..Len(s) /\ i - 1 \in 0..Len(s) /\ (i - 1) + 1 = i /\ at(i) = n
    BY <1>2, <1>3, <2>1, NodeAtFacts
  <2> HIDE DEF at
  <2>3. m.prev[m.next[n]] = n
    BY <1>4, <2>2
  <2>4. m.prev[at((i - 1) + 1)] = at(i - 1) /\ m.next[at(i - 1)] = at((i - 1) + 1)
    BY <1>4, <2>2
  <2> QED BY <2>2, <2>3, <2>4
<1> QED BY <1>1, <1>5, <1>6

-----------------------------------------------------------------------------
(* Following the pointers: induction over the number of steps. *)

\* A set of numbers that is not empty has a least one.
LEMMA LeastNatural ==
  ASSUME NEW T, T \subseteq Nat, T # {}
  PROVE  \E x \in T : \A y \in T : x <= y
<1> DEFINE R == OpToRel(<, Nat)
<1>1. IsWellFoundedOn(R, Nat)
  BY NatLessThanWellFounded
<1>2. \A x, y \in Nat : y < x => <<y, x>> \in R
  BY DEF OpToRel
<1> HIDE DEF R
<1>3. PICK x \in T : \A y \in T : ~ (<<y, x>> \in R)
  BY <1>1, WFMin
<1>4. ASSUME NEW y \in T PROVE x <= y
  <2>1. ~(y < x)
    BY <1>2, <1>3
  <2> QED BY <2>1
<1> QED BY <1>4

\* A set of numbers that holds 0 and the successor of each of its elements holds
\* every number.
LEMMA NumbersInduct ==
  ASSUME NEW P, P \subseteq Nat, 0 \in P, \A n \in P : n + 1 \in P
  PROVE  P = Nat
<1>1. SUFFICES ASSUME Nat \ P # {} PROVE FALSE
  OBVIOUS
<1>2. PICK x \in Nat \ P : \A y \in Nat \ P : x <= y
  BY <1>1, LeastNatural
<1>3. x - 1 \in Nat /\ x - 1 \notin P /\ x # 0
  BY <1>2
<1>4. x <= x - 1
  BY <1>2, <1>3
<1> QED BY <1>2, <1>3, <1>4

\* g starts at a and takes the first n steps one after the other.
Takes(g, a, step, n) == g[0] = a /\ \A k \in 1..n : g[k] = step[k][g[k - 1]]

\* Some function takes any number of steps.
LEMMA StepsExist ==
  ASSUME NEW S, NEW a \in S, NEW step \in [Nat -> [S -> S]], NEW N \in Nat
  PROVE  \E g \in [0..N -> S] : Takes(g, a, step, N)
<1> DEFINE P == {n \in Nat : \E g \in [0..n -> S] : Takes(g, a, step, n)}
<1>1. 0 \in P
  <2> DEFINE g == [k \in 0..0 |-> a]
  <2>1. g \in [0..0 -> S] /\ Takes(g, a, step, 0)
    BY DEF Takes
  <2> QED BY <2>1
<1>2. ASSUME NEW n \in P PROVE n + 1 \in P
  <2>1. PICK g \in [0..n -> S] : Takes(g, a, step, n)
    OBVIOUS
  <2> DEFINE f == [k \in 0..(n + 1) |-> IF k = n + 1 THEN step[n + 1][g[n]] ELSE g[k]]
  <2>2. n \in Nat /\ n + 1 \in Nat /\ g[n] \in S /\ step[n + 1][g[n]] \in S
    BY <2>1
  <2>3. f \in [0..(n + 1) -> S] /\ f[n + 1] = step[n + 1][g[n]] /\ \A k \in 0..n : f[k] = g[k]
    BY <2>1, <2>2
  <2> HIDE DEF f
  <2>4. f[0] = a
    BY <2>1, <2>2, <2>3 DEF Takes
  <2>5. ASSUME NEW k \in 1..(n + 1) PROVE f[k] = step[k][f[k - 1]]
    <3>1. CASE k = n + 1
      BY <2>2, <2>3, <3>1
    <3>2. CASE k # n + 1
      <4>1. k \in 1..n /\ k \in 0..n /\ k - 1 \in 0..n
        BY <2>2, <3>2
      <4> QED BY <2>1, <2>3, <4>1 DEF Takes
    <3> QED BY <3>1, <3>2
  <2>6. Takes(f, a, step, n + 1)
    BY <2>4, <2>5 DEF Takes
  <2> QED BY <2>2, <2>3, <2>6
<1> HIDE DEF P
<1>3. P = Nat
  <2>1. P \subseteq Nat
    BY DEF P
  <2> QED BY <1>1, <1>2, <2>1, NumbersInduct
<1> QED BY <1>3 DEF P

\* What the loop of IntrusiveListGetAllNodes visits, step by step.
LEMMA NthSteps ==
  ASSUME NEW m \in Heaps, NEW h \in Nodes, NEW N \in Nat, N = Cardinality(Coros)
  PROVE  /\ DOMAIN Nth(m, h) = 0..N
         /\ Nth(m, h)[0] = m.next[h]
         /\ \A k \in 1..N : Nth(m, h)[k] = m.next[Nth(m, h)[k - 1]]
<1> DEFINE Is(f) == f = [k \in 0..N |-> IF k = 0 THEN m.next[h] ELSE m.next[f[k - 1]]]
<1>1. \E f : Is(f)
  <2> DEFINE step == [k \in Nat |-> [n \in Nodes |-> m.next[n]]]
  <2>1. m.next[h] \in Nodes /\ step \in [Nat -> [Nodes -> Nodes]]
    BY DEF Heaps
  <2> HIDE DEF step
  <2>2. PICK g \in [0..N -> Nodes] : Takes(g, m.next[h], step, N)
    BY <2>1, StepsExist
  <2>3. ASSUME NEW k \in 1..N PROVE g[k] = m.next[g[k - 1]]
    <3>1. k \in Nat /\ k - 1 \in 0..N
      OBVIOUS
    <3>2. g[k - 1] \in Nodes
      BY <2>2, <3>1
    <3> QED BY <2>2, <3>1, <3>2 DEF step, Takes
  <2>4. ASSUME NEW k \in 0..N
        PROVE  g[k] = IF k = 0 THEN m.next[h] ELSE m.next[g[k - 1]]
    BY <2>2, <2>3 DEF Takes
  <2>5. Is(g)
    BY <2>2, <2>4
  <2> QED BY <2>5
<1>2. Nth(m, h) = CHOOSE f : Is(f)
  BY DEF Nth
<1>3. Is(Nth(m, h))
  BY <1>1, <1>2
<1> QED BY <1>3

\* A list holds at most all slots, and if it does then each of them.
LEMMA ListLength ==
  ASSUME NEW s \in Seq(Coros), IsInjective(s)
  PROVE  /\ Cardinality(Coros) \in Nat /\ Len(s) <= Cardinality(Coros)
         /\ Len(s) = Cardinality(Coros) => Range(s) = Coros
<1> DEFINE n == Len(s)
<1>1. n \in Nat /\ s \in [1..n -> Coros] /\ DOMAIN s = 1..n
  OBVIOUS
<1>2. s \in Injection(1..n, Coros)
  BY <1>1 DEF IsInjective, Injection
<1>3. Cardinality(1..n) = n
  <2>1. 1 \in Int /\ n \in Int BY <1>1
  <2>2. Cardinality(1..n) = IF 1 > n THEN 0 ELSE n - 1 + 1
    BY <2>1, FS_Interval
  <2> QED BY <1>1, <2>2
<1>4. Cardinality(Coros) \in Nat
  BY CorosAssumption, FS_CardinalityType
<1> HIDE DEF n
<1>5. /\ Cardinality(1..n) <= Cardinality(Coros)
      /\ Cardinality(1..n) = Cardinality(Coros) <=> s \in Surjection(1..n, Coros)
  BY <1>2, CorosAssumption, FS_Injection
<1>6. s \in Surjection(1..n, Coros) => Range(s) = Coros
  BY <1>1 DEF Surjection, Range
<1> QED BY <1>3, <1>4, <1>5, <1>6 DEF n

\* On a threaded list the loop of IntrusiveListGetAllNodes visits the nodes one
\* after the other.
LEMMA NthNodes ==
  ASSUME NEW m \in Heaps, NEW l \in ListNames, NEW s \in Seq(Coros), IsInjective(s),
         Threaded(m, l, s)
  PROVE  \A k \in 0..Len(s) : Nth(m, l)[k] = NodeAt(l, s, k + 1)
<1> DEFINE f == Nth(m, l)
           n == Len(s)
           P == {k \in Nat : k <= n => f[k] = NodeAt(l, s, k + 1)}
<1>1. n \in Nat /\ n <= Cardinality(Coros) /\ Cardinality(Coros) \in Nat /\ l \in Nodes
  BY ListLength DEF Nodes
<1>2. f[0] = m.next[l] /\ \A k \in 1..n : f[k] = m.next[f[k - 1]]
  <2>1. f[0] = m.next[l] /\ \A k \in 1..Cardinality(Coros) : f[k] = m.next[f[k - 1]]
    BY <1>1, NthSteps
  <2> HIDE DEF f, n
  <2> QED BY <1>1, <2>1
<1>3. NodeAt(l, s, 0) = l /\ \A k \in 0..n : m.next[NodeAt(l, s, k)] = NodeAt(l, s, k + 1)
  BY NodeAtFacts DEF Threaded
<1> HIDE DEF f, n
<1>4. 0 \in P
  BY <1>1, <1>2, <1>3
<1>5. ASSUME NEW k \in P PROVE k + 1 \in P
  <2>1. k \in Nat /\ k + 1 \in Nat
    OBVIOUS
  <2>2. ASSUME k + 1 <= n PROVE f[k + 1] = NodeAt(l, s, (k + 1) + 1)
    <3>1. k + 1 \in 1..n /\ k + 1 \in 0..n /\ (k + 1) - 1 = k /\ k <= n
      BY <1>1, <2>1, <2>2
    <3>2. f[k] = NodeAt(l, s, k + 1) /\ f[k + 1] = m.next[f[k]]
      BY <1>2, <3>1
    <3> QED BY <1>3, <3>1, <3>2
  <2> QED BY <2>1, <2>2
<1>6. P = Nat
  <2>1. P \subseteq Nat
    OBVIOUS
  <2> HIDE DEF P
  <2> QED BY <1>4, <1>5, <2>1, NumbersInduct
<1>7. ASSUME NEW k \in 0..n PROVE f[k] = NodeAt(l, s, k + 1)
  <2>1. k \in Nat /\ k <= n
    BY <1>1
  <2> QED BY <1>6, <2>1
<1> QED BY <1>7 DEF f, n

\* On a threaded list IntrusiveListGetAllNodes returns the list.
LEMMA AllNodes ==
  ASSUME NEW m \in Heaps, NEW l \in ListNames, NEW s \in Seq(Coros), IsInjective(s),
         Threaded(m, l, s)
  PROVE  IntrusiveListGetAllNodes(m, l) = s
<1> DEFINE f == Nth(m, l)
           n == Len(s)
           stops == {k \in DOMAIN f : f[k] = l}
<1>1. n \in Nat /\ n <= Cardinality(Coros) /\ Cardinality(Coros) \in Nat /\ l \in Nodes
  BY ListLength DEF Nodes
<1>2. DOMAIN f = 0..Cardinality(Coros)
  BY <1>1, NthSteps
<1>3. \A k \in 0..n : f[k] = NodeAt(l, s, k + 1)
  BY NthNodes
<1>4. NodeAt(l, s, n + 1) = l /\ \A k \in 1..n : NodeAt(l, s, k) = s[k] /\ s[k] # l
  BY NodeAtFacts
<1> HIDE DEF f
<1>5. n \in stops
  BY <1>1, <1>2, <1>3, <1>4
<1>6. ASSUME NEW k \in stops PROVE n <= k
  <2>1. k \in Nat /\ f[k] = l
    BY <1>1, <1>2
  <2>2. ASSUME k < n PROVE FALSE
    <3>1. k \in 0..n /\ k + 1 \in 1..n
      BY <1>1, <2>1, <2>2
    <3> QED BY <1>3, <1>4, <2>1, <3>1
  <2> QED BY <1>1, <2>1, <2>2
<1>7. Min(stops) = n
  <2>1. stops \subseteq Nat
    BY <1>1, <1>2
  <2> HIDE DEF stops
  <2>2. \A k \in stops : (\A j \in stops : k <= j) => k = n
    BY <1>1, <1>5, <1>6, <2>1
  <2> QED BY <1>5, <1>6, <2>2 DEF Min
<1>8. IntrusiveListGetAllNodes(m, l) = [i \in 1..n |-> f[i - 1]]
  <2>1. IntrusiveListGetAllNodes(m, l) =
          IF stops = {} THEN [i \in 1..Cardinality(Nodes) |-> f[0]]
          ELSE [i \in 1..Min(stops) |-> f[i - 1]]
    BY DEF IntrusiveListGetAllNodes, f
  <2> HIDE DEF stops
  <2> QED BY <1>5, <1>7, <2>1
<1>9. ASSUME NEW i \in 1..n PROVE f[i - 1] = s[i]
  <2>1. i - 1 \in 0..n /\ (i - 1) + 1 = i
    BY <1>1
  <2> QED BY <1>3, <1>4, <2>1
<1>10. s = [i \in 1..n |-> s[i]]
  OBVIOUS
<1> QED BY <1>8, <1>9, <1>10

\* Threads through all lists are what Holds asks for.
LEMMA ThreadedHolds ==
  ASSUME NEW ls, FourLists(ls), NEW m, ThreadsAll(m, ls)
  PROVE  Holds(m, ls)
<1>1. ASSUME NEW l \in ListNames PROVE IntrusiveListGetAllNodes(m, l) = ls[l]
  <2>1. ls[l] \in Seq(Coros) /\ IsInjective(ls[l]) /\ m \in Heaps /\ Threaded(m, l, ls[l])
    BY DEF FourLists, Partition, ThreadsAll
  <2> QED BY <2>1, AllNodes
<1> QED BY <1>1, ThreadedRing DEF Holds

\* The rings of the lists are threaded through each of them.
LEMMA RingsThread ==
  ASSUME NEW ls, FourLists(ls)
  PROVE  ThreadsAll(Rings(ls), ls)
<1> DEFINE m == Rings(ls)
           follows(n, x) ==
               \E l \in ListNames : \E i \in 0..Len(ls[l]) :
                   n = NodeAt(l, ls[l], i) /\ x = NodeAt(l, ls[l], i + 1)
<1>1. /\ m.next = [n \in Nodes |-> CHOOSE x \in Nodes : follows(n, x)]
      /\ m.prev = [n \in Nodes |-> CHOOSE x \in Nodes : follows(x, n)]
      /\ m = [next |-> m.next, prev |-> m.prev]
  BY DEF Rings
<1>2. /\ \A l \in ListNames : ls[l] \in Seq(Coros) /\ IsInjective(ls[l])
      /\ \A j, k \in ListNames : j # k => Range(ls[j]) \cap Range(ls[k]) = {}
  BY DEF FourLists, Partition
<1>3. ASSUME NEW l \in ListNames, NEW i \in 0..(Len(ls[l]) + 1),
             NEW k \in ListNames, NEW j \in 0..(Len(ls[k]) + 1),
             NodeAt(l, ls[l], i) = NodeAt(k, ls[k], j)
      PROVE  l = k
  BY <1>2, <1>3, NodesApart
<1>4. ASSUME NEW l \in ListNames, NEW i \in 0..Len(ls[l])
      PROVE  /\ Len(ls[l]) \in Nat /\ i \in 0..(Len(ls[l]) + 1) /\ i + 1 \in 0..(Len(ls[l]) + 1)
             /\ i + 1 \in 1..(Len(ls[l]) + 1)
             /\ NodeAt(l, ls[l], i) \in Nodes /\ NodeAt(l, ls[l], i + 1) \in Nodes
  <2>1. Len(ls[l]) \in Nat
    BY <1>2, NodeAtFacts
  <2>2. /\ i \in 0..(Len(ls[l]) + 1) /\ i + 1 \in 0..(Len(ls[l]) + 1)
        /\ i + 1 \in 1..(Len(ls[l]) + 1)
    BY <2>1
  <2> QED BY <1>2, <2>1, <2>2, NodeAtFacts
<1>5. ASSUME NEW l \in ListNames, NEW i \in 0..Len(ls[l]),
             NEW n, n = NodeAt(l, ls[l], i), NEW x, x = NodeAt(l, ls[l], i + 1)
      PROVE  m.next[n] = x /\ m.prev[x] = n
  <2>1. follows(n, x) /\ n \in Nodes /\ x \in Nodes
    BY <1>4, <1>5
  <2>2. ASSUME NEW y, follows(n, y) PROVE y = x
    <3>0. PICK k \in ListNames : \E j \in 0..Len(ls[k]) :
            n = NodeAt(k, ls[k], j) /\ y = NodeAt(k, ls[k], j + 1)
      BY <2>2
    <3>1. PICK j \in 0..Len(ls[k]) : n = NodeAt(k, ls[k], j) /\ y = NodeAt(k, ls[k], j + 1)
      BY <3>0
    <3>2. l = k
      BY <1>3, <1>4, <1>5, <3>1
    <3>3. i = j
      BY <1>2, <1>5, <3>1, <3>2, NodesDiffer
    <3> QED BY <1>5, <3>1, <3>2, <3>3
  <2>3. ASSUME NEW y, follows(y, x) PROVE y = n
    <3>0. PICK k \in ListNames : \E j \in 0..Len(ls[k]) :
            y = NodeAt(k, ls[k], j) /\ x = NodeAt(k, ls[k], j + 1)
      BY <2>3
    <3>1. PICK j \in 0..Len(ls[k]) : y = NodeAt(k, ls[k], j) /\ x = NodeAt(k, ls[k], j + 1)
      BY <3>0
    <3>2. l = k
      BY <1>3, <1>4, <1>5, <3>1
    <3>3. i + 1 = j + 1
      <4>1. i + 1 \in 1..(Len(ls[l]) + 1) /\ j + 1 \in 1..(Len(ls[l]) + 1)
        BY <1>4, <3>2
      <4>2. NodeAt(l, ls[l], i + 1) = NodeAt(l, ls[l], j + 1)
        BY <1>5, <3>1, <3>2
      <4> QED BY <1>2, <4>1, <4>2, NodesDiffer
    <3>4. i = j
      BY <3>3
    <3> QED BY <1>5, <3>1, <3>2, <3>4
  <2> HIDE DEF follows
  <2>4. (CHOOSE y \in Nodes : follows(n, y)) = x
    BY <2>1, <2>2
  <2>5. (CHOOSE y \in Nodes : follows(y, x)) = n
    BY <2>1, <2>3
  <2> QED BY <1>1, <2>1, <2>4, <2>5
<1>6. m \in Heaps
  <2>1. ASSUME NEW n \in Nodes
        PROVE  /\ \E x \in Nodes : follows(n, x)
               /\ \E x \in Nodes : follows(x, n)
    <3>1. PICK l \in ListNames : n = l \/ n \in Range(ls[l])
      BY DEF FourLists, Partition, Nodes
    <3>2. /\ Len(ls[l]) \in Nat /\ NodeAt(l, ls[l], 0) = l /\ NodeAt(l, ls[l], Len(ls[l]) + 1) = l
      BY <1>2, NodeAtFacts
    <3>3. PICK i \in 0..Len(ls[l]), j \in 0..Len(ls[l]) :
            n = NodeAt(l, ls[l], i) /\ n = NodeAt(l, ls[l], j + 1)
      <4>1. CASE n = l
        <5>1. 0 \in 0..Len(ls[l]) /\ Len(ls[l]) \in 0..Len(ls[l])
          BY <3>2
        <5> QED BY <3>2, <4>1, <5>1
      <4>2. CASE n \in Range(ls[l])
        <5>1. PICK i \in 1..Len(ls[l]) : n = ls[l][i]
          BY <1>2, <4>2 DEF Range
        <5>2. i \in 0..Len(ls[l]) /\ i - 1 \in 0..Len(ls[l]) /\ (i - 1) + 1 = i
          BY <3>2
        <5>3. n = NodeAt(l, ls[l], i) /\ n = NodeAt(l, ls[l], (i - 1) + 1)
          BY <1>2, <5>1, <5>2, NodeAtFacts
        <5> QED BY <5>2, <5>3
      <4> QED BY <3>1, <4>1, <4>2
    <3> QED BY <1>4, <3>3
  <2> HIDE DEF follows
  <2>2. \A n \in Nodes : /\ (CHOOSE x \in Nodes : follows(n, x)) \in Nodes
                         /\ (CHOOSE x \in Nodes : follows(x, n)) \in Nodes
    BY <2>1
  <2>3. m.next \in [Nodes -> Nodes] /\ m.prev \in [Nodes -> Nodes]
    BY <1>1, <2>2
  <2> HIDE DEF m
  <2> QED BY <1>1, <2>3 DEF Heaps
<1> HIDE DEF m
<1>7. ThreadsAll(m, ls)
  BY <1>5, <1>6 DEF ThreadsAll, Threaded
<1> QED BY <1>7 DEF m

\* The last k elements of order, which the constructor has inserted after k turns.
Rest(order, k) == [i \in 1..k |-> order[Len(order) - k + i]]

\* The heap of the constructor after k turns.
BuiltUpTo(m, order, k) ==
    /\ m \in Heaps
    /\ Threaded(m, "free", Rest(order, k))
    /\ \A l \in ListNames \ {"free"} : Threaded(m, l, <<>>)

LEMMA RestFacts ==
  ASSUME NEW order \in Seq(Coros), IsInjective(order), NEW k \in 0..Len(order)
  PROVE  /\ Rest(order, k) \in Seq(Coros) /\ IsInjective(Rest(order, k))
         /\ k < Len(order) =>
               /\ order[Len(order) - k] \in Coros
               /\ order[Len(order) - k] \notin Range(Rest(order, k))
               /\ Cons(order[Len(order) - k], Rest(order, k)) = Rest(order, k + 1)
<1> DEFINE n == Len(order)
           s == Rest(order, k)
<1>1. /\ n \in Nat /\ k \in Nat /\ DOMAIN order = 1..n
      /\ \A i, j \in 1..n : order[i] = order[j] => i = j
      /\ \A i \in 1..n : order[i] \in Coros
  BY DEF IsInjective
<1> HIDE DEF n
<1>2. \A i \in 1..k : n - k + i \in 1..n
  BY <1>1 DEF n
<1>3. s = [i \in 1..k |-> order[n - k + i]]
  BY DEF Rest, n
<1>4. s \in Seq(Coros) /\ Len(s) = k /\ DOMAIN s = 1..k
  BY <1>1, <1>2, <1>3
<1>5. \A i \in 1..k : s[i] = order[n - k + i]
  BY <1>3
<1> HIDE DEF s
<1>6. IsInjective(s)
  <2>1. ASSUME NEW i \in 1..k, NEW j \in 1..k, s[i] = s[j] PROVE i = j
    <3>1. n - k + i = n - k + j
      BY <1>1, <1>2, <1>5, <2>1
    <3> QED BY <1>1, <3>1
  <2> QED BY <1>4, <2>1 DEF IsInjective
<1>7. ASSUME k < n
      PROVE  /\ order[n - k] \in Coros /\ order[n - k] \notin Range(s)
             /\ Cons(order[n - k], s) = Rest(order, k + 1)
  <2>1. n - k \in 1..n /\ k + 1 \in Nat
    BY <1>1, <1>7
  <2>2. order[n - k] \notin Range(s)
    <3>1. ASSUME NEW i \in 1..k PROVE s[i] # order[n - k]
      <4>1. n - k + i # n - k
        BY <1>1
      <4> QED BY <1>1, <1>2, <1>5, <2>1, <4>1
    <3> QED BY <1>4, <3>1 DEF Range
  <2> DEFINE t == Cons(order[n - k], s)
             u == Rest(order, k + 1)
  <2>3. /\ t \in Seq(Coros) /\ Len(t) = k + 1 /\ t[1] = order[n - k]
        /\ \A i \in 2..(k + 1) : t[i] = s[i - 1]
    <3> DEFINE e == order[n - k]
    <3>1. e \in Coros /\ s \in Seq(Coros) /\ Len(s) = k
      BY <1>1, <1>4, <2>1
    <3> HIDE DEF e
    <3>2. Cons(e, s) \in Seq(Coros) /\ InFront(e, s, Cons(e, s))
      BY <3>1, ConsIndex
    <3> QED BY <3>1, <3>2 DEF InFront, e
  <2>4. u = [i \in 1..(k + 1) |-> order[n - (k + 1) + i]]
    BY DEF Rest, n
  <2>5. t = [i \in 1..(k + 1) |-> t[i]]
    <3>1. t \in Seq(Coros) /\ Len(t) = k + 1
      BY <2>3
    <3> HIDE DEF t
    <3>2. t = [i \in 1..Len(t) |-> t[i]]
      BY <3>1
    <3> QED BY <3>1, <3>2
  <2> HIDE DEF t, u
  <2>6. ASSUME NEW i \in 1..(k + 1) PROVE t[i] = order[n - (k + 1) + i]
    <3>1. CASE i = 1
      <4>1. n - (k + 1) + i = n - k
        BY <1>1, <3>1
      <4> QED BY <2>3, <3>1, <4>1
    <3>2. CASE i # 1
      <4>1. i \in 2..(k + 1) /\ i - 1 \in 1..k /\ n - k + (i - 1) = n - (k + 1) + i
        BY <1>1, <3>2
      <4>2. t[i] = s[i - 1] /\ s[i - 1] = order[n - k + (i - 1)]
        BY <1>5, <2>3, <4>1
      <4> QED BY <4>1, <4>2
    <3> QED BY <3>1, <3>2
  <2>7. t = u
    BY <2>4, <2>5, <2>6
  <2> QED BY <1>1, <2>1, <2>2, <2>7 DEF t, u
<1> QED BY <1>4, <1>6, <1>7 DEF n, s

\* The constructor threads the free list through the slots in their order.
LEMMA FreeThreads ==
  ASSUME NEW order \in Seq(Coros), IsInjective(order)
  PROVE  BuiltUpTo(FreeList(order), order, Len(order))
<1> DEFINE n == Len(order)
           slot(k) == order[n - k + 1]
           Is(f) == f = [k \in 0..n |-> IF k = 0 THEN IntrusiveListInit
                                        ELSE IntrusiveListInsert(f[k - 1], "free", slot(k))]
           built == CHOOSE f : Is(f)
<1>1. n \in Nat /\ "free" \in ListNames /\ "free" \in Nodes
  BY DEF ListNames, Nodes
<1>2. FreeList(order) = built[n]
  BY DEF FreeList
<1>3. \A k \in 1..n : slot(k) \in Coros /\ slot(k) \in Nodes /\ slot(k) # "free"
  <2>1. \A k \in 1..n : n - k + 1 \in 1..n
    BY <1>1
  <2>2. \A i \in 1..n : order[i] \in Coros
    OBVIOUS
  <2> QED BY <1>1, <2>1, <2>2, HeadsAssumption DEF Nodes
<1>4. IntrusiveListInit \in Heaps
  BY DEF IntrusiveListInit, Heaps
<1> HIDE DEF n, slot
<1>5. \E f : Is(f)
  <2> DEFINE turn(k, m) == IF k \in 1..n THEN IntrusiveListInsert(m, "free", slot(k)) ELSE m
             step == [k \in Nat |-> [m \in Heaps |-> turn(k, m)]]
  <2>1. ASSUME NEW k \in Nat, NEW m \in Heaps PROVE turn(k, m) \in Heaps
    BY <1>1, <1>3, InsertStores DEF Linked
  <2>2. step \in [Nat -> [Heaps -> Heaps]]
    BY <2>1
  <2>3. \A k \in 1..n : \A m \in Heaps :
          step[k][m] = IntrusiveListInsert(m, "free", slot(k))
    BY <1>1
  <2> HIDE DEF step
  <2>4. PICK g \in [0..n -> Heaps] : Takes(g, IntrusiveListInit, step, n)
    BY <1>1, <1>4, <2>2, StepsExist
  <2>5. ASSUME NEW k \in 1..n PROVE g[k] = IntrusiveListInsert(g[k - 1], "free", slot(k))
    <3>1. k - 1 \in 0..n
      BY <1>1
    <3>2. g[k - 1] \in Heaps
      BY <2>4, <3>1
    <3>3. g[k] = step[k][g[k - 1]]
      BY <2>4 DEF Takes
    <3> QED BY <2>3, <3>2, <3>3
  <2>6. ASSUME NEW k \in 0..n
        PROVE  g[k] = IF k = 0 THEN IntrusiveListInit
                      ELSE IntrusiveListInsert(g[k - 1], "free", slot(k))
    <3>1. CASE k = 0
      BY <2>4, <3>1 DEF Takes
    <3>2. CASE k # 0
      <4>1. k \in 1..n
        BY <1>1, <3>2
      <4> QED BY <2>5, <3>2, <4>1
    <3> QED BY <3>1, <3>2
  <2>7. Is(g)
    BY <2>4, <2>6
  <2> QED BY <2>7
<1>6. Is(built)
  BY <1>5
<1>7. /\ built[0] = IntrusiveListInit
      /\ \A k \in 1..n : built[k] = IntrusiveListInsert(built[k - 1], "free", slot(k))
  <2> HIDE DEF built
  <2>1. 0 \in 0..n /\ \A k \in 1..n : k \in 0..n /\ k # 0
    BY <1>1
  <2> QED BY <1>6, <2>1
<1> HIDE DEF built
<1> DEFINE P == {k \in Nat : k <= n => BuiltUpTo(built[k], order, k)}
<1>8. 0 \in P
  <2>1. Rest(order, 0) = <<>>
    BY DEF Rest
  <2>2. ASSUME NEW l \in ListNames PROVE Threaded(IntrusiveListInit, l, <<>>)
    <3>1. l \in Nodes
      BY DEF Nodes
    <3>2. \A i \in 0..1 : NodeAt(l, <<>>, i) = l
      BY DEF NodeAt
    <3>3. IntrusiveListInit.next[l] = l /\ IntrusiveListInit.prev[l] = l
      BY <3>1 DEF IntrusiveListInit
    <3> QED BY <3>2, <3>3 DEF Threaded
  <2>3. BuiltUpTo(built[0], order, 0)
    BY <1>1, <1>4, <1>7, <2>1, <2>2 DEF BuiltUpTo
  <2> QED BY <2>3
<1>9. ASSUME NEW k \in P PROVE k + 1 \in P
  <2>1. k \in Nat /\ k + 1 \in Nat
    OBVIOUS
  <2>2. ASSUME k + 1 <= n PROVE BuiltUpTo(built[k + 1], order, k + 1)
    <3> DEFINE m == built[k]
               r == built[k + 1]
               s == Rest(order, k)
               c == slot(k + 1)
    <3>1. k <= n /\ k \in 0..n /\ k < n /\ k + 1 \in 1..n /\ (k + 1) - 1 = k
      BY <1>1, <2>1, <2>2
    <3>2. BuiltUpTo(m, order, k)
      BY <3>1
    <3>3. r = IntrusiveListInsert(m, "free", c) /\ c \in Coros /\ c \in Nodes /\ c # "free"
      BY <1>3, <1>7, <3>1
    <3>4. c = order[Len(order) - k]
      <4>1. n - (k + 1) + 1 = n - k
        BY <1>1, <2>1
      <4> QED BY <4>1 DEF slot, n
    <3>5. /\ s \in Seq(Coros) /\ IsInjective(s) /\ c \notin Range(s)
          /\ Cons(c, s) = Rest(order, k + 1)
      BY <3>1, <3>4, RestFacts DEF n
    <3> HIDE DEF m, r, s, c
    <3>6. m \in Heaps /\ Threaded(m, "free", s)
      BY <3>2 DEF BuiltUpTo, m, s
    <3>7. r \in Heaps
      BY <1>1, <3>3, <3>6, InsertStores DEF Linked
    <3>8. Threaded(r, "free", Cons(c, s))
      BY <1>1, <3>3, <3>5, <3>6, InsertHere
    <3>9. ASSUME NEW l \in ListNames \ {"free"} PROVE Threaded(r, l, <<>>)
      <4>1. Threaded(m, l, <<>>) /\ <<>> \in Seq(Coros)
        BY <3>2 DEF BuiltUpTo, m
      <4>2. Range(s) \cap Range(<<>>) = {} /\ c \notin Range(<<>>)
        BY EmptyFacts
      <4> QED BY <1>1, <3>3, <3>5, <3>6, <4>1, <4>2, InsertElsewhere
    <3> QED BY <3>5, <3>7, <3>8, <3>9 DEF BuiltUpTo, r
  <2> QED BY <2>1, <2>2
<1>10. P = Nat
  <2>1. P \subseteq Nat
    OBVIOUS
  <2> HIDE DEF P
  <2> QED BY <1>8, <1>9, <2>1, NumbersInduct
<1>11. BuiltUpTo(built[n], order, n)
  BY <1>1, <1>10
<1> QED BY <1>2, <1>11 DEF n

\* The constructor's heap holds the free list when every slot is on it.
LEMMA FreeHolds ==
  ASSUME NEW ls, FourLists(ls), Len(ls["free"]) = Cardinality(Coros)
  PROVE  Holds(FreeList(ls["free"]), ls)
<1> DEFINE order == ls["free"]
           m == FreeList(order)
<1>1. "free" \in ListNames
  BY DEF ListNames
<1>2. order \in Seq(Coros) /\ IsInjective(order)
  BY <1>1 DEF FourLists, Partition
<1>3. Range(order) = Coros
  BY <1>2, ListLength
<1>4. BuiltUpTo(m, order, Len(order))
  BY <1>2, FreeThreads
<1>5. Rest(order, Len(order)) = order
  <2> HIDE DEF order
  <2>1. Len(order) \in Nat /\ order = [i \in 1..Len(order) |-> order[i]]
    BY <1>2
  <2>2. \A i \in 1..Len(order) : Len(order) - Len(order) + i = i
    BY <2>1
  <2> QED BY <2>1, <2>2 DEF Rest
<1>6. ASSUME NEW l \in ListNames \ {"free"} PROVE ls[l] = <<>>
  <2>1. ls[l] \in Seq(Coros) /\ Range(ls[l]) \cap Coros = {}
    BY <1>1, <1>3, <1>6 DEF FourLists, Partition
  <2>2. Range(ls[l]) = {}
    BY <2>1, RangeIn
  <2>3. \A i \in 1..Len(ls[l]) : ls[l][i] \in Range(ls[l])
    BY <2>1 DEF Range
  <2> QED BY <2>1, <2>2, <2>3
<1>7. ThreadsAll(m, ls)
  <2> HIDE DEF m
  <2>1. m \in Heaps /\ Threaded(m, "free", ls["free"])
    BY <1>4, <1>5 DEF BuiltUpTo
  <2>2. ASSUME NEW l \in ListNames \ {"free"} PROVE Threaded(m, l, ls[l])
    BY <1>4, <1>6 DEF BuiltUpTo
  <2> QED BY <2>1, <2>2 DEF ThreadsAll
<1> QED BY <1>7, ThreadedHolds

\* What the lists and the pointers have to do with each other, for any lists that
\* share out the slots.
LEMMA ListsAndPointers ==
  ASSUME NEW ls, FourLists(ls)
  PROVE  /\ \A c \in Coros, l \in ListNames :
              Holds(IntrusiveListInsert(IntrusiveListRemove(Rings(ls), c), l, c), moveTo(ls, c, l))
         /\ ls["free"] # <<>> => IntrusiveListFront(Rings(ls), "free") = Head(ls["free"])
         /\ Len(ls["free"]) = Cardinality(Coros) => Holds(FreeList(ls["free"]), ls)
<1>1. ThreadsAll(Rings(ls), ls)
  BY RingsThread
<1>2. ASSUME NEW c \in Coros, NEW l \in ListNames
      PROVE  Holds(IntrusiveListInsert(IntrusiveListRemove(Rings(ls), c), l, c),
                   moveTo(ls, c, l))
  <2>1. FourLists(moveTo(ls, c, l))
    BY MoveFacts
  <2> QED BY <1>1, <2>1, MoveThreads, ThreadedHolds
<1>3. ASSUME ls["free"] # <<>>
      PROVE  IntrusiveListFront(Rings(ls), "free") = Head(ls["free"])
  <2> DEFINE s == ls["free"]
  <2>1. "free" \in ListNames /\ s \in Seq(Coros) /\ Threaded(Rings(ls), "free", s)
    BY <1>1 DEF ListNames, FourLists, ThreadsAll
  <2>2. 0 \in 0..Len(s) /\ 1 \in 1..Len(s) /\ 0 + 1 = 1 /\ Head(s) = s[1]
    BY <1>3, <2>1
  <2>3. NodeAt("free", s, 0) = "free" /\ NodeAt("free", s, 1) = s[1]
    BY <2>1, <2>2, NodeAtFacts
  <2> HIDE DEF s
  <2>4. Rings(ls).next[NodeAt("free", s, 0)] = NodeAt("free", s, 0 + 1)
    BY <2>1, <2>2 DEF Threaded
  <2> QED BY <2>2, <2>3, <2>4 DEF IntrusiveListFront, s
<1> QED BY <1>2, <1>3, FreeHolds

\* Whenever the scheduler is at the top of its loop, IntrusiveListRemove and
\* IntrusiveListInsert do to the pointers what moveTo does to the lists, front finds
\* the first free slot, and the constructor's stores build the free list, for every
\* pool of slots.
THEOREM PointersAgreeHolds == Spec => []PointersAgree
<1>1. LInv => PointersAgree
  <2> SUFFICES ASSUME LInv PROVE PointersAgree
    OBVIOUS
  <2>1. PICK ls : ls = lists /\ FourLists(ls)
    BY DEF LInv, TypeOK, ListsPartition, FourLists
  <2>2. /\ \A c \in Coros, l \in ListNames :
              Holds(IntrusiveListInsert(IntrusiveListRemove(Rings(ls), c), l, c), moveTo(ls, c, l))
        /\ ls["free"] # <<>> => IntrusiveListFront(Rings(ls), "free") = Head(ls["free"])
        /\ Len(ls["free"]) = Cardinality(Coros) => Holds(FreeList(ls["free"]), ls)
    BY <2>1, ListsAndPointers
  <2> QED BY <2>1, <2>2 DEF PointersAgree
<1> QED BY <1>1, LInvHolds, PTL
=============================================================================
