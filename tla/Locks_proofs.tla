---------------------------- MODULE Locks_proofs ----------------------------
(***************************************************************************)
(* What coroutine_mutex.h offers is correct for every set of coroutines    *)
(* and threads: CoMutex with its hand-off, Mutex with the waiters of both  *)
(* kinds, and the futures and slots of Async.                              *)
(***************************************************************************)
EXTENDS CoMutex, Mutex, Async, SeqLemmas

-----------------------------------------------------------------------------
(* CoMutex. *)

(***************************************************************************)
(* The inductive invariant.  MutualExclusion alone is not inductive: that  *)
(* nobody else is in the critical section when suspend() returns follows   *)
(* from the ownership that unlock() transferred, which HandOff states, and *)
(* HandOff rests on who may be in the queue, which QueueSound states.      *)
(***************************************************************************)
CoMutexInv == TypeOK /\ HandOff /\ QueueSound

-----------------------------------------------------------------------------
\* The initial state: nobody asks for the lock and the queue is empty.
LEMMA InitCoMutexInv == Init => CoMutexInv
<1> SUFFICES ASSUME Init PROVE CoMutexInv
  OBVIOUS
<1>1. TypeOK
  <2>1. pc \in [Callers -> Places]
    BY DEF Init, Places
  <2>2. waiters \in Seq(Callers)
    BY DEF Init
  <2> QED BY <2>1, <2>2 DEF Init, TypeOK
<1>2. Range(waiters) = {} /\ IsInjective(waiters)
  BY EmptyFacts DEF Init
<1>3. HandOff
  BY DEF Init, HandOff, HoldsLock, Swallowed
<1>4. QueueSound
  BY <1>2, CallersAssumption DEF Init, QueueSound
<1> QED BY <1>1, <1>3, <1>4 DEF CoMutexInv

\* Every step of lock() and unlock() keeps the invariant.
LEMMA NextCoMutexInv == CoMutexInv /\ [Next]_vars => CoMutexInv'
<1> SUFFICES ASSUME CoMutexInv, [Next]_vars PROVE CoMutexInv'
  OBVIOUS
<1> USE CallersAssumption DEF CoMutexInv
<1> USE DEF goto, Places, HoldsLock, Swallowed
<1>1. ASSUME NEW c \in Callers, fastLock(c) PROVE CoMutexInv'
  <2>1. TypeOK' BY <1>1 DEF fastLock, TypeOK
  <2>2. HandOff' BY <1>1 DEF fastLock, TypeOK, HandOff, QueueSound
  <2>3. QueueSound' BY <1>1 DEF fastLock, TypeOK, HandOff, QueueSound
  <2> QED BY <2>1, <2>2, <2>3
<1>2. ASSUME NEW c \in Callers, takeMtx(c) PROVE CoMutexInv'
  <2>1. TypeOK' BY <1>2 DEF takeMtx, TypeOK
  <2>2. HandOff' BY <1>2 DEF takeMtx, TypeOK, HandOff, QueueSound
  <2>3. QueueSound' BY <1>2 DEF takeMtx, TypeOK, HandOff, QueueSound
  <2> QED BY <2>1, <2>2, <2>3
<1>3. ASSUME NEW c \in Callers, retryLock(c) PROVE CoMutexInv'
  <2>1. TypeOK' BY <1>3 DEF retryLock, TypeOK
  <2>2. HandOff' BY <1>3 DEF retryLock, TypeOK, HandOff, QueueSound
  <2>3. QueueSound' BY <1>3 DEF retryLock, TypeOK, HandOff, QueueSound
  <2> QED BY <2>1, <2>2, <2>3
<1>4. ASSUME NEW c \in Callers, push(c) PROVE CoMutexInv'
  <2>0. /\ waiters' \in Seq(Callers)
        /\ Range(waiters') = Range(waiters) \cup {c}
        /\ IsInjective(waiters) /\ c \notin Range(waiters) => IsInjective(waiters')
    BY <1>4, AppendFacts DEF push, TypeOK
  <2>1. TypeOK' BY <1>4, <2>0 DEF push, TypeOK
  <2>2. HandOff' BY <1>4, <2>0 DEF push, TypeOK, HandOff, QueueSound
  <2>3. c \notin Range(waiters) BY <1>4 DEF push, QueueSound
  <2>4. QueueSound' BY <1>4, <2>0, <2>3 DEF push, TypeOK, HandOff, QueueSound
  <2> QED BY <2>1, <2>2, <2>4
<1>5. ASSUME NEW c \in Callers, suspend(c) PROVE CoMutexInv'
  <2>1. TypeOK' BY <1>5 DEF suspend, TypeOK
  <2>2. HandOff' BY <1>5 DEF suspend, TypeOK, HandOff, QueueSound
  <2>3. QueueSound' BY <1>5 DEF suspend, TypeOK, HandOff, QueueSound
  <2> QED BY <2>1, <2>2, <2>3
<1>6. ASSUME NEW c \in Callers, throw(c) PROVE CoMutexInv'
  <2>1. TypeOK' BY <1>6 DEF throw, TypeOK
  <2>2. HandOff' BY <1>6 DEF throw, TypeOK, HandOff, QueueSound
  <2>3. QueueSound' BY <1>6 DEF throw, TypeOK, HandOff, QueueSound
  <2> QED BY <2>1, <2>2, <2>3
<1>7. ASSUME NEW c \in Callers, relock(c) PROVE CoMutexInv'
  <2>1. TypeOK' BY <1>7 DEF relock, TypeOK
  <2>2. HandOff' BY <1>7 DEF relock, TypeOK, HandOff, QueueSound
  <2>3. QueueSound' BY <1>7 DEF relock, TypeOK, HandOff, QueueSound
  <2> QED BY <2>1, <2>2, <2>3
<1>8. ASSUME NEW c \in Callers, leave(c) PROVE CoMutexInv'
  <2>1. TypeOK' BY <1>8 DEF leave, TypeOK
  <2>2. HandOff' BY <1>8 DEF leave, TypeOK, HandOff, QueueSound
  <2>3. QueueSound' BY <1>8 DEF leave, TypeOK, HandOff, QueueSound
  <2> QED BY <2>1, <2>2, <2>3
<1>9. ASSUME NEW c \in Callers, callUnlock(c) PROVE CoMutexInv'
  <2>1. TypeOK' BY <1>9 DEF callUnlock, TypeOK
  <2>2. HandOff' BY <1>9 DEF callUnlock, TypeOK, HandOff, QueueSound
  <2>3. QueueSound' BY <1>9 DEF callUnlock, TypeOK, HandOff, QueueSound
  <2> QED BY <2>1, <2>2, <2>3
<1>10. ASSUME NEW c \in Callers, takeMtxToNotify(c) PROVE CoMutexInv'
  <2>1. TypeOK' BY <1>10 DEF takeMtxToNotify, TypeOK
  <2>2. HandOff' BY <1>10 DEF takeMtxToNotify, TypeOK, HandOff, QueueSound
  <2>3. QueueSound' BY <1>10 DEF takeMtxToNotify, TypeOK, HandOff, QueueSound
  <2> QED BY <2>1, <2>2, <2>3
<1>11. ASSUME NEW c \in Callers, notify(c) PROVE CoMutexInv'
  <2>1. CASE waiters = <<>>
    <3>1. TypeOK' BY <1>11, <2>1 DEF notify, TypeOK
    <3>2. HandOff' BY <1>11, <2>1 DEF notify, TypeOK, HandOff, QueueSound
    <3>3. QueueSound' BY <1>11, <2>1 DEF notify, TypeOK, HandOff, QueueSound
    <3> QED BY <3>1, <3>2, <3>3
  <2>2. CASE waiters # <<>>
    <3>h. PICK h : h = Head(waiters)
      OBVIOUS
    <3>0. /\ h \in Callers /\ h \in Range(waiters)
          /\ waiters' \in Seq(Callers)
          /\ Range(waiters) = {h} \cup Range(waiters')
          /\ IsInjective(waiters') /\ h \notin Range(waiters')
      <4>1. waiters' = Tail(waiters) /\ waiters \in Seq(Callers) /\ IsInjective(waiters)
        BY <1>11, <2>2 DEF notify, TypeOK, QueueSound
      <4> QED BY <2>2, <3>h, <4>1, TailFacts
    <3>1. /\ resumed' = resumed \cup ({h} \ Plain)
          /\ pc[c] = "notify" /\ pc' = [pc EXCEPT ![c] = "out"]
          /\ isLock' = isLock /\ mtx' = Nobody
      BY <1>11, <2>2, <3>h DEF notify
    <3>2. TypeOK' BY <3>0, <3>1 DEF TypeOK
    <3>3. h # c BY <3>0, <3>1 DEF QueueSound, TypeOK
    <3>4. /\ \A d \in Callers : HoldsLock(d) => d = c
          /\ isLock
      BY <3>1 DEF HandOff
    <3>5. \A d \in Callers : HoldsLock(d)' => d = h
      BY <3>0, <3>1, <3>3, <3>4 DEF TypeOK, QueueSound
    <3>6. h \in Plain => pc'[h] \in {"wait", "threw"} /\ h \notin Range(waiters')
      BY <3>0, <3>1, <3>3 DEF QueueSound, TypeOK
    <3>7. HoldsLock(h)'
      BY <3>1, <3>6
    <3>8. HandOff' BY <3>0, <3>1, <3>4, <3>5, <3>7 DEF HandOff
    <3>9. QueueSound' BY <3>0, <3>1, <3>3 DEF TypeOK, QueueSound
    <3> QED BY <3>2, <3>8, <3>9
  <2> QED BY <2>1, <2>2
<1>12. CASE UNCHANGED vars
  BY <1>12 DEF vars, TypeOK, HandOff, QueueSound
<1> QED BY <1>1, <1>2, <1>3, <1>4, <1>5, <1>6, <1>7, <1>8, <1>9, <1>10, <1>11, <1>12
        DEF Next, lock, unlock

-----------------------------------------------------------------------------
\* The strengthened invariant holds in every reachable state.
THEOREM CoMutexInvHolds == Spec => []CoMutexInv
  BY InitCoMutexInv, NextCoMutexInv, PTL DEF Spec

\* The variables of CoMutex keep their types.
THEOREM CoMutexTypeCorrect == Spec => []TypeOK
  BY CoMutexInvHolds, PTL DEF CoMutexInv

\* At most one caller is between lock() and unlock().
THEOREM MutualExclusionHolds == Spec => []MutualExclusion
<1>1. CoMutexInv => MutualExclusion
  BY DEF CoMutexInv, HandOff, HoldsLock, MutualExclusion
<1> QED BY <1>1, CoMutexInvHolds, PTL

\* unlock() hands the lock over without a gap and loses neither it nor a waiter.
THEOREM HandOffHolds == Spec => []HandOff
  BY CoMutexInvHolds, PTL DEF CoMutexInv

-----------------------------------------------------------------------------
(* The refinement. *)

\* Under the invariant the owner is whoever holds the lock.
LEMMA OwnerIs ==
  ASSUME CoMutexInv, NEW c \in Callers, HoldsLock(c) PROVE Owner = c
  BY DEF CoMutexInv, HandOff, Owner

LEMMA OwnerIsNobody ==
  ASSUME \A c \in Callers : ~HoldsLock(c) PROVE Owner = Nobody
  BY DEF Owner

\* The same two facts about the next state.
LEMMA NextOwnerIs ==
  ASSUME CoMutexInv', NEW c \in Callers, HoldsLock(c)' PROVE Owner' = c
  BY DEF CoMutexInv, HandOff, Owner

LEMMA NextOwnerIsNobody ==
  ASSUME \A c \in Callers : ~HoldsLock(c)' PROVE Owner' = Nobody
  BY DEF Owner

\* A step that moves nobody into or out of possession keeps the owner.
LEMMA SameOwner ==
  ASSUME \A c \in Callers : HoldsLock(c)' <=> HoldsLock(c)
  PROVE  Owner' = Owner
<1>1. \A c \in Callers : HoldsLock(c)' = HoldsLock(c)
  BY DEF HoldsLock, Swallowed
<1>2. (CHOOSE c \in Callers : HoldsLock(c))' = CHOOSE c \in Callers : HoldsLock(c)
  BY <1>1
<1> QED BY <1>1, <1>2 DEF Owner

(***************************************************************************)
(* Every step of lock() and unlock() is Acquire, Enqueue or Release of the *)
(* hand-off lock, or leaves owner and queue alone.                         *)
(***************************************************************************)
LEMMA NextRefines ==
  ASSUME CoMutexInv, CoMutexInv', [Next]_vars
  PROVE  [Abstract!Next]_(Abstract!vars)
<1> USE CallersAssumption
<1> USE DEF goto
<1> DEFINE Same == Owner' = Owner /\ waiters' = waiters
<1>0. ASSUME Same PROVE [Abstract!Next]_(Abstract!vars)
  BY <1>0 DEF Abstract!vars
<1>1. ASSUME NEW c \in Callers, ~isLock, isLock',
             waiters' = waiters, HoldsLock(c)'
      PROVE  Abstract!Next
  <2>1. Owner = Nobody
    BY <1>1, OwnerIsNobody DEF CoMutexInv, HandOff
  <2>2. waiters = <<>>
    BY <1>1 DEF CoMutexInv, HandOff
  <2>3. Owner' = c
    BY <1>1, NextOwnerIs
  <2>4. Abstract!Acquire(c)
    BY <1>1, <2>1, <2>2, <2>3 DEF Abstract!Acquire
  <2> QED BY <2>4 DEF Abstract!Next
<1>2. ASSUME NEW c \in Callers, fastLock(c) PROVE [Abstract!Next]_(Abstract!vars)
  <2>1. CASE isLock
    <3>1. \A d \in Callers : HoldsLock(d)' <=> HoldsLock(d)
      BY <1>2, <2>1 DEF fastLock, HoldsLock, Swallowed, CoMutexInv, TypeOK
    <3> QED BY <1>0, <1>2, <3>1, SameOwner DEF fastLock
  <2>2. CASE ~isLock
    BY <1>1, <1>2, <2>2 DEF fastLock, HoldsLock, Swallowed, CoMutexInv, TypeOK
  <2> QED BY <2>1, <2>2
<1>3. ASSUME NEW c \in Callers, retryLock(c) PROVE [Abstract!Next]_(Abstract!vars)
  <2>1. CASE isLock
    <3>1. \A d \in Callers : HoldsLock(d)' <=> HoldsLock(d)
      BY <1>3, <2>1 DEF retryLock, HoldsLock, Swallowed, CoMutexInv, TypeOK
    <3> QED BY <1>0, <1>3, <3>1, SameOwner DEF retryLock
  <2>2. CASE ~isLock
    BY <1>1, <1>3, <2>2 DEF retryLock, HoldsLock, Swallowed, CoMutexInv, TypeOK
  <2> QED BY <2>1, <2>2
<1>4. ASSUME NEW c \in Callers, push(c) PROVE [Abstract!Next]_(Abstract!vars)
  <2>1. ~HoldsLock(c)
    BY <1>4 DEF push, HoldsLock, Swallowed, CoMutexInv, QueueSound
  <2>2. PICK d \in Callers : HoldsLock(d)
    BY <1>4 DEF push, CoMutexInv, HandOff, QueueSound
  <2>3. Owner = d /\ d # c /\ d # Nobody
    BY <2>1, <2>2, OwnerIs
  <2>r. Range(waiters') = Range(waiters) \cup {c}
    BY <1>4, AppendFacts DEF push, CoMutexInv, TypeOK
  <2>4. \A e \in Callers : HoldsLock(e)' <=> HoldsLock(e)
    BY <1>4, <2>r, <2>1 DEF push, HoldsLock, Swallowed, CoMutexInv, TypeOK
  <2>5. Abstract!Enqueue(c)
    BY <1>4, <2>3, <2>4, SameOwner DEF push, Abstract!Enqueue
  <2> QED BY <2>5 DEF Abstract!Next
<1>5. ASSUME NEW c \in Callers,
             suspend(c) \/ throw(c) \/ relock(c) \/ leave(c) \/ callUnlock(c)
                \/ takeMtxToNotify(c) \/ takeMtx(c)
      PROVE  [Abstract!Next]_(Abstract!vars)
  <2>1. \A d \in Callers : HoldsLock(d)' <=> HoldsLock(d)
    BY <1>5 DEF suspend, throw, relock, leave, callUnlock, takeMtxToNotify, takeMtx,
                HoldsLock, Swallowed, CoMutexInv, TypeOK
  <2>2. waiters' = waiters
    BY <1>5 DEF suspend, throw, relock, leave, callUnlock, takeMtxToNotify, takeMtx
  <2> QED BY <1>0, <2>1, <2>2, SameOwner
<1>6. ASSUME NEW c \in Callers, notify(c) PROVE [Abstract!Next]_(Abstract!vars)
  <2>1. HoldsLock(c)
    BY <1>6 DEF notify, HoldsLock, Swallowed
  <2>2. Owner = c /\ Owner # Nobody
    BY <2>1, OwnerIs
  <2>3. \A d \in Callers : HoldsLock(d) => d = c
    BY <2>1 DEF CoMutexInv, HandOff
  <2>4. c \notin resumed
    BY <1>6 DEF notify, CoMutexInv, QueueSound
  <2>5. CASE waiters = <<>>
    <3>1. \A d \in Callers : ~HoldsLock(d)'
      BY <1>6, <2>3, <2>4, <2>5 DEF notify, HoldsLock, Swallowed, CoMutexInv, TypeOK
    <3>2. Owner' = Nobody
      BY <3>1, NextOwnerIsNobody
    <3>3. Abstract!Release
      BY <1>6, <2>2, <2>5, <3>2 DEF notify, Abstract!Release
    <3> QED BY <3>3 DEF Abstract!Next
  <2>6. CASE waiters # <<>>
    <3>1. PICK h : h = Head(waiters)
      OBVIOUS
    <3>2. h \in Callers
      BY <2>6, <3>1, TailFacts DEF CoMutexInv, TypeOK
    <3>w. /\ waiters' = Tail(waiters) /\ waiters \in Seq(Callers) /\ IsInjective(waiters)
          /\ resumed' = resumed \cup ({h} \ Plain) /\ pc' = [pc EXCEPT ![c] = "out"]
          /\ pc[c] = "notify"
      BY <1>6, <2>6, <3>1 DEF notify, CoMutexInv, TypeOK, QueueSound
    <3>r. h \in Range(waiters) /\ h \notin Range(waiters')
      BY <2>6, <3>1, <3>w, TailFacts
    <3>p. h \in Plain => pc'[h] \in {"wait", "threw"}
      BY <3>2, <3>w, <3>r DEF CoMutexInv, TypeOK, QueueSound
    <3>3. HoldsLock(h)'
      BY <3>w, <3>r, <3>p DEF HoldsLock, Swallowed
    <3>4. Owner' = h
      BY <3>2, <3>3, NextOwnerIs
    <3>5. Abstract!Release
      BY <1>6, <2>2, <2>6, <3>1, <3>4 DEF notify, Abstract!Release
    <3> QED BY <3>5 DEF Abstract!Next
  <2> QED BY <2>5, <2>6
<1>8. ASSUME UNCHANGED vars PROVE [Abstract!Next]_(Abstract!vars)
  <2>1. \A d \in Callers : HoldsLock(d)' <=> HoldsLock(d)
    BY <1>8 DEF vars, HoldsLock, Swallowed
  <2> QED BY <1>0, <1>8, <2>1, SameOwner DEF vars
<1> QED BY <1>2, <1>3, <1>4, <1>5, <1>6, <1>8 DEF Next, lock, unlock

(***************************************************************************)
(* CoMutex implements the lock with a queue, for coroutines and plain      *)
(* threads: no newcomer overtakes a queued caller and no release is lost.  *)
(***************************************************************************)
THEOREM RefinesHandoffLock == Spec => ImplementsHandoffLock
<1>1. Init => Abstract!Init
  <2>1. Init => \A c \in Callers : ~HoldsLock(c)
    BY DEF Init, HoldsLock, Swallowed
  <2> QED BY <2>1, OwnerIsNobody DEF Init, Abstract!Init
<1>2. CoMutexInv /\ CoMutexInv' /\ [Next]_vars => [Abstract!Next]_(Abstract!vars)
  BY NextRefines
<1> QED BY <1>1, <1>2, CoMutexInvHolds, PTL DEF Spec, Abstract!Spec, ImplementsHandoffLock

-----------------------------------------------------------------------------
(* Mutex. *)

(***************************************************************************)
(* NoLostWakeup is not inductive alone: unlock() notifies only if          *)
(* waitings_ > 0, so the count must be exact, and a notification reaches   *)
(* somebody only if every waiter is in the queue of its kind.              *)
(***************************************************************************)
MutexInv == MutexTypeOK /\ OneHolder /\ WaitersAccounted /\ WaitingsExact /\ NoLostWakeup

WaitSet == {c \in Users : at[c] = "wait"}

-----------------------------------------------------------------------------
\* The waiters are finitely many, so that counting them makes sense.
LEMMA WaitSetFinite ==
  ASSUME MutexTypeOK
  PROVE  /\ IsFiniteSet(WaitSet) /\ Cardinality(WaitSet) \in Nat
         /\ Cardinality(WaitSet) = 0 <=> WaitSet = {}
<1>1. IsFiniteSet(Users)
  BY UsersAssumption, FS_Union DEF Users
<1>2. IsFiniteSet(WaitSet)
  BY <1>1, FS_Subset DEF WaitSet
<1> QED BY <1>2, FS_CardinalityType, FS_EmptySet

\* How the count changes when one caller starts or stops waiting.
LEMMA WaitSetChange ==
  ASSUME MutexTypeOK, NEW c \in Users, NEW place,
         at' = [at EXCEPT ![c] = place]
  PROVE  /\ at[c] # "wait" /\ place = "wait"
               => Cardinality(WaitSet') = Cardinality(WaitSet) + 1
         /\ at[c] = "wait" /\ place # "wait"
               => Cardinality(WaitSet') = Cardinality(WaitSet) - 1
<1>1. IsFiniteSet(WaitSet)
  BY WaitSetFinite
<1>2. ASSUME at[c] # "wait", place = "wait"
      PROVE  Cardinality(WaitSet') = Cardinality(WaitSet) + 1
  <2>1. WaitSet' = WaitSet \cup {c} /\ c \notin WaitSet
    BY <1>2 DEF WaitSet, MutexTypeOK
  <2> QED BY <1>1, <2>1, FS_AddElement
<1>3. ASSUME at[c] = "wait", place # "wait"
      PROVE  Cardinality(WaitSet') = Cardinality(WaitSet) - 1
  <2>1. WaitSet' = WaitSet \ {c} /\ c \in WaitSet
    BY <1>3 DEF WaitSet, MutexTypeOK
  <2> QED BY <1>1, <2>1, FS_RemoveElement
<1> QED BY <1>2, <1>3

\* A caller that starts to wait joins exactly one of the two queues.
LEMMA CondWaitFacts ==
  ASSUME MutexTypeOK, NEW c \in Users, condWait(c)
  PROVE  /\ coCv' \in Seq(Coros) /\ cv' \subseteq Threads
         /\ Sleeping' = Sleeping \cup {c}
         /\ IsInjective(coCv) /\ c \notin Sleeping => IsInjective(coCv')
<1>1. CASE c \in Coros
  <2>1. coCv' = Append(coCv, c) /\ cv' = cv
    BY <1>1 DEF condWait
  <2>2. /\ coCv' \in Seq(Coros) /\ Range(coCv') = Range(coCv) \cup {c}
        /\ IsInjective(coCv) /\ c \notin Range(coCv) => IsInjective(coCv')
    BY <1>1, <2>1, AppendFacts DEF MutexTypeOK
  <2> QED BY <2>1, <2>2 DEF Sleeping, MutexTypeOK
<1>2. CASE c \notin Coros
  BY <1>2 DEF condWait, Sleeping, MutexTypeOK, Users
<1> QED BY <1>1, <1>2

\* notify_one moves one sleeper, of whichever kind, if anybody sleeps.
LEMMA NotifyFacts ==
  ASSUME MutexTypeOK, IsInjective(coCv), notify_one
  PROVE  /\ coCv' \in Seq(Coros) /\ cv' \subseteq Threads /\ IsInjective(coCv')
         /\ \/ /\ Sleeping = {} /\ Sleeping' = {} /\ woken' = woken
            \/ \E x \in Sleeping : /\ x \in Users
                                   /\ Sleeping' = Sleeping \ {x}
                                   /\ woken' = woken \cup {x}
<1>1. CASE coCv # <<>>
  <2>1. /\ woken' = woken \cup {Head(coCv)}
        /\ coCv' = Tail(coCv) /\ cv' = cv
    BY <1>1 DEF notify_one
  <2>2. PICK x : x = Head(coCv)
    OBVIOUS
  <2>3. /\ x \in Coros /\ x \in Range(coCv)
        /\ coCv' \in Seq(Coros) /\ IsInjective(coCv')
        /\ Range(coCv) = {x} \cup Range(coCv') /\ x \notin Range(coCv')
    BY <1>1, <2>1, <2>2, TailFacts DEF MutexTypeOK
  <2>4. x \notin cv
    BY <2>3, UsersAssumption DEF MutexTypeOK
  <2>5. x \in Sleeping /\ x \in Users /\ Sleeping' = Sleeping \ {x}
    BY <2>1, <2>3, <2>4 DEF Sleeping, Users
  <2> QED BY <2>1, <2>2, <2>3, <2>5 DEF MutexTypeOK
<1>2. CASE coCv = <<>> /\ cv # {}
  <2>1. PICK t \in cv : woken' = woken \cup {t} /\ cv' = cv \ {t} /\ coCv' = coCv
    BY <1>2 DEF notify_one
  <2>2. Range(coCv) = {} /\ Range(coCv') = {}
    BY <1>2, <2>1, EmptyFacts
  <2> QED BY <2>1, <2>2 DEF MutexTypeOK, Sleeping, Users
<1>3. CASE coCv = <<>> /\ cv = {}
  <2>1. woken' = woken /\ coCv' = coCv /\ cv' = cv
    BY <1>3 DEF notify_one
  <2>2. Range(coCv) = {} /\ Range(coCv') = {}
    BY <1>3, <2>1, EmptyFacts
  <2> QED BY <1>3, <2>1, <2>2 DEF MutexTypeOK, Sleeping
<1> QED BY <1>1, <1>2, <1>3

-----------------------------------------------------------------------------
\* The initial state: the lock is free and nobody waits.
LEMMA InitMutexInv == MutexInit => MutexInv
<1> SUFFICES ASSUME MutexInit PROVE MutexInv
  OBVIOUS
<1>1. MutexTypeOK
  <2>1. coCv \in Seq(Coros) /\ at \in [Users -> {"out", "wait", "in"}]
    BY DEF MutexInit
  <2>2. taken \in BOOLEAN
    BY DEF MutexInit
  <2>4. waitings \in Int
    BY DEF MutexInit
  <2>3. cv \subseteq Threads /\ woken \subseteq Users
    BY DEF MutexInit
  <2> QED BY <2>1, <2>2, <2>3, <2>4 DEF MutexTypeOK
<1>2. Range(coCv) = {} /\ IsInjective(coCv)
  BY EmptyFacts DEF MutexInit
<1>3. WaitSet = {}
  BY DEF MutexInit, WaitSet
<1>4. WaitersAccounted
  BY <1>2, <1>3 DEF MutexInit, WaitersAccounted, Sleeping, WaitSet
<1>5. WaitingsExact
  BY <1>1, <1>3, WaitSetFinite DEF MutexInit, WaitingsExact, WaitSet
<1>6. OneHolder /\ NoLostWakeup
  BY <1>2 DEF MutexInit, OneHolder, NoLostWakeup, Sleeping
<1> QED BY <1>1, <1>4, <1>5, <1>6 DEF MutexInv

\* Every step of lock(), unlock() and the condition variable keeps it.
LEMMA NextMutexInv == MutexInv /\ [MutexNext]_mutexVars => MutexInv'
<1> SUFFICES ASSUME MutexInv, [MutexNext]_mutexVars PROVE MutexInv'
  OBVIOUS
<1>t. MutexTypeOK
  BY DEF MutexInv
<1>w. waitings = Cardinality(WaitSet) /\ waitings \in Nat /\ (waitings = 0 <=> WaitSet = {})
  BY <1>t, WaitSetFinite DEF MutexInv, WaitingsExact, WaitSet
<1>a. /\ IsInjective(coCv) /\ Sleeping \cap woken = {} /\ WaitSet = Sleeping \cup woken
  BY DEF MutexInv, WaitersAccounted, WaitSet
<1>1. ASSUME NEW c \in Users, mutexLock(c), taken PROVE MutexInv'
  <2>1. /\ waitings' = waitings + 1 /\ condWait(c) /\ at[c] = "out"
        /\ at' = [at EXCEPT ![c] = "wait"] /\ taken' = taken /\ woken' = woken
    BY <1>1 DEF mutexLock
  <2>2. c \notin WaitSet
    BY <2>1 DEF WaitSet
  <2>3. /\ coCv' \in Seq(Coros) /\ cv' \subseteq Threads
        /\ Sleeping' = Sleeping \cup {c} /\ IsInjective(coCv')
    BY <1>t, <1>a, <2>1, <2>2, CondWaitFacts
  <2>4. MutexTypeOK' BY <1>t, <2>1, <2>3 DEF MutexTypeOK
  <2>5. OneHolder' BY <1>t, <2>1 DEF MutexInv, OneHolder, MutexTypeOK
  <2>6. WaitSet' = WaitSet \cup {c} BY <1>t, <2>1 DEF WaitSet, MutexTypeOK
  <2>7. WaitersAccounted' BY <1>a, <2>1, <2>2, <2>3, <2>6 DEF WaitersAccounted, WaitSet
  <2>8. WaitingsExact'
    <3>1. Cardinality(WaitSet') = Cardinality(WaitSet) + 1
      BY <1>t, <2>1, WaitSetChange
    <3> QED BY <1>w, <2>1, <3>1 DEF WaitingsExact, WaitSet
  <2>9. NoLostWakeup' BY <1>1, <2>1 DEF NoLostWakeup
  <2> QED BY <2>4, <2>5, <2>7, <2>8, <2>9 DEF MutexInv
<1>2. ASSUME NEW c \in Users, mutexLock(c), ~taken PROVE MutexInv'
  <2>1. /\ taken' = TRUE /\ at[c] = "out" /\ at' = [at EXCEPT ![c] = "in"]
        /\ waitings' = waitings /\ coCv' = coCv /\ cv' = cv /\ woken' = woken
    BY <1>2 DEF mutexLock
  <2>2. MutexTypeOK' BY <1>t, <2>1 DEF MutexTypeOK
  <2>3. OneHolder' BY <1>t, <1>2, <2>1 DEF MutexInv, OneHolder, MutexTypeOK
  <2>4. WaitSet' = WaitSet /\ Sleeping' = Sleeping
    BY <1>t, <2>1 DEF WaitSet, MutexTypeOK, Sleeping
  <2>5. WaitersAccounted' BY <1>a, <2>1, <2>4 DEF WaitersAccounted, WaitSet
  <2>6. WaitingsExact' BY <1>w, <2>1, <2>4 DEF WaitingsExact, WaitSet
  <2>7. NoLostWakeup' BY <2>1 DEF NoLostWakeup
  <2> QED BY <2>2, <2>3, <2>5, <2>6, <2>7 DEF MutexInv
<1>3. ASSUME NEW c \in Users, mutexLockAgain(c), taken PROVE MutexInv'
  <2>1. /\ c \in woken /\ woken' = woken \ {c} /\ condWait(c)
        /\ taken' = taken /\ waitings' = waitings /\ at' = at
    BY <1>3 DEF mutexLockAgain
  <2>2. c \notin Sleeping BY <1>a, <2>1
  <2>3. /\ coCv' \in Seq(Coros) /\ cv' \subseteq Threads
        /\ Sleeping' = Sleeping \cup {c} /\ IsInjective(coCv')
    BY <1>t, <1>a, <2>1, <2>2, CondWaitFacts
  <2>4. MutexTypeOK' BY <1>t, <2>1, <2>3 DEF MutexTypeOK
  <2>5. OneHolder' BY <2>1 DEF MutexInv, OneHolder
  <2>6. WaitSet' = WaitSet BY <2>1 DEF WaitSet
  <2>7. WaitersAccounted' BY <1>a, <2>1, <2>2, <2>3, <2>6 DEF WaitersAccounted, WaitSet
  <2>8. WaitingsExact' BY <1>w, <2>1, <2>6 DEF WaitingsExact, WaitSet
  <2>9. NoLostWakeup' BY <1>3, <2>1 DEF NoLostWakeup
  <2> QED BY <2>4, <2>5, <2>7, <2>8, <2>9 DEF MutexInv
<1>4. ASSUME NEW c \in Users, mutexLockAgain(c), ~taken PROVE MutexInv'
  <2>1. /\ c \in woken /\ woken' = woken \ {c}
        /\ taken' = TRUE /\ at' = [at EXCEPT ![c] = "in"] /\ waitings' = waitings - 1
        /\ coCv' = coCv /\ cv' = cv
    BY <1>4 DEF mutexLockAgain
  <2>2. at[c] = "wait" /\ Sleeping' = Sleeping
    BY <1>a, <2>1 DEF WaitSet, Sleeping
  <2>3. MutexTypeOK' BY <1>t, <2>1 DEF MutexTypeOK
  <2>4. OneHolder' BY <1>t, <1>4, <2>1 DEF MutexInv, OneHolder, MutexTypeOK
  <2>5. WaitSet' = WaitSet \ {c} BY <1>t, <2>1 DEF WaitSet, MutexTypeOK
  <2>6. WaitersAccounted' BY <1>a, <2>1, <2>2, <2>5 DEF WaitersAccounted, WaitSet
  <2>7. WaitingsExact'
    <3>1. Cardinality(WaitSet') = Cardinality(WaitSet) - 1
      <4>1. "in" # "wait"
        OBVIOUS
      <4> QED BY <1>t, <2>1, <2>2, <4>1, WaitSetChange
    <3> QED BY <1>w, <2>1, <3>1 DEF WaitingsExact, WaitSet
  <2>8. NoLostWakeup' BY <2>1 DEF NoLostWakeup
  <2> QED BY <2>3, <2>4, <2>6, <2>7, <2>8 DEF MutexInv
<1>5. ASSUME NEW c \in Users, mutexUnlock(c) PROVE MutexInv'
  <2>1. /\ at[c] = "in" /\ at' = [at EXCEPT ![c] = "out"]
        /\ taken' = FALSE /\ waitings' = waitings
    BY <1>5 DEF mutexUnlock
  <2>2. WaitSet' = WaitSet
    BY <1>t, <2>1 DEF WaitSet, MutexTypeOK
  <2>3. OneHolder' BY <1>t, <2>1 DEF MutexInv, OneHolder, MutexTypeOK
  <2>4. WaitingsExact' BY <1>w, <2>1, <2>2 DEF WaitingsExact, WaitSet
  <2>5. CASE waitings > 0
    <3>1. notify_one BY <1>5, <2>5 DEF mutexUnlock
    <3>2. /\ coCv' \in Seq(Coros) /\ cv' \subseteq Threads /\ IsInjective(coCv')
          /\ \/ /\ Sleeping = {} /\ Sleeping' = {} /\ woken' = woken
             \/ \E x \in Sleeping : /\ x \in Users
                                    /\ Sleeping' = Sleeping \ {x}
                                    /\ woken' = woken \cup {x}
      BY <1>t, <1>a, <3>1, NotifyFacts
    <3>3. MutexTypeOK' BY <1>t, <2>1, <3>2 DEF MutexTypeOK
    <3>4. WaitersAccounted' BY <1>a, <2>2, <3>2 DEF WaitersAccounted, WaitSet
    <3>5. NoLostWakeup' BY <3>2 DEF NoLostWakeup
    <3> QED BY <2>3, <2>4, <3>3, <3>4, <3>5 DEF MutexInv
  <2>6. CASE ~(waitings > 0)
    <3>1. coCv' = coCv /\ cv' = cv /\ woken' = woken
      BY <1>5, <2>6 DEF mutexUnlock
    <3>2. Sleeping' = Sleeping BY <3>1 DEF Sleeping
    <3>3. WaitSet = {} BY <1>w, <2>6
    <3>4. MutexTypeOK' BY <1>t, <2>1, <3>1 DEF MutexTypeOK
    <3>5. WaitersAccounted' BY <1>a, <2>2, <3>1, <3>2 DEF WaitersAccounted, WaitSet
    <3>6. NoLostWakeup' BY <1>a, <3>2, <3>3 DEF NoLostWakeup
    <3> QED BY <2>3, <2>4, <3>4, <3>5, <3>6 DEF MutexInv
  <2> QED BY <2>5, <2>6
<1>6. ASSUME NEW t \in Threads, spuriousWakeup(t) PROVE MutexInv'
  <2>1. /\ t \in cv /\ cv' = cv \ {t} /\ woken' = woken \cup {t} /\ taken' = taken
        /\ waitings' = waitings /\ coCv' = coCv /\ at' = at
    BY <1>6 DEF spuriousWakeup
  <2>2. t \notin Range(coCv)
    <3>1. \A x \in Range(coCv) : x \in Coros
      BY <1>t DEF MutexTypeOK, Range
    <3> QED BY <3>1, UsersAssumption
  <2>3. Sleeping' = Sleeping \ {t} /\ t \in Sleeping BY <2>1, <2>2 DEF Sleeping
  <2>4. MutexTypeOK' BY <1>t, <2>1 DEF MutexTypeOK, Users
  <2>5. OneHolder' BY <2>1 DEF MutexInv, OneHolder
  <2>6. WaitSet' = WaitSet BY <2>1 DEF WaitSet
  <2>7. WaitersAccounted' BY <1>a, <2>1, <2>3, <2>6 DEF WaitersAccounted, WaitSet
  <2>8. WaitingsExact' BY <1>w, <2>1, <2>6 DEF WaitingsExact, WaitSet
  <2>9. NoLostWakeup' BY <2>1 DEF NoLostWakeup
  <2> QED BY <2>4, <2>5, <2>7, <2>8, <2>9 DEF MutexInv
<1>7. CASE UNCHANGED mutexVars
  BY <1>7 DEF mutexVars, MutexInv, MutexTypeOK, OneHolder, WaitersAccounted, WaitingsExact,
              NoLostWakeup, Sleeping
<1> QED BY <1>1, <1>2, <1>3, <1>4, <1>5, <1>6, <1>7 DEF MutexNext

-----------------------------------------------------------------------------
\* The strengthened invariant holds in every reachable state.
THEOREM MutexInvHolds == MutexSpec => []MutexInv
  BY InitMutexInv, NextMutexInv, PTL DEF MutexSpec

\* Threads and coroutines exclude each other, and the flag says so.
THEOREM OneHolderHolds == MutexSpec => []OneHolder
  BY MutexInvHolds, PTL DEF MutexInv

\* A free lock with sleepers has somebody notified on the way to it.
THEOREM NoLostWakeupHolds == MutexSpec => []NoLostWakeup
  BY MutexInvHolds, PTL DEF MutexInv

-----------------------------------------------------------------------------
(* Async, its futures and its slots. *)

AsyncTypeOK ==
    /\ index \in 0..Calls
    /\ task \in [Tasks -> {"none", "dropped", "added", "running", "ending", "finished"}]
    /\ home \in [Tasks -> Schedulers]
    /\ free \in [Schedulers -> 0..Slots]
    /\ thrown \subseteq Tasks /\ isReady \subseteq Tasks
    /\ waitsOn \in [Waiters -> Tasks \cup {NoTask}] /\ asleep \subseteq Waiters
    /\ got \in [Waiters -> [of : Tasks \cup {NoTask},
                            result : {"none", "value", "unready", "exception"}]]
    /\ \E k \in 0..NSchedulers : stopped = 0..(k - 1)

(***************************************************************************)
(* OwnResult speaks of what a waiter found earlier, so it stays true only  *)
(* because a result is set once and never changed: a task that may still   *)
(* set one is not ready yet, and only a ready task has thrown.             *)
(***************************************************************************)
SetOnce ==
    /\ \A t \in Tasks : task[t] = "none" <=> t > index
    /\ \A t \in isReady : task[t] \in {"ending", "finished"}
    /\ thrown \subseteq isReady

(***************************************************************************)
(* Nobody sleeps on a future that is ready: setReady notifies under the    *)
(* lock under which wait() has looked at isReady_.                         *)
(***************************************************************************)
SleepersUnready == \A w \in asleep : waitsOn[w] \in Tasks /\ waitsOn[w] \notin isReady

AsyncInv == AsyncTypeOK /\ SetOnce /\ SleepersUnready /\ SlotsConserved /\ OwnResult

\* The tasks of a scheduler that take a slot.
Occupants(s) == {t \in Tasks : Occupies(t) /\ home[t] = s}

\* They are finitely many, so that counting them makes sense.
LEMMA OccupantsFinite ==
  ASSUME NEW s PROVE IsFiniteSet(Occupants(s)) /\ Cardinality(Occupants(s)) \in Nat
<1>1. IsFiniteSet(Tasks)
  BY AsyncAssumption, FS_Interval DEF Tasks
<1>2. IsFiniteSet(Occupants(s))
  BY <1>1, FS_Subset DEF Occupants
<1> QED BY <1>2, FS_CardinalityType

\* How the count changes when one task's place changes.
LEMMA OccupantsChange ==
  ASSUME AsyncTypeOK, NEW t \in Tasks, NEW s \in Schedulers, NEW place,
         task' = [task EXCEPT ![t] = place],
         \A u \in Tasks \ {t} : home'[u] = home[u]
  PROVE  LET in == Occupies(t) /\ home[t] = s
             in2 == Occupies(t)' /\ home'[t] = s
         IN  /\ in <=> in2
                 => Cardinality(Occupants(s)') = Cardinality(Occupants(s))
             /\ ~in /\ in2 => Cardinality(Occupants(s)') = Cardinality(Occupants(s)) + 1
             /\ in /\ ~in2 => Cardinality(Occupants(s)') = Cardinality(Occupants(s)) - 1
<1> DEFINE in == Occupies(t) /\ home[t] = s
           in2 == Occupies(t)' /\ home'[t] = s
<1>1. IsFiniteSet(Occupants(s))
  BY OccupantsFinite
<1>2. \A u \in Tasks \ {t} : u \in Occupants(s)' <=> u \in Occupants(s)
  BY DEF Occupants, Occupies, AsyncTypeOK
<1>3. (t \in Occupants(s) <=> in) /\ (t \in Occupants(s)' <=> in2)
  BY DEF Occupants
<1>4. Occupants(s) \subseteq Tasks /\ Occupants(s)' \subseteq Tasks
  BY DEF Occupants
<1>5. ASSUME in <=> in2 PROVE Cardinality(Occupants(s)') = Cardinality(Occupants(s))
  <2>1. Occupants(s)' = Occupants(s)
    BY <1>2, <1>3, <1>4, <1>5
  <2> QED BY <2>1
<1>6. ASSUME ~in, in2 PROVE Cardinality(Occupants(s)') = Cardinality(Occupants(s)) + 1
  <2>1. Occupants(s)' = Occupants(s) \cup {t} /\ t \notin Occupants(s)
    BY <1>2, <1>3, <1>4, <1>6
  <2> QED BY <1>1, <2>1, FS_AddElement
<1>7. ASSUME in, ~in2 PROVE Cardinality(Occupants(s)') = Cardinality(Occupants(s)) - 1
  <2>1. Occupants(s)' = Occupants(s) \ {t} /\ t \in Occupants(s)
    BY <1>2, <1>3, <1>4, <1>7
  <2> QED BY <1>1, <2>1, FS_RemoveElement
<1> QED BY <1>5, <1>6, <1>7

\* The constructor: all slots are free and nobody has called async().
LEMMA InitAsyncInv == AsyncInit => AsyncInv
<1> SUFFICES ASSUME AsyncInit PROVE AsyncInv
  OBVIOUS
<1>1. \A s \in Schedulers : Occupants(s) = {}
  BY DEF AsyncInit, Occupants, Occupies
<1>2. SlotsConserved
  BY <1>1, FS_EmptySet, AsyncAssumption DEF SlotsConserved, AsyncInit, Occupants
<1>3. AsyncTypeOK
  <2>1. /\ 0 \in Schedulers /\ 0 \in 0..Calls /\ Slots \in 0..Slots
        /\ 0 \in 0..NSchedulers /\ 0..(0 - 1) = {}
    BY AsyncAssumption DEF Schedulers
  <2> QED BY <2>1 DEF AsyncInit, AsyncTypeOK
<1>4. SetOnce /\ SleepersUnready /\ OwnResult
  BY DEF AsyncInit, SetOnce, SleepersUnready, OwnResult, Tasks
<1> QED BY <1>2, <1>3, <1>4 DEF AsyncInv

\* A step that leaves the slots and the places of the tasks alone.
LEMMA SameSlots ==
  ASSUME SlotsConserved, UNCHANGED free,
         \A s \in Schedulers : Cardinality(Occupants(s)') = Cardinality(Occupants(s))
  PROVE  SlotsConserved'
  BY DEF SlotsConserved, Occupants

\* async() takes a slot of the scheduler whose turn it is, if one is free.
LEMMA AsyncKeepsInv == AsyncInv /\ async => AsyncInv'
<1> SUFFICES ASSUME AsyncInv, async PROVE AsyncInv'
  OBVIOUS
<1>1. /\ AsyncTypeOK /\ index \in Nat /\ index < Calls /\ index' = index + 1
      /\ UNCHANGED <<thrown, isReady, waitsOn, asleep, got, stopped>>
  <2>1. AsyncTypeOK
    BY DEF AsyncInv
  <2>3. index \in Nat
    <3>1. Calls \in Nat /\ index \in 0..Calls
      BY <2>1, AsyncAssumption DEF AsyncTypeOK
    <3> QED BY <3>1
  <2>2. /\ index < Calls /\ index' = index + 1
        /\ UNCHANGED <<thrown, isReady, waitsOn, asleep, got, stopped>>
    BY DEF async
  <2> QED BY <2>1, <2>2, <2>3
<1>2. PICK t \in Tasks : t = index + 1
  BY <1>1, AsyncAssumption DEF Tasks
<1>3. PICK s \in Schedulers : s = index % NSchedulers
  BY <1>1, AsyncAssumption DEF Schedulers
<1>4. /\ home' = [home EXCEPT ![t] = s] /\ task[t] = "none"
      /\ \A u \in Tasks \ {t} : home'[u] = home[u]
  BY <1>1, <1>2, <1>3 DEF async, AsyncInv, SetOnce, AsyncTypeOK
<1>5. CASE free[s] > 0
  <2>1. task' = [task EXCEPT ![t] = "added"] /\ free' = [free EXCEPT ![s] = @ - 1]
    BY <1>2, <1>3, <1>5 DEF async
  <2>2. ASSUME NEW x \in Schedulers
        PROVE  free'[x] + Cardinality(Occupants(x)') = Slots
    <3>2. ~Occupies(t) /\ Occupies(t)' /\ home'[t] = s
      BY <1>1, <1>2, <1>4, <2>1 DEF Occupies, AsyncTypeOK
    <3>3. CASE x = s
      <4>1. Cardinality(Occupants(x)') = Cardinality(Occupants(x)) + 1
        BY <1>1, <1>4, <2>1, <3>2, <3>3, OccupantsChange
      <4>2. free'[x] = free[x] - 1
        BY <1>1, <2>1, <3>3 DEF AsyncTypeOK
      <4>3. free[x] \in Int /\ Cardinality(Occupants(x)) \in Int
        BY <1>1, OccupantsFinite DEF AsyncTypeOK
      <4>4. free[x] + Cardinality(Occupants(x)) = Slots
        BY DEF AsyncInv, SlotsConserved, Occupants
      <4> QED BY <4>1, <4>2, <4>3, <4>4
    <3>4. CASE x # s
      <4>1. Cardinality(Occupants(x)') = Cardinality(Occupants(x))
        BY <1>1, <1>4, <2>1, <3>2, <3>4, OccupantsChange
      <4>2. free'[x] = free[x]
        BY <1>1, <2>1, <3>4 DEF AsyncTypeOK
      <4> QED BY <4>1, <4>2 DEF AsyncInv, SlotsConserved, Occupants
    <3> QED BY <3>3, <3>4
  <2>3. SlotsConserved'
    BY <2>2 DEF SlotsConserved, Occupants
  <2>4. AsyncTypeOK'
    <3>1. free' \in [Schedulers -> 0..Slots]
      BY <1>1, <1>5, <2>1, AsyncAssumption DEF AsyncTypeOK
    <3>2. index' \in 0..Calls
      BY <1>1, AsyncAssumption
    <3> QED BY <1>1, <1>2, <1>4, <2>1, <3>1, <3>2 DEF AsyncTypeOK
  <2>5. SetOnce'
    <3>1. \A u \in Tasks : task'[u] = "none" <=> u > index'
      BY <1>1, <1>2, <1>4, <2>1 DEF AsyncInv, SetOnce, AsyncTypeOK, Tasks
    <3> QED BY <1>1, <1>2, <1>4, <2>1, <3>1 DEF AsyncInv, SetOnce, AsyncTypeOK
  <2>6. SleepersUnready' /\ OwnResult'
    BY <1>1 DEF AsyncInv, SleepersUnready, OwnResult
  <2> QED BY <2>3, <2>4, <2>5, <2>6 DEF AsyncInv
<1>6. CASE ~(free[s] > 0)
  <2>1. task' = [task EXCEPT ![t] = "dropped"] /\ free' = free
    BY <1>2, <1>3, <1>6 DEF async
  <2>2. ASSUME NEW x \in Schedulers
        PROVE  Cardinality(Occupants(x)') = Cardinality(Occupants(x))
    <3>2. ~Occupies(t) /\ ~Occupies(t)'
      BY <1>1, <1>2, <1>4, <2>1 DEF Occupies, AsyncTypeOK
    <3> QED BY <1>1, <1>4, <2>1, <3>2, OccupantsChange
  <2>3. SlotsConserved'
    BY <2>1, <2>2, SameSlots DEF AsyncInv
  <2>4. AsyncTypeOK'
    <3>2. index' \in 0..Calls
      BY <1>1, AsyncAssumption
    <3> QED BY <1>1, <1>2, <1>4, <2>1, <3>2 DEF AsyncTypeOK
  <2>5. SetOnce'
    <3>1. \A u \in Tasks : task'[u] = "none" <=> u > index'
      BY <1>1, <1>2, <1>4, <2>1 DEF AsyncInv, SetOnce, AsyncTypeOK, Tasks
    <3> QED BY <1>1, <1>2, <1>4, <2>1, <3>1 DEF AsyncInv, SetOnce, AsyncTypeOK
  <2>6. SleepersUnready' /\ OwnResult'
    BY <1>1 DEF AsyncInv, SleepersUnready, OwnResult
  <2> QED BY <2>3, <2>4, <2>5, <2>6 DEF AsyncInv
<1> QED BY <1>5, <1>6

\* Entering f, setting its result and ending the coroutine.
LEMMA TaskKeepsInv ==
  ASSUME AsyncInv, NEW t \in Tasks, enter(t) \/ setValue(t) \/ setException(t) \/ endFunc(t)
  PROVE  AsyncInv'
<1>1. AsyncTypeOK /\ home' = home /\ \A u \in Tasks \ {t} : home'[u] = home[u]
  BY DEF AsyncInv, enter, setValue, setException, setReady, endFunc
<1>2. CASE enter(t)
  <2>1. /\ task[t] = "added" /\ task' = [task EXCEPT ![t] = "running"]
        /\ UNCHANGED <<index, home, free, thrown, isReady, waitsOn, asleep, got, stopped>>
    BY <1>2 DEF enter
  <2>2. Occupies(t) /\ Occupies(t)'
    BY <1>1, <2>1 DEF Occupies, AsyncTypeOK
  <2>3. \A s \in Schedulers : Cardinality(Occupants(s)') = Cardinality(Occupants(s))
    BY <1>1, <2>1, <2>2, OccupantsChange
  <2>4. SlotsConserved'
    BY <2>1, <2>3, SameSlots DEF AsyncInv
  <2>5. AsyncTypeOK'
    BY <1>1, <2>1 DEF AsyncTypeOK
  <2>6. SetOnce' /\ SleepersUnready' /\ OwnResult'
    BY <1>1, <2>1 DEF AsyncInv, AsyncTypeOK, SetOnce, SleepersUnready, OwnResult
  <2> QED BY <2>4, <2>5, <2>6 DEF AsyncInv
<1>3. ASSUME NEW threw \in BOOLEAN, setReady(t, threw) PROVE AsyncInv'
  <2>1. /\ task[t] = "running" /\ task' = [task EXCEPT ![t] = "ending"]
        /\ thrown' = (IF threw THEN thrown \cup {t} ELSE thrown)
        /\ isReady' = isReady \cup {t} /\ asleep' = asleep \ WaitersOf(t)
        /\ UNCHANGED <<index, home, free, waitsOn, got, stopped>>
    BY <1>3 DEF setReady, Runs
  <2>2. Occupies(t) /\ Occupies(t)' /\ t \notin isReady
    BY <1>1, <2>1 DEF Occupies, AsyncTypeOK, AsyncInv, SetOnce
  <2>3. \A s \in Schedulers : Cardinality(Occupants(s)') = Cardinality(Occupants(s))
    BY <1>1, <2>1, <2>2, OccupantsChange
  <2>4. SlotsConserved'
    BY <2>1, <2>3, SameSlots DEF AsyncInv
  <2>5. AsyncTypeOK'
    BY <1>1, <2>1 DEF AsyncTypeOK
  <2>6. SetOnce'
    BY <1>1, <2>1 DEF AsyncInv, AsyncTypeOK, SetOnce
  <2>7. SleepersUnready'
    BY <1>1, <2>1 DEF AsyncInv, AsyncTypeOK, SleepersUnready, WaitersOf
  <2>8. OwnResult'
    BY <1>1, <2>1, <2>2 DEF AsyncInv, AsyncTypeOK, OwnResult
  <2> QED BY <2>4, <2>5, <2>6, <2>7, <2>8 DEF AsyncInv
<1>4. CASE endFunc(t)
  <2>1. /\ task[t] = "ending" /\ task' = [task EXCEPT ![t] = "finished"]
        /\ free' = [free EXCEPT ![home[t]] = @ + 1]
        /\ UNCHANGED <<index, home, thrown, isReady, waitsOn, asleep, got, stopped>>
    BY <1>4 DEF endFunc
  <2>2. Occupies(t) /\ ~Occupies(t)' /\ home[t] \in Schedulers
    BY <1>1, <2>1 DEF Occupies, AsyncTypeOK
  <2>3. ASSUME NEW x \in Schedulers
        PROVE  free'[x] \in 0..Slots /\ free'[x] + Cardinality(Occupants(x)') = Slots
    <3>1. free[x] + Cardinality(Occupants(x)) = Slots /\ free[x] \in 0..Slots /\ Slots \in Nat
      BY <1>1, AsyncAssumption DEF AsyncInv, SlotsConserved, Occupants, AsyncTypeOK
    <3>2. Cardinality(Occupants(x)) \in Nat
      BY OccupantsFinite
    <3>3. CASE x = home[t]
      <4>1. Cardinality(Occupants(x)') = Cardinality(Occupants(x)) - 1
        BY <1>1, <2>1, <2>2, <3>3, OccupantsChange
      <4>2. free'[x] = free[x] + 1
        BY <1>1, <2>1, <3>3 DEF AsyncTypeOK
      <4>3. Cardinality(Occupants(x)) # 0
        <5>1. IsFiniteSet(Occupants(x)) /\ t \in Occupants(x)
          BY <2>2, <3>3, OccupantsFinite DEF Occupants
        <5> QED BY <5>1, FS_EmptySet
      <4> QED BY <3>1, <3>2, <4>1, <4>2, <4>3
    <3>4. CASE x # home[t]
      <4>1. Cardinality(Occupants(x)') = Cardinality(Occupants(x))
        BY <1>1, <2>1, <2>2, <3>4, OccupantsChange
      <4>2. free'[x] = free[x]
        BY <1>1, <2>1, <3>4 DEF AsyncTypeOK
      <4> QED BY <3>1, <4>1, <4>2
    <3> QED BY <3>3, <3>4
  <2>4. SlotsConserved'
    BY <2>3 DEF SlotsConserved, Occupants
  <2>5. AsyncTypeOK'
    <3>1. free' \in [Schedulers -> 0..Slots]
      BY <1>1, <2>1, <2>3 DEF AsyncTypeOK
    <3> QED BY <1>1, <2>1, <3>1 DEF AsyncTypeOK
  <2>6. SetOnce' /\ SleepersUnready' /\ OwnResult'
    BY <1>1, <2>1 DEF AsyncInv, AsyncTypeOK, SetOnce, SleepersUnready, OwnResult
  <2> QED BY <2>4, <2>5, <2>6 DEF AsyncInv
<1> QED BY <1>2, <1>3, <1>4 DEF setValue, setException

\* What wait() gives when the future is ready.
LEMMA ResultOfReady ==
  ASSUME AsyncInv, NEW t \in isReady
  PROVE  getValue(t) = IF t \in thrown \ VoidTasks THEN "exception" ELSE "value"
  BY DEF getValue, AsyncInv, AsyncTypeOK

\* wait(), woken with reason or without.
LEMMA WaitKeepsInv ==
  ASSUME AsyncInv, NEW w \in Waiters,
         waitAgain(w) \/ threadWakeup(w) \/ \E t \in Tasks : wait(w, t)
  PROVE  AsyncInv'
<1>1. /\ UNCHANGED <<index, task, home, free, thrown, isReady, stopped>> /\ AsyncTypeOK
      /\ isReady \subseteq Tasks
  BY DEF AsyncInv, AsyncTypeOK, waitAgain, threadWakeup, wait
<1>2. SetOnce' /\ SlotsConserved'
  BY <1>1 DEF AsyncInv, SetOnce, SlotsConserved, Occupies
<1>3. ASSUME NEW t \in isReady, got' = [got EXCEPT ![w] = [of |-> t, result |-> getValue(t)]]
      PROVE  OwnResult' /\ got' \in [Waiters -> [of : Tasks \cup {NoTask},
                                       result : {"none", "value", "unready", "exception"}]]
  <2>1. getValue(t) = IF t \in thrown \ VoidTasks THEN "exception" ELSE "value"
    BY <1>3, ResultOfReady
  <2>2. got'[w] = [of |-> t, result |-> getValue(t)] /\ \A x \in Waiters \ {w} : got'[x] = got[x]
    BY <1>1, <1>3 DEF AsyncTypeOK
  <2>3. OwnResult'
    BY <1>1, <1>3, <2>1, <2>2 DEF AsyncInv, OwnResult
  <2>4. [of |-> t, result |-> getValue(t)] \in [of : Tasks \cup {NoTask},
                                       result : {"none", "value", "unready", "exception"}]
    BY <1>1, <2>1
  <2> QED BY <1>1, <1>3, <2>3, <2>4 DEF AsyncTypeOK
<1>4. ASSUME got' = got PROVE OwnResult' /\ got' \in [Waiters -> [of : Tasks \cup {NoTask},
                                       result : {"none", "value", "unready", "exception"}]]
  BY <1>1, <1>4 DEF AsyncInv, OwnResult, AsyncTypeOK
<1>5. OwnResult' /\ got' \in [Waiters -> [of : Tasks \cup {NoTask},
                                       result : {"none", "value", "unready", "exception"}]]
  BY <1>3, <1>4 DEF waitAgain, threadWakeup, wait
<1>6. waitsOn' \in [Waiters -> Tasks \cup {NoTask}] /\ asleep' \subseteq Waiters
  BY <1>1 DEF AsyncTypeOK, waitAgain, threadWakeup, wait
<1>7. SleepersUnready'
  BY <1>1 DEF AsyncInv, AsyncTypeOK, SleepersUnready, waitAgain, threadWakeup, wait, NoTask
<1>8. AsyncTypeOK'
  BY <1>1, <1>5, <1>6 DEF AsyncTypeOK
<1> QED BY <1>2, <1>5, <1>7, <1>8 DEF AsyncInv

\* Destroying the Async object stops schedulers and frees nothing.
LEMMA StopKeepsInv == AsyncInv /\ (stop \/ UNCHANGED asyncVars) => AsyncInv'
<1> SUFFICES ASSUME AsyncInv, stop \/ UNCHANGED asyncVars PROVE AsyncInv'
  OBVIOUS
<1>1. UNCHANGED <<index, task, home, free, thrown, isReady, waitsOn, asleep, got>>
  BY DEF stop, asyncVars
<1>2. SetOnce' /\ SleepersUnready' /\ SlotsConserved' /\ OwnResult'
  BY <1>1 DEF AsyncInv, SetOnce, SleepersUnready, SlotsConserved, Occupies, OwnResult
<1>3. \E k \in 0..NSchedulers : stopped' = 0..(k - 1)
  <2>1. PICK k \in 0..NSchedulers : stopped = 0..(k - 1)
    BY DEF AsyncInv, AsyncTypeOK
  <2>2. NSchedulers \in Nat \ {0} /\ k \in Nat /\ 0 \in Int /\ k - 1 \in Int
    BY AsyncAssumption
  <2>3. CASE stop
    <3>1. Cardinality(stopped) = k
      <4>1. Cardinality(0..(k - 1)) = IF 0 > k - 1 THEN 0 ELSE (k - 1) - 0 + 1
        BY <2>2, FS_Interval
      <4> QED BY <2>1, <2>2, <4>1
    <3>2. k # NSchedulers
      BY <2>1, <2>3 DEF stop, Schedulers
    <3>3. stopped' = 0..((k + 1) - 1) /\ k + 1 \in 0..NSchedulers
      BY <2>1, <2>2, <2>3, <3>1, <3>2 DEF stop
    <3> QED BY <3>3
  <2> QED BY <2>1, <2>3 DEF asyncVars
<1>4. AsyncTypeOK'
  BY <1>1, <1>3 DEF AsyncInv, AsyncTypeOK
<1> QED BY <1>2, <1>4 DEF AsyncInv

\* Every step keeps the invariant.
LEMMA NextAsyncInv == AsyncInv /\ [AsyncNext]_asyncVars => AsyncInv'
  BY AsyncKeepsInv, TaskKeepsInv, WaitKeepsInv, StopKeepsInv DEF AsyncNext

\* The strengthened invariant holds in every reachable state.
THEOREM AsyncInvHolds == AsyncSpec => []AsyncInv
  BY InitAsyncInv, NextAsyncInv, PTL DEF AsyncSpec

(***************************************************************************)
(* Every slot is free or taken by one accepted task, whether f returned or *)
(* threw (async.h, async; coroutine_scheduler.cpp, endFunc).               *)
(***************************************************************************)
THEOREM SlotsConservedHolds == AsyncSpec => []SlotsConserved
  BY AsyncInvHolds, PTL DEF AsyncInv

\* wait() gives what the future's own task produced, and it stays so.
THEOREM OwnResultHolds == AsyncSpec => []OwnResult
  BY AsyncInvHolds, PTL DEF AsyncInv

\* No waiter sleeps on a future that is ready: the safety half of WaitReturns.
THEOREM SleepersUnreadyHolds == AsyncSpec => []SleepersUnready
  BY AsyncInvHolds, PTL DEF AsyncInv
=============================================================================
