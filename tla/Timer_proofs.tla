---------------------------- MODULE Timer_proofs ----------------------------
(***************************************************************************)
(* One answer per AsyncWait and no callback on a destroyed Timer, for any  *)
(* number of threads that share the Timer.                                 *)
(***************************************************************************)
EXTENDS Timer, TLAPS

\* Nothing was reported yet while the Timer is not done.
QuietUntilDone == (~done => calls = <<>>) /\ Len(calls) <= 1

\* A Timer that is gone has no user left.
GoneWithUsers == ~alive => \A u \in Users : user[u] = "gone"

Inv == TypeOK /\ QuietUntilDone /\ GoneWithUsers /\ NoUseAfterDestroy /\ NoDanglingEvent

\* The constructed Timer: nothing was asked of it.
LEMMA InitInv == Init => Inv
<1> SUFFICES ASSUME Init PROVE Inv
  OBVIOUS
<1>1. TypeOK
  <2>1. cancels \in [Users -> 0..MaxCancels] /\ user \in [Users -> {"idle", "cancel", "gone"}]
    BY UsersAssumption DEF Init
  <2>2. calls \in Seq({"fired", "canceled"}) /\ loop \in LoopPlaces
    BY DEF Init, LoopPlaces
  <2>3. sawDone \subseteq Users /\ lock \in Users \cup {Nobody} /\ timerEvent \in {"null", "on", "off"}
    BY DEF Init
  <2>4. /\ used \in BOOLEAN /\ done \in BOOLEAN /\ asyncDone \in BOOLEAN
        /\ asyncEvent \in BOOLEAN /\ alive \in BOOLEAN /\ lateCancel \in BOOLEAN
    BY DEF Init
  <2> QED BY <2>1, <2>2, <2>3, <2>4 DEF TypeOK
<1>2. QuietUntilDone /\ GoneWithUsers
  BY DEF Init, QuietUntilDone, GoneWithUsers
<1>3. NoUseAfterDestroy /\ NoDanglingEvent
  BY DEF Init, NoUseAfterDestroy, NoDanglingEvent
<1> QED BY <1>1, <1>2, <1>3 DEF Inv

\* A report is made once: after it the Timer is done.
LEMMA ReportFacts ==
  ASSUME TypeOK, QuietUntilDone, NEW r \in {"fired", "canceled"}, report(r)
  PROVE  done' \in BOOLEAN /\ calls' \in Seq({"fired", "canceled"}) /\ QuietUntilDone'
<1>1. CASE done
  BY <1>1 DEF report, QuietUntilDone, TypeOK
<1>2. CASE ~done
  <2>1. calls' = Append(<<>>, r)
    BY <1>2 DEF report, QuietUntilDone
  <2>2. calls' \in Seq({"fired", "canceled"}) /\ Len(calls') = 1
    BY <2>1
  <2> QED BY <2>2 DEF report, QuietUntilDone
<1> QED BY <1>1, <1>2

\* ~Timer makes the last report and takes the events along.
LEMMA DestroyFacts ==
  ASSUME TypeOK, QuietUntilDone, destroy
  PROVE  /\ done' \in BOOLEAN /\ calls' \in Seq({"fired", "canceled"}) /\ QuietUntilDone'
         /\ alive' = FALSE /\ asyncEvent' = FALSE
         /\ timerEvent' \in {"null", "on", "off"}
         /\ timerEvent' = "on" => loop = "timer.Poll"
<1>1. done' \in BOOLEAN /\ calls' \in Seq({"fired", "canceled"}) /\ QuietUntilDone'
  <2>1. CASE used
    BY <2>1, ReportFacts DEF destroy
  <2>2. CASE ~used
    BY <2>2 DEF destroy, QuietUntilDone, TypeOK
  <2> QED BY <2>1, <2>2
<1> QED BY <1>1 DEF destroy, TypeOK, asyncRemoveEvent, timerRemoveEvent

\* Every step of the users and of the loop keeps the invariant.
LEMMA NextInv == Inv /\ [Next]_vars => Inv'
<1> SUFFICES ASSUME Inv, [Next]_vars PROVE Inv'
  OBVIOUS
<1> USE UsersAssumption
<1> USE DEF AsyncDo, asyncUpdateEvent, asyncRemoveEvent, timerUpdateEvent, timerRemoveEvent
<1>i. TypeOK /\ QuietUntilDone /\ GoneWithUsers /\ NoUseAfterDestroy /\ NoDanglingEvent
  BY DEF Inv
<1>1. ASSUME NEW u \in Users, AsyncWait(u) PROVE Inv'
  BY <1>i, <1>1
  DEF AsyncWait, Inv, TypeOK, QuietUntilDone, GoneWithUsers, NoUseAfterDestroy, NoDanglingEvent
<1>2. ASSUME NEW u \in Users, cancelCheck(u) PROVE Inv'
  <2>1. alive
    BY <1>i, <1>2 DEF cancelCheck, GoneWithUsers
  <2>2. /\ cancels' \in [Users -> 0..MaxCancels] /\ sawDone' \subseteq Users
        /\ user' \in [Users -> {"idle", "cancel", "gone"}]
    BY <1>i, <1>2 DEF cancelCheck, TypeOK
  <2>3. TypeOK'
    BY <1>i, <1>2, <2>2 DEF cancelCheck, TypeOK
  <2> QED BY <1>i, <1>2, <2>1, <2>3
          DEF cancelCheck, Inv, QuietUntilDone, GoneWithUsers, NoUseAfterDestroy, NoDanglingEvent
<1>3. ASSUME NEW u \in Users, cancelFinish(u) PROVE Inv'
  <2>1. done' \in BOOLEAN /\ calls' \in Seq({"fired", "canceled"}) /\ QuietUntilDone'
    <3>1. CASE u \notin sawDone \/ timerEvent # "null"
      BY <1>i, <1>3, <3>1, ReportFacts DEF cancelFinish
    <3>2. CASE ~(u \notin sawDone \/ timerEvent # "null")
      BY <1>i, <1>3, <3>2 DEF cancelFinish, QuietUntilDone, TypeOK
    <3> QED BY <3>1, <3>2
  <2>2. alive
    BY <1>i, <1>3 DEF cancelFinish, GoneWithUsers
  <2>3. TypeOK'
    BY <1>i, <1>3, <2>1 DEF cancelFinish, TypeOK
  <2> QED BY <1>i, <1>3, <2>1, <2>2, <2>3
          DEF cancelFinish, Inv, GoneWithUsers, NoUseAfterDestroy, NoDanglingEvent
<1>4. ASSUME NEW u \in Users, drop(u) PROVE Inv'
  <2>1. CASE LoopHoldsTimer \/ \E v \in Users \ {u} : user[v] # "gone"
    <3>1. alive
      BY <1>i, <2>1 DEF LoopHoldsTimer, NoUseAfterDestroy, GoneWithUsers
    <3> QED BY <1>i, <1>4, <2>1, <3>1
            DEF drop, Inv, TypeOK, QuietUntilDone, GoneWithUsers, NoUseAfterDestroy, NoDanglingEvent
  <2>2. CASE ~(LoopHoldsTimer \/ \E v \in Users \ {u} : user[v] # "gone")
    <3>1. /\ done' \in BOOLEAN /\ calls' \in Seq({"fired", "canceled"}) /\ QuietUntilDone'
          /\ alive' = FALSE /\ asyncEvent' = FALSE
          /\ timerEvent' \in {"null", "on", "off"}
          /\ timerEvent' = "on" => loop = "timer.Poll"
      BY <1>i, <1>4, <2>2, DestroyFacts DEF drop
    <3>2. TypeOK'
      BY <1>i, <1>4, <3>1 DEF drop, TypeOK
    <3>3. GoneWithUsers'
      BY <1>i, <1>4, <2>2 DEF drop, GoneWithUsers, TypeOK
    <3> QED BY <1>4, <2>2, <3>1, <3>2, <3>3
            DEF drop, LoopHoldsTimer, Inv, NoUseAfterDestroy, NoDanglingEvent
  <2> QED BY <2>1, <2>2
<1>5. CASE asyncPoll \/ asyncDo \/ asyncCheck \/ asyncSet
  <2>1. /\ UNCHANGED <<used, done, timerEvent, lock, user, sawDone, cancels, alive, calls, lateCancel>>
        /\ asyncEvent' \in BOOLEAN /\ asyncDone' \in BOOLEAN
        /\ asyncEvent' => asyncEvent
        /\ loop' \in LoopPlaces /\ loop \notin {"timer.Poll", "stuck"}
        /\ loop' \in {"arm", "fire", "leave"} => alive
    <3>1. CASE asyncPoll
      BY <1>i, <3>1 DEF asyncPoll, goto, TypeOK, LoopPlaces
    <3>2. CASE asyncDo
      BY <1>i, <3>2 DEF asyncDo, goto, TypeOK, LoopPlaces
    <3>3. CASE asyncCheck
      BY <1>i, <3>3 DEF asyncCheck, goto, TypeOK, LoopPlaces
    <3>4. CASE asyncSet
      BY <1>i, <3>4 DEF asyncSet, goto, TypeOK, LoopPlaces
    <3> QED BY <1>5, <3>1, <3>2, <3>3, <3>4
  <2>2. TypeOK'
    BY <1>i, <2>1 DEF TypeOK
  <2> QED BY <1>i, <2>1, <2>2
          DEF Inv, QuietUntilDone, GoneWithUsers, NoUseAfterDestroy, NoDanglingEvent
<1>6. CASE arm
  BY <1>i, <1>6
  DEF arm, goto, Inv, TypeOK, LoopPlaces, QuietUntilDone, GoneWithUsers, NoUseAfterDestroy,
      NoDanglingEvent
<1>7. CASE timerPoll \/ timerPollEnd \/ timerDo
  BY <1>i, <1>7
  DEF timerPoll, timerPollEnd, timerDo, goto, Inv, TypeOK, LoopPlaces, QuietUntilDone,
      GoneWithUsers, NoUseAfterDestroy, NoDanglingEvent
<1>8. CASE fire
  <2>1. done' \in BOOLEAN /\ calls' \in Seq({"fired", "canceled"}) /\ QuietUntilDone'
    BY <1>i, <1>8, ReportFacts DEF fire
  <2> QED BY <1>i, <1>8, <2>1
          DEF fire, goto, Inv, TypeOK, LoopPlaces, GoneWithUsers, NoUseAfterDestroy, NoDanglingEvent
<1>9. CASE leave
  <2>1. CASE \A u \in Users : user[u] = "gone"
    <3>1. /\ done' \in BOOLEAN /\ calls' \in Seq({"fired", "canceled"}) /\ QuietUntilDone'
          /\ alive' = FALSE /\ asyncEvent' = FALSE
          /\ timerEvent' \in {"null", "on", "off"}
          /\ timerEvent' = "on" => loop = "timer.Poll"
      BY <1>i, <1>9, <2>1, DestroyFacts DEF leave
    <3> QED BY <1>i, <1>9, <2>1, <3>1
            DEF leave, goto, Inv, TypeOK, LoopPlaces, GoneWithUsers, NoUseAfterDestroy, NoDanglingEvent
  <2>2. CASE ~\A u \in Users : user[u] = "gone"
    BY <1>i, <1>9, <2>2
    DEF leave, goto, Inv, TypeOK, LoopPlaces, QuietUntilDone, GoneWithUsers, NoUseAfterDestroy,
        NoDanglingEvent
  <2> QED BY <2>1, <2>2
<1>10. CASE UNCHANGED vars
  BY <1>i, <1>10
  DEF vars, Inv, TypeOK, QuietUntilDone, GoneWithUsers, NoUseAfterDestroy, NoDanglingEvent
<1> QED
  BY <1>1, <1>2, <1>3, <1>4, <1>5, <1>6, <1>7, <1>8, <1>9, <1>10 DEF Next, doPoller

\* The invariant, for any number of users and of calls of Cancel.
THEOREM InvHolds == Spec => []Inv
  BY InitInv, NextInv, PTL DEF Spec

\* The handler of AsyncWait is called at most once.
THEOREM AtMostOnceHolds == Spec => []AtMostOnce
<1>1. Inv => AtMostOnce
  BY DEF Inv, QuietUntilDone, AtMostOnce
<1> QED BY <1>1, InvHolds, PTL

\* The callbacks of the loop only ever work on a Timer that exists.
THEOREM NoUseAfterDestroyHolds == Spec => []NoUseAfterDestroy
  BY InvHolds, PTL DEF Inv

\* No poller is left with an event of a Timer that is gone.
THEOREM NoDanglingEventHolds == Spec => []NoDanglingEvent
  BY InvHolds, PTL DEF Inv

\* Who is in Cancel holds lock_, and read true in done_ only if it is true ...
CancelHoldsLock ==
    \A u \in Users : user[u] = "cancel" => lock = u /\ (u \in sawDone => asyncDone)

\* ... and between the Asyncer's done_ and the Timer's event lies only the arming.
ArmsNext == asyncDone /\ alive /\ calls = <<>> => loop = "arm" \/ timerEvent # "null"

DoneReported == done => calls # <<>>

MissInv == CancelHoldsLock /\ ArmsNext /\ DoneReported

\* A report is found in calls.
LEMMA ReportSeen ==
  ASSUME TypeOK, DoneReported, NEW r, report(r)
  PROVE  calls' # <<>>
BY DEF report, DoneReported, TypeOK

\* Every step keeps what Cancel relies on.
LEMMA NextMissInv == Inv /\ MissInv /\ [Next]_vars => MissInv'
<1> SUFFICES ASSUME Inv, MissInv, [Next]_vars PROVE MissInv'
  OBVIOUS
<1> USE UsersAssumption
<1> USE DEF AsyncDo, asyncUpdateEvent, asyncRemoveEvent, timerUpdateEvent, timerRemoveEvent, goto
<1>i. TypeOK /\ GoneWithUsers /\ CancelHoldsLock /\ ArmsNext /\ DoneReported
  BY DEF Inv, MissInv
<1>1. ASSUME NEW u \in Users, AsyncWait(u) PROVE MissInv'
  BY <1>i, <1>1 DEF AsyncWait, MissInv, CancelHoldsLock, ArmsNext, DoneReported
<1>2. ASSUME NEW u \in Users, cancelCheck(u) PROVE MissInv'
  BY <1>i, <1>2 DEF cancelCheck, MissInv, CancelHoldsLock, ArmsNext, DoneReported, TypeOK
<1>3. ASSUME NEW u \in Users, cancelFinish(u) PROVE MissInv'
  <2>1. CancelHoldsLock'
    <3> SUFFICES ASSUME NEW v \in Users, user'[v] = "cancel" PROVE FALSE
      BY DEF CancelHoldsLock
    <3>1. v # u /\ user[v] = "cancel" /\ user[u] = "cancel"
      BY <1>i, <1>3 DEF cancelFinish, TypeOK
    <3> QED BY <1>i, <3>1 DEF CancelHoldsLock
  <2>2. CASE u \notin sawDone \/ timerEvent # "null"
    <3>1. calls' # <<>>
      BY <1>i, <1>3, <2>2, ReportSeen DEF cancelFinish
    <3> QED BY <2>1, <3>1 DEF MissInv, ArmsNext, DoneReported
  <2>3. CASE ~(u \notin sawDone \/ timerEvent # "null")
    <3>1. UNCHANGED <<done, calls, timerEvent, loop, alive>> /\ asyncDone' = asyncDone
      BY <1>i, <1>3, <2>3 DEF cancelFinish, TypeOK
    <3> QED BY <1>i, <2>1, <3>1 DEF MissInv, ArmsNext, DoneReported
  <2> QED BY <2>2, <2>3
<1>4. ASSUME NEW u \in Users, drop(u) PROVE MissInv'
  <2>1. CancelHoldsLock'
    BY <1>i, <1>4 DEF drop, CancelHoldsLock, TypeOK
  <2>2. CASE alive' /\ alive
    <3>1. UNCHANGED <<done, calls, asyncDone, timerEvent, loop>>
      BY <1>4, <2>2 DEF drop, destroy
    <3> QED BY <1>i, <2>1, <2>2, <3>1 DEF MissInv, ArmsNext, DoneReported
  <2>3. CASE ~(alive' /\ alive)
    <3>1. DoneReported'
      BY <1>i, <1>4, ReportSeen DEF drop, destroy, DoneReported
    <3>2. ~alive'
      BY <1>4, <2>3 DEF drop, destroy
    <3> QED BY <2>1, <3>1, <3>2 DEF MissInv, ArmsNext
  <2> QED BY <2>2, <2>3
<1>5. CASE asyncPoll \/ asyncDo \/ asyncCheck \/ timerPoll \/ timerPollEnd \/ timerDo
  BY <1>i, <1>5
  DEF asyncPoll, asyncDo, asyncCheck, timerPoll, timerPollEnd, timerDo,
      MissInv, CancelHoldsLock, ArmsNext, DoneReported
<1>6. CASE asyncSet
  BY <1>i, <1>6 DEF asyncSet, MissInv, CancelHoldsLock, ArmsNext, DoneReported
<1>7. CASE arm
  BY <1>i, <1>7 DEF arm, MissInv, CancelHoldsLock, ArmsNext, DoneReported
<1>8. CASE fire
  <2>1. calls' # <<>>
    BY <1>i, <1>8, ReportSeen DEF fire
  <2> QED BY <1>i, <1>8, <2>1 DEF fire, MissInv, CancelHoldsLock, ArmsNext, DoneReported
<1>9. CASE leave
  <2>1. CancelHoldsLock'
    BY <1>i, <1>9 DEF leave, CancelHoldsLock
  <2>2. CASE \A u \in Users : user[u] = "gone"
    <3>1. DoneReported' /\ ~alive'
      BY <1>i, <1>9, <2>2, ReportSeen DEF leave, destroy, DoneReported
    <3> QED BY <2>1, <3>1 DEF MissInv, ArmsNext
  <2>3. CASE ~\A u \in Users : user[u] = "gone"
    BY <1>i, <1>9, <2>1, <2>3 DEF leave, MissInv, ArmsNext, DoneReported
  <2> QED BY <2>2, <2>3
<1>10. CASE UNCHANGED vars
  BY <1>i, <1>10 DEF vars, MissInv, CancelHoldsLock, ArmsNext, DoneReported
<1> QED
  BY <1>1, <1>2, <1>3, <1>4, <1>5, <1>6, <1>7, <1>8, <1>9, <1>10 DEF Next, doPoller

(***************************************************************************)
(* Cancel fails to cancel only in one place of the loop's thread, between  *)
(* the Asyncer's done_ = true and the end of the Timer's lambda.           *)
(***************************************************************************)
THEOREM MissedOnlyWhileArmingHolds == Spec => MissedOnlyWhileArming
<1>1. Init => MissInv
  BY DEF Init, MissInv, CancelHoldsLock, ArmsNext, DoneReported
<1>2. Spec => []MissInv
  BY <1>1, InvHolds, NextMissInv, PTL DEF Spec
<1>3. Inv /\ MissInv /\ [Next]_vars => [lateCancel' /\ ~lateCancel => loop = "arm"]_vars
  <2> SUFFICES ASSUME Inv, MissInv, Next, lateCancel', ~lateCancel PROVE loop = "arm"
    OBVIOUS
  <2>1. PICK u \in Users : cancelFinish(u)
    BY DEF Next, doPoller, AsyncWait, cancelCheck, drop, asyncPoll, asyncDo, asyncCheck, asyncSet,
           arm, timerPoll, timerPollEnd, timerDo, fire, leave
  <2>2. calls' = <<>>
    BY <2>1 DEF cancelFinish
  <2>3. u \in sawDone /\ timerEvent = "null" /\ calls = <<>>
    BY <2>1, <2>2, ReportSeen DEF cancelFinish, Inv, MissInv
  <2>4. asyncDone /\ alive
    BY <2>1, <2>3 DEF cancelFinish, Inv, GoneWithUsers, MissInv, CancelHoldsLock
  <2> QED BY <2>3, <2>4 DEF MissInv, ArmsNext
<1> QED BY <1>2, <1>3, InvHolds, PTL DEF Spec, MissedOnlyWhileArming
=============================================================================
