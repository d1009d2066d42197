------------------------ MODULE TcpConnection_proofs ------------------------
(***************************************************************************)
(* One answer per AsyncWrite, no use of a dropped event and no notified    *)
(* event without a handler that waits, for any number of writes and bytes, *)
(* as long as Finish runs on the loop's thread; and an answer to the last  *)
(* write once Finish is over, whichever thread it runs on.                 *)
(***************************************************************************)
EXTENDS TcpConnection, TLAPS

\* The writes that somebody may still answer.
Open(w) ==
    \/ w \in queued
    \/ LoopHolds(w)
    \/ handler = w /\ (notify \/ ~writeDone)
    \/ asyncer = w /\ w \notin asyncDone

Answered(w) == answers[w] # <<>>

OneAnswer ==
    \A w \in Writes :
        /\ Len(answers[w]) <= 1
        /\ Answered(w) => w <= started /\ ~Open(w)

\* Only the loop finishes: an event is there until then, and the loop rests after it.
EventUntilFinish ==
    /\ ~lock
    /\ event <=> ~finished
    /\ finished => loop.at = "top" /\ queued = {}
    /\ ~alive => finished
    /\ loop.at # "crashed"

\* An Asyncer is queued, in the loop's hands, or done, and only one is queued.
AsyncersApart ==
    /\ queued \subseteq {asyncer}
    /\ queued \cap asyncDone = {}
    /\ asyncDone \subseteq 1..started /\ asyncer <= started
    /\ \A w \in Writes : LoopHolds(w) =>
          /\ w \notin queued /\ w <= started /\ w # handler
          /\ loop.at \in {"async.check", "async.set"} => w \notin asyncDone
          /\ loop.at \in {"lambda", "arm"} => w \in asyncDone
    /\ handler # None => handler \in asyncDone

\* writeHandler is on its way only for an event that is notified.
WriteNotified ==
    /\ notify => event /\ handler # None
    /\ loop.at \in {"write.cb", "write"} => notify
    /\ loop.at \in {"async.Do", "async.check", "async.set", "lambda", "arm"} => loop.w \in Writes

\* Who resets has one write under way, the last.
OneAtATime ==
    ~overlapped =>
        /\ fresh => /\ queued = {} /\ ~notify
                    /\ loop.at \in {"top", "read.cb", "read"}
        /\ queued \subseteq {started}
        /\ loop.at \in {"async.Do", "async.check", "async.set", "lambda", "arm"} => loop.w = started
        /\ notify => handler = started

Inv == TypeOK /\ OneAnswer /\ EventUntilFinish /\ AsyncersApart /\ WriteNotified /\ OneAtATime

\* A connection just made: nothing was written.
LEMMA InitInv == Init => Inv
<1> SUFFICES ASSUME Init PROVE Inv
  OBVIOUS
<1> USE BoundsAssumption
<1>1. TypeOK
  <2>1. answers \in [Writes -> Seq({"sent", "error"})]
    BY DEF Init
  <2>2. loop \in [at : LoopPlaces, w : Writes \cup {None}]
    BY DEF Init, LoopPlaces
  <2>3. queued \subseteq Writes /\ asyncDone \subseteq Writes
    BY DEF Init
  <2>4. unsent \in Nat /\ again \in 0..MaxAgain /\ started \in 0..MaxWrites
    BY DEF Init
  <2> QED BY <2>1, <2>2, <2>3, <2>4 DEF Init, TypeOK
<1>2. \A w \in Writes : answers[w] = <<>> /\ ~LoopHolds(w)
  BY DEF Init, LoopHolds
<1>3. OneAnswer
  BY <1>2 DEF OneAnswer, Answered
<1>4. EventUntilFinish /\ AsyncersApart
  BY <1>2 DEF Init, EventUntilFinish, AsyncersApart, None
<1>5. WriteNotified /\ OneAtATime
  BY DEF Init, WriteNotified, OneAtATime
<1> QED BY <1>1, <1>3, <1>4, <1>5 DEF Inv

\* Telling handlers that were not told before leaves everyone with one answer.
LEMMA TellOnce ==
  ASSUME TypeOK, OneAnswer, NEW S, NEW r \in {"sent", "error"}, tell(S, r),
         \A w \in Writes : w \in S => ~Answered(w)
  PROVE  /\ answers' \in [Writes -> Seq({"sent", "error"})]
         /\ \A w \in Writes : /\ Len(answers'[w]) <= 1
                              /\ answers'[w] # <<>> <=> Answered(w) \/ w \in S
<1>1. ASSUME NEW w \in Writes
      PROVE  /\ answers'[w] \in Seq({"sent", "error"})
             /\ Len(answers'[w]) <= 1
             /\ answers'[w] # <<>> <=> Answered(w) \/ w \in S
  <2>1. answers[w] \in Seq({"sent", "error"}) /\ Len(answers[w]) <= 1
    BY <1>1 DEF TypeOK, OneAnswer
  <2>2. CASE w \in S
    <3>1. answers[w] = <<>> /\ answers'[w] = Append(answers[w], r)
      BY <1>1, <2>2 DEF Answered, tell
    <3>2. answers'[w] = <<r>>
      BY <3>1
    <3> QED BY <2>2, <3>2
  <2>3. CASE w \notin S
    BY <1>1, <2>1, <2>3 DEF tell, Answered
  <2> QED BY <2>2, <2>3
<1>2. answers' = [w \in Writes |-> answers'[w]]
  BY DEF tell
<1> QED BY <1>1, <1>2

\* Steps that leave the answers and what may be answered alone.
LEMMA SameOpen ==
  ASSUME OneAnswer, UNCHANGED <<answers, started>>,
         \A w \in Writes : Open(w)' => Open(w)
  PROVE  OneAnswer'
BY DEF OneAnswer, Answered

(***************************************************************************)
(* Finish where it does its work: H is the handler it tells, besides the   *)
(* cancelled Asyncer, if that one is still waiting.                        *)
(***************************************************************************)
LEMMA FinishInv ==
  ASSUME Inv, ~finished, finished' = TRUE, dropEvent,
         NEW H \in SUBSET {handler}, \A w \in H \cap Writes : Open(w),
         tell(H \cup Cancelled(asyncer \in asyncDone), "error"),
         ~writeDone /\ handler # None => handler \in H,
         writeDone' = (writeDone \/ handler # None),
         queued' = queued \ {asyncer},
         asyncDone' = asyncDone \cup Cancelled(asyncer \in asyncDone),
         loop.at \in {"top", "read", "write"}, loop' = [loop EXCEPT !.at = "top"],
         unsent' \in Nat,
         UNCHANGED <<handler, asyncer, started, alive, lock, fresh, again, sawDone, raced,
                     overlapped>>
  PROVE  Inv'
<1> USE BoundsAssumption DEF Writes, None, LoopHolds
<1>i. TypeOK /\ OneAnswer /\ EventUntilFinish /\ AsyncersApart /\ WriteNotified /\ OneAtATime
  BY DEF Inv
<1>d. PICK S : S = H \cup Cancelled(asyncer \in asyncDone)
  OBVIOUS
<1>o. \A w \in Writes : w \in S => Open(w)
  BY <1>d DEF Cancelled, Open
<1>t. /\ answers' \in [Writes -> Seq({"sent", "error"})]
      /\ \A w \in Writes : /\ Len(answers'[w]) <= 1
                           /\ answers'[w] # <<>> <=> Answered(w) \/ w \in S
  <2>1. \A w \in Writes : w \in S => ~Answered(w)
    BY <1>i, <1>o DEF OneAnswer
  <2> QED BY <1>i, <1>d, <2>1, TellOnce
<1>1. TypeOK'
  <2>1. queued' \subseteq Writes /\ asyncDone' \subseteq Writes
    BY <1>i DEF TypeOK, Cancelled
  <2>2. loop' \in [at : LoopPlaces, w : Writes \cup {None}]
    BY <1>i DEF TypeOK, LoopPlaces
  <2>3. /\ event' \in BOOLEAN /\ notify' \in BOOLEAN
        /\ finished' \in BOOLEAN /\ writeDone' \in BOOLEAN
    BY <1>i DEF TypeOK, dropEvent
  <2> QED BY <1>i, <1>t, <2>1, <2>2, <2>3 DEF TypeOK
<1>2. OneAnswer'
  <2>a. \A w \in Writes : ~LoopHolds(w)' /\ w \notin queued'
    BY <1>i DEF AsyncersApart, TypeOK
  <2>b. \A w \in Writes : ~(asyncer = w /\ w \notin asyncDone')
    BY DEF Cancelled
  <2>c. \A w \in Writes : w # None
    OBVIOUS
  <2>d. \A w \in Writes : ~(handler = w /\ (notify' \/ ~writeDone'))
    BY <2>c, Zenon DEF dropEvent
  <2>1. \A w \in Writes : ~Open(w)'
    BY <2>a, <2>b, <2>d DEF Open
  <2>2. \A w \in Writes : w \in S => w <= started
    BY <1>i, <1>d DEF AsyncersApart, Cancelled, TypeOK
  <2> QED BY <1>i, <1>t, <2>1, <2>2 DEF OneAnswer, Answered
<1>3. EventUntilFinish'
  BY <1>i DEF EventUntilFinish, dropEvent, AsyncersApart
<1>4. AsyncersApart'
  BY <1>i DEF AsyncersApart, Cancelled, TypeOK
<1>5. WriteNotified' /\ OneAtATime'
  BY <1>i DEF WriteNotified, OneAtATime, dropEvent, TypeOK
<1> QED BY <1>1, <1>2, <1>3, <1>4, <1>5 DEF Inv

\* The loop has an Asyncer in its hands whenever it is in one's callback.
AsyncerTaken ==
    loop.at \in {"async.Do", "async.check", "async.set", "lambda", "arm"} => loop.w \in Writes

\* Whoever is told, answers stay sequences, and nobody's answer is taken back.
LEMMA TellKeeps ==
  ASSUME TypeOK, NEW S, NEW r \in {"sent", "error"}, tell(S, r)
  PROVE  /\ answers' \in [Writes -> Seq({"sent", "error"})]
         /\ \A w \in Writes : answers'[w] # <<>> <=> Answered(w) \/ w \in S
<1>1. ASSUME NEW w \in Writes
      PROVE  /\ answers'[w] \in Seq({"sent", "error"})
             /\ answers'[w] # <<>> <=> Answered(w) \/ w \in S
  <2>1. answers[w] \in Seq({"sent", "error"})
    BY DEF TypeOK
  <2>2. CASE w \in S
    <3>1. answers'[w] = Append(answers[w], r)
      BY <2>2 DEF tell
    <3> QED BY <2>1, <2>2, <3>1
  <2>3. CASE w \notin S
    BY <2>1, <2>3 DEF tell, Answered
  <2> QED BY <2>2, <2>3
<1>2. answers' = [w \in Writes |-> answers'[w]]
  BY DEF tell
<1> QED BY <1>1, <1>2

\* What Finish does, wherever it is called, but for the answers it gives.
LEMMA FinishTypes ==
  ASSUME TypeOK, Finish
  PROVE  /\ finished' \in BOOLEAN /\ event' \in BOOLEAN /\ notify' \in BOOLEAN /\ writeDone' \in BOOLEAN
         /\ queued' \subseteq Writes /\ asyncDone' \subseteq Writes
         /\ answers' \in [Writes -> Seq({"sent", "error"})]
<1>1. CASE finished
  BY <1>1 DEF Finish, TypeOK
<1>2. CASE ~finished
  <2>1. asyncDone' \subseteq Writes /\ queued' \subseteq Writes
    BY <1>2 DEF Finish, FinishBody, Cancelled, TypeOK, None
  <2>2. answers' \in [Writes -> Seq({"sent", "error"})]
    BY <1>2, TellKeeps DEF Finish, FinishBody
  <2> QED BY <1>2, <2>1, <2>2 DEF Finish, FinishBody, dropEvent, TypeOK
<1> QED BY <1>1, <1>2

\* The loop goes to a place there is.
LEMMA Places ==
  {"top", "async.check", "async.set", "lambda", "arm", "write", "read", "crashed"} \subseteq LoopPlaces
  BY DEF LoopPlaces
LEMMA GotoTypes ==
  ASSUME TypeOK, NEW at \in LoopPlaces, loop' = [loop EXCEPT !.at = at]
  PROVE  loop' \in [at : LoopPlaces, w : Writes \cup {None}]
  BY DEF TypeOK

\* Every variable keeps its type, whoever finishes and however writes overlap.
LEMMA TypesStep == ASSUME TypeOK, AsyncerTaken, [Next]_vars PROVE TypeOK'
<1> USE BoundsAssumption DEF goto
<1> DEFINE others == <<event, notify, finished, writeDone, handler, asyncer, queued, asyncDone,
                       unsent, again, started, fresh, answers, lock, sawDone, raced, overlapped>>
<1> HIDE DEF others
<1>s. CASE UNCHANGED vars
  BY <1>s DEF vars, TypeOK
<1>1. CASE WriteBufferPush
  BY <1>1 DEF WriteBufferPush, TypeOK
<1>2. CASE Reset
  BY <1>2 DEF Reset, TypeOK
<1>3. CASE destroy
  <2>1. alive' \in BOOLEAN /\ UNCHANGED others
    BY <1>3 DEF destroy, others
  <2>2. UNCHANGED loop
    BY <1>3 DEF destroy
  <2> QED BY <2>1, <2>2 DEF others, TypeOK
<1>4. CASE asyncPoll
  <2>1. PICK w \in queued : loop' = [at |-> "async.Do", w |-> w]
    BY <1>4 DEF asyncPoll
  <2>2. w \in Writes /\ "async.Do" \in LoopPlaces
    BY DEF TypeOK, LoopPlaces
  <2>3. loop' \in [at : LoopPlaces, w : Writes \cup {None}]
    BY <2>1, <2>2
  <2>4. UNCHANGED others /\ UNCHANGED alive
    BY <1>4 DEF asyncPoll, others
  <2> QED BY <2>3, <2>4 DEF others, TypeOK
<1>5. CASE asyncDo
  <2>1. loop' \in [at : LoopPlaces, w : Writes \cup {None}]
    <3>1. PICK at \in LoopPlaces : loop' = [loop EXCEPT !.at = at]
      BY <1>5, Places DEF asyncDo
    <3> QED BY <3>1, GotoTypes
  <2> QED BY <1>5, <2>1 DEF asyncDo, TypeOK
<1>6. CASE asyncCheck
  <2>1. loop' \in [at : LoopPlaces, w : Writes \cup {None}]
    <3>1. PICK at \in LoopPlaces : loop' = [loop EXCEPT !.at = at]
      BY <1>6, Places DEF asyncCheck
    <3> QED BY <3>1, GotoTypes
  <2> QED BY <1>6, <2>1 DEF asyncCheck, TypeOK
<1>7. CASE asyncSet
  <2>1. asyncDone' \subseteq Writes
    BY <1>7 DEF asyncSet, TypeOK, AsyncerTaken
  <2>2. loop' \in [at : LoopPlaces, w : Writes \cup {None}]
    <3>1. PICK at \in LoopPlaces : loop' = [loop EXCEPT !.at = at]
      BY <1>7, Places DEF asyncSet
    <3> QED BY <3>1, GotoTypes
  <2> QED BY <1>7, <2>1, <2>2 DEF asyncSet, TypeOK
<1>8. CASE arm
  <2>1. loop' \in [at : LoopPlaces, w : Writes \cup {None}]
    <3>1. PICK at \in LoopPlaces : loop' = [loop EXCEPT !.at = at]
      BY <1>8, Places DEF arm
    <3> QED BY <3>1, GotoTypes
  <2> QED BY <1>8, <2>1 DEF arm, TypeOK
<1>9. CASE epollOut
  BY <1>9 DEF epollOut, TypeOK, LoopPlaces
<1>10. CASE epollIn
  BY <1>10 DEF epollIn, TypeOK, LoopPlaces
<1>11. CASE callback
  <2>1. alive \in BOOLEAN
    BY <1>11 DEF callback, TypeOK
  <2>2. loop' \in [at : LoopPlaces, w : Writes \cup {None}]
    <3>1. PICK at \in LoopPlaces : loop' = [loop EXCEPT !.at = at]
      BY <1>11, Places, <2>1 DEF callback
    <3> QED BY <3>1, GotoTypes
  <2>3. UNCHANGED others /\ UNCHANGED alive
    BY <1>11 DEF callback, others
  <2> QED BY <2>1, <2>2, <2>3 DEF others, TypeOK
<1>12. CASE send
  <2>1. unsent' \in Nat
    BY <1>12 DEF send, TypeOK
  <2>2. loop' \in [at : LoopPlaces, w : Writes \cup {None}]
    <3>1. PICK at \in LoopPlaces : loop' = [loop EXCEPT !.at = at]
      BY <1>12, Places DEF send
    <3> QED BY <3>1, GotoTypes
  <2> QED BY <1>12, <2>1, <2>2 DEF send, TypeOK
<1>13. CASE wouldBlock
  <2>1. unsent' \in Nat /\ again' \in 0..MaxAgain
    BY <1>13 DEF wouldBlock, TypeOK
  <2>2. loop' \in [at : LoopPlaces, w : Writes \cup {None}]
    <3>1. PICK at \in LoopPlaces : loop' = [loop EXCEPT !.at = at]
      BY <1>13, Places DEF wouldBlock
    <3> QED BY <3>1, GotoTypes
  <2> QED BY <1>13, <2>1, <2>2 DEF wouldBlock, TypeOK
<1>14. CASE received
  <2>1. loop' \in [at : LoopPlaces, w : Writes \cup {None}]
    <3>1. PICK at \in LoopPlaces : loop' = [loop EXCEPT !.at = at]
      BY <1>14, Places DEF received
    <3> QED BY <3>1, GotoTypes
  <2> QED BY <1>14, <2>1 DEF received, TypeOK
<1>15. CASE loopFinish
  BY <1>15, FinishTypes DEF loopFinish, TypeOK, LoopPlaces
<1>16. CASE readFails
  BY <1>16, FinishTypes DEF readFails, TypeOK, LoopPlaces
<1>17. CASE written
  <2>1. answers' \in [Writes -> Seq({"sent", "error"})]
    BY <1>17, TellKeeps DEF written, TypeOK
  <2>2. loop' \in [at : LoopPlaces, w : Writes \cup {None}]
    <3>1. PICK at \in LoopPlaces : loop' = [loop EXCEPT !.at = at]
      BY <1>17, Places DEF written
    <3> QED BY <3>1, GotoTypes
  <2> QED BY <1>17, <2>1, <2>2 DEF written, TypeOK
<1>18. CASE lambda
  <2>1. answers' \in [Writes -> Seq({"sent", "error"})]
    BY <1>18, TellKeeps DEF lambda, TypeOK
  <2>2. loop' \in [at : LoopPlaces, w : Writes \cup {None}]
    <3>1. PICK at \in LoopPlaces : loop' = [loop EXCEPT !.at = at]
      BY <1>18, Places DEF lambda
    <3> QED BY <3>1, GotoTypes
  <2> QED BY <1>18, <2>1, <2>2 DEF lambda, TypeOK
<1>19. CASE AsyncWrite
  <2>1. answers' \in [Writes -> Seq({"sent", "error"})]
    <3>1. CASE tell({started + 1}, "error")
      BY <3>1, TellKeeps
    <3>2. CASE tell(Replaced, "error")
      BY <3>2, TellKeeps
    <3> QED BY <1>19, <3>1, <3>2 DEF AsyncWrite
  <2>2. Replaced \subseteq Writes
    BY DEF Replaced, TypeOK
  <2>3. started' \in 0..MaxWrites /\ started' \in Writes
    BY <1>19 DEF AsyncWrite, TypeOK, Writes
  <2> QED BY <1>19, <2>1, <2>2, <2>3 DEF AsyncWrite, TypeOK
<1>20. CASE mainFinish
  BY <1>20 DEF mainFinish, TypeOK
<1>21. CASE mainFinishEnd
  <2>1. answers' \in [Writes -> Seq({"sent", "error"})]
    BY <1>21, TellKeeps DEF mainFinishEnd, FinishBody
  <2>2. Cancelled(sawDone) \subseteq Writes
    BY DEF Cancelled, TypeOK
  <2> QED BY <1>21, <2>1, <2>2 DEF mainFinishEnd, FinishBody, dropEvent, TypeOK
<1>22. CASE sendFails
  <2>1. answers' \in [Writes -> Seq({"sent", "error"})]
    BY <1>22, TellKeeps DEF sendFails
  <2>2. Cancelled(asyncer \in asyncDone) \subseteq Writes
    BY DEF Cancelled, TypeOK
  <2>3. loop' \in [at : LoopPlaces, w : Writes \cup {None}]
    BY <1>22 DEF sendFails, TypeOK, LoopPlaces
  <2>4. /\ unsent' \in Nat /\ finished' \in BOOLEAN /\ writeDone' \in BOOLEAN
        /\ event' \in BOOLEAN /\ notify' \in BOOLEAN
    <3>1. unsent' \in Nat
      BY <1>22 DEF sendFails, TypeOK
    <3>2. event' \in {event, FALSE} /\ notify' \in {notify, FALSE}
      BY <1>22 DEF sendFails, dropEvent
    <3>3. finished' \in BOOLEAN /\ writeDone' \in BOOLEAN
      BY <1>22 DEF sendFails
    <3> QED BY <3>1, <3>2, <3>3 DEF TypeOK
  <2>5. queued' \subseteq Writes /\ asyncDone' \subseteq Writes
    BY <1>22, <2>2 DEF sendFails, TypeOK
  <2> QED BY <1>22, <2>1, <2>3, <2>4, <2>5 DEF sendFails, TypeOK
<1> QED
  BY <1>s, <1>1, <1>2, <1>3, <1>4, <1>5, <1>6, <1>7, <1>8, <1>9, <1>10, <1>11, <1>12, <1>13,
     <1>14, <1>15, <1>16, <1>17, <1>18, <1>19, <1>20, <1>21, <1>22
  DEF Next, doPoller, User

\* No step of the loop and no call of a user ends the invariant.
LEMMA NextInv == ASSUME Inv, [Next]_vars, ~raced' PROVE Inv'
<1> USE BoundsAssumption DEF Writes, None, goto, LoopHolds
<1>i. TypeOK /\ OneAnswer /\ EventUntilFinish /\ AsyncersApart /\ WriteNotified /\ OneAtATime
  BY DEF Inv
<1>s. ASSUME UNCHANGED vars PROVE Inv'
  BY <1>i, <1>s DEF vars, Inv, TypeOK, OneAnswer, Answered, Open, EventUntilFinish, AsyncersApart,
                    WriteNotified, OneAtATime
<1>t. TypeOK'
  BY <1>i, TypesStep DEF WriteNotified, AsyncerTaken
<1>1. CASE WriteBufferPush
  <2>2. OneAnswer'
    <3>1. \A w \in Writes : Open(w)' => Open(w)
      BY <1>i, <1>1 DEF WriteBufferPush, Open, EventUntilFinish, AsyncersApart, WriteNotified,
         TypeOK
    <3> QED BY <1>i, <1>1, <3>1, SameOpen DEF WriteBufferPush
  <2>3. EventUntilFinish'
    BY <1>i, <1>1 DEF WriteBufferPush, EventUntilFinish, WriteNotified, TypeOK
  <2>4. AsyncersApart'
    BY <1>i, <1>1 DEF WriteBufferPush, AsyncersApart, EventUntilFinish, WriteNotified, TypeOK
  <2>5. WriteNotified'
    BY <1>i, <1>1 DEF WriteBufferPush, WriteNotified, EventUntilFinish, AsyncersApart, TypeOK
  <2>6. OneAtATime'
    BY <1>i, <1>1 DEF WriteBufferPush, OneAtATime, EventUntilFinish, AsyncersApart, WriteNotified,
       TypeOK
  <2> QED BY <1>t, <2>2, <2>3, <2>4, <2>5, <2>6 DEF Inv
<1>2. CASE Reset
  <2>p. ~notify /\ queued = {}
    <3>1. answers[started] # <<>>
      BY <1>2 DEF Reset
    <3>2. \A w \in Writes : w = started => ~Open(w)
      BY <1>i, <3>1 DEF OneAnswer, Answered
    <3> QED BY <1>i, <1>2, <3>2 DEF Reset, Open, OneAtATime, WriteNotified, TypeOK
  <2>2. OneAnswer'
    <3>1. \A w \in Writes : Open(w)' => Open(w)
      BY <1>i, <1>2, <2>p DEF Reset, Open, EventUntilFinish, AsyncersApart, WriteNotified, TypeOK
    <3> QED BY <1>i, <1>2, <2>p, <3>1, SameOpen DEF Reset
  <2>3. EventUntilFinish'
    BY <1>i, <1>2, <2>p DEF Reset, EventUntilFinish, WriteNotified, TypeOK
  <2>4. AsyncersApart'
    BY <1>i, <1>2, <2>p DEF Reset, AsyncersApart, EventUntilFinish, WriteNotified, TypeOK
  <2>5. WriteNotified'
    BY <1>i, <1>2, <2>p DEF Reset, WriteNotified, EventUntilFinish, AsyncersApart, TypeOK
  <2>6. OneAtATime'
    BY <1>i, <1>2, <2>p
    DEF Reset, OneAtATime, EventUntilFinish, AsyncersApart, WriteNotified, TypeOK
  <2> QED BY <1>t, <2>2, <2>3, <2>4, <2>5, <2>6 DEF Inv
<1>3. CASE destroy
  <2>2. OneAnswer'
    <3>1. \A w \in Writes : Open(w)' => Open(w)
      BY <1>i, <1>3 DEF destroy, Open, EventUntilFinish, AsyncersApart, WriteNotified, TypeOK
    <3> QED BY <1>i, <1>3, <3>1, SameOpen DEF destroy
  <2>3. EventUntilFinish'
    BY <1>i, <1>3 DEF destroy, EventUntilFinish, WriteNotified, TypeOK
  <2>4. AsyncersApart'
    BY <1>i, <1>3 DEF destroy, AsyncersApart, EventUntilFinish, WriteNotified, TypeOK
  <2>5. WriteNotified'
    BY <1>i, <1>3 DEF destroy, WriteNotified, EventUntilFinish, AsyncersApart, TypeOK
  <2>6. OneAtATime'
    BY <1>i, <1>3 DEF destroy, OneAtATime, EventUntilFinish, AsyncersApart, WriteNotified, TypeOK
  <2> QED BY <1>t, <2>2, <2>3, <2>4, <2>5, <2>6 DEF Inv
<1>4. CASE asyncPoll
  <2>2. OneAnswer'
    <3>1. \A w \in Writes : Open(w)' => Open(w)
      BY <1>i, <1>4 DEF asyncPoll, Open, EventUntilFinish, AsyncersApart, WriteNotified, TypeOK
    <3> QED BY <1>i, <1>4, <3>1, SameOpen DEF asyncPoll
  <2>3. EventUntilFinish'
    BY <1>i, <1>4 DEF asyncPoll, EventUntilFinish, WriteNotified, TypeOK
  <2>4. AsyncersApart'
    BY <1>i, <1>4 DEF asyncPoll, AsyncersApart, EventUntilFinish, WriteNotified, TypeOK
  <2>5. WriteNotified'
    BY <1>i, <1>4 DEF asyncPoll, WriteNotified, EventUntilFinish, AsyncersApart, TypeOK
  <2>6. OneAtATime'
    BY <1>i, <1>4 DEF asyncPoll, OneAtATime, EventUntilFinish, AsyncersApart, WriteNotified, TypeOK
  <2> QED BY <1>t, <2>2, <2>3, <2>4, <2>5, <2>6 DEF Inv
<1>5. CASE asyncDo
  <2>2. OneAnswer'
    <3>1. \A w \in Writes : Open(w)' => Open(w)
      BY <1>i, <1>5 DEF asyncDo, Open, EventUntilFinish, AsyncersApart, WriteNotified, TypeOK
    <3> QED BY <1>i, <1>5, <3>1, SameOpen DEF asyncDo
  <2>3. EventUntilFinish'
    BY <1>i, <1>5 DEF asyncDo, EventUntilFinish, WriteNotified, TypeOK
  <2>4. AsyncersApart'
    BY <1>i, <1>5 DEF asyncDo, AsyncersApart, EventUntilFinish, WriteNotified, TypeOK
  <2>5. WriteNotified'
    BY <1>i, <1>5 DEF asyncDo, WriteNotified, EventUntilFinish, AsyncersApart, TypeOK
  <2>6. OneAtATime'
    BY <1>i, <1>5 DEF asyncDo, OneAtATime, EventUntilFinish, AsyncersApart, WriteNotified, TypeOK
  <2> QED BY <1>t, <2>2, <2>3, <2>4, <2>5, <2>6 DEF Inv
<1>6. CASE asyncCheck
  <2>2. OneAnswer'
    <3>1. \A w \in Writes : Open(w)' => Open(w)
      BY <1>i, <1>6 DEF asyncCheck, Open, EventUntilFinish, AsyncersApart, WriteNotified, TypeOK
    <3> QED BY <1>i, <1>6, <3>1, SameOpen DEF asyncCheck
  <2>3. EventUntilFinish'
    BY <1>i, <1>6 DEF asyncCheck, EventUntilFinish, WriteNotified, TypeOK
  <2>4. AsyncersApart'
    BY <1>i, <1>6 DEF asyncCheck, AsyncersApart, EventUntilFinish, WriteNotified, TypeOK
  <2>5. WriteNotified'
    BY <1>i, <1>6 DEF asyncCheck, WriteNotified, EventUntilFinish, AsyncersApart, TypeOK
  <2>6. OneAtATime'
    BY <1>i, <1>6 DEF asyncCheck, OneAtATime, EventUntilFinish, AsyncersApart, WriteNotified, TypeOK
  <2> QED BY <1>t, <2>2, <2>3, <2>4, <2>5, <2>6 DEF Inv
<1>7. CASE asyncSet
  <2>p. loop.w \in Writes
    BY <1>i, <1>7 DEF asyncSet, WriteNotified
  <2>2. OneAnswer'
    <3>1. \A w \in Writes : Open(w)' => Open(w)
      BY <1>i, <1>7, <2>p DEF asyncSet, Open, EventUntilFinish, AsyncersApart, WriteNotified, TypeOK
    <3> QED BY <1>i, <1>7, <2>p, <3>1, SameOpen DEF asyncSet
  <2>3. EventUntilFinish'
    BY <1>i, <1>7, <2>p DEF asyncSet, EventUntilFinish, WriteNotified, TypeOK
  <2>4. AsyncersApart'
    BY <1>i, <1>7, <2>p DEF asyncSet, AsyncersApart, EventUntilFinish, WriteNotified, TypeOK
  <2>5. WriteNotified'
    BY <1>i, <1>7, <2>p DEF asyncSet, WriteNotified, EventUntilFinish, AsyncersApart, TypeOK
  <2>6. OneAtATime'
    BY <1>i, <1>7, <2>p
    DEF asyncSet, OneAtATime, EventUntilFinish, AsyncersApart, WriteNotified, TypeOK
  <2> QED BY <1>t, <2>2, <2>3, <2>4, <2>5, <2>6 DEF Inv
<1>8. CASE lambda
  <2>p. alive
    BY <1>i, <1>8 DEF lambda, EventUntilFinish
  <2>2. OneAnswer'
    <3>1. \A w \in Writes : Open(w)' => Open(w)
      BY <1>i, <1>8, <2>p DEF lambda, Open, EventUntilFinish, AsyncersApart, WriteNotified, TypeOK
    <3> QED BY <1>i, <1>8, <2>p, <3>1, SameOpen DEF lambda
  <2>3. EventUntilFinish'
    BY <1>i, <1>8, <2>p DEF lambda, EventUntilFinish, WriteNotified, TypeOK
  <2>4. AsyncersApart'
    BY <1>i, <1>8, <2>p DEF lambda, AsyncersApart, EventUntilFinish, WriteNotified, TypeOK
  <2>5. WriteNotified'
    BY <1>i, <1>8, <2>p DEF lambda, WriteNotified, EventUntilFinish, AsyncersApart, TypeOK
  <2>6. OneAtATime'
    BY <1>i, <1>8, <2>p
    DEF lambda, OneAtATime, EventUntilFinish, AsyncersApart, WriteNotified, TypeOK
  <2> QED BY <1>t, <2>2, <2>3, <2>4, <2>5, <2>6 DEF Inv
<1>9. CASE arm
  <2>2. OneAnswer'
    <3>1. \A w \in Writes : Open(w)' => Open(w)
      BY <1>i, <1>9 DEF arm, Open, EventUntilFinish, AsyncersApart, WriteNotified, TypeOK
    <3> QED BY <1>i, <1>9, <3>1, SameOpen DEF arm
  <2>3. EventUntilFinish'
    BY <1>i, <1>9 DEF arm, EventUntilFinish, WriteNotified, TypeOK
  <2>4. AsyncersApart'
    BY <1>i, <1>9 DEF arm, AsyncersApart, EventUntilFinish, WriteNotified, TypeOK
  <2>5. WriteNotified'
    BY <1>i, <1>9 DEF arm, WriteNotified, EventUntilFinish, AsyncersApart, TypeOK
  <2>6. OneAtATime'
    BY <1>i, <1>9 DEF arm, OneAtATime, EventUntilFinish, AsyncersApart, WriteNotified, TypeOK
  <2> QED BY <1>t, <2>2, <2>3, <2>4, <2>5, <2>6 DEF Inv
<1>10. CASE epollOut
  <2>2. OneAnswer'
    <3>1. \A w \in Writes : Open(w)' => Open(w)
      BY <1>i, <1>10 DEF epollOut, Open, EventUntilFinish, AsyncersApart, WriteNotified, TypeOK
    <3> QED BY <1>i, <1>10, <3>1, SameOpen DEF epollOut
  <2>3. EventUntilFinish'
    BY <1>i, <1>10 DEF epollOut, EventUntilFinish, WriteNotified, TypeOK
  <2>4. AsyncersApart'
    BY <1>i, <1>10 DEF epollOut, AsyncersApart, EventUntilFinish, WriteNotified, TypeOK
  <2>5. WriteNotified'
    BY <1>i, <1>10 DEF epollOut, WriteNotified, EventUntilFinish, AsyncersApart, TypeOK
  <2>6. OneAtATime'
    BY <1>i, <1>10 DEF epollOut, OneAtATime, EventUntilFinish, AsyncersApart, WriteNotified, TypeOK
  <2> QED BY <1>t, <2>2, <2>3, <2>4, <2>5, <2>6 DEF Inv
<1>11. CASE epollIn
  <2>2. OneAnswer'
    <3>1. \A w \in Writes : Open(w)' => Open(w)
      BY <1>i, <1>11 DEF epollIn, Open, EventUntilFinish, AsyncersApart, WriteNotified, TypeOK
    <3> QED BY <1>i, <1>11, <3>1, SameOpen DEF epollIn
  <2>3. EventUntilFinish'
    BY <1>i, <1>11 DEF epollIn, EventUntilFinish, WriteNotified, TypeOK
  <2>4. AsyncersApart'
    BY <1>i, <1>11 DEF epollIn, AsyncersApart, EventUntilFinish, WriteNotified, TypeOK
  <2>5. WriteNotified'
    BY <1>i, <1>11 DEF epollIn, WriteNotified, EventUntilFinish, AsyncersApart, TypeOK
  <2>6. OneAtATime'
    BY <1>i, <1>11 DEF epollIn, OneAtATime, EventUntilFinish, AsyncersApart, WriteNotified, TypeOK
  <2> QED BY <1>t, <2>2, <2>3, <2>4, <2>5, <2>6 DEF Inv
<1>12. CASE callback
  <2>2. OneAnswer'
    <3>1. \A w \in Writes : Open(w)' => Open(w)
      BY <1>i, <1>12 DEF callback, Open, EventUntilFinish, AsyncersApart, WriteNotified, TypeOK
    <3> QED BY <1>i, <1>12, <3>1, SameOpen DEF callback
  <2>3. EventUntilFinish'
    BY <1>i, <1>12 DEF callback, EventUntilFinish, WriteNotified, TypeOK
  <2>4. AsyncersApart'
    BY <1>i, <1>12 DEF callback, AsyncersApart, EventUntilFinish, WriteNotified, TypeOK
  <2>5. WriteNotified'
    BY <1>i, <1>12 DEF callback, WriteNotified, EventUntilFinish, AsyncersApart, TypeOK
  <2>6. OneAtATime'
    BY <1>i, <1>12 DEF callback, OneAtATime, EventUntilFinish, AsyncersApart, WriteNotified, TypeOK
  <2> QED BY <1>t, <2>2, <2>3, <2>4, <2>5, <2>6 DEF Inv
<1>13. CASE send
  <2>2. OneAnswer'
    <3>1. \A w \in Writes : Open(w)' => Open(w)
      BY <1>i, <1>13 DEF send, Open, EventUntilFinish, AsyncersApart, WriteNotified, TypeOK
    <3> QED BY <1>i, <1>13, <3>1, SameOpen DEF send
  <2>3. EventUntilFinish'
    BY <1>i, <1>13 DEF send, EventUntilFinish, WriteNotified, TypeOK
  <2>4. AsyncersApart'
    BY <1>i, <1>13 DEF send, AsyncersApart, EventUntilFinish, WriteNotified, TypeOK
  <2>5. WriteNotified'
    BY <1>i, <1>13 DEF send, WriteNotified, EventUntilFinish, AsyncersApart, TypeOK
  <2>6. OneAtATime'
    BY <1>i, <1>13 DEF send, OneAtATime, EventUntilFinish, AsyncersApart, WriteNotified, TypeOK
  <2> QED BY <1>t, <2>2, <2>3, <2>4, <2>5, <2>6 DEF Inv
<1>14. CASE wouldBlock
  <2>2. OneAnswer'
    <3>1. \A w \in Writes : Open(w)' => Open(w)
      BY <1>i, <1>14 DEF wouldBlock, Open, EventUntilFinish, AsyncersApart, WriteNotified, TypeOK
    <3> QED BY <1>i, <1>14, <3>1, SameOpen DEF wouldBlock
  <2>3. EventUntilFinish'
    BY <1>i, <1>14 DEF wouldBlock, EventUntilFinish, WriteNotified, TypeOK
  <2>4. AsyncersApart'
    BY <1>i, <1>14 DEF wouldBlock, AsyncersApart, EventUntilFinish, WriteNotified, TypeOK
  <2>5. WriteNotified'
    BY <1>i, <1>14 DEF wouldBlock, WriteNotified, EventUntilFinish, AsyncersApart, TypeOK
  <2>6. OneAtATime'
    BY <1>i, <1>14
    DEF wouldBlock, OneAtATime, EventUntilFinish, AsyncersApart, WriteNotified, TypeOK
  <2> QED BY <1>t, <2>2, <2>3, <2>4, <2>5, <2>6 DEF Inv
<1>15. CASE received
  <2>2. OneAnswer'
    <3>1. \A w \in Writes : Open(w)' => Open(w)
      BY <1>i, <1>15 DEF received, Open, EventUntilFinish, AsyncersApart, WriteNotified, TypeOK
    <3> QED BY <1>i, <1>15, <3>1, SameOpen DEF received
  <2>3. EventUntilFinish'
    BY <1>i, <1>15 DEF received, EventUntilFinish, WriteNotified, TypeOK
  <2>4. AsyncersApart'
    BY <1>i, <1>15 DEF received, AsyncersApart, EventUntilFinish, WriteNotified, TypeOK
  <2>5. WriteNotified'
    BY <1>i, <1>15 DEF received, WriteNotified, EventUntilFinish, AsyncersApart, TypeOK
  <2>6. OneAtATime'
    BY <1>i, <1>15 DEF received, OneAtATime, EventUntilFinish, AsyncersApart, WriteNotified, TypeOK
  <2> QED BY <1>t, <2>2, <2>3, <2>4, <2>5, <2>6 DEF Inv
<1>16. CASE written
  <2>p. notify /\ event /\ ~finished /\ handler \in Writes
    BY <1>i, <1>16 DEF written, WriteNotified, EventUntilFinish, TypeOK
  <2>t. /\ answers' \in [Writes -> Seq({"sent", "error"})]
        /\ \A w \in Writes : /\ Len(answers'[w]) <= 1
                             /\ answers'[w] # <<>> <=> Answered(w) \/ w \in {handler}
    <3>1. \A w \in Writes : w \in {handler} => ~Answered(w)
      BY <1>i, <2>p DEF OneAnswer, Open
    <3>2. tell({handler}, "sent")
      BY <1>16, <2>p DEF written
    <3> QED BY <1>i, <3>1, <3>2, TellOnce
  <2>2. OneAnswer'
    <3>1. \A w \in Writes : Open(w)' => Open(w) /\ w # handler
      BY <1>i, <1>16, <2>p DEF written, Open, AsyncersApart, TypeOK
    <3>2. handler <= started /\ started' = started
      BY <1>i, <1>16, <2>p DEF written, AsyncersApart
    <3> QED BY <1>i, <2>t, <3>1, <3>2 DEF OneAnswer, Answered
  <2>3. EventUntilFinish'
    BY <1>i, <1>16, <2>p DEF written, EventUntilFinish, WriteNotified, TypeOK
  <2>4. AsyncersApart'
    BY <1>i, <1>16, <2>p DEF written, AsyncersApart, EventUntilFinish, WriteNotified, TypeOK
  <2>5. WriteNotified'
    BY <1>i, <1>16, <2>p DEF written, WriteNotified, EventUntilFinish, AsyncersApart, TypeOK
  <2>6. OneAtATime'
    BY <1>i, <1>16, <2>p
    DEF written, OneAtATime, EventUntilFinish, AsyncersApart, WriteNotified, TypeOK
  <2> QED BY <1>t, <2>2, <2>3, <2>4, <2>5, <2>6 DEF Inv
<1>17. CASE loopFinish
  <2>1. CASE finished
    <3>1. finished' = finished /\ loop' = loop
      BY <1>i, <1>17, <2>1 DEF loopFinish, Finish, EventUntilFinish, TypeOK
    <3>2. UNCHANGED vars
      BY <1>17, <2>1, <3>1 DEF loopFinish, Finish, vars
    <3> QED BY <3>2, <1>s
  <2>2. CASE ~finished
    <3>1. \A w \in Waiting \cap Writes : Open(w)
      BY DEF Waiting, Open
    <3>2. Waiting \in SUBSET {handler} /\ (~writeDone /\ handler # None => handler \in Waiting)
      BY DEF Waiting
    <3>3. /\ dropEvent /\ queued' = queued \ {asyncer}
          /\ asyncDone' = asyncDone \cup Cancelled(asyncer \in asyncDone)
          /\ writeDone' = (writeDone \/ handler # None)
          /\ tell(Waiting \cup Cancelled(asyncer \in asyncDone), "error")
      BY <1>17, <2>2 DEF loopFinish, Finish, FinishBody, tell
    <3>4. loop.at \in {"top", "read", "write"} /\ loop' = [loop EXCEPT !.at = "top"]
      BY <1>i, <1>17 DEF loopFinish, TypeOK
    <3> QED BY <1>i, <1>17, <2>2, <3>1, <3>2, <3>3, <3>4, FinishInv DEF loopFinish, Finish, TypeOK
  <2> QED BY <2>1, <2>2
<1>18. CASE readFails
  <2>1. CASE finished
    <3>1. finished' = finished /\ loop' = loop
      BY <1>i, <1>18, <2>1 DEF readFails, Finish, EventUntilFinish, TypeOK
    <3>2. UNCHANGED vars
      BY <1>18, <2>1, <3>1 DEF readFails, Finish, vars
    <3> QED BY <3>2, <1>s
  <2>2. CASE ~finished
    <3>1. \A w \in Waiting \cap Writes : Open(w)
      BY DEF Waiting, Open
    <3>2. Waiting \in SUBSET {handler} /\ (~writeDone /\ handler # None => handler \in Waiting)
      BY DEF Waiting
    <3>3. /\ dropEvent /\ queued' = queued \ {asyncer}
          /\ asyncDone' = asyncDone \cup Cancelled(asyncer \in asyncDone)
          /\ writeDone' = (writeDone \/ handler # None)
          /\ tell(Waiting \cup Cancelled(asyncer \in asyncDone), "error")
      BY <1>18, <2>2 DEF readFails, Finish, FinishBody, tell
    <3>4. loop.at \in {"top", "read", "write"} /\ loop' = [loop EXCEPT !.at = "top"]
      BY <1>i, <1>18 DEF readFails, TypeOK
    <3> QED BY <1>i, <1>18, <2>2, <3>1, <3>2, <3>3, <3>4, FinishInv DEF readFails, Finish, TypeOK
  <2> QED BY <2>1, <2>2
<1>19. CASE sendFails
  <2>1. notify /\ ~finished /\ handler \in Writes
    BY <1>i, <1>19 DEF sendFails, WriteNotified, EventUntilFinish, TypeOK
  <2>2. \A w \in {handler} \cap Writes : Open(w)
    BY <2>1 DEF Open
  <2>3. unsent' \in Nat
    BY <1>i, <1>19 DEF sendFails, TypeOK
  <2>4. writeDone' = TRUE /\ handler # None
    BY <1>19, <2>1 DEF sendFails
  <2>5. writeDone' = (writeDone \/ handler # None)
    BY <2>4, Zenon
  <2> QED BY <1>19, <2>1, <2>2, <2>3, <2>5, FinishInv DEF sendFails
<1>20. CASE AsyncWrite /\ finished
  <2>1. started + 1 \in Writes /\ loop.at = "top" /\ queued = {}
    BY <1>i, <1>20 DEF AsyncWrite, EventUntilFinish, TypeOK
  <2>t. /\ answers' \in [Writes -> Seq({"sent", "error"})]
        /\ \A w \in Writes : /\ Len(answers'[w]) <= 1
                             /\ answers'[w] # <<>> <=> Answered(w) \/ w \in {started + 1}
    <3>1. \A w \in Writes : w \in {started + 1} => ~Answered(w)
      BY <1>i DEF OneAnswer, TypeOK
    <3>2. tell({started + 1}, "error")
      BY <1>20 DEF AsyncWrite
    <3> QED BY <1>i, <3>1, <3>2, TellOnce
  <2>3. OneAnswer'
    <3>1. \A w \in Writes : Open(w)' => Open(w) /\ w <= started
      BY <1>i, <1>20, <2>1 DEF AsyncWrite, Open, AsyncersApart, TypeOK
    <3>2. started' = started + 1 /\ started \in Nat
      BY <1>i, <1>20 DEF AsyncWrite, TypeOK
    <3> QED BY <1>i, <2>t, <3>1, <3>2 DEF OneAnswer, Answered
  <2>4. EventUntilFinish' /\ WriteNotified'
    BY <1>i, <1>20, <2>1 DEF AsyncWrite, EventUntilFinish, WriteNotified
  <2>5. AsyncersApart'
    <3>1. /\ UNCHANGED <<loop, handler, asyncer, queued, asyncDone>>
          /\ started' = started + 1 /\ started \in Nat
      BY <1>i, <1>20 DEF AsyncWrite, TypeOK
    <3>2. asyncDone \subseteq 1..started' /\ asyncer <= started'
      BY <1>i, <3>1 DEF AsyncersApart, TypeOK
    <3> QED BY <1>i, <2>1, <3>1, <3>2 DEF AsyncersApart
  <2>6. OneAtATime'
    BY <1>i, <1>20, <2>1 DEF AsyncWrite, EventUntilFinish, WriteNotified, OneAtATime
  <2> QED BY <1>t, <2>3, <2>4, <2>5, <2>6 DEF Inv
<1>21. CASE AsyncWrite /\ ~finished
  <2>1. started + 1 \in Writes /\ started' = started + 1 /\ asyncer' = started + 1
    BY <1>i, <1>21 DEF AsyncWrite, TypeOK
  <2>2. \A w \in Writes : w \in Replaced => Open(w) /\ w <= started
    BY <1>i DEF Replaced, Open, AsyncersApart
  <2>t. /\ answers' \in [Writes -> Seq({"sent", "error"})]
        /\ \A w \in Writes : /\ Len(answers'[w]) <= 1
                             /\ answers'[w] # <<>> <=> Answered(w) \/ w \in Replaced
    <3>1. \A w \in Writes : w \in Replaced => ~Answered(w)
      BY <1>i, <2>2 DEF OneAnswer
    <3>2. tell(Replaced, "error")
      BY <1>21 DEF AsyncWrite
    <3> QED BY <1>i, <3>1, <3>2, TellOnce
  <2>4. queued' = {started + 1} /\ asyncDone' = asyncDone \cup Replaced
    <3>1. queued \ Replaced = {}
      BY <1>i DEF Replaced, AsyncersApart, TypeOK
    <3>2. queued' = (queued \ Replaced) \cup {started + 1} /\ asyncDone' = asyncDone \cup Replaced
      BY <1>21 DEF AsyncWrite
    <3> QED BY <3>1, <3>2
  <2>5. OneAnswer'
    <3>1. \A w \in Writes : w <= started => (Open(w)' => Open(w) /\ w \notin Replaced)
      BY <1>i, <1>21, <2>1, <2>4 DEF AsyncWrite, Open, Replaced, AsyncersApart, TypeOK
    <3> QED BY <1>i, <2>1, <2>2, <2>t, <3>1 DEF OneAnswer, Answered, TypeOK
  <2>6. AsyncersApart'
    <3>1. UNCHANGED <<loop, handler>> /\ started \in Nat
      BY <1>i, <1>21 DEF AsyncWrite, TypeOK
    <3>2. queued' \subseteq {asyncer'} /\ asyncer' <= started' /\ asyncDone' \subseteq 1..started'
      BY <1>i, <2>1, <2>2, <2>4, <3>1 DEF AsyncersApart, TypeOK, Replaced
    <3>3. queued' \cap asyncDone' = {}
      BY <1>i, <2>1, <2>4, <3>1 DEF AsyncersApart, Replaced
    <3>4. ASSUME NEW w \in Writes, LoopHolds(w)'
          PROVE  /\ w \notin queued' /\ w <= started' /\ w # handler'
                 /\ loop.at \in {"async.check", "async.set"} => w \notin asyncDone'
                 /\ loop.at \in {"lambda", "arm"} => w \in asyncDone'
      <4>1. LoopHolds(w) /\ w \notin Replaced
        BY <3>1, <3>4 DEF Replaced
      <4> QED BY <1>i, <2>1, <2>4, <3>1, <4>1 DEF AsyncersApart
    <3>5. handler' # None => handler' \in asyncDone'
      BY <1>i, <2>4, <3>1 DEF AsyncersApart
    <3> QED BY <3>1, <3>2, <3>3, <3>4, <3>5 DEF AsyncersApart
  <2>7. EventUntilFinish' /\ WriteNotified' /\ OneAtATime'
    BY <1>i, <1>21, <2>1, <2>4 DEF AsyncWrite, EventUntilFinish, WriteNotified, OneAtATime, TypeOK
  <2> QED BY <1>t, <2>5, <2>6, <2>7 DEF Inv
<1>22. CASE mainFinish \/ mainFinishEnd
  BY <1>i, <1>22 DEF mainFinish, mainFinishEnd, EventUntilFinish
<1> QED
  BY <1>s, <1>1, <1>2, <1>3, <1>4, <1>5, <1>6, <1>7, <1>8, <1>9, <1>10, <1>11, <1>12,
     <1>13, <1>14, <1>15, <1>16, <1>17, <1>18, <1>19, <1>20, <1>21, <1>22
  DEF Next, doPoller, User

\* Until another thread calls Finish.
UnracedInv == ~raced => Inv

\* It holds for every bound and every mixture of writes and Resets.
THEOREM InvHolds == Spec => []UnracedInv
<1>1. Init => UnracedInv
  BY InitInv DEF UnracedInv
<1>2. UnracedInv /\ [Next]_vars => UnracedInv'
  <2> SUFFICES ASSUME UnracedInv, [Next]_vars, ~raced' PROVE Inv'
    BY DEF UnracedInv
  <2>1. raced' = raced \/ raced' = TRUE
    BY DEF Next, vars, doPoller, User, WriteBufferPush, AsyncWrite, Reset, loopFinish, mainFinish,
           mainFinishEnd, destroy, asyncPoll, asyncDo, asyncCheck, asyncSet, lambda, arm, epollOut,
           epollIn, callback, written, send, wouldBlock, sendFails, received, readFails
  <2> QED BY <2>1, NextInv DEF UnracedInv
<1> QED BY <1>1, <1>2, PTL DEF Spec

(***************************************************************************)
(* No handler of AsyncWrite is called twice: not by writeHandler, the      *)
(* destructor of the replaced Asyncer, Finish or the failed socket.        *)
(***************************************************************************)
THEOREM AtMostOnceHolds == Spec => []AtMostOnce
<1>1. UnracedInv => AtMostOnce
  BY DEF UnracedInv, Inv, OneAnswer, AtMostOnce
<1> QED BY <1>1, InvHolds, PTL

\* The loop finds event_ in place whenever AsyncWrite's lambda or writeHandler uses it.
THEOREM LoopFinishSafeHolds == Spec => []LoopFinishSafe
<1>1. UnracedInv => LoopFinishSafe
  BY DEF UnracedInv, Inv, EventUntilFinish, NoNullEvent, LoopFinishSafe
<1> QED BY <1>1, InvHolds, PTL

\* writeHandler is never polled for without a handler that still waits.
THEOREM NotifyOnlyWhenPendingHolds == Spec => []NotifyOnlyWhenPending
<1>1. UnracedInv => NotifyOnlyWhenPending
  BY DEF UnracedInv, Inv, WriteNotified, OneAnswer, Answered, Open, TypeOK, NotifyOnlyWhenPending
<1> QED BY <1>1, InvHolds, PTL

-----------------------------------------------------------------------------
(***************************************************************************)
(* Finish of any thread.  Up to the first Finish nobody has raced, so that *)
(* Inv says all there is; after it, what may still answer the last write   *)
(* is the thread in Finish, or the loop, if it had taken the Asyncer.      *)
(***************************************************************************)
FinishedForGood ==
    /\ raced \/ lock => finished
    /\ finished => queued = {}
    /\ finished /\ ~lock => ~event

\* A user that resets: no write is under way after Reset.
ResetStarts ==
    fresh => /\ started > 0 => Answered(started)
             /\ finished \/ ~writeDone

\* The last write, while it is unanswered, is in somebody's hands.
LastInHand ==
    started > 0 /\ ~Answered(started) =>
        /\ ~finished => ~writeDone /\ (LoopHolds(started) \/ started \in queued \/ handler = started)
        /\ finished =>
            \/ LoopHolds(started)
            \/ lock /\ asyncer = started /\ ~sawDone
            \/ lock /\ handler = started /\ ~writeDone
        /\ loop.at \in {"async.check", "async.set"} /\ loop.w = started => started \notin asyncDone

LastInv ==
    /\ TypeOK /\ AsyncerTaken /\ FinishedForGood /\ UnracedInv
    /\ ~overlapped /\ loop.at # "crashed" => ResetStarts /\ LastInHand

\* It keeps it there.
LEMMA TakenStep == ASSUME TypeOK, AsyncerTaken, [Next]_vars PROVE AsyncerTaken'
BY DEF AsyncerTaken, TypeOK, goto, Next, vars, doPoller, User, WriteBufferPush, AsyncWrite, Reset,
   loopFinish, mainFinish, mainFinishEnd, destroy, asyncPoll, asyncDo, asyncCheck, asyncSet,
   lambda, arm, epollOut,
       epollIn, callback, written, send, wouldBlock, sendFails, received, readFails

\* Once finished, the connection stays so and nothing more is queued.
LEMMA FinishedStep ==
  ASSUME TypeOK, FinishedForGood, UnracedInv, [Next]_vars
  PROVE  FinishedForGood'
<1> USE DEF FinishedForGood
<1>1. ~finished => queued \subseteq {asyncer}
  BY DEF UnracedInv, Inv, AsyncersApart
<1>s. CASE UNCHANGED vars
  BY <1>s DEF vars
<1>2. CASE WriteBufferPush
  BY <1>2 DEF WriteBufferPush
<1>3. CASE Reset
  BY <1>3 DEF Reset
<1>4. CASE destroy
  BY <1>4 DEF destroy
<1>5. CASE asyncPoll
  BY <1>5 DEF asyncPoll
<1>6. CASE asyncDo
  BY <1>6 DEF asyncDo
<1>7. CASE asyncCheck
  BY <1>7 DEF asyncCheck
<1>8. CASE asyncSet
  BY <1>8 DEF asyncSet
<1>9. CASE arm
  BY <1>9 DEF arm
<1>10. CASE epollOut
  BY <1>10 DEF epollOut
<1>11. CASE epollIn
  BY <1>11 DEF epollIn
<1>12. CASE callback
  BY <1>12 DEF callback
<1>13. CASE send
  BY <1>13 DEF send
<1>14. CASE wouldBlock
  BY <1>14 DEF wouldBlock
<1>15. CASE received
  BY <1>15 DEF received
<1>16. CASE written
  BY <1>16 DEF written
<1>17. CASE lambda
  BY <1>17 DEF lambda
<1>18. CASE loopFinish
  BY <1>1, <1>18 DEF loopFinish, Finish, FinishBody, dropEvent
<1>19. CASE readFails
  BY <1>1, <1>19 DEF readFails, Finish, FinishBody, dropEvent
<1>20. CASE AsyncWrite
  BY <1>20 DEF AsyncWrite
<1>21. CASE mainFinish
  BY <1>1, <1>21 DEF mainFinish
<1>22. CASE mainFinishEnd
  BY <1>22 DEF mainFinishEnd, FinishBody, dropEvent
<1>23. CASE sendFails
  BY <1>1, <1>23 DEF sendFails, dropEvent
<1> QED
  BY <1>s, <1>2, <1>3, <1>4, <1>5, <1>6, <1>7, <1>8, <1>9, <1>10, <1>11, <1>12, <1>13, <1>14,
     <1>15, <1>16, <1>17, <1>18, <1>19, <1>20, <1>21, <1>22, <1>23
  DEF Next, doPoller, User

\* The last write stays in somebody's hands until it is answered.
LEMMA LastStep ==
  ASSUME LastInv, [Next]_vars, ~overlapped', loop'.at # "crashed"
  PROVE  ResetStarts' /\ LastInHand'
<1> USE BoundsAssumption DEF Writes, None, goto, LoopHolds
<1>i. TypeOK /\ AsyncerTaken /\ FinishedForGood
  BY DEF LastInv
<1>u. ~finished => /\ OneAnswer /\ EventUntilFinish /\ AsyncersApart /\ WriteNotified
                   /\ ~overlapped => OneAtATime
  BY DEF LastInv, FinishedForGood, UnracedInv, Inv
<1>n. ~overlapped /\ loop.at # "crashed"
  <2>1. ~overlapped
    BY <1>i DEF TypeOK, Next, vars, doPoller, User, WriteBufferPush, AsyncWrite, Reset,
       loopFinish, mainFinish,
           mainFinishEnd, destroy, asyncPoll, asyncDo, asyncCheck, asyncSet, lambda, arm, epollOut,
           epollIn, callback, written, send, wouldBlock, sendFails, received, readFails
  <2>2. ~Running => loop' = loop
    BY DEF Running, LockFree, Next, vars, doPoller, User, WriteBufferPush, AsyncWrite, Reset,
       loopFinish, mainFinish,
           mainFinishEnd, destroy, asyncPoll, asyncDo, asyncCheck, asyncSet, lambda, arm, epollOut,
           epollIn, callback, written, send, wouldBlock, sendFails, received, readFails
  <2> QED BY <2>1, <2>2 DEF Running
<1>l. ResetStarts /\ LastInHand
  BY <1>n DEF LastInv
<1>o. ~finished => OneAtATime
  BY <1>u, <1>n
<1>s. CASE UNCHANGED vars
  BY <1>s, <1>l DEF vars, ResetStarts, LastInHand, Answered
<1>1. CASE destroy
  <2>1. ResetStarts'
    BY <1>l, <1>1 DEF destroy, ResetStarts, Answered
  <2>2. CASE finished
    BY <1>i, <1>l, <1>1, <2>1, <2>2
    DEF destroy, LastInHand, Answered, FinishedForGood, TypeOK, AsyncerTaken
  <2>3. CASE ~finished
    BY <1>i, <1>l, <1>u, <1>o, <1>1, <2>1, <2>3
    DEF destroy, LastInHand, Answered, TypeOK, EventUntilFinish, AsyncersApart, WriteNotified,
        OneAtATime
  <2> QED BY <2>2, <2>3
<1>2. CASE asyncPoll
  <2>1. ResetStarts'
    BY <1>l, <1>2 DEF asyncPoll, ResetStarts, Answered
  <2>2. CASE finished
    BY <1>i, <1>l, <1>2, <2>1, <2>2
    DEF asyncPoll, LastInHand, Answered, FinishedForGood, TypeOK, AsyncerTaken
  <2>3. CASE ~finished
    BY <1>i, <1>l, <1>u, <1>o, <1>2, <2>1, <2>3
    DEF asyncPoll, LastInHand, Answered, TypeOK, EventUntilFinish, AsyncersApart, WriteNotified,
        OneAtATime
  <2> QED BY <2>2, <2>3
<1>3. CASE asyncDo
  <2>1. ResetStarts'
    BY <1>l, <1>3 DEF asyncDo, ResetStarts, Answered
  <2>2. CASE finished
    BY <1>i, <1>l, <1>3, <2>1, <2>2
    DEF asyncDo, LastInHand, Answered, FinishedForGood, TypeOK, AsyncerTaken
  <2>3. CASE ~finished
    BY <1>i, <1>l, <1>u, <1>o, <1>3, <2>1, <2>3
    DEF asyncDo, LastInHand, Answered, TypeOK, EventUntilFinish, AsyncersApart, WriteNotified,
        OneAtATime
  <2> QED BY <2>2, <2>3
<1>4. CASE asyncCheck
  <2>1. ResetStarts'
    BY <1>l, <1>4 DEF asyncCheck, ResetStarts, Answered
  <2>2. CASE finished
    BY <1>i, <1>l, <1>4, <2>1, <2>2
    DEF asyncCheck, LastInHand, Answered, FinishedForGood, TypeOK, AsyncerTaken
  <2>3. CASE ~finished
    BY <1>i, <1>l, <1>u, <1>o, <1>4, <2>1, <2>3
    DEF asyncCheck, LastInHand, Answered, TypeOK, EventUntilFinish, AsyncersApart, WriteNotified,
        OneAtATime
  <2> QED BY <2>2, <2>3
<1>5. CASE asyncSet
  <2>1. ResetStarts'
    BY <1>l, <1>5 DEF asyncSet, ResetStarts, Answered
  <2>2. CASE finished
    BY <1>i, <1>l, <1>5, <2>1, <2>2
    DEF asyncSet, LastInHand, Answered, FinishedForGood, TypeOK, AsyncerTaken
  <2>3. CASE ~finished
    BY <1>i, <1>l, <1>u, <1>o, <1>5, <2>1, <2>3
    DEF asyncSet, LastInHand, Answered, TypeOK, EventUntilFinish, AsyncersApart, WriteNotified,
        OneAtATime
  <2> QED BY <2>2, <2>3
<1>6. CASE epollOut
  <2>1. ResetStarts'
    BY <1>l, <1>6 DEF epollOut, ResetStarts, Answered
  <2>2. CASE finished
    BY <1>i, <1>l, <1>6, <2>1, <2>2
    DEF epollOut, LastInHand, Answered, FinishedForGood, TypeOK, AsyncerTaken
  <2>3. CASE ~finished
    BY <1>i, <1>l, <1>u, <1>o, <1>6, <2>1, <2>3
    DEF epollOut, LastInHand, Answered, TypeOK, EventUntilFinish, AsyncersApart, WriteNotified,
        OneAtATime
  <2> QED BY <2>2, <2>3
<1>7. CASE epollIn
  <2>1. ResetStarts'
    BY <1>l, <1>7 DEF epollIn, ResetStarts, Answered
  <2>2. CASE finished
    BY <1>i, <1>l, <1>7, <2>1, <2>2
    DEF epollIn, LastInHand, Answered, FinishedForGood, TypeOK, AsyncerTaken
  <2>3. CASE ~finished
    BY <1>i, <1>l, <1>u, <1>o, <1>7, <2>1, <2>3
    DEF epollIn, LastInHand, Answered, TypeOK, EventUntilFinish, AsyncersApart, WriteNotified,
        OneAtATime
  <2> QED BY <2>2, <2>3
<1>8. CASE callback
  <2>1. ResetStarts'
    BY <1>l, <1>8 DEF callback, ResetStarts, Answered
  <2>2. CASE finished
    BY <1>i, <1>l, <1>8, <2>1, <2>2
    DEF callback, LastInHand, Answered, FinishedForGood, TypeOK, AsyncerTaken
  <2>3. CASE ~finished
    BY <1>i, <1>l, <1>u, <1>o, <1>8, <2>1, <2>3
    DEF callback, LastInHand, Answered, TypeOK, EventUntilFinish, AsyncersApart, WriteNotified,
        OneAtATime
  <2> QED BY <2>2, <2>3
<1>9. CASE send
  <2>1. ResetStarts'
    BY <1>l, <1>9 DEF send, ResetStarts, Answered
  <2>2. CASE finished
    BY <1>i, <1>l, <1>9, <2>1, <2>2
    DEF send, LastInHand, Answered, FinishedForGood, TypeOK, AsyncerTaken
  <2>3. CASE ~finished
    BY <1>i, <1>l, <1>u, <1>o, <1>9, <2>1, <2>3
    DEF send, LastInHand, Answered, TypeOK, EventUntilFinish, AsyncersApart, WriteNotified,
        OneAtATime
  <2> QED BY <2>2, <2>3
<1>10. CASE wouldBlock
  <2>1. ResetStarts'
    BY <1>l, <1>10 DEF wouldBlock, ResetStarts, Answered
  <2>2. CASE finished
    BY <1>i, <1>l, <1>10, <2>1, <2>2
    DEF wouldBlock, LastInHand, Answered, FinishedForGood, TypeOK, AsyncerTaken
  <2>3. CASE ~finished
    BY <1>i, <1>l, <1>u, <1>o, <1>10, <2>1, <2>3
    DEF wouldBlock, LastInHand, Answered, TypeOK, EventUntilFinish, AsyncersApart, WriteNotified,
        OneAtATime
  <2> QED BY <2>2, <2>3
<1>11. CASE received
  <2>1. ResetStarts'
    BY <1>l, <1>11 DEF received, ResetStarts, Answered
  <2>2. CASE finished
    BY <1>i, <1>l, <1>11, <2>1, <2>2
    DEF received, LastInHand, Answered, FinishedForGood, TypeOK, AsyncerTaken
  <2>3. CASE ~finished
    BY <1>i, <1>l, <1>u, <1>o, <1>11, <2>1, <2>3
    DEF received, LastInHand, Answered, TypeOK, EventUntilFinish, AsyncersApart, WriteNotified,
        OneAtATime
  <2> QED BY <2>2, <2>3
<1>12. CASE arm
  <2>1. ResetStarts'
    BY <1>l, <1>12 DEF arm, ResetStarts, Answered
  <2>2. CASE finished
    BY <1>i, <1>l, <1>12, <2>1, <2>2
    DEF arm, LastInHand, Answered, FinishedForGood, TypeOK, AsyncerTaken
  <2>3. CASE ~finished
    BY <1>i, <1>l, <1>u, <1>o, <1>12, <2>1, <2>3
    DEF arm, LastInHand, Answered, TypeOK, EventUntilFinish, AsyncersApart, WriteNotified,
        OneAtATime
  <2> QED BY <2>2, <2>3
<1>13. CASE WriteBufferPush
  BY <1>l, <1>13 DEF WriteBufferPush, ResetStarts, LastInHand, Answered
<1>14. CASE Reset
  <2>1. Answered(started)'
    BY <1>14 DEF Reset, Answered
  <2> QED BY <1>14, <2>1 DEF Reset, ResetStarts, LastInHand
<1>15. CASE written
  <2>1. /\ tell({handler}, "sent") /\ loop' = [loop EXCEPT !.at = "top"]
        /\ UNCHANGED <<event, finished, handler, asyncer, queued, asyncDone, started,
                       fresh, lock, sawDone>>
    BY <1>i, <1>15 DEF written, TypeOK
  <2>2. \A w \in Writes : answers'[w] # <<>> <=> Answered(w) \/ w = handler
    BY <1>i, <2>1, TellKeeps
  <2>3. ~finished => handler = started /\ ~fresh
    BY <1>15, <1>u, <1>o DEF written, WriteNotified, OneAtATime
  <2>4. started > 0 /\ ~Answered(started)' => finished /\ ~Answered(started) /\ handler # started
    BY <1>i, <2>1, <2>2, <2>3 DEF Answered, TypeOK
  <2>5. ResetStarts'
    BY <1>i, <1>l, <2>1, <2>2, <2>3 DEF ResetStarts, Answered, TypeOK
  <2>6. LastInHand'
    BY <1>i, <1>l, <1>15, <2>1, <2>4 DEF written, LastInHand, TypeOK
  <2> QED BY <2>5, <2>6
<1>16. CASE lambda
  <2>1. CASE alive
    <3>1. UNCHANGED <<finished, writeDone, handler, asyncer, queued, asyncDone, started,
                      fresh, answers, lock, sawDone>>
      BY <1>16, <2>1 DEF lambda
    <3>2. loop' = [loop EXCEPT !.at = "arm"] /\ loop.at = "lambda"
      BY <1>16, <2>1 DEF lambda
    <3> QED BY <1>i, <1>l, <3>1, <3>2 DEF ResetStarts, LastInHand, Answered, TypeOK
  <2>2. CASE ~alive
    <3>1. /\ tell({loop.w}, "error") /\ loop' = [loop EXCEPT !.at = "top"] /\ loop.at = "lambda"
          /\ UNCHANGED <<finished, writeDone, handler, asyncer, queued, asyncDone, started,
                         fresh, lock, sawDone>>
      BY <1>16, <2>2 DEF lambda
    <3>2. \A w \in Writes : answers'[w] # <<>> <=> Answered(w) \/ w = loop.w
      BY <1>i, <3>1, TellKeeps
    <3>3. started > 0 /\ ~Answered(started)' => ~Answered(started) /\ loop.w # started
      BY <1>i, <3>1, <3>2 DEF Answered, TypeOK
    <3>4. ResetStarts'
      BY <1>i, <1>l, <3>1, <3>3 DEF ResetStarts, TypeOK
    <3>5. LastInHand'
      BY <1>i, <1>l, <3>1, <3>3 DEF LastInHand, TypeOK
    <3> QED BY <3>4, <3>5
  <2> QED BY <2>1, <2>2
<1>17. CASE AsyncWrite
  <2>1. /\ started' = started + 1 /\ started + 1 \in Writes /\ started \in Nat /\ fresh /\ ~fresh'
        /\ UNCHANGED <<finished, writeDone, handler, loop, lock, sawDone>>
    <3>1. overlapped' <=> overlapped \/ ~fresh
      BY <1>17 DEF AsyncWrite
    <3>2. started' = started + 1 /\ started \in Nat /\ started + 1 \in Writes
      BY <1>i, <1>17 DEF AsyncWrite, TypeOK
    <3> QED BY <1>17, <3>1, <3>2 DEF AsyncWrite
  <2>2. CASE finished
    <3>1. \A w \in Writes : answers'[w] # <<>> <=> Answered(w) \/ w = started + 1
      BY <1>i, <1>17, <2>2, TellKeeps DEF AsyncWrite
    <3> QED BY <2>1, <3>1 DEF ResetStarts, LastInHand, Answered
  <2>3. CASE ~finished
    <3>1. queued' = (queued \ Replaced) \cup {started + 1} /\ ~writeDone
      BY <1>l, <1>17, <2>1, <2>3 DEF AsyncWrite, ResetStarts
    <3>2. asyncDone' = asyncDone \cup Replaced /\ started + 1 \notin asyncDone'
      BY <1>i, <1>u, <1>17, <2>1, <2>3 DEF AsyncWrite, Replaced, AsyncersApart, TypeOK
    <3> QED BY <2>1, <2>3, <3>1, <3>2 DEF ResetStarts, LastInHand
  <2> QED BY <2>2, <2>3
<1>18. CASE loopFinish
  <2>1. /\ UNCHANGED <<handler, asyncer, started, fresh, lock, sawDone>> /\ finished'
        /\ loop.at = "top" /\ loop'.at = "top" /\ loop'.w = loop.w
    BY <1>i, <1>18 DEF loopFinish, Finish, TypeOK
  <2>2. CASE finished
    <3>1. UNCHANGED <<writeDone, queued, asyncDone, answers>>
      BY <1>18, <2>2 DEF loopFinish, Finish
    <3> QED BY <1>l, <2>1, <2>2, <3>1 DEF ResetStarts, LastInHand, Answered
  <2>3. CASE ~finished
    <3>1. tell(Cancelled(asyncer \in asyncDone) \cup Waiting, "error")
      BY <1>18, <2>3 DEF loopFinish, Finish, FinishBody
    <3>2. \A w \in Writes :
          answers'[w] # <<>> <=> Answered(w) \/ w \in Cancelled(asyncer \in asyncDone) \cup Waiting
      BY <1>i, <3>1, TellKeeps
    <3>3. started > 0 => started \in Writes /\ started # None
      BY <1>i DEF TypeOK
    <3>4. started > 0 /\ ~Answered(started) => started \in Cancelled(asyncer \in asyncDone) \cup Waiting
      <4>1. ASSUME started \in queued PROVE started = asyncer /\ asyncer \notin asyncDone
        BY <1>u, <2>3, <4>1 DEF AsyncersApart
      <4> QED BY <1>l, <2>1, <2>3, <3>3, <4>1 DEF LastInHand, Cancelled, Waiting
    <3>5. started > 0 => Answered(started)'
      BY <2>1, <3>2, <3>3, <3>4 DEF Answered
    <3> QED BY <2>1, <3>5 DEF ResetStarts, LastInHand
  <2> QED BY <2>2, <2>3
<1>19. CASE readFails
  <2>1. /\ UNCHANGED <<handler, asyncer, started, fresh, lock, sawDone>> /\ finished'
        /\ loop.at = "read" /\ loop'.at = "top" /\ loop'.w = loop.w
    BY <1>i, <1>19 DEF readFails, Finish, TypeOK
  <2>2. CASE finished
    <3>1. UNCHANGED <<writeDone, queued, asyncDone, answers>>
      BY <1>19, <2>2 DEF readFails, Finish
    <3> QED BY <1>l, <2>1, <2>2, <3>1 DEF ResetStarts, LastInHand, Answered
  <2>3. CASE ~finished
    <3>1. tell(Cancelled(asyncer \in asyncDone) \cup Waiting, "error")
      BY <1>19, <2>3 DEF readFails, Finish, FinishBody
    <3>2. \A w \in Writes :
          answers'[w] # <<>> <=> Answered(w) \/ w \in Cancelled(asyncer \in asyncDone) \cup Waiting
      BY <1>i, <3>1, TellKeeps
    <3>3. started > 0 => started \in Writes /\ started # None
      BY <1>i DEF TypeOK
    <3>4. started > 0 /\ ~Answered(started) => started \in Cancelled(asyncer \in asyncDone) \cup Waiting
      <4>1. ASSUME started \in queued PROVE started = asyncer /\ asyncer \notin asyncDone
        BY <1>u, <2>3, <4>1 DEF AsyncersApart
      <4> QED BY <1>l, <2>1, <2>3, <3>3, <4>1 DEF LastInHand, Cancelled, Waiting
    <3>5. started > 0 => Answered(started)'
      BY <2>1, <3>2, <3>3, <3>4 DEF Answered
    <3> QED BY <2>1, <3>5 DEF ResetStarts, LastInHand
  <2> QED BY <2>2, <2>3
<1>20. CASE sendFails
  <2>1. /\ UNCHANGED <<handler, asyncer, started, fresh, lock, sawDone>> /\ finished' /\ ~lock
        /\ loop.at = "write" /\ loop'.at = "top" /\ loop'.w = loop.w
    BY <1>i, <1>20 DEF sendFails, TypeOK
  <2>2. CASE finished
    <3>1. tell({handler}, "error") /\ UNCHANGED asyncDone
      BY <1>20, <2>2 DEF sendFails
    <3>2. \A w \in Writes : answers'[w] # <<>> <=> Answered(w) \/ w = handler
      BY <1>i, <3>1, TellKeeps
    <3>3. started > 0 => Answered(started)
      BY <1>l, <2>1, <2>2 DEF LastInHand
    <3>4. started > 0 => Answered(started)'
      BY <1>i, <2>1, <3>2, <3>3 DEF Answered, TypeOK
    <3> QED BY <2>1, <3>4 DEF ResetStarts, LastInHand
  <2>3. CASE ~finished
    <3>1. tell({handler} \cup Cancelled(asyncer \in asyncDone), "error") /\ handler = started
      BY <1>20, <1>u, <1>o, <2>3 DEF sendFails, WriteNotified, OneAtATime
    <3>2. \A w \in Writes :
          answers'[w] # <<>> <=> Answered(w) \/ w \in {handler} \cup Cancelled(asyncer \in asyncDone)
      BY <1>i, <3>1, TellKeeps
    <3>3. started > 0 => Answered(started)'
      BY <1>i, <2>1, <3>1, <3>2 DEF Answered, TypeOK
    <3> QED BY <2>1, <3>3 DEF ResetStarts, LastInHand
  <2> QED BY <2>2, <2>3
<1>21. CASE mainFinish
  <2>1. /\ UNCHANGED <<writeDone, handler, asyncer, asyncDone, started, fresh, answers, loop>>
        /\ ~finished /\ finished' /\ lock' /\ sawDone' = (asyncer \in asyncDone)
    BY <1>21 DEF mainFinish
  <2>2. ASSUME started \in queued PROVE asyncer = started /\ started \notin asyncDone
    BY <1>u, <2>1, <2>2 DEF AsyncersApart
  <2>3. ResetStarts'
    BY <1>l, <2>1 DEF ResetStarts, Answered
  <2>4. LastInHand'
    BY <1>l, <2>1, <2>2 DEF LastInHand, Answered
  <2> QED BY <2>3, <2>4
<1>22. CASE mainFinishEnd
  <2>1. /\ UNCHANGED <<handler, asyncer, started, fresh, finished, loop>> /\ finished /\ ~lock'
        /\ asyncDone' = asyncDone \cup Cancelled(sawDone)
        /\ tell(Cancelled(sawDone) \cup Waiting, "error")
    BY <1>i, <1>22 DEF mainFinishEnd, FinishBody, FinishedForGood
  <2>2. \A w \in Writes : answers'[w] # <<>> <=> Answered(w) \/ w \in Cancelled(sawDone) \cup Waiting
    BY <1>i, <2>1, TellKeeps
  <2>3. started > 0 => started \in Writes /\ started # None
    BY <1>i DEF TypeOK
  <2>4. started > 0 /\ ~Answered(started)' =>
           ~Answered(started) /\ started \notin Cancelled(sawDone) /\ started \notin Waiting
    BY <2>1, <2>2, <2>3 DEF Answered
  <2>5. ResetStarts'
    BY <1>l, <2>1, <2>2, <2>3 DEF ResetStarts, Answered
  <2>6. ASSUME started > 0, ~Answered(started)'
        PROVE  /\ LoopHolds(started)
               /\ loop.at \in {"async.check", "async.set"} /\ loop.w = started =>
                    started \notin asyncDone'
    <3>1. ~(asyncer = started /\ ~sawDone) /\ ~(handler = started /\ ~writeDone)
      BY <2>3, <2>4, <2>6 DEF Cancelled, Waiting
    <3> QED BY <1>l, <2>1, <2>4, <2>6, <3>1 DEF LastInHand
  <2> QED BY <2>1, <2>5, <2>6 DEF LastInHand
<1> QED
  BY <1>s, <1>1, <1>2, <1>3, <1>4, <1>5, <1>6, <1>7, <1>8, <1>9, <1>10, <1>11, <1>12, <1>13,
     <1>14, <1>15, <1>16, <1>17, <1>18, <1>19, <1>20, <1>21, <1>22
  DEF Next, doPoller, User

\* From the first write to the last, whichever thread finishes.
THEOREM LastInvHolds == Spec => []LastInv
<1>1. Init => LastInv
  <2> SUFFICES ASSUME Init PROVE LastInv
    OBVIOUS
  <2>1. Inv
    BY InitInv
  <2> QED BY <2>1 DEF Init, LastInv, Inv, AsyncerTaken, FinishedForGood, UnracedInv, ResetStarts,
             LastInHand
<1>2. LastInv /\ [Next]_vars => LastInv'
  <2> SUFFICES ASSUME LastInv, [Next]_vars PROVE LastInv'
    OBVIOUS
  <2>1. TypeOK' /\ AsyncerTaken' /\ FinishedForGood'
    BY TypesStep, TakenStep, FinishedStep DEF LastInv
  <2>2. UnracedInv'
    <3> SUFFICES ASSUME ~raced' PROVE Inv'
      BY DEF UnracedInv
    <3>1. raced' = raced \/ raced' = TRUE
      BY DEF Next, vars, doPoller, User, WriteBufferPush, AsyncWrite, Reset, loopFinish, mainFinish,
             mainFinishEnd, destroy, asyncPoll, asyncDo, asyncCheck, asyncSet, lambda, arm, epollOut,
             epollIn, callback, written, send, wouldBlock, sendFails, received, readFails
    <3> QED BY <3>1, NextInv DEF LastInv, UnracedInv
  <2>3. ~overlapped' /\ loop'.at # "crashed" => ResetStarts' /\ LastInHand'
    BY LastStep
  <2> QED BY <2>1, <2>2, <2>3 DEF LastInv
<1> QED BY <1>1, <1>2, PTL DEF Spec

(***************************************************************************)
(* Finish, of the loop or of any other thread, leaves no write of a user   *)
(* that resets unanswered, once the loop is through with what it was at.   *)
(***************************************************************************)
THEOREM FinishAnswersHolds == Spec => []FinishAnswers
<1>1. LastInv => FinishAnswers
  BY DEF LastInv, LastInHand, LoopHolds, FinishAnswers, Quiet, Answered
<1> QED BY <1>1, LastInvHolds, PTL
=============================================================================
