---------------------------- MODULE Reads_proofs ----------------------------
(***************************************************************************)
(* The way of the bytes from the kernel to a reader: the Epoller finds the *)
(* event, the Buffer keeps the bytes, the read side of the connection      *)
(* counts them and calls back.  For every number of events and descriptors *)
(* and every bound on sizes, bytes and reads.                              *)
(***************************************************************************)
EXTENDS MCTcpReader, SeqLemmas

(***************************************************************************)
(* The read side (TcpReader.tla).                                          *)
(***************************************************************************)
\* Bytes counted since the last call come after those the user was told of.
CountedApart == readedSize + poppable <= unread

\* Who waits has put a handler in place.
WaitingHasHandler == waiting => handler # NoHandler

BInv == TypeOK /\ CountedApart /\ WaitingHasHandler

\* Between a read and its answer the counters describe that read.
TurnInv ==
    /\ waiting => unread = readedSize
    /\ waiting /\ handler # AnySize => /\ ~anyFlag /\ expectSize = handler
                                   /\ readedSize < handler
    /\ waiting /\ handler = AnySize => anyFlag
    /\ call.want # NoHandler => call.had >= call.want

\* A new connection.
LEMMA InitBInv == Init => BInv /\ TurnInv
<1> SUFFICES ASSUME Init PROVE BInv /\ TurnInv
  OBVIOUS
<1> USE BoundsAssumption DEF Init, Wants, NoHandler, AnySize
<1>1. TypeOK
  <2>1. /\ expectSize \in Wants /\ readedSize \in 0..MaxUnread
        /\ handler \in Wants \cup {NoHandler} /\ reads \in 0..MaxReads
        /\ unread \in 0..MaxUnread /\ poppable \in 0..MaxUnread
    OBVIOUS
  <2>2. call \in [want : Wants \cup {NoHandler}, had : 0..MaxUnread]
    OBVIOUS
  <2> QED BY <2>1, <2>2 DEF TypeOK
<1>2. CountedApart /\ WaitingHasHandler /\ TurnInv
  BY DEF CountedApart, WaitingHasHandler, TurnInv
<1> QED BY <1>1, <1>2 DEF BInv

\* Every call and every event keeps the invariant, however impolite.
LEMMA NextBInv == BInv /\ [Next]_vars => BInv'
<1> SUFFICES ASSUME BInv, [Next]_vars PROVE BInv'
  OBVIOUS
<1> USE BoundsAssumption DEF BInv, TypeOK, CountedApart, WaitingHasHandler, Wants, NoHandler, AnySize,
                             ResetRead, answer
<1>1. ASSUME NEW n \in 1..MaxWant, AsyncRead(n) PROVE BInv'
  <2>1. /\ expectSize' \in 0..MaxWant /\ readedSize' \in 0..MaxUnread /\ reads' \in 0..MaxReads
        /\ unread' \in 0..MaxUnread /\ poppable' \in 0..MaxUnread /\ CountedApart'
    BY <1>1 DEF AsyncRead, beginRead
  <2>2. handler' \in 0..MaxWant \cup {-1} /\ WaitingHasHandler'
    BY <1>1 DEF AsyncRead, beginRead
  <2>3. call' \in [want : 0..MaxWant \cup {-1}, had : 0..MaxUnread]
    BY <1>1 DEF AsyncRead, beginRead
  <2>4. /\ anyFlag' \in BOOLEAN /\ waiting' \in BOOLEAN
        /\ finished' \in {"no", "user", "peer"}
        /\ inTurns' \in BOOLEAN
    BY <1>1 DEF AsyncRead, beginRead
  <2> QED BY <2>1, <2>2, <2>3, <2>4
<1>2. CASE AsyncReadAny
  <2>1. /\ expectSize' \in 0..MaxWant /\ readedSize' \in 0..MaxUnread /\ reads' \in 0..MaxReads
        /\ unread' \in 0..MaxUnread /\ poppable' \in 0..MaxUnread /\ CountedApart'
    BY <1>2 DEF AsyncReadAny, beginRead
  <2>2. handler' \in 0..MaxWant \cup {-1} /\ WaitingHasHandler'
    BY <1>2 DEF AsyncReadAny, beginRead
  <2>3. call' \in [want : 0..MaxWant \cup {-1}, had : 0..MaxUnread]
    BY <1>2 DEF AsyncReadAny, beginRead
  <2>4. /\ anyFlag' \in BOOLEAN /\ waiting' \in BOOLEAN
        /\ finished' \in {"no", "user", "peer"}
        /\ inTurns' \in BOOLEAN
    BY <1>2 DEF AsyncReadAny, beginRead
  <2> QED BY <2>1, <2>2, <2>3, <2>4
<1>3. ASSUME NEW count \in 1..MaxUnread, readHandler(count) PROVE BInv'
  <2>1. /\ expectSize' \in 0..MaxWant /\ readedSize' \in 0..MaxUnread /\ reads' \in 0..MaxReads
        /\ unread' \in 0..MaxUnread /\ poppable' \in 0..MaxUnread /\ CountedApart'
    BY <1>3 DEF readHandler, receive
  <2>2. handler' \in 0..MaxWant \cup {-1} /\ WaitingHasHandler'
    BY <1>3 DEF readHandler, receive
  <2>3. call' \in [want : 0..MaxWant \cup {-1}, had : 0..MaxUnread]
    BY <1>3 DEF readHandler, receive
  <2>4. /\ anyFlag' \in BOOLEAN /\ waiting' \in BOOLEAN
        /\ finished' \in {"no", "user", "peer"}
        /\ inTurns' \in BOOLEAN
    BY <1>3 DEF readHandler, receive
  <2> QED BY <2>1, <2>2, <2>3, <2>4
<1>4. ASSUME NEW count \in 1..MaxUnread, ReadBufferPopHead(count) PROVE BInv'
  BY <1>4 DEF ReadBufferPopHead
<1>5. CASE readFails
  <2>1. /\ expectSize' \in 0..MaxWant /\ readedSize' \in 0..MaxUnread /\ reads' \in 0..MaxReads
        /\ unread' \in 0..MaxUnread /\ poppable' \in 0..MaxUnread /\ CountedApart'
    BY <1>5 DEF readFails
  <2>2. handler' \in 0..MaxWant \cup {-1} /\ WaitingHasHandler'
    BY <1>5 DEF readFails
  <2>3. call' \in [want : 0..MaxWant \cup {-1}, had : 0..MaxUnread]
    BY <1>5 DEF readFails
  <2>4. /\ anyFlag' \in BOOLEAN /\ waiting' \in BOOLEAN
        /\ finished' \in {"no", "user", "peer"}
        /\ inTurns' \in BOOLEAN
    BY <1>5 DEF readFails
  <2> QED BY <2>1, <2>2, <2>3, <2>4
<1>6. CASE Finish
  BY <1>6 DEF Finish
<1>7. CASE Reset
  <2>1. /\ expectSize' \in 0..MaxWant /\ readedSize' \in 0..MaxUnread /\ reads' \in 0..MaxReads
        /\ unread' \in 0..MaxUnread /\ poppable' \in 0..MaxUnread /\ CountedApart'
    BY <1>7 DEF Reset
  <2>2. handler' \in 0..MaxWant \cup {-1} /\ WaitingHasHandler'
    BY <1>7 DEF Reset
  <2>3. call' \in [want : 0..MaxWant \cup {-1}, had : 0..MaxUnread]
    BY <1>7 DEF Reset
  <2>4. /\ anyFlag' \in BOOLEAN /\ waiting' \in BOOLEAN
        /\ finished' \in {"no", "user", "peer"}
        /\ inTurns' \in BOOLEAN
    BY <1>7 DEF Reset
  <2> QED BY <2>1, <2>2, <2>3, <2>4
<1>8. CASE UNCHANGED vars
  BY <1>8 DEF vars
<1> QED BY <1>1, <1>2, <1>3, <1>4, <1>5, <1>6, <1>7, <1>8 DEF Next

\* When both sides take turns each step keeps the counters on the read under way.
LEMMA NextTurnInv ==
  ASSUME inTurns, inTurns', BInv, BInv', TurnInv, [Next]_vars
  PROVE  TurnInv'
<1> USE BoundsAssumption DEF BInv, TypeOK, CountedApart, WaitingHasHandler, TurnInv,
                             Wants, NoHandler, AnySize, ResetRead, answer
<1>1. ASSUME NEW n \in 1..MaxWant, AsyncRead(n) PROVE TurnInv'
  BY <1>1 DEF AsyncRead, beginRead
<1>2. CASE AsyncReadAny
  BY <1>2 DEF AsyncReadAny, beginRead
<1>3. ASSUME NEW count \in 1..MaxUnread, readHandler(count) PROVE TurnInv'
  <2>1. CASE (anyFlag \/ readedSize + count >= expectSize) /\ handler # NoHandler
    <3>1. ~waiting' /\ call' = [want |-> handler, had |-> unread + count]
      BY <1>3, <2>1 DEF readHandler
    <3>2. waiting /\ unread + count >= handler
      BY <1>3, <2>1 DEF readHandler, receive
    <3>3. call'.want = handler /\ call'.had = unread + count
      BY <3>1
    <3> QED BY <3>1, <3>2, <3>3
  <2>2. CASE ~((anyFlag \/ readedSize + count >= expectSize) /\ handler # NoHandler)
    <3>1. UNCHANGED <<expectSize, waiting, call, anyFlag, handler>>
      BY <1>3, <2>2 DEF readHandler
    <3>2. unread' = unread + count /\ readedSize' = readedSize + count
      BY <1>3, <2>2 DEF readHandler, receive
    <3> QED BY <2>2, <3>1, <3>2
  <2> QED BY <2>1, <2>2
<1>4. ASSUME NEW count \in 1..MaxUnread, ReadBufferPopHead(count) PROVE TurnInv'
  BY <1>4 DEF ReadBufferPopHead
<1>5. CASE readFails
  BY <1>5 DEF readFails
<1>6. CASE Finish
  BY <1>6 DEF Finish
<1>7. CASE Reset
  BY <1>7 DEF Reset
<1>8. CASE UNCHANGED vars
  BY <1>8 DEF vars
<1> QED BY <1>1, <1>2, <1>3, <1>4, <1>5, <1>6, <1>7, <1>8 DEF Next

\* The invariant of every user.
THEOREM BInvHolds == Spec => []BInv
<1>1. Init => BInv
  BY InitBInv
<1> QED BY <1>1, NextBInv, PTL DEF Spec

(***************************************************************************)
(* readedSize_ never counts a byte that is not in ReadBuffer_, whatever    *)
(* mix of AsyncRead, AsyncReadAny, popping and Reset the user makes.       *)
(***************************************************************************)
THEOREM CountedIsBufferedHolds == Spec => []CountedIsBuffered
<1>1. BInv => CountedIsBuffered
  BY DEF BInv, TypeOK, CountedApart, CountedIsBuffered
<1> QED BY <1>1, BInvHolds, PTL

\* readHandler reports a closed peer or a failed read to whoever waits.
THEOREM FailureReportedHolds == Spec => FailureReported
<1>1. BInv /\ [Next]_vars => [finished = "no" /\ finished' = "peer" => ~waiting']_vars
  <2> SUFFICES ASSUME BInv, Next, finished = "no", finished' = "peer" PROVE ~waiting'
    OBVIOUS
  <2>1. readFails
    BY DEF Next, AsyncRead, AsyncReadAny, readHandler, ReadBufferPopHead, Finish, Reset
  <2> QED BY <2>1 DEF readFails, BInv, TypeOK, WaitingHasHandler, NoHandler
<1> QED BY <1>1, BInvHolds, PTL DEF Spec, FailureReported

\* The invariant of those who take turns.
TurnsInv == inTurns => TurnInv

\* As long as both sides take turns the counters are about the read under way.
THEOREM TurnsInvHolds == Spec => []TurnsInv
<1>1. Init => TurnsInv
  BY InitBInv DEF TurnsInv
<1>2. BInv /\ BInv' /\ TurnsInv /\ [Next]_vars => TurnsInv'
  <2> SUFFICES ASSUME BInv, BInv', TurnsInv, [Next]_vars, inTurns' PROVE TurnInv'
    BY DEF TurnsInv
  <2>1. inTurns
    BY DEF BInv, TypeOK, Next, vars, AsyncRead, AsyncReadAny, beginRead, readHandler, receive,
           ReadBufferPopHead, readFails, Finish, Reset
  <2> QED BY <2>1, NextTurnInv DEF TurnsInv
<1> QED BY <1>1, <1>2, BInvHolds, PTL DEF Spec

\* In turns, AsyncRead's handler finds the bytes that were asked for.
THEOREM EnoughWhenCalledHolds == Spec => []EnoughWhenCalled
<1>1. TurnsInv => EnoughWhenCalled
  BY DEF TurnsInv, TurnInv, EnoughWhenCalled
<1> QED BY <1>1, TurnsInvHolds, PTL

\* In turns, AsyncRead does not wait for what is in the buffer already.
THEOREM NoWaitForUnreadHolds == Spec => []NoWaitForUnread
<1>1. BInv /\ TurnsInv => NoWaitForUnread
  BY DEF BInv, TypeOK, TurnsInv, TurnInv, NoWaitForUnread
<1> QED BY <1>1, BInvHolds, TurnsInvHolds, PTL

-----------------------------------------------------------------------------
\* A function on 1 to n is a sequence.
LEMMA ListedFacts ==
  ASSUME NEW S, NEW n \in Nat, NEW s \in [1..n -> S]
  PROVE  s \in Seq(S) /\ Len(s) = n
<1>1. s \in Seq(S) /\ DOMAIN s = 1..n
  OBVIOUS
<1> QED BY <1>1, LenProperties

(***************************************************************************)
(* The Buffer (Buffer.tla).                                                *)
(***************************************************************************)
Bytes == Byte \cup {Junk}

\* The place to read from, below zero after a socket has blocked.
ReadAt == IF readIndex > writeIndex THEN readIndex - Wrap ELSE readIndex

\* What is inside was written: no index runs past what was pushed.
BufferInv ==
    /\ BufferTypeOK
    /\ writeIndex <= pushed /\ writeIndex <= Len(buffer) /\ Len(buffer) <= InitSize + pushed
    /\ readIndex <= writeIndex \/ readIndex >= Wrap - blocks

\* A wrap at most, in each direction.
LEMMA WrapFacts ==
  ASSUME NEW W \in Nat \ {0}, NEW x \in Int, -W <= x, x < W + W
  PROVE  x % W = IF x < 0 THEN x + W ELSE IF x < W THEN x ELSE x - W
<1>1. CASE x < 0
  <2>1. x \in (-W)..(-1)
    BY <1>1
  <2> QED BY <2>1, Z3
<1>2. CASE x \in 0..(W - 1)
  BY <1>2, Z3
<1>3. CASE x \in W..(W + W - 1)
  BY <1>3, Z3
<1> QED BY <1>1, <1>2, <1>3

\* The sizes, one by one.
LEMMA BufferNumbers ==
  BufferInv => /\ readIndex \in 0..(Wrap - 1) /\ writeIndex \in 0..(Wrap - 1)
               /\ pushed \in 0..MaxPushed /\ blocks \in 0..MaxBlocks
               /\ Len(buffer) \in Nat /\ Len(buffer) < Wrap - MaxBlocks
               /\ InitSize \in Nat /\ Chunk \in Nat \ {0} /\ MaxPushed \in Nat /\ MaxBlocks \in Nat
               /\ Wrap \in Nat /\ MaxPushed + Chunk + MaxBlocks < Wrap
               /\ ReadAt \in (-blocks)..writeIndex
               /\ readIndex = ReadAt \/ (ReadAt < 0 /\ readIndex = ReadAt + Wrap)
               /\ writeIndex <= MaxPushed
               /\ ReadAt = writeIndex <=> readIndex = writeIndex
<1> SUFFICES ASSUME BufferInv PROVE
               /\ readIndex \in 0..(Wrap - 1) /\ writeIndex \in 0..(Wrap - 1)
               /\ pushed \in 0..MaxPushed /\ blocks \in 0..MaxBlocks
               /\ Len(buffer) \in Nat /\ Len(buffer) < Wrap - MaxBlocks
               /\ ReadAt \in (-blocks)..writeIndex
               /\ readIndex = ReadAt \/ (ReadAt < 0 /\ readIndex = ReadAt + Wrap)
               /\ writeIndex <= MaxPushed
               /\ ReadAt = writeIndex <=> readIndex = writeIndex
  BY SizesAssumption
<1>1. /\ readIndex \in 0..(Wrap - 1) /\ writeIndex \in 0..(Wrap - 1)
      /\ pushed \in 0..MaxPushed /\ blocks \in 0..MaxBlocks /\ Len(buffer) \in Nat
  BY DEF BufferInv, BufferTypeOK
<1>2. writeIndex <= pushed /\ Len(buffer) <= InitSize + pushed
  BY DEF BufferInv
<1>3. readIndex <= writeIndex \/ readIndex >= Wrap - blocks
  BY DEF BufferInv
<1> QED BY <1>1, <1>2, <1>3, SizesAssumption DEF ReadAt

\* The same as inequalities, for the arithmetic.
LEMMA BufferBounds ==
  BufferInv => /\ readIndex \in Nat /\ writeIndex \in Nat /\ Len(buffer) \in Nat /\ ReadAt \in Int
               /\ Wrap \in Nat \ {0} /\ MaxBlocks \in Nat /\ Chunk \in Nat /\ MaxPushed \in Nat
               /\ readIndex < Wrap /\ writeIndex <= MaxPushed /\ -MaxBlocks <= ReadAt
               /\ ReadAt <= writeIndex /\ MaxPushed + Chunk + MaxBlocks < Wrap
               /\ Len(buffer) + MaxBlocks < Wrap
<1> SUFFICES ASSUME BufferInv
             PROVE  /\ readIndex \in Nat /\ writeIndex \in Nat /\ Len(buffer) \in Nat /\ ReadAt \in Int
                    /\ Wrap \in Nat \ {0} /\ MaxBlocks \in Nat /\ Chunk \in Nat /\ MaxPushed \in Nat
                    /\ readIndex < Wrap /\ writeIndex <= MaxPushed /\ -MaxBlocks <= ReadAt
                    /\ ReadAt <= writeIndex /\ MaxPushed + Chunk + MaxBlocks < Wrap
                    /\ Len(buffer) + MaxBlocks < Wrap
  OBVIOUS
<1>1. /\ readIndex \in 0..(Wrap - 1) /\ writeIndex \in 0..(Wrap - 1) /\ blocks \in 0..MaxBlocks
      /\ ReadAt \in (-blocks)..writeIndex
  BY BufferNumbers
<1>2. Len(buffer) \in Nat /\ Len(buffer) < Wrap - MaxBlocks /\ writeIndex <= MaxPushed
  BY BufferNumbers
<1>3. /\ Chunk \in Nat /\ MaxPushed \in Nat /\ MaxBlocks \in Nat
      /\ Wrap \in Nat /\ MaxPushed + Chunk + MaxBlocks < Wrap
  BY BufferNumbers
<1>4. blocks \in Nat /\ blocks <= MaxBlocks /\ readIndex \in Nat /\ readIndex < Wrap /\ writeIndex \in Nat
  BY <1>1, <1>3
<1>5. ReadAt \in Int /\ -blocks <= ReadAt /\ ReadAt <= writeIndex
  BY <1>1, <1>4
<1>6. Wrap \in Nat \ {0} /\ Len(buffer) + MaxBlocks < Wrap
  BY <1>2, <1>3
<1>7. -MaxBlocks <= ReadAt
  BY <1>3, <1>4, <1>5
<1> QED BY <1>2, <1>3, <1>4, <1>5, <1>6, <1>7

\* Which of the two the read index is.
LEMMA ReadIndexIs ==
  BufferInv => /\ readIndex = ReadAt \/ (ReadAt < 0 /\ readIndex = ReadAt + Wrap)
               /\ ReadAt = writeIndex <=> readIndex = writeIndex
  BY BufferNumbers

\* An index moves as the place it stands for.
LEMMA IndexFacts ==
  ASSUME BufferInv, NEW d \in Int, -Wrap <= ReadAt + d, ReadAt + d < Wrap
  PROVE  (readIndex + d) % Wrap = IF ReadAt + d >= 0 THEN ReadAt + d ELSE ReadAt + d + Wrap
<1> DEFINE x == readIndex + d
           y == x % Wrap
<1>0. /\ readIndex \in Int /\ ReadAt \in Int /\ Wrap \in Nat \ {0}
      /\ ReadAt < Wrap /\ -Wrap < ReadAt
      /\ (readIndex = ReadAt \/ (ReadAt < 0 /\ readIndex = ReadAt + Wrap))
  <2>1. /\ readIndex \in Nat /\ ReadAt \in Int /\ Wrap \in Nat \ {0} /\ writeIndex \in Nat
        /\ MaxPushed \in Nat /\ Chunk \in Nat /\ MaxBlocks \in Nat
        /\ -MaxBlocks <= ReadAt /\ ReadAt <= writeIndex /\ writeIndex <= MaxPushed
        /\ MaxPushed + Chunk + MaxBlocks < Wrap
    BY BufferBounds
  <2>2. readIndex = ReadAt \/ (ReadAt < 0 /\ readIndex = ReadAt + Wrap)
    BY ReadIndexIs
  <2>3. ReadAt < Wrap /\ -Wrap < ReadAt
    BY <2>1
  <2> QED BY <2>1, <2>2, <2>3
<1>1. x \in Int /\ -Wrap <= x /\ x < Wrap + Wrap
  BY <1>0
<1>2. x = ReadAt + d \/ (ReadAt < 0 /\ x = ReadAt + d + Wrap)
  BY <1>0
<1> HIDE DEF x
<1>3. y = IF x < 0 THEN x + Wrap ELSE IF x < Wrap THEN x ELSE x - Wrap
  BY <1>0, <1>1, WrapFacts
<1> HIDE DEF y
<1>4. y = IF ReadAt + d >= 0 THEN ReadAt + d ELSE ReadAt + d + Wrap
  <2>1. CASE x = ReadAt + d
    BY <1>0, <1>1, <1>3, <2>1
  <2>2. CASE ReadAt < 0 /\ x = ReadAt + d + Wrap
    BY <1>0, <1>1, <1>3, <2>2
  <2> QED BY <1>2, <2>1, <2>2
<1> QED BY <1>4 DEF x, y

\* The difference of the indices is what is unread.
LEMMA UnreadLength ==
  ASSUME BufferInv
  PROVE  (writeIndex - readIndex) % Wrap = writeIndex - ReadAt /\ writeIndex - ReadAt \in Nat
<1> DEFINE x == writeIndex - readIndex
           y == x % Wrap
<1>0. /\ readIndex \in 0..(Wrap - 1) /\ writeIndex \in 0..(Wrap - 1) /\ Wrap \in Nat \ {0}
      /\ ReadAt \in Int /\ ReadAt <= writeIndex /\ -Wrap < ReadAt /\ writeIndex - ReadAt < Wrap
      /\ readIndex = ReadAt \/ (ReadAt < 0 /\ readIndex = ReadAt + Wrap)
  BY BufferNumbers
<1>1. x \in Int /\ -Wrap <= x /\ x < Wrap /\ x < Wrap + Wrap
  BY <1>0
<1>2. (x = writeIndex - ReadAt /\ x >= 0) \/ (x < 0 /\ x = writeIndex - ReadAt - Wrap)
  BY <1>0
<1> HIDE DEF x
<1>3. y = IF x < 0 THEN x + Wrap ELSE IF x < Wrap THEN x ELSE x - Wrap
  BY <1>0, <1>1, WrapFacts
<1> HIDE DEF y
<1>4. y = writeIndex - ReadAt /\ writeIndex - ReadAt \in Nat
  BY <1>0, <1>1, <1>2, <1>3
<1> QED BY <1>4 DEF x, y

\* What is unread lies between the indices, behind what a blocked socket added.
LEMMA UnreadFacts ==
  ASSUME BufferInv
  PROVE  /\ Unread \in Seq(Bytes) /\ Len(Unread) = writeIndex - ReadAt
         /\ \A k \in 1..(writeIndex - ReadAt) :
               Unread[k] = IF ReadAt + k >= 1 THEN buffer[ReadAt + k] ELSE Junk
<1> DEFINE at(k) == (readIndex + k) % Wrap
           byte(k) == IF at(k) \in 1..Len(buffer) THEN buffer[at(k)] ELSE Junk
           n == (writeIndex - readIndex) % Wrap
<1>0. /\ ReadAt \in Int /\ Wrap \in Nat /\ writeIndex < Wrap /\ -Wrap < ReadAt /\ writeIndex \in Nat
      /\ Len(buffer) \in Nat /\ writeIndex <= Len(buffer) /\ ReadAt >= -MaxBlocks
      /\ MaxBlocks \in Nat /\ Len(buffer) < Wrap - MaxBlocks
  <2>1. writeIndex <= Len(buffer)
    BY DEF BufferInv
  <2>2. /\ ReadAt \in Int /\ Wrap \in Nat /\ writeIndex \in Nat /\ Len(buffer) \in Nat
        /\ MaxBlocks \in Nat /\ -MaxBlocks <= ReadAt /\ Len(buffer) + MaxBlocks < Wrap
    BY BufferBounds
  <2> HIDE DEF n, at, byte
  <2> QED BY <2>1, <2>2
<1>1. n = writeIndex - ReadAt /\ n \in Nat
  BY UnreadLength
<1>2. ASSUME NEW k \in 1..n
      PROVE  byte(k) = (IF ReadAt + k >= 1 THEN buffer[ReadAt + k] ELSE Junk) /\ byte(k) \in Bytes
  <2>1. at(k) = IF ReadAt + k >= 0 THEN ReadAt + k ELSE ReadAt + k + Wrap
    <3>1. k \in Int /\ -Wrap <= ReadAt + k /\ ReadAt + k < Wrap
      <4> HIDE DEF n
      <4> QED BY <1>0, <1>1
    <3> QED BY <3>1, IndexFacts
  <2>2. at(k) \in 1..Len(buffer) <=> ReadAt + k >= 1
    <3> HIDE DEF at, n
    <3>1. CASE ReadAt + k >= 0
      BY <1>0, <1>1, <2>1, <3>1
    <3>2. CASE ReadAt + k < 0
      BY <1>0, <1>1, <2>1, <3>2
    <3> QED BY <1>0, <1>1, <3>1, <3>2
  <2>3. at(k) \in 1..Len(buffer) => buffer[at(k)] \in Bytes
    BY ElementOfSeq DEF BufferInv, BufferTypeOK, Bytes
  <2> HIDE DEF n, at
  <2>4. ReadAt + k >= 1 => at(k) = ReadAt + k
    <3>1. k \in Int
      BY <1>1
    <3> QED BY <1>0, <2>1, <3>1
  <2> QED BY <2>2, <2>3, <2>4 DEF Bytes
<1>3. Unread = [k \in 1..n |-> byte(k)]
  BY DEF Unread
<1> HIDE DEF byte, n
<1>4. Unread \in [1..n -> Bytes]
  BY <1>2, <1>3
<1>5. Unread \in Seq(Bytes) /\ Len(Unread) = n
  BY <1>1, <1>4, ListedFacts
<1> QED BY <1>1, <1>2, <1>3, <1>5

\* Read gives the head of what is unread.
LEMMA ReadFacts ==
  ASSUME BufferInv, NEW len \in 1..Chunk
  PROVE  /\ ReadLen(len) \in 0..Len(Unread)
         /\ ReadLen(len) = 0 <=> readIndex = writeIndex
         /\ Read(len) \in Seq(Bytes) /\ Len(Read(len)) = ReadLen(len)
         /\ \A k \in 1..ReadLen(len) : Read(len)[k] = Unread[k]
<1>1. ReadLen(len) \in 0..(writeIndex - ReadAt) /\ (ReadLen(len) = 0 <=> readIndex = writeIndex)
  <2>1. (readIndex + len) % Wrap = IF ReadAt + len >= 0 THEN ReadAt + len ELSE ReadAt + len + Wrap
    <3>1. len \in Int /\ -Wrap <= ReadAt + len /\ ReadAt + len < Wrap
      <4>1. /\ ReadAt \in Int /\ Wrap \in Nat /\ writeIndex \in Nat
            /\ MaxPushed \in Nat /\ Chunk \in Nat /\ MaxBlocks \in Nat
            /\ -MaxBlocks <= ReadAt /\ ReadAt <= writeIndex /\ writeIndex <= MaxPushed
            /\ MaxPushed + Chunk + MaxBlocks < Wrap
        BY BufferBounds
      <4>2. len \in Int /\ 1 <= len /\ len <= Chunk
        BY <4>1
      <4>3. -Wrap <= ReadAt + len
        BY <4>1, <4>2
      <4>4. ReadAt + len < Wrap
        BY <4>1, <4>2
      <4> QED BY <4>2, <4>3, <4>4
    <3> QED BY <3>1, IndexFacts
  <2>2. (writeIndex - readIndex) % Wrap = writeIndex - ReadAt
    BY UnreadLength
  <2> DEFINE a == (readIndex + len) % Wrap
             b == (writeIndex - readIndex) % Wrap
  <2>3. ReadLen(len) = IF readIndex = writeIndex THEN 0 ELSE IF a > writeIndex THEN b ELSE len
    BY DEF ReadLen
  <2> HIDE DEF a, b
  <2>4. /\ a = IF ReadAt + len >= 0 THEN ReadAt + len ELSE ReadAt + len + Wrap
        /\ b = writeIndex - ReadAt
    BY <2>1, <2>2 DEF a, b
  <2>5. /\ readIndex \in Nat /\ writeIndex \in Nat /\ ReadAt \in Int /\ ReadAt <= writeIndex
        /\ Wrap \in Nat /\ MaxBlocks \in Nat /\ ReadAt >= -MaxBlocks /\ writeIndex + MaxBlocks < Wrap
        /\ ReadAt = writeIndex <=> readIndex = writeIndex
    <3>1. /\ readIndex \in Nat /\ writeIndex \in Nat /\ ReadAt \in Int /\ Wrap \in Nat
          /\ MaxPushed \in Nat /\ Chunk \in Nat /\ MaxBlocks \in Nat
          /\ -MaxBlocks <= ReadAt /\ ReadAt <= writeIndex /\ writeIndex <= MaxPushed
          /\ MaxPushed + Chunk + MaxBlocks < Wrap
      BY BufferBounds
    <3>2. ReadAt >= -MaxBlocks /\ writeIndex + MaxBlocks < Wrap
      BY <3>1
    <3> QED BY <3>1, <3>2, ReadIndexIs
  <2>6. CASE readIndex = writeIndex
    BY <2>3, <2>5, <2>6
  <2>7. CASE readIndex # writeIndex /\ ReadAt + len < 0
    BY <2>3, <2>4, <2>5, <2>7
  <2>8. CASE readIndex # writeIndex /\ ReadAt + len >= 0
    BY <2>3, <2>4, <2>5, <2>8
  <2> QED BY <2>5, <2>6, <2>7, <2>8
<1>2. (writeIndex - readIndex) % Wrap = writeIndex - ReadAt
  BY UnreadLength
<1> DEFINE m == ReadLen(len)
<1>3. m \in Nat /\ m <= Len(Unread) /\ 1..m \subseteq 1..Len(Unread) /\ Len(Unread) = writeIndex - ReadAt
  <2>1. m \in 0..(writeIndex - ReadAt)
    BY <1>1
  <2>2. Len(Unread) = writeIndex - ReadAt
    BY UnreadFacts
  <2>3. writeIndex - ReadAt \in Int
    BY BufferBounds
  <2> HIDE DEF m
  <2> QED BY <2>1, <2>2, <2>3
<1>4. \A k \in 1..m : Read(len)[k] = Unread[k]
  BY <1>2, <1>3 DEF Read, Unread
<1>5. \A k \in 1..m : Unread[k] \in Bytes
  BY <1>3, UnreadFacts, ElementOfSeq
<1>6. Read(len) = [k \in 1..m |-> Read(len)[k]]
  BY DEF Read
<1> HIDE DEF m
<1>7. Read(len) \in [1..m -> Bytes]
  BY <1>4, <1>5, <1>6
<1>8. Read(len) \in Seq(Bytes) /\ Len(Read(len)) = m
  BY <1>3, <1>7, ListedFacts
<1> QED BY <1>1, <1>3, <1>4, <1>8 DEF m

\* The same of the next state.
LEMMA UnreadTyped ==
  BufferInv => /\ Unread \in Seq(Bytes) /\ Len(Unread) = writeIndex - ReadAt
               /\ \A k \in 1..(writeIndex - ReadAt) :
                     Unread[k] = IF ReadAt + k >= 1 THEN buffer[ReadAt + k] ELSE Junk
  BY UnreadFacts
LEMMA UnreadNext ==
  BufferInv' => /\ Unread' \in Seq(Bytes) /\ Len(Unread') = writeIndex' - ReadAt'
                /\ \A k \in 1..(writeIndex' - ReadAt') :
                      Unread'[k] = IF ReadAt' + k >= 1 THEN buffer'[ReadAt' + k] ELSE Junk
<1>1. (BufferInv => /\ Unread \in Seq(Bytes) /\ Len(Unread) = writeIndex - ReadAt
                    /\ \A k \in 1..(writeIndex - ReadAt) :
                          Unread[k] = IF ReadAt + k >= 1 THEN buffer[ReadAt + k] ELSE Junk)'
  BY UnreadTyped, PTL
<1> QED BY <1>1

\* The read index moves, by -1 if the socket blocked.
LEMMA AdvanceFacts ==
  ASSUME BufferInv, NEW count \in Int, -1 <= count, count <= Len(Unread), UpdateReadIndex(count),
         pushed' = pushed, blocks' \in blocks..MaxBlocks, ReadAt + count >= -blocks',
         in' \in Seq(Bytes), out' \in Seq(Bytes)
  PROVE  /\ BufferInv'
         /\ Unread' \in Seq(Bytes) /\ Len(Unread') = Len(Unread) - count
         /\ \A k \in 1..(Len(Unread) - count) : k + count >= 1 => Unread'[k] = Unread[k + count]
<1>0. /\ ReadAt \in Int /\ Wrap \in Nat /\ MaxBlocks \in Nat /\ ReadAt >= -MaxBlocks
      /\ writeIndex \in Nat /\ writeIndex <= MaxPushed /\ MaxPushed \in Nat
      /\ MaxPushed + MaxBlocks < Wrap /\ ReadAt <= writeIndex
      /\ blocks \in 0..MaxBlocks /\ pushed \in 0..MaxPushed
      /\ Len(buffer) \in Nat /\ writeIndex <= Len(buffer)
  <2>1. BufferInv => writeIndex <= Len(buffer)
    BY DEF BufferInv
  <2>2. /\ ReadAt \in (-blocks)..writeIndex /\ blocks \in 0..MaxBlocks /\ Chunk \in Nat
        /\ Wrap \in Nat /\ MaxBlocks \in Nat /\ MaxPushed \in Nat
        /\ MaxPushed + Chunk + MaxBlocks < Wrap
        /\ writeIndex \in 0..(Wrap - 1) /\ writeIndex <= MaxPushed
        /\ pushed \in 0..MaxPushed /\ Len(buffer) \in Nat
    BY BufferNumbers
  <2> QED BY <2>1, <2>2
<1>1. Len(Unread) = writeIndex - ReadAt /\ Unread \in Seq(Bytes)
  BY UnreadFacts
<1> DEFINE index == (readIndex + count) % Wrap
<1>2. index = IF ReadAt + count >= 0 THEN ReadAt + count ELSE ReadAt + count + Wrap
  <2>1. -Wrap <= ReadAt + count /\ ReadAt + count < Wrap
    BY <1>0, <1>1
  <2> QED BY <2>1, IndexFacts
<1>3. IF index = writeIndex THEN readIndex' = 0 /\ writeIndex' = 0 /\ buffer' = <<>>
                            ELSE readIndex' = index /\ UNCHANGED <<writeIndex, buffer>>
  BY DEF UpdateReadIndex
<1> HIDE DEF index
<1>5. blocks' \in 0..MaxBlocks /\ ReadAt + count >= -blocks' /\ ReadAt + count >= -MaxBlocks
  <2>1. blocks' \in 0..MaxBlocks
    BY <1>0
  <2> DEFINE b == blocks'
  <2> HIDE DEF b
  <2>2. b \in 0..MaxBlocks /\ MaxBlocks \in Nat
    BY <1>0, <2>1 DEF b
  <2>4. -b \in Int /\ -MaxBlocks \in Int /\ -MaxBlocks <= -b
    BY <2>2
  <2>3. ReadAt + count \in Int
    BY <1>0
  <2> QED BY <2>1, <2>4, <2>3 DEF b
<1>8. ReadAt + count \in Int /\ ReadAt + count <= writeIndex /\ writeIndex < Wrap - MaxBlocks
  BY <1>0, <1>1
<1>4. /\ index = writeIndex <=> ReadAt + count = writeIndex
      /\ index \in 0..(Wrap - 1)
      /\ index <= writeIndex \/ index >= Wrap - blocks'
      /\ (IF index > writeIndex THEN index - Wrap ELSE index) = ReadAt + count
  <2> DEFINE at == ReadAt + count
             b == blocks'
  <2>1. /\ at \in Int /\ at <= writeIndex /\ writeIndex < Wrap - MaxBlocks /\ writeIndex \in Nat
        /\ at >= -MaxBlocks /\ at >= -b /\ MaxBlocks \in Nat /\ Wrap \in Nat /\ b \in Nat
        /\ index = IF at >= 0 THEN at ELSE at + Wrap
    <3>1. b \in Nat
      BY <1>5, <1>0
    <3>2. index = IF at >= 0 THEN at ELSE at + Wrap
      BY <1>2
    <3> QED BY <1>0, <1>5, <1>8, <3>1, <3>2
  <2> HIDE DEF at, b
  <2>2. CASE at >= 0
    <3>1. index = at
      BY <2>1, <2>2
    <3> QED BY <2>1, <2>2, <3>1 DEF at
  <2>3. CASE at < 0
    <3>1. index = at + Wrap
      BY <2>1, <2>3
    <3>2. /\ index \in 0..(Wrap - 1) /\ index > writeIndex /\ index >= Wrap - b
            /\ index - Wrap = at /\ at # writeIndex
      BY <2>1, <2>3, <3>1
    <3>3. ~(index <= writeIndex) /\ index # writeIndex
      BY <2>1, <3>2
    <3> QED BY <3>2, <3>3 DEF at, b
  <2>4. at >= 0 \/ at < 0
    BY <2>1
  <2> QED BY <2>2, <2>3, <2>4
<1>6. CASE ReadAt + count = writeIndex
  <2>1. readIndex' = 0 /\ writeIndex' = 0 /\ buffer' = <<>>
    BY <1>3, <1>4, <1>6
  <2>2. ReadAt' = 0
    BY <2>1 DEF ReadAt
  <2>3. BufferTypeOK'
    BY <1>0, <1>5, <2>1 DEF BufferTypeOK, Bytes
  <2>4. BufferInv'
    BY <1>0, <2>1, <2>3, SizesAssumption DEF BufferInv
  <2>5. Unread' \in Seq(Bytes) /\ Len(Unread') = 0
    BY <2>1, <2>2, <2>4, UnreadNext
  <2> QED BY <1>0, <1>1, <1>6, <2>4, <2>5
<1>7. CASE ReadAt + count # writeIndex
  <2>1. readIndex' = index /\ writeIndex' = writeIndex /\ buffer' = buffer
    BY <1>3, <1>4, <1>7
  <2>3. ReadAt' = ReadAt + count
    BY <1>4, <2>1 DEF ReadAt
  <2>4. BufferTypeOK'
    BY <1>4, <1>5, <2>1 DEF BufferTypeOK, Bytes, BufferInv
  <2>5. BufferInv'
    BY <1>4, <2>1, <2>4 DEF BufferInv
  <2>6. /\ Unread' \in Seq(Bytes) /\ Len(Unread') = writeIndex - (ReadAt + count)
        /\ \A k \in 1..(writeIndex - (ReadAt + count)) :
               Unread'[k] = IF ReadAt + count + k >= 1 THEN buffer[ReadAt + count + k] ELSE Junk
    BY <2>1, <2>3, <2>5, UnreadNext
  <2>7. ASSUME NEW k \in 1..(Len(Unread) - count), k + count >= 1
        PROVE  Unread'[k] = Unread[k + count]
    <3>1. k + count \in 1..(writeIndex - ReadAt) /\ k \in 1..(writeIndex - (ReadAt + count))
      BY <1>0, <1>1, <2>7
    <3>2. Unread[k + count] = IF ReadAt + (k + count) >= 1 THEN buffer[ReadAt + (k + count)] ELSE Junk
      BY <3>1, UnreadFacts
    <3>3. ReadAt + (k + count) = ReadAt + count + k
      BY <1>0
    <3> QED BY <2>6, <3>1, <3>2, <3>3
  <2> QED BY <1>0, <1>1, <2>5, <2>6, <2>7
<1> QED BY <1>6, <1>7

\* A sequence is what was taken from it and what is left.
LEMMA SplitFacts ==
  ASSUME NEW S, NEW s \in Seq(S), NEW h \in Seq(S), NEW t \in Seq(S),
         Len(h) + Len(t) = Len(s), \A k \in 1..Len(h) : h[k] = s[k],
         \A k \in 1..Len(t) : t[k] = s[k + Len(h)]
  PROVE  h \o t = s
<1>1. /\ h \o t \in Seq(S) /\ Len(h \o t) = Len(s)
      /\ \A k \in 1..Len(s) : (h \o t)[k] = IF k <= Len(h) THEN h[k] ELSE t[k - Len(h)]
  BY ConcatIndex
<1>2. ASSUME NEW k \in 1..Len(s)
      PROVE  (h \o t)[k] = s[k]
  <2>1. Len(h) \in Nat /\ Len(t) \in Nat /\ Len(s) \in Nat
    OBVIOUS
  <2>2. CASE k <= Len(h)
    BY <1>1, <2>1, <2>2
  <2>3. CASE k > Len(h)
    <3>1. k - Len(h) \in 1..Len(t) /\ (k - Len(h)) + Len(h) = k
      BY <1>2, <2>1, <2>3
    <3>2. ~(k <= Len(h))
      BY <2>1, <2>3
    <3>3. (h \o t)[k] = t[k - Len(h)]
      BY <1>1, <3>2
    <3>4. t[k - Len(h)] = s[(k - Len(h)) + Len(h)]
      BY <3>1
    <3> QED BY <3>1, <3>3, <3>4
  <2> QED BY <2>1, <2>2, <2>3
<1> QED BY <1>1, <1>2, SeqEqual

\* A new buffer.
LEMMA InitBufferInv == BufferInit => BufferInv /\ Unread = <<>>
<1> SUFFICES ASSUME BufferInit PROVE BufferInv /\ Unread = <<>>
  OBVIOUS
<1>1. /\ buffer = [k \in 1..InitSize |-> Junk] /\ readIndex = 0 /\ writeIndex = 0
      /\ in = <<>> /\ out = <<>> /\ pushed = 0 /\ blocks = 0
  BY DEF BufferInit
<1>2. buffer \in Seq(Bytes) /\ Len(buffer) = InitSize
  <2>1. InitSize \in Nat /\ buffer \in [1..InitSize -> Bytes]
    BY <1>1, SizesAssumption DEF Bytes
  <2> QED BY <2>1, ListedFacts
<1>3. BufferInv
  BY <1>1, <1>2, SizesAssumption DEF BufferInv, BufferTypeOK, Bytes
<1>4. ReadAt = 0
  BY <1>1 DEF ReadAt
<1>5. Unread \in Seq(Bytes) /\ Len(Unread) = 0
  BY <1>1, <1>3, <1>4, UnreadFacts
<1> QED BY <1>3, <1>5

\* What lies where in a sequence of three parts.
LEMMA ThreeParts ==
  ASSUME NEW S, NEW a \in Seq(S), NEW b \in Seq(S), NEW c \in Seq(S)
  PROVE  /\ a \o b \o c \in Seq(S) /\ Len(a \o b \o c) = Len(a) + Len(b) + Len(c)
         /\ \A k \in 1..Len(a) : (a \o b \o c)[k] = a[k]
         /\ \A k \in (Len(a) + 1)..(Len(a) + Len(b)) : (a \o b \o c)[k] = b[k - Len(a)]
<1> DEFINE d == a \o b
<1>1. /\ d \in Seq(S) /\ Len(d) = Len(a) + Len(b)
      /\ \A k \in 1..Len(d) : d[k] = IF k <= Len(a) THEN a[k] ELSE b[k - Len(a)]
  BY ConcatIndex
<1> HIDE DEF d
<1> DEFINE r == d \o c
<1>2. /\ r \in Seq(S) /\ Len(r) = Len(d) + Len(c)
      /\ \A k \in 1..Len(r) : r[k] = IF k <= Len(d) THEN d[k] ELSE c[k - Len(d)]
  <2>1. d \in Seq(S)
    BY <1>1
  <2> QED BY <2>1, ConcatIndex
<1>3. Len(a) \in Nat /\ Len(b) \in Nat /\ Len(c) \in Nat
  OBVIOUS
<1> HIDE DEF r
<1>4. ASSUME NEW k \in 1..Len(a) PROVE r[k] = a[k]
  <2>1. k \in 1..Len(r) /\ k \in 1..Len(d) /\ k <= Len(d) /\ k <= Len(a)
    BY <1>1, <1>2, <1>3
  <2> QED BY <1>1, <1>2, <2>1
<1>5. ASSUME NEW k \in (Len(a) + 1)..(Len(a) + Len(b)) PROVE r[k] = b[k - Len(a)]
  <2>1. k \in 1..Len(r) /\ k \in 1..Len(d) /\ k <= Len(d) /\ ~(k <= Len(a))
    BY <1>1, <1>2, <1>3
  <2> QED BY <1>1, <1>2, <2>1
<1>6. Len(r) = Len(a) + Len(b) + Len(c)
  BY <1>1, <1>2
<1> QED BY <1>2, <1>4, <1>5, <1>6 DEF d, r

\* The bytes put into s behind its first w.
Inserted(s, bytes, w) == SubSeq(s, 1, w) \o bytes \o SubSeq(s, w + 1, Len(s))

\* Where the bytes are that were there before.
LEMMA InsertedFacts ==
  ASSUME NEW S, NEW s \in Seq(S), NEW bytes \in Seq(S), NEW w \in 0..Len(s)
  PROVE  /\ Inserted(s, bytes, w) \in Seq(S)
         /\ Len(Inserted(s, bytes, w)) = Len(s) + Len(bytes)
         /\ \A k \in 1..w : Inserted(s, bytes, w)[k] = s[k]
<1> DEFINE a == SubSeq(s, 1, w)
           c == SubSeq(s, w + 1, Len(s))
           r == a \o bytes \o c
<1>1. a \in Seq(S) /\ Len(a) = w /\ \A k \in 1..w : a[k] = s[k]
  OBVIOUS
<1>2. c \in Seq(S) /\ Len(c) = Len(s) - w /\ Len(s) \in Nat /\ Len(bytes) \in Nat
  OBVIOUS
<1> HIDE DEF a, c
<1>3. /\ r \in Seq(S) /\ Len(r) = Len(a) + Len(bytes) + Len(c)
      /\ \A k \in 1..Len(a) : r[k] = a[k]
  <2>1. a \in Seq(S) /\ c \in Seq(S)
    BY <1>1, <1>2
  <2>2. r \in Seq(S)
    BY <2>1, ThreeParts
  <2>3. Len(r) = Len(a) + Len(bytes) + Len(c)
    BY <2>1, ThreeParts
  <2>4. \A k \in 1..Len(a) : r[k] = a[k]
    BY <2>1, ThreeParts
  <2> QED BY <2>2, <2>3, <2>4
<1> HIDE DEF r
<1>4. r \in Seq(S) /\ Len(r) = Len(s) + Len(bytes) /\ \A k \in 1..w : r[k] = s[k]
  BY <1>1, <1>2, <1>3
<1> QED BY <1>4 DEF a, c, r, Inserted

\* Where those are that were inserted.
LEMMA InsertedAt ==
  ASSUME NEW S, NEW s \in Seq(S), NEW bytes \in Seq(S), NEW w \in 0..Len(s)
  PROVE  \A k \in (w + 1)..(w + Len(bytes)) : Inserted(s, bytes, w)[k] = bytes[k - w]
<1> DEFINE a == SubSeq(s, 1, w)
           c == SubSeq(s, w + 1, Len(s))
<1>1. a \in Seq(S) /\ Len(a) = w /\ c \in Seq(S)
  OBVIOUS
<1> HIDE DEF a, c
<1>2. \A k \in (Len(a) + 1)..(Len(a) + Len(bytes)) : (a \o bytes \o c)[k] = bytes[k - Len(a)]
  BY <1>1, ThreeParts
<1>3. \A k \in (w + 1)..(w + Len(bytes)) : (a \o bytes \o c)[k] = bytes[k - w]
  BY <1>1, <1>2
<1> QED BY <1>3 DEF a, c, Inserted

\* Push.
LEMMA PushFacts ==
  ASSUME BufferInv, NEW bytes \in Seq(Byte), Push(bytes)
  PROVE  /\ BufferInv' /\ [Abstract!Push]_<<Unread, out>>
         /\ Unread' = Unread \o bytes
<1>0. /\ ReadAt \in Int /\ Wrap \in Nat /\ MaxBlocks \in Nat /\ ReadAt <= writeIndex
      /\ writeIndex \in Nat /\ MaxPushed \in Nat /\ pushed \in 0..MaxPushed
      /\ MaxPushed < Wrap - MaxBlocks
      /\ readIndex = ReadAt \/ (ReadAt < 0 /\ readIndex = ReadAt + Wrap)
      /\ blocks \in 0..MaxBlocks /\ ReadAt >= -blocks
      /\ InitSize + MaxPushed + MaxBlocks < Wrap /\ InitSize \in Nat
  BY BufferNumbers, SizesAssumption
<1>1. /\ writeIndex <= pushed /\ writeIndex <= Len(buffer) /\ Len(buffer) <= InitSize + pushed
      /\ buffer \in Seq(Bytes) /\ Len(buffer) \in Nat /\ bytes \in Seq(Bytes) /\ Len(bytes) \in Nat
      /\ in \in Seq(Bytes) /\ out \in Seq(Bytes)
  BY DEF BufferInv, BufferTypeOK, Bytes
<1>2. /\ pushed' = pushed + Len(bytes) /\ pushed + Len(bytes) <= MaxPushed
      /\ in' = in \o bytes /\ readIndex' = readIndex /\ UNCHANGED <<out, blocks>>
      /\ buffer' = SubSeq(buffer, 1, writeIndex) \o bytes
                      \o SubSeq(buffer, writeIndex + 1, Len(buffer))
      /\ writeIndex' = (writeIndex + Len(bytes)) % Wrap
  BY DEF Push, Write
<1>14. /\ Len(bytes) \in Nat /\ writeIndex \in Nat /\ pushed \in Nat /\ MaxPushed \in Nat /\ Wrap \in Nat
       /\ writeIndex <= pushed /\ pushed + Len(bytes) <= MaxPushed /\ MaxPushed < Wrap
       /\ Len(buffer) \in Nat /\ writeIndex <= Len(buffer)
       /\ Len(buffer) <= InitSize + pushed /\ InitSize \in Nat
  <2>1. MaxPushed < Wrap
    BY <1>0
  <2> QED BY <1>0, <1>1, <1>2, <2>1
<1>3. writeIndex' = writeIndex + Len(bytes)
  <2> DEFINE x == writeIndex + Len(bytes)
  <2>1. x \in Int /\ 0 <= x /\ x < Wrap /\ x < Wrap + Wrap /\ -Wrap <= x /\ Wrap \in Nat \ {0}
    BY <1>14
  <2> HIDE DEF x
  <2>2. x % Wrap = x
    BY <2>1, WrapFacts
  <2> QED BY <1>2, <2>2 DEF x
<1>4. /\ buffer' \in Seq(Bytes) /\ Len(buffer') = Len(buffer) + Len(bytes)
      /\ \A k \in 1..writeIndex : buffer'[k] = buffer[k]
      /\ \A k \in (writeIndex + 1)..(writeIndex + Len(bytes)) : buffer'[k] = bytes[k - writeIndex]
  <2>1. writeIndex \in 0..Len(buffer)
    BY <1>0, <1>1
  <2> DEFINE r == Inserted(buffer, bytes, writeIndex)
  <2>2. buffer \in Seq(Bytes) /\ bytes \in Seq(Bytes)
    BY <1>1
  <2>3. r \in Seq(Bytes) /\ Len(r) = Len(buffer) + Len(bytes)
    BY <2>1, <2>2, InsertedFacts
  <2>4. \A k \in 1..writeIndex : r[k] = buffer[k]
    BY <2>1, <2>2, InsertedFacts
  <2>5. \A k \in (writeIndex + 1)..(writeIndex + Len(bytes)) : r[k] = bytes[k - writeIndex]
    BY <2>1, <2>2, InsertedAt
  <2>6. buffer' = r
    BY <1>2 DEF Inserted
  <2> HIDE DEF r
  <2> QED BY <2>3, <2>4, <2>5, <2>6
<1>5. ReadAt' = ReadAt /\ ReadAt <= writeIndex'
  <2>1. /\ ReadAt \in Int /\ ReadAt <= writeIndex /\ writeIndex \in Nat /\ Wrap \in Nat
        /\ Len(bytes) \in Nat /\ writeIndex' = writeIndex + Len(bytes) /\ readIndex' = readIndex
    BY <1>0, <1>1, <1>2, <1>3
  <2>2. writeIndex' \in Nat /\ ReadAt <= writeIndex'
    BY <2>1
  <2>3. ReadAt' = IF readIndex > writeIndex' THEN readIndex - Wrap ELSE readIndex
    BY <2>1 DEF ReadAt
  <2>4. CASE readIndex = ReadAt
    <3>1. ~(readIndex > writeIndex')
      BY <2>1, <2>2, <2>4
    <3> QED BY <2>2, <2>3, <2>4, <3>1
  <2>5. CASE ReadAt < 0 /\ readIndex = ReadAt + Wrap
    <3>1. /\ pushed \in 0..MaxPushed /\ pushed' = pushed + Len(bytes) /\ pushed + Len(bytes) <= MaxPushed
          /\ writeIndex <= pushed /\ MaxPushed < Wrap - MaxBlocks /\ MaxPushed \in Nat /\ MaxBlocks \in Nat
          /\ blocks \in 0..MaxBlocks /\ ReadAt >= -blocks
      BY <1>0, <1>1, <1>2
    <3>2. readIndex > writeIndex'
      BY <2>1, <2>5, <3>1
    <3>3. readIndex - Wrap = ReadAt
      BY <2>1, <2>5
    <3> QED BY <2>2, <2>3, <3>2, <3>3
  <2> QED BY <1>0, <2>4, <2>5
<1>6. BufferTypeOK'
  <2>1. in' \in Seq(Bytes)
    BY <1>1, <1>2, ConcatIndex
  <2>2. /\ writeIndex' \in 0..(Wrap - 1) /\ pushed' \in 0..MaxPushed
        /\ readIndex' \in 0..(Wrap - 1) /\ blocks' \in 0..MaxBlocks
    <3>1. writeIndex' \in 0..(Wrap - 1) /\ pushed' \in 0..MaxPushed
      BY <1>2, <1>3, <1>14
    <3>2. readIndex' \in 0..(Wrap - 1) /\ blocks' \in 0..MaxBlocks
      BY <1>2, BufferNumbers
    <3> QED BY <3>1, <3>2
  <2> QED BY <1>1, <1>2, <1>4, <2>1, <2>2 DEF BufferTypeOK, Bytes
<1>7. BufferInv'
  <2>1. readIndex' <= writeIndex' \/ readIndex' >= Wrap - blocks'
    <3>1. readIndex <= writeIndex \/ readIndex >= Wrap - blocks
      BY DEF BufferInv
    <3>2. writeIndex <= writeIndex' /\ readIndex \in Int /\ writeIndex' \in Int
      BY <1>0, <1>1, <1>3, BufferNumbers
    <3> QED BY <1>0, <1>2, <3>1, <3>2
  <2>2. /\ writeIndex' <= pushed' /\ writeIndex' <= Len(buffer') /\ Len(buffer') <= InitSize + pushed'
    <3>1. pushed' = pushed + Len(bytes) /\ Len(buffer') = Len(buffer) + Len(bytes)
      BY <1>2, <1>4
    <3> QED BY <1>3, <1>14, <3>1
  <2> QED BY <1>6, <2>1, <2>2 DEF BufferInv
<1>8. /\ Unread' \in Seq(Bytes) /\ Len(Unread') = writeIndex' - ReadAt
      /\ \A k \in 1..(writeIndex' - ReadAt) :
            Unread'[k] = IF ReadAt + k >= 1 THEN buffer'[ReadAt + k] ELSE Junk
  BY <1>5, <1>7, UnreadNext
<1>9. /\ Unread \in Seq(Bytes) /\ Len(Unread) = writeIndex - ReadAt
      /\ \A k \in 1..(writeIndex - ReadAt) :
            Unread[k] = IF ReadAt + k >= 1 THEN buffer[ReadAt + k] ELSE Junk
  BY UnreadFacts
<1>10. Len(Unread') = Len(Unread) + Len(bytes)
  BY <1>0, <1>1, <1>3, <1>8, <1>9
<1>11. ASSUME NEW k \in 1..Len(Unread) PROVE Unread'[k] = Unread[k]
  <2>1. k \in 1..(writeIndex - ReadAt) /\ k \in 1..(writeIndex' - ReadAt)
    BY <1>0, <1>1, <1>3, <1>9
  <2>2. ReadAt + k >= 1 => ReadAt + k \in 1..writeIndex
    BY <1>0, <2>1
  <2> QED BY <1>4, <1>8, <1>9, <2>1, <2>2
<1>12. ASSUME Len(bytes) = 0 PROVE [Abstract!Push]_<<Unread, out>>
  <2>1. Unread' = Unread
    BY <1>8, <1>9, <1>10, <1>11, <1>12, SeqEqual
  <2> QED BY <1>2, <2>1
<1>13. ASSUME Len(bytes) # 0 PROVE [Abstract!Push]_<<Unread, out>>
  <2>1. Len(Unread') > Len(Unread)
    BY <1>1, <1>8, <1>9, <1>10, <1>13
  <2>2. SubSeq(Unread', 1, Len(Unread)) = Unread
    <3> DEFINE u == SubSeq(Unread', 1, Len(Unread))
    <3>1. Len(Unread) \in 0..Len(Unread')
      BY <1>8, <1>9, <2>1
    <3>2. u \in Seq(Bytes) /\ Len(u) = Len(Unread) /\ \A k \in 1..Len(Unread) : u[k] = Unread'[k]
      BY <1>8, <3>1
    <3> HIDE DEF u
    <3>3. u = Unread
      BY <1>9, <1>11, <3>2, SeqEqual
    <3> QED BY <3>3 DEF u
  <2> QED BY <1>2, <2>1, <2>2 DEF Abstract!Push
<1>15. Unread' = Unread \o bytes
  <2> DEFINE t == Unread \o bytes
  <2>1. /\ t \in Seq(Bytes) /\ Len(t) = Len(Unread) + Len(bytes)
        /\ \A k \in 1..Len(t) : t[k] = IF k <= Len(Unread) THEN Unread[k] ELSE bytes[k - Len(Unread)]
    BY <1>1, <1>9, ConcatIndex
  <2> HIDE DEF t
  <2>2. ASSUME NEW k \in 1..Len(t) PROVE Unread'[k] = t[k]
    <3>1. Len(Unread) = writeIndex - ReadAt /\ k \in 1..(writeIndex' - ReadAt)
      BY <1>8, <1>9, <1>10, <2>1
    <3>2. CASE k <= Len(Unread)
      BY <1>9, <1>11, <2>1, <3>2
    <3>3. CASE k > Len(Unread)
      <4>1. /\ ReadAt + k \in (writeIndex + 1)..(writeIndex + Len(bytes)) /\ ReadAt + k >= 1
            /\ (ReadAt + k) - writeIndex = k - Len(Unread) /\ ~(k <= Len(Unread))
        BY <1>0, <1>1, <1>9, <2>1, <3>1, <3>3
      <4>2. Unread'[k] = buffer'[ReadAt + k]
        BY <1>8, <3>1, <4>1
      <4>3. t[k] = bytes[k - Len(Unread)]
        BY <2>1, <4>1
      <4> QED BY <1>4, <4>1, <4>2, <4>3
    <3> QED BY <1>9, <2>1, <3>2, <3>3
  <2>3. Unread' = t
    BY <1>8, <1>10, <2>1, <2>2, SeqEqual
  <2> QED BY <2>3 DEF t
<1> QED BY <1>7, <1>12, <1>13, <1>15

\* Taking count bytes from the head, by PopHead or by a write to the socket.
LEMMA TakeFacts ==
  ASSUME BufferInv, NEW h \in Seq(Bytes), Len(h) <= Len(Unread),
         \A k \in 1..Len(h) : h[k] = Unread[k], UpdateReadIndex(Len(h)),
         out' = out \o h, UNCHANGED <<in, pushed, blocks>>
  PROVE  /\ BufferInv' /\ [Abstract!Take]_<<Unread, out>>
         /\ out' \o Unread' = out \o Unread
<1> DEFINE count == Len(h)
<1>1. /\ count \in Nat /\ Unread \in Seq(Bytes) /\ in \in Seq(Bytes) /\ out \in Seq(Bytes)
      /\ Len(Unread) \in Nat /\ blocks \in 0..MaxBlocks /\ MaxBlocks \in Nat
      /\ ReadAt \in Int /\ ReadAt >= -blocks
  <2>1. count \in Nat
    OBVIOUS
  <2>2. in \in Seq(Bytes) /\ out \in Seq(Bytes)
    BY DEF BufferInv, BufferTypeOK, Bytes
  <2>3. Unread \in Seq(Bytes) /\ Len(Unread) \in Nat
    BY UnreadFacts
  <2> HIDE DEF count
  <2>4. blocks \in 0..MaxBlocks /\ MaxBlocks \in Nat /\ ReadAt \in Int /\ ReadAt >= -blocks
    BY BufferNumbers
  <2> QED BY <2>1, <2>2, <2>3, <2>4
<1>2. /\ count \in Int /\ -1 <= count /\ count <= Len(Unread) /\ UpdateReadIndex(count)
      /\ pushed' = pushed /\ blocks' \in blocks..MaxBlocks /\ ReadAt + count >= -blocks'
  BY <1>1
<1>3. in' \in Seq(Bytes) /\ out' \in Seq(Bytes)
  BY <1>1, ConcatIndex
<1> HIDE DEF count
<1>4. /\ BufferInv'
      /\ Unread' \in Seq(Bytes) /\ Len(Unread') = Len(Unread) - count
      /\ \A k \in 1..(Len(Unread) - count) : k + count >= 1 => Unread'[k] = Unread[k + count]
  BY <1>2, <1>3, AdvanceFacts
<1>5. out' \o Unread' = out \o Unread
  <2>1. Len(h) + Len(Unread') = Len(Unread) /\ count = Len(h)
    BY <1>1, <1>4 DEF count
  <2>2. ASSUME NEW k \in 1..Len(Unread') PROVE Unread'[k] = Unread[k + Len(h)]
    <3>1. k \in 1..(Len(Unread) - count) /\ k + count >= 1
      BY <1>1, <1>4
    <3> QED BY <1>4, <2>1, <3>1
  <2>3. (out \o h) \o Unread' = out \o Unread
    <3> DEFINE t == Unread'
               s == Unread
    <3>1. t \in Seq(Bytes) /\ s \in Seq(Bytes) /\ out \in Seq(Bytes)
      BY <1>1, <1>4
    <3>2. /\ Len(h) + Len(t) = Len(s) /\ \A k \in 1..Len(h) : h[k] = s[k]
          /\ \A k \in 1..Len(t) : t[k] = s[k + Len(h)]
      BY <2>1, <2>2
    <3> HIDE DEF t, s
    <3>3. h \o t = s
      BY <3>1, <3>2, SplitFacts
    <3>4. (out \o h) \o t = out \o (h \o t)
      BY <3>1, ConcatAssociative
    <3> QED BY <3>3, <3>4 DEF t, s
  <2> QED BY <2>3
<1>6. CASE count = 0
  <2>1. h = <<>>
    BY <1>6 DEF count
  <2>2. out' = out
    BY <1>1, <2>1, ConcatEmptySeq
  <2>3. \A k \in 1..Len(Unread) : Unread'[k] = Unread[k]
    BY <1>1, <1>4, <1>6
  <2>4. Unread' = Unread
    BY <1>1, <1>4, <1>6, <2>3, SeqEqual
  <2> QED BY <1>4, <2>2, <2>4
<1>7. CASE count # 0
  <2>1. Len(Unread') < Len(Unread)
    BY <1>1, <1>4, <1>7
  <2> QED BY <1>4, <1>5, <2>1 DEF Abstract!Take
<1> QED BY <1>5, <1>6, <1>7

\* PopHead.
LEMMA PopHeadFacts ==
  ASSUME BufferInv, NEW n \in 1..Chunk, PopHead(n)
  PROVE  /\ BufferInv' /\ [Abstract!Take]_<<Unread, out>>
         /\ out' \o Unread' = out \o Unread
<1> DEFINE h == Read(n)
<1>1. /\ h \in Seq(Bytes) /\ Len(h) = ReadLen(n) /\ ReadLen(n) \in 0..Len(Unread)
      /\ \A k \in 1..ReadLen(n) : h[k] = Unread[k]
  BY ReadFacts
<1>2. out' = out \o h /\ UpdateReadIndex(ReadLen(n)) /\ UNCHANGED <<in, pushed, blocks>>
  BY DEF PopHead
<1> HIDE DEF h
<1>3. /\ Len(h) <= Len(Unread) /\ UpdateReadIndex(Len(h))
      /\ \A k \in 1..Len(h) : h[k] = Unread[k]
  BY <1>1, <1>2
<1> QED BY <1>1, <1>2, <1>3, TakeFacts

\* The socket takes some of what writeHandler offers.
LEMMA SendFacts ==
  ASSUME BufferInv, NEW n \in 1..Chunk, Send(n)
  PROVE  /\ BufferInv' /\ [Abstract!Take]_<<Unread, out>>
         /\ out' \o Unread' = out \o Unread
<1> DEFINE offered == Read(Chunk)
           h == SubSeq(offered, 1, n)
<1>1. /\ offered \in Seq(Bytes) /\ Len(offered) = ReadLen(Chunk) /\ ReadLen(Chunk) \in 0..Len(Unread)
      /\ \A k \in 1..ReadLen(Chunk) : offered[k] = Unread[k]
  <2>1. Chunk \in 1..Chunk
    BY SizesAssumption
  <2> QED BY <2>1, ReadFacts
<1>2. /\ out' = out \o h /\ UpdateReadIndex(n)
      /\ UNCHANGED <<in, pushed, blocks>> /\ n \in 1..ReadLen(Chunk)
  BY DEF Send
<1> HIDE DEF offered
<1>3. h \in Seq(Bytes) /\ Len(h) = n /\ \A k \in 1..n : h[k] = offered[k]
  BY <1>1, <1>2
<1> HIDE DEF h
<1>4. Len(Unread) \in Nat
  BY UnreadFacts
<1>5. /\ Len(h) <= Len(Unread) /\ UpdateReadIndex(Len(h))
      /\ \A k \in 1..Len(h) : h[k] = Unread[k]
  BY <1>1, <1>2, <1>3, <1>4
<1> QED BY <1>2, <1>3, <1>5, TakeFacts

\* The socket would have blocked.
LEMMA SendBlocksFacts ==
  ASSUME BufferInv, SendBlocks
  PROVE  BufferInv' /\ Abstract!Repeat
<1>1. /\ blocks < MaxBlocks /\ blocks' = blocks + 1 /\ UpdateReadIndex(-1)
      /\ UNCHANGED <<in, out, pushed>>
  BY DEF SendBlocks
<1>2. /\ Unread \in Seq(Bytes) /\ in \in Seq(Bytes) /\ out \in Seq(Bytes)
      /\ Len(Unread) \in Nat /\ blocks \in 0..MaxBlocks /\ MaxBlocks \in Nat
      /\ ReadAt \in Int /\ ReadAt >= -blocks
  BY UnreadFacts, BufferNumbers DEF BufferInv, BufferTypeOK, Bytes
<1>3. /\ -1 \in Int /\ -1 <= -1 /\ -1 <= Len(Unread) /\ blocks' \in blocks..MaxBlocks
      /\ ReadAt + (-1) >= -blocks' /\ in' \in Seq(Bytes) /\ out' \in Seq(Bytes)
  BY <1>1, <1>2
<1>4. /\ BufferInv'
      /\ Unread' \in Seq(Bytes) /\ Len(Unread') = Len(Unread) - (-1)
      /\ \A k \in 1..(Len(Unread) - (-1)) : k + (-1) >= 1 => Unread'[k] = Unread[k + (-1)]
  BY <1>1, <1>3, AdvanceFacts
<1>5. Len(Unread') = Len(Unread) + 1 /\ Unread' # <<>>
  BY <1>2, <1>4
<1>6. Tail(Unread') = Unread
  <2> DEFINE t == Tail(Unread')
  <2>1. t \in Seq(Bytes) /\ Len(t) = Len(Unread) /\ \A k \in 1..Len(Unread) : t[k] = Unread'[k + 1]
    BY <1>2, <1>4, <1>5
  <2>2. ASSUME NEW k \in 1..Len(Unread) PROVE Unread'[k + 1] = Unread[k]
    <3>1. k + 1 \in 1..(Len(Unread) - (-1)) /\ (k + 1) + (-1) >= 1 /\ (k + 1) + (-1) = k
      BY <1>2
    <3> QED BY <1>4, <3>1
  <2> HIDE DEF t
  <2>3. t = Unread
    BY <1>2, <2>1, <2>2, SeqEqual
  <2> QED BY <2>3 DEF t
<1> QED BY <1>1, <1>4, <1>5, <1>6 DEF Abstract!Repeat

\* Reset.
LEMMA ResetFacts ==
  ASSUME BufferInv, BufferReset
  PROVE  BufferInv' /\ Abstract!Clear
<1>1. /\ readIndex' = 0 /\ writeIndex' = 0 /\ buffer' = <<>> /\ in' = out
      /\ UNCHANGED <<out, pushed, blocks>>
  BY DEF BufferReset
<1>2. BufferTypeOK'
  <2>1. BufferTypeOK
    BY DEF BufferInv
  <2>2. 0 \in 0..(Wrap - 1)
    <3>1. readIndex \in 0..(Wrap - 1) /\ Wrap \in Nat
      BY BufferNumbers
    <3> QED BY <3>1
  <2>3. <<>> \in Seq(Byte \cup {Junk})
    OBVIOUS
  <2>4. /\ out \in Seq(Byte \cup {Junk}) /\ pushed \in 0..MaxPushed /\ blocks \in 0..MaxBlocks
    BY <2>1 DEF BufferTypeOK
  <2> QED BY <1>1, <2>2, <2>3, <2>4 DEF BufferTypeOK
<1>3. BufferInv'
  <2>1. Len(buffer') = 0 /\ InitSize + pushed \in Nat /\ pushed \in Nat
    BY <1>1, BufferNumbers
  <2> QED BY <1>1, <1>2, <2>1 DEF BufferInv
<1>4. ReadAt' = 0
  BY <1>1 DEF ReadAt
<1>5. Unread' \in Seq(Bytes) /\ Len(Unread') = 0
  BY <1>1, <1>3, <1>4, UnreadNext
<1>6. Unread' = <<>>
  BY <1>5
<1> QED BY <1>1, <1>3, <1>6 DEF Abstract!Clear

\* Every step keeps the invariant and is one of the queue's.
LEMMA NextBufferInv ==
  BufferInv /\ [BufferNext]_bufferVars
    => /\ BufferInv'
       /\ [Abstract!Push \/ Abstract!Take \/ Abstract!Clear \/ Abstract!Repeat]_<<Unread, out>>
<1> SUFFICES ASSUME BufferInv, [BufferNext]_bufferVars
             PROVE  /\ BufferInv'
                    /\ [Abstract!Push \/ Abstract!Take \/ Abstract!Clear \/ Abstract!Repeat]_<<Unread, out>>
  OBVIOUS
<1>1. ASSUME NEW bytes \in BoundedSeq(Byte, MaxPushed), Push(bytes)
      PROVE  BufferInv' /\ [Abstract!Push]_<<Unread, out>>
  <2>1. bytes \in Seq(Byte)
    <3>1. PICK m \in 0..MaxPushed : bytes \in [1..m -> Byte]
      BY DEF BoundedSeq, SeqOf
    <3> QED BY <3>1, SizesAssumption, ListedFacts
  <2> QED BY <1>1, <2>1, PushFacts
<1>2. ASSUME NEW n \in 1..Chunk, PopHead(n) \/ Send(n)
      PROVE  BufferInv' /\ [Abstract!Take]_<<Unread, out>>
  BY <1>2, PopHeadFacts, SendFacts
<1>3. CASE UNCHANGED bufferVars
  BY <1>3 DEF bufferVars, BufferInv, BufferTypeOK, Unread
<1>4. CASE SendBlocks \/ BufferReset
  BY <1>4, SendBlocksFacts, ResetFacts
<1> QED BY <1>1, <1>2, <1>3, <1>4 DEF BufferNext

\* The indices stay where the bytes are, and blocks bounds how far below zero.
THEOREM BufferInvHolds == BufferSpec => []BufferInv
<1>1. BufferInit => BufferInv
  BY InitBufferInv
<1>2. BufferInv /\ [BufferNext]_bufferVars => BufferInv'
  BY NextBufferInv
<1> QED BY <1>1, <1>2, PTL DEF BufferSpec

(***************************************************************************)
(* A Buffer is a queue of bytes: each byte that was pushed comes out once  *)
(* and in order, but for what is repeated after the socket has blocked     *)
(* (buffer.cpp; tcp_connection.cpp, writeHandler).                         *)
(***************************************************************************)
THEOREM BufferIsByteQueue == BufferSpec => ImplementsByteQueue
<1>1. BufferInit => Abstract!Init
  BY InitBufferInv DEF Abstract!Init, BufferInit
<1>2. BufferInv /\ [BufferNext]_bufferVars
        => [Abstract!Push \/ Abstract!Take \/ Abstract!Clear \/ Abstract!Repeat]_(Abstract!vars)
  BY NextBufferInv DEF Abstract!vars
<1> QED BY <1>1, <1>2, BufferInvHolds, PTL DEF BufferSpec, ImplementsByteQueue, Abstract!Spec

\* What is found in order is still found when the same bytes are added to both.
LEMMA WithinPushed ==
  ASSUME NEW S, NEW s \in Seq(S), NEW t \in Seq(S), NEW u \in Seq(S), Within(s, t)
  PROVE  Within(s \o u, t \o u)
<1>0. /\ Len(s) \in Nat /\ Len(t) \in Nat /\ Len(u) \in Nat
      /\ DOMAIN s = 1..Len(s) /\ DOMAIN t = 1..Len(t)
  OBVIOUS
<1>1. PICK at \in [1..Len(s) -> 1..Len(t)] :
          /\ \A m, n \in 1..Len(s) : m < n => at[m] < at[n]
          /\ \A m \in 1..Len(s) : t[at[m]] = s[m]
  BY <1>0 DEF Within
<1> DEFINE su == s \o u
           tu == t \o u
           to == [m \in 1..(Len(s) + Len(u)) |->
                     IF m <= Len(s) THEN at[m] ELSE Len(t) + (m - Len(s))]
<1>2. /\ Len(su) = Len(s) + Len(u) /\ DOMAIN su = 1..(Len(s) + Len(u))
      /\ \A m \in 1..(Len(s) + Len(u)) : su[m] = IF m <= Len(s) THEN s[m] ELSE u[m - Len(s)]
  BY <1>0, ConcatIndex
<1>3. /\ Len(tu) = Len(t) + Len(u) /\ DOMAIN tu = 1..(Len(t) + Len(u))
      /\ \A m \in 1..(Len(t) + Len(u)) : tu[m] = IF m <= Len(t) THEN t[m] ELSE u[m - Len(t)]
  BY <1>0, ConcatIndex
<1> HIDE DEF su, tu
<1>4. \A m \in 1..(Len(s) + Len(u)) :
          /\ m <= Len(s) => m \in 1..Len(s) /\ at[m] \in 1..Len(t) /\ to[m] = at[m]
          /\ m > Len(s) => m - Len(s) \in 1..Len(u) /\ to[m] = Len(t) + (m - Len(s))
  <2> SUFFICES ASSUME NEW m \in 1..(Len(s) + Len(u))
               PROVE  /\ m <= Len(s) => m \in 1..Len(s) /\ at[m] \in 1..Len(t) /\ to[m] = at[m]
                      /\ m > Len(s) => /\ m - Len(s) \in 1..Len(u)
                                       /\ to[m] = Len(t) + (m - Len(s))
    OBVIOUS
  <2>1. to[m] = IF m <= Len(s) THEN at[m] ELSE Len(t) + (m - Len(s))
    OBVIOUS
  <2> HIDE DEF to
  <2>2. /\ m <= Len(s) => m \in 1..Len(s)
        /\ m > Len(s) => m - Len(s) \in 1..Len(u) /\ ~(m <= Len(s))
    BY <1>0
  <2>3. m \in 1..Len(s) => at[m] \in 1..Len(t)
    BY <1>1
  <2> QED BY <2>1, <2>2, <2>3
<1> HIDE DEF to
<1>5. \A m \in 1..(Len(s) + Len(u)) : to[m] \in 1..(Len(t) + Len(u))
  BY <1>0, <1>4
<1>6. to \in [1..(Len(s) + Len(u)) -> 1..(Len(t) + Len(u))]
  BY <1>5 DEF to
<1>7. \A m, n \in 1..(Len(s) + Len(u)) : m < n => to[m] < to[n]
  <2> SUFFICES ASSUME NEW m \in 1..(Len(s) + Len(u)), NEW n \in 1..(Len(s) + Len(u)), m < n
               PROVE  to[m] < to[n]
    OBVIOUS
  <2>1. CASE n <= Len(s)
    <3>1. m <= Len(s) /\ m \in 1..Len(s) /\ n \in 1..Len(s)
      BY <1>0, <2>1
    <3>2. to[m] = at[m] /\ to[n] = at[n]
      BY <1>4, <2>1, <3>1
    <3> QED BY <1>1, <3>1, <3>2
  <2>2. CASE n > Len(s) /\ m <= Len(s)
    <3>1. to[m] \in 1..Len(t) /\ to[n] = Len(t) + (n - Len(s)) /\ n - Len(s) \in 1..Len(u)
      BY <1>4, <2>2
    <3> QED BY <1>0, <3>1
  <2>3. CASE n > Len(s) /\ m > Len(s)
    <3>1. to[m] = Len(t) + (m - Len(s)) /\ to[n] = Len(t) + (n - Len(s))
      BY <1>4, <2>3
    <3> QED BY <1>0, <3>1
  <2> QED BY <1>0, <2>1, <2>2, <2>3
<1>8. ASSUME NEW m \in 1..(Len(s) + Len(u)) PROVE tu[to[m]] = su[m]
  <2>1. CASE m <= Len(s)
    <3>1. /\ m \in 1..Len(s) /\ to[m] = at[m] /\ at[m] \in 1..Len(t)
          /\ at[m] \in 1..(Len(t) + Len(u)) /\ at[m] <= Len(t)
      BY <1>0, <1>4, <2>1
    <3>2. tu[at[m]] = t[at[m]] /\ su[m] = s[m]
      BY <1>2, <1>3, <2>1, <3>1
    <3> QED BY <1>1, <3>1, <3>2
  <2>2. CASE m > Len(s)
    <3> DEFINE k == to[m]
    <3>1. /\ k \in 1..(Len(t) + Len(u)) /\ ~(k <= Len(t)) /\ k - Len(t) = m - Len(s)
          /\ ~(m <= Len(s))
      BY <1>0, <1>4, <1>5, <2>2
    <3> HIDE DEF k
    <3>2. tu[k] = u[k - Len(t)] /\ su[m] = u[m - Len(s)]
      BY <1>2, <1>3, <3>1
    <3> QED BY <3>1, <3>2 DEF k
  <2> QED BY <1>0, <2>1, <2>2
<1>9. Within(su, tu)
  BY <1>2, <1>3, <1>6, <1>7, <1>8 DEF Within
<1> QED BY <1>9 DEF su, tu

\* It is still found when a byte is put in between.
LEMMA WithinRepeated ==
  ASSUME NEW S, NEW s \in Seq(S), NEW t \in Seq(S), NEW q \in Seq(S), NEW r \in Seq(S),
         Len(r) = Len(q) + 1, \A k \in 1..Len(q) : r[k + 1] = q[k],
         Within(s, t \o q)
  PROVE  Within(s, t \o r)
<1>0. /\ Len(s) \in Nat /\ Len(t) \in Nat /\ Len(q) \in Nat /\ DOMAIN s = 1..Len(s)
  OBVIOUS
<1> DEFINE tq == t \o q
           tr == t \o r
<1>1. /\ DOMAIN tq = 1..(Len(t) + Len(q))
      /\ \A m \in 1..(Len(t) + Len(q)) : tq[m] = IF m <= Len(t) THEN t[m] ELSE q[m - Len(t)]
  BY <1>0, ConcatIndex
<1>2. /\ DOMAIN tr = 1..(Len(t) + Len(q) + 1)
      /\ \A m \in 1..(Len(t) + Len(q) + 1) : tr[m] = IF m <= Len(t) THEN t[m] ELSE r[m - Len(t)]
  <2>1. Len(tr) = Len(t) + Len(r) /\ DOMAIN tr = 1..Len(tr)
        /\ \A m \in 1..Len(tr) : tr[m] = IF m <= Len(t) THEN t[m] ELSE r[m - Len(t)]
    BY ConcatIndex
  <2> HIDE DEF tr
  <2>2. Len(tr) = Len(t) + Len(q) + 1
    BY <1>0, <2>1
  <2> QED BY <2>1, <2>2
<1>3. Within(s, tq)
  OBVIOUS
<1> HIDE DEF tq, tr
<1>4. PICK at \in [1..Len(s) -> 1..(Len(t) + Len(q))] :
          /\ \A m, n \in 1..Len(s) : m < n => at[m] < at[n]
          /\ \A m \in 1..Len(s) : tq[at[m]] = s[m]
  BY <1>0, <1>1, <1>3 DEF Within
<1> DEFINE moved(k) == IF k <= Len(t) THEN k ELSE k + 1
           to == [m \in 1..Len(s) |-> moved(at[m])]
<1>5. \A k \in 1..(Len(t) + Len(q)) : moved(k) \in 1..(Len(t) + Len(q) + 1)
  BY <1>0
<1>6. ASSUME NEW k \in 1..(Len(t) + Len(q)) PROVE tr[moved(k)] = tq[k]
  <2>1. CASE k <= Len(t)
    BY <1>0, <1>1, <1>2, <1>5, <2>1
  <2>2. CASE k > Len(t)
    <3>1. /\ moved(k) = k + 1 /\ ~(k <= Len(t)) /\ ~(k + 1 <= Len(t))
          /\ k + 1 \in 1..(Len(t) + Len(q) + 1) /\ k - Len(t) \in 1..Len(q)
          /\ (k + 1) - Len(t) = (k - Len(t)) + 1
      BY <1>0, <2>2
    <3>2. tr[k + 1] = r[(k + 1) - Len(t)] /\ tq[k] = q[k - Len(t)]
      BY <1>1, <1>2, <3>1
    <3>3. r[(k - Len(t)) + 1] = q[k - Len(t)]
      BY <3>1
    <3> QED BY <3>1, <3>2, <3>3
  <2> QED BY <1>0, <2>1, <2>2
<1>7. \A k, m \in 1..(Len(t) + Len(q)) : k < m => moved(k) < moved(m)
  BY <1>0
<1> HIDE DEF moved
<1>8. /\ to \in [1..Len(s) -> 1..(Len(t) + Len(q) + 1)]
      /\ \A m, n \in 1..Len(s) : m < n => to[m] < to[n]
      /\ \A m \in 1..Len(s) : tr[to[m]] = s[m]
  BY <1>0, <1>4, <1>5, <1>6, <1>7
<1>9. Within(s, tr)
  BY <1>0, <1>2, <1>8 DEF Within
<1> QED BY <1>9 DEF tr

\* Every byte is found where it is.
LEMMA WithinItself ==
  ASSUME NEW S, NEW s \in Seq(S)
  PROVE  Within(s, s)
<1> DEFINE at == [m \in DOMAIN s |-> m]
<1>1. DOMAIN s = 1..Len(s) /\ Len(s) \in Nat
  OBVIOUS
<1>2. /\ at \in [DOMAIN s -> DOMAIN s]
      /\ \A m, n \in DOMAIN s : m < n => at[m] < at[n]
      /\ \A m \in DOMAIN s : s[at[m]] = s[m]
  BY <1>1
<1> QED BY <1>2 DEF Within

(***************************************************************************)
(* However often the socket blocks, every byte that was pushed comes out,  *)
(* or is still inside, after those pushed before it (buffer.cpp;           *)
(* tcp_connection.cpp, writeHandler).                                      *)
(***************************************************************************)
THEOREM NothingLostHolds == BufferSpec => []NothingLost
<1>1. BufferInit => NothingLost
  <2> SUFFICES ASSUME BufferInit PROVE Within(in, out \o Unread)
    BY DEF NothingLost
  <2>1. in = <<>> /\ out = <<>> /\ Unread = <<>>
    BY InitBufferInv DEF BufferInit
  <2>2. <<>> \in Seq(Bytes) /\ <<>> \o <<>> = <<>>
    OBVIOUS
  <2> QED BY <2>1, <2>2, WithinItself
<1>2. BufferInv /\ NothingLost /\ [BufferNext]_bufferVars => NothingLost'
  <2> SUFFICES ASSUME BufferInv, NothingLost, [BufferNext]_bufferVars
               PROVE  Within(in', out' \o Unread')
    BY DEF NothingLost
  <2>t. in \in Seq(Bytes) /\ out \in Seq(Bytes) /\ Unread \in Seq(Bytes)
    BY UnreadFacts DEF BufferInv, BufferTypeOK, Bytes
  <2>1. ASSUME NEW bytes \in BoundedSeq(Byte, MaxPushed), Push(bytes)
        PROVE  Within(in', out' \o Unread')
    <3>1. bytes \in Seq(Byte)
      <4>1. PICK m \in 0..MaxPushed : bytes \in [1..m -> Byte]
        BY DEF BoundedSeq, SeqOf
      <4> QED BY <4>1, SizesAssumption, ListedFacts
    <3>2. bytes \in Seq(Bytes)
      BY <3>1 DEF Bytes
    <3>3. in' = in \o bytes /\ out' = out /\ Unread' = Unread \o bytes
      BY <2>1, <3>1, PushFacts DEF Push
    <3>4. out \o Unread \in Seq(Bytes) /\ (out \o Unread) \o bytes = out \o (Unread \o bytes)
      BY <2>t, <3>2, ConcatIndex, ConcatAssociative
    <3>5. Within(in \o bytes, (out \o Unread) \o bytes)
      BY <2>t, <3>2, <3>4, WithinPushed DEF NothingLost
    <3> QED BY <3>3, <3>4, <3>5
  <2>2. ASSUME NEW n \in 1..Chunk, PopHead(n) \/ Send(n)
        PROVE  Within(in', out' \o Unread')
    <3>1. out' \o Unread' = out \o Unread /\ in' = in
      BY <2>2, PopHeadFacts, SendFacts DEF PopHead, Send
    <3> QED BY <3>1 DEF NothingLost
  <2>3. CASE SendBlocks
    <3>1. /\ in' = in /\ out' = out /\ BufferInv' /\ Abstract!Repeat
      BY <2>3, SendBlocksFacts DEF SendBlocks
    <3>2. Unread' \in Seq(Bytes)
      BY <3>1, UnreadNext
    <3> DEFINE q == Unread
               r == Unread'
    <3>3. q \in Seq(Bytes) /\ r \in Seq(Bytes) /\ Len(r) = Len(q) + 1 /\ Tail(r) = q
      BY <2>t, <3>1, <3>2 DEF Abstract!Repeat
    <3> HIDE DEF q, r
    <3>4. \A k \in 1..Len(q) : r[k + 1] = q[k]
      BY <3>3
    <3>5. Within(in, out \o q)
      BY DEF NothingLost, q
    <3>6. Within(in, out \o r)
      BY <2>t, <3>3, <3>4, <3>5, WithinRepeated
    <3> QED BY <3>1, <3>6 DEF r
  <2>4. CASE BufferReset
    <3>1. in' = out /\ out' = out /\ Unread' = <<>>
      BY <2>4, ResetFacts DEF BufferReset, Abstract!Clear
    <3>2. out \o <<>> = out
      BY <2>t, ConcatEmptySeq
    <3> QED BY <2>t, <3>1, <3>2, WithinItself
  <2>5. CASE UNCHANGED bufferVars
    BY <2>5 DEF bufferVars, NothingLost, Unread
  <2> QED BY <2>1, <2>2, <2>3, <2>4, <2>5 DEF BufferNext
<1> QED BY <1>1, <1>2, BufferInvHolds, PTL DEF BufferSpec

-----------------------------------------------------------------------------
(***************************************************************************)
(* The Epoller (Epoller.tla).                                              *)
(***************************************************************************)
Unstrayed == PollEvents \ strayed

\* What is in the table exists, at its descriptor, and wants something.
InTable ==
    \A f \in Fds : events[f] # NoEvent =>
        /\ fd[events[f]] = f /\ wants[events[f]] # {}
        /\ life[events[f]] \in {"alive", "closed"}

\* A descriptor has one event that is alive, and up to an early reuse one at all.
OneEach ==
    \A d, e \in PollEvents : fd[d] = fd[e] /\ Exists(d) /\ Exists(e) =>
        d = e \/ (fd[e] \in early /\ ~(life[d] = "alive" /\ life[e] = "alive"))

\* Nothing is wanted before the first notification, nor after the destructor.
NobodyWants == \A e \in PollEvents : ~Exists(e) => wants[e] = {}

\* Whatever happened, the kernel knows only what the event in the table wants.
Registered ==
    \A f \in Fds : interest[f] # {} =>
        events[f] # NoEvent /\ life[events[f]] = "alive" /\ interest[f] = wants[events[f]]

TableInv == EpollerTypeOK /\ early \subseteq Fds /\ InTable /\ OneEach /\ NobodyWants /\ Registered

\* The entries that epoll_wait wrote and Poll has not looked at yet.
Fresh == IF i < num THEN (pos + 1)..num ELSE {}

\* pollEvents_ is never shorter than what epoll_wait returned.
EntriesFit == num <= Len(pollEvents) /\ Len(pollEvents) <= Cardinality(Fds) /\ i <= num

\* A fresh entry tells its event's readiness, and no other entry its descriptor's.
FreshTold ==
    /\ \A k \in Fresh : LET e == events[pollEvents[k].fd] IN
          e # NoEvent => /\ pollEvents[k].kinds # {} /\ pollEvents[k].kinds = reported[e]
                         /\ reported[e] \subseteq wants[e]
    /\ \A k, l \in Fresh : pollEvents[k].fd = pollEvents[l].fd => k = l
    /\ \A k \in Fresh, e \in Range(batch) \cap Unstrayed : fd[e] # pollEvents[k].fd

\* An event waits at most once for Do, with a flag that epoll_wait reported.
BatchTold ==
    /\ \A k, l \in DOMAIN batch : batch[k] = batch[l] /\ batch[k] \notin strayed => k = l
    /\ \A e \in Range(batch) : life[e] # "new"
    /\ \A e \in Range(batch) \cap Unstrayed : life[e] # "dead" =>
          /\ reported[e] # {} /\ Chosen(reported[e]) \in able[e]
          /\ "in" \in able[e] => "in" \in reported[e]

\* A flag to be read does not outlast the turn.
NoneLeft ==
    \A e \in Unstrayed : "in" \in able[e] /\ life[e] # "dead" =>
        e \in Range(batch) /\ "in" \in wants[e]

EpollTurnInv == EntriesFit /\ FreshTold /\ BatchTold /\ NoneLeft /\ CalledWhenReported

EpollerInv == TableInv /\ KernelMatches /\ EpollTurnInv

\* The types, one by one.
LEMMA EpollerTypes ==
  EpollerTypeOK => /\ life \in [PollEvents -> {"new", "alive", "closed", "dead"}]
                   /\ fd \in [PollEvents -> Fds]
                   /\ wants \in [PollEvents -> SUBSET Kinds]
                   /\ able \in [PollEvents -> SUBSET Kinds]
                   /\ reported \in [PollEvents -> SUBSET Kinds]
                   /\ events \in [Fds -> PollEvents \cup {NoEvent}]
                   /\ interest \in [Fds -> SUBSET Kinds]
                   /\ ready \in [Fds -> SUBSET Kinds]
                   /\ pollEvents \in Seq([fd : Fds, kinds : SUBSET Kinds])
                   /\ num \in Nat /\ pos \in Nat /\ i \in Nat /\ i <= pos
                   /\ batch \in Seq(PollEvents)
<1> SUFFICES ASSUME EpollerTypeOK
             PROVE  /\ {wants, able, reported} \subseteq [PollEvents -> SUBSET Kinds]
                    /\ {interest, ready} \subseteq [Fds -> SUBSET Kinds]
                    /\ num \in Nat /\ pos \in Nat /\ i \in Nat
  BY DEF EpollerTypeOK
<1>1. Cardinality(Fds) \in Nat
  BY EpollerAssumption, FS_CardinalityType
<1>2. num \in 0..Cardinality(Fds) /\ pos \in 0..Cardinality(Fds) /\ i \in 0..Cardinality(Fds)
  BY DEF EpollerTypeOK
<1> QED BY <1>1, <1>2 DEF EpollerTypeOK

\* An entry is a descriptor and what it is ready for.
LEMMA EntryType ==
  ASSUME EpollerTypeOK, NEW k \in 1..Len(pollEvents)
  PROVE  pollEvents[k].fd \in Fds /\ pollEvents[k].kinds \in SUBSET Kinds
<1>1. pollEvents[k] \in [fd : Fds, kinds : SUBSET Kinds]
  BY EpollerTypes, ElementOfSeq
<1> QED BY <1>1

\* A new event loop.
LEMMA InitEpollerInv == EpollerInit => EpollerInv
<1> SUFFICES ASSUME EpollerInit PROVE EpollerInv
  OBVIOUS
<1>1. PICK f0 \in Fds : fd = [e \in PollEvents |-> f0]
  BY EpollerAssumption DEF EpollerInit
<1>2. /\ wants = [e \in PollEvents |-> {}] /\ able = [e \in PollEvents |-> {}]
      /\ reported = [e \in PollEvents |-> {}]
      /\ interest = [f \in Fds |-> {}] /\ ready = [f \in Fds |-> {}]
      /\ life = [e \in PollEvents |-> "new"] /\ events = [f \in Fds |-> NoEvent]
      /\ num = 0 /\ pos = 0 /\ i = 0 /\ pollEvents = <<>> /\ batch = <<>>
      /\ lastCall = NoCall /\ strayed = {} /\ early = {}
  BY DEF EpollerInit
<1>3. Cardinality(Fds) \in Nat
  BY EpollerAssumption, FS_CardinalityType
<1>4. EpollerTypeOK
  <2>1. /\ num \in 0..Cardinality(Fds) /\ pos \in 0..Cardinality(Fds)
        /\ i \in 0..Cardinality(Fds) /\ i <= pos
    BY <1>2, <1>3
  <2>2. /\ {wants, able, reported} \subseteq [PollEvents -> SUBSET Kinds]
        /\ {interest, ready} \subseteq [Fds -> SUBSET Kinds]
    BY <1>2
  <2>3. pollEvents \in Seq([fd : Fds, kinds : SUBSET Kinds]) /\ batch \in Seq(PollEvents)
    BY <1>2
  <2>4. lastCall \in [of : PollEvents \cup {NoEvent}, kind : Kinds, due : BOOLEAN]
    BY <1>2 DEF NoCall, Kinds
  <2> QED BY <1>1, <1>2, <2>1, <2>2, <2>3, <2>4 DEF EpollerTypeOK
<1>5. TableInv
  BY <1>2, <1>4 DEF TableInv, InTable, OneEach, NobodyWants, Registered, Exists
<1>6. KernelMatches
  BY <1>2, <1>4 DEF KernelMatches, Found
<1>7. Range(batch) = {} /\ DOMAIN batch = {} /\ Fresh = {} /\ Len(pollEvents) = 0
  BY <1>2, EmptyFacts DEF Fresh
<1>8. EpollTurnInv
  <2>1. EntriesFit
    BY <1>2, <1>3, <1>7 DEF EntriesFit
  <2>2. FreshTold /\ BatchTold
    BY <1>7 DEF FreshTold, BatchTold
  <2>3. NoneLeft
    BY <1>2 DEF NoneLeft, Unstrayed
  <2>4. CalledWhenReported
    BY <1>2 DEF CalledWhenReported, NoCall
  <2> QED BY <2>1, <2>2, <2>3, <2>4 DEF EpollTurnInv
<1> QED BY <1>5, <1>6, <1>8 DEF EpollerInv

-----------------------------------------------------------------------------
\* What a step of an event's owner leaves to the turn.
TurnUndisturbed ==
    /\ UNCHANGED <<able, pollVars>>
    /\ \A e \in PollEvents : life[e] # "new" =>
          life'[e] # "new" /\ fd'[e] = fd[e] /\ (life[e] = "dead" => life'[e] = "dead")
    /\ \A e \in PollEvents : "in" \in wants[e] /\ life'[e] # "dead" => "in" \in wants'[e]
    /\ i # num => \A f \in Fds : events'[f] # NoEvent =>
          events'[f] = events[f] /\ wants'[events[f]] = wants[events[f]]

\* Then it does not disturb it.
LEMMA TurnKept == EpollerInv /\ TurnUndisturbed => EpollTurnInv'
<1> SUFFICES ASSUME EpollerInv, TurnUndisturbed PROVE EpollTurnInv'
  OBVIOUS
<1> USE DEF EpollerInv, EpollTurnInv, TableInv
<1>0. /\ UNCHANGED <<able, pollEvents, num, pos, i, batch, lastCall, reported, strayed>>
      /\ Fresh' = Fresh /\ Range(batch)' = Range(batch) /\ Unstrayed' = Unstrayed
      /\ Range(batch) \subseteq PollEvents /\ Unstrayed \subseteq PollEvents
  BY EpollerTypes DEF TurnUndisturbed, pollVars, Fresh, Range, Unstrayed
<1>1. EntriesFit' /\ CalledWhenReported'
  BY <1>0 DEF EntriesFit, CalledWhenReported
<1>2. FreshTold'
  <2>1. ASSUME NEW k \in Fresh
        PROVE  /\ i # num /\ pollEvents[k].fd \in Fds
               /\ \A e \in Range(batch) \cap Unstrayed : fd'[e] # pollEvents[k].fd
               /\ events'[pollEvents[k].fd] # NoEvent =>
                     /\ events'[pollEvents[k].fd] = events[pollEvents[k].fd]
                     /\ wants'[events[pollEvents[k].fd]] = wants[events[pollEvents[k].fd]]
    <3>1. i < num /\ k \in (pos + 1)..num
      BY DEF Fresh
    <3>2. k \in 1..Len(pollEvents) /\ i # num
      BY <3>1, EpollerTypes DEF EntriesFit
    <3>3. pollEvents[k].fd \in Fds
      BY <3>2, EntryType
    <3>4. \A e \in Range(batch) \cap Unstrayed : fd'[e] # pollEvents[k].fd
      BY <1>0, <3>3 DEF FreshTold, BatchTold, TurnUndisturbed
    <3> QED BY <3>2, <3>3, <3>4 DEF TurnUndisturbed
  <2>2. \A k \in Fresh : LET e == events'[pollEvents[k].fd] IN
          e # NoEvent => /\ pollEvents[k].kinds # {} /\ pollEvents[k].kinds = reported[e]
                         /\ reported[e] \subseteq wants'[e]
    BY <2>1 DEF FreshTold
  <2>3. \A k, l \in Fresh : pollEvents[k].fd = pollEvents[l].fd => k = l
    BY DEF FreshTold
  <2> QED BY <1>0, <2>1, <2>2, <2>3 DEF FreshTold
<1>3. BatchTold'
  BY <1>0 DEF BatchTold, TurnUndisturbed
<1>4. NoneLeft'
  BY <1>0 DEF NoneLeft, BatchTold, TurnUndisturbed
<1> QED BY <1>1, <1>2, <1>3, <1>4

\* A socket or a Connector opens a descriptor.
LEMMA OpenKeeps ==
  ASSUME EpollerInv, NEW e \in PollEvents, NEW f \in Fds, Open(e, f)
  PROVE  EpollerInv'
<1> USE DEF EpollerInv, TableInv
<1>1. /\ life' = [life EXCEPT ![e] = "alive"] /\ fd' = [fd EXCEPT ![e] = f]
      /\ ready' = [ready EXCEPT ![f] = {}] /\ life[e] = "new" /\ i = num
      /\ UNCHANGED <<wants, able, events, interest, pollVars>>
      /\ \A d \in PollEvents : fd[d] = f => life[d] # "alive"
      /\ early' = IF \E d \in PollEvents : fd[d] = f /\ life[d] = "closed" THEN early \cup {f} ELSE early
  BY DEF Open, Handling
<1>2. EpollerTypeOK'
  BY <1>1, EpollerTypes DEF EpollerTypeOK, pollVars
<1>3. \A g \in Fds : events[g] # NoEvent => events[g] \in PollEvents \ {e}
  BY <1>1, EpollerTypes DEF InTable
<1>4. /\ life'[e] = "alive" /\ fd'[e] = f /\ wants[e] = {}
      /\ \A d \in PollEvents \ {e} : life'[d] = life[d] /\ fd'[d] = fd[d]
      /\ early \subseteq early' /\ early' \subseteq Fds
  BY <1>1, EpollerTypes DEF NobodyWants, Exists
<1>5. InTable' /\ NobodyWants' /\ Registered'
  BY <1>1, <1>3, <1>4 DEF InTable, NobodyWants, Registered, Exists
<1>6. OneEach'
  BY <1>1, <1>4, EpollerTypes DEF OneEach, Exists
<1>7. KernelMatches'
  BY <1>1, <1>3, <1>4 DEF KernelMatches, Found, Exists
<1>8. TurnUndisturbed
  BY <1>1, <1>4, EpollerTypes DEF TurnUndisturbed
<1> QED BY <1>2, <1>4, <1>5, <1>6, <1>7, <1>8, TurnKept

\* What UpdateEvent does once the kinds are not empty.
LEMMA NotifyKeeps ==
  ASSUME EpollerInv, NEW e \in PollEvents, NEW kinds \in SUBSET Kinds, Notify(e, kinds)
  PROVE  EpollerInv'
<1> USE DEF EpollerInv, TableInv
<1> DEFINE f == fd[e]
<1>1. /\ life[e] = "alive" /\ i = num /\ wants[e] \ kinds \subseteq {"out"}
      /\ UNCHANGED <<life, fd, able, ready, pollVars, early>>
      /\ wants' = [wants EXCEPT ![e] = kinds] /\ f \in Fds /\ fd[e] = f
      /\ Found(f) <=> events[f] # NoEvent
  BY EpollerTypes DEF Notify, updateEvent, Handling, Found, InTable, Exists
<1>2. /\ kinds = {} => /\ events' = [events EXCEPT ![f] = NoEvent]
                       /\ interest' = [interest EXCEPT ![f] = {}]
      /\ kinds # {} /\ events[f] = NoEvent =>
            /\ events' = [events EXCEPT ![f] = e]
            /\ interest' = [interest EXCEPT ![f] = kinds]
      /\ kinds # {} /\ events[f] # NoEvent =>
            /\ UNCHANGED events
            /\ interest' = [interest EXCEPT ![f] = IF @ = {} THEN {} ELSE kinds]
  BY <1>1, EpollerTypes DEF Notify, updateEvent, Registered
<1>3. EpollerTypeOK'
  <2>1. /\ wants' \in [PollEvents -> SUBSET Kinds]
        /\ events' \in [Fds -> PollEvents \cup {NoEvent}] /\ interest' \in [Fds -> SUBSET Kinds]
    <3>1. wants' \in [PollEvents -> SUBSET Kinds]
      BY <1>1, EpollerTypes
    <3>2. CASE kinds = {}
      <4>1. /\ events' = [events EXCEPT ![f] = NoEvent]
            /\ interest' = [interest EXCEPT ![f] = {}]
        BY <1>2, <3>2
      <4>2. f \in Fds /\ {} \in SUBSET Kinds
        BY <1>1
      <4> HIDE DEF f
      <4>3. events' \in [Fds -> PollEvents \cup {NoEvent}]
        BY <4>1, EpollerTypes
      <4>4. interest' \in [Fds -> SUBSET Kinds]
        BY <4>1, <4>2, EpollerTypes
      <4> QED BY <3>1, <4>3, <4>4
    <3>3. CASE kinds # {} /\ events[f] = NoEvent
      <4>1. events' = [events EXCEPT ![f] = e] /\ interest' = [interest EXCEPT ![f] = kinds]
        BY <1>2, <3>3
      <4> QED BY <3>1, <4>1, EpollerTypes
    <3>4. CASE kinds # {} /\ events[f] # NoEvent
      <4>1. /\ events' = events
            /\ interest' = [interest EXCEPT ![f] = IF interest[f] = {} THEN {} ELSE kinds]
        BY <1>2, <3>4
      <4>2. (IF interest[f] = {} THEN {} ELSE kinds) \in SUBSET Kinds
        OBVIOUS
      <4> QED BY <3>1, <4>1, <4>2, EpollerTypes
    <3> QED BY <3>2, <3>3, <3>4
  <2> QED BY <1>1, <2>1, EpollerTypes DEF EpollerTypeOK, pollVars
<1> HIDE DEF f
<1>4. /\ wants'[e] = kinds /\ \A d \in PollEvents \ {e} : wants'[d] = wants[d]
      /\ \A g \in Fds \ {f} : events'[g] = events[g] /\ interest'[g] = interest[g]
      /\ kinds = {} => events'[f] = NoEvent /\ interest'[f] = {}
      /\ kinds # {} /\ events[f] = NoEvent => events'[f] = e /\ interest'[f] = kinds
      /\ kinds # {} /\ events[f] # NoEvent =>
            events'[f] = events[f] /\ interest'[f] = IF interest[f] = {} THEN {} ELSE kinds
  <2>1. wants'[e] = kinds /\ \A d \in PollEvents \ {e} : wants'[d] = wants[d]
    BY <1>1, EpollerTypes
  <2>2. CASE kinds = {}
    BY <1>1, <1>2, <2>1, <2>2, EpollerTypes
  <2>3. CASE kinds # {} /\ events[f] = NoEvent
    BY <1>1, <1>2, <2>1, <2>3, EpollerTypes
  <2>4. CASE kinds # {} /\ events[f] # NoEvent
    BY <1>1, <1>2, <2>1, <2>4, EpollerTypes
  <2> QED BY <2>2, <2>3, <2>4
<1>5. InTable' /\ NobodyWants' /\ OneEach'
  <2>1. InTable'
    BY <1>1, <1>4, EpollerTypes DEF InTable, Exists
  <2>2. NobodyWants'
    BY <1>1, <1>4, EpollerTypes DEF NobodyWants, Exists
  <2>3. OneEach'
    BY <1>1, <1>4, EpollerTypes DEF OneEach, Exists
  <2> QED BY <2>1, <2>2, <2>3
<1>6. interest[f] # {} => events[f] = e
  BY <1>1, EpollerTypes, EpollerAssumption DEF Registered, InTable, OneEach, Exists
<1>7. Registered'
  BY <1>1, <1>4, <1>6, EpollerTypes, EpollerAssumption DEF Registered, InTable
<1>8. f \notin early =>
        /\ events[f] \in {e, NoEvent}
        /\ (events[f] = e => interest[f] = wants[e] /\ wants[e] # {})
  BY <1>1, EpollerTypes, EpollerAssumption DEF InTable, OneEach, Exists, KernelMatches, Found
<1>9. ASSUME NEW d \in PollEvents, fd[d] = f, life[d] = "alive"
      PROVE  d = e
  BY <1>1, <1>9 DEF OneEach, Exists
<1>10. KernelMatches'
  <2>1. ASSUME NEW g \in Fds \ early
        PROVE  IF Found(g)' /\ life[events'[g]] = "alive" THEN interest'[g] = wants'[events'[g]]
                                                         ELSE interest'[g] = {}
    <3>1. CASE g = f
      BY <1>1, <1>4, <1>8, <3>1, EpollerTypes, EpollerAssumption DEF Found, Exists
    <3>2. CASE g # f
      BY <1>1, <1>4, <3>2, EpollerTypes, EpollerAssumption DEF Found, Exists, KernelMatches, InTable
    <3> QED BY <3>1, <3>2
  <2>2. ASSUME NEW d \in PollEvents, life[d] = "alive", wants'[d] # {}, fd[d] \notin early
        PROVE  events'[fd[d]] = d
    BY <1>1, <1>4, <1>8, <1>9, <2>2, EpollerTypes DEF KernelMatches
  <2> QED BY <1>1, <2>1, <2>2 DEF KernelMatches
<1>11. TurnUndisturbed
  BY <1>1, <1>4 DEF TurnUndisturbed
<1> QED BY <1>1, <1>3, <1>5, <1>7, <1>10, <1>11, TurnKept

\* ~Event.
LEMMA DestroyKeeps ==
  ASSUME EpollerInv, NEW e \in PollEvents, Destroy(e)
  PROVE  EpollerInv'
<1> USE DEF EpollerInv, TableInv
<1> DEFINE f == fd[e]
<1>1. /\ life' = [life EXCEPT ![e] = "dead"] /\ Exists(e) /\ f \in Fds /\ fd[e] = f
      /\ UNCHANGED <<fd, able, ready, pollVars, early>>
      /\ wants' = [wants EXCEPT ![e] = {}]
      /\ IF wants[e] # {} THEN /\ events' = [events EXCEPT ![f] = NoEvent]
                               /\ interest' = [interest EXCEPT ![f] = {}]
                          ELSE UNCHANGED <<events, interest>>
  BY EpollerTypes DEF Destroy, updateEvent
<1>2. EpollerTypeOK'
  BY <1>1, EpollerTypes DEF EpollerTypeOK, pollVars
<1> HIDE DEF f
<1>3. /\ wants'[e] = {} /\ life'[e] = "dead"
      /\ \A d \in PollEvents \ {e} : wants'[d] = wants[d] /\ life'[d] = life[d]
      /\ \A g \in Fds \ {f} : events'[g] = events[g] /\ interest'[g] = interest[g]
      /\ wants[e] # {} => events'[f] = NoEvent /\ interest'[f] = {}
      /\ wants[e] = {} => events'[f] = events[f] /\ interest'[f] = interest[f]
  BY <1>1, EpollerTypes
<1>4. \A g \in Fds : /\ events'[g] # e /\ (events'[g] # NoEvent => events'[g] = events[g])
                     /\ interest'[g] # {} => interest'[g] = interest[g] /\ events'[g] = events[g]
  BY <1>1, <1>3, EpollerTypes, EpollerAssumption DEF InTable
<1>5. InTable' /\ NobodyWants' /\ OneEach' /\ Registered'
  <2>1. \A g \in Fds : events[g] # NoEvent => events[g] \in PollEvents
    BY EpollerTypes
  <2>2. InTable' /\ Registered'
    BY <1>1, <1>3, <1>4, <2>1 DEF InTable, Registered
  <2>3. NobodyWants' /\ OneEach'
    BY <1>1, <1>3 DEF NobodyWants, OneEach, Exists
  <2> QED BY <2>2, <2>3
<1>6. KernelMatches'
  <2>1. ASSUME NEW g \in Fds \ early
        PROVE  IF Found(g)' /\ life'[events'[g]] = "alive" THEN interest'[g] = wants'[events'[g]]
                                                         ELSE interest'[g] = {}
    BY <1>1, <1>3, <1>4, EpollerTypes, EpollerAssumption DEF Found, Exists, KernelMatches, InTable
  <2>2. ASSUME NEW d \in PollEvents, life'[d] = "alive", wants'[d] # {}, fd[d] \notin early
        PROVE  events'[fd[d]] = d
    BY <1>1, <1>3, <2>2, EpollerTypes DEF KernelMatches, OneEach, Exists
  <2> QED BY <1>1, <2>1, <2>2 DEF KernelMatches
<1>7. TurnUndisturbed
  <2>1. \A g \in Fds : events'[g] # NoEvent => events[g] \in PollEvents \ {e} /\ events'[g] = events[g]
    BY <1>3, <1>4, EpollerTypes
  <2> QED BY <1>1, <1>3, <2>1 DEF TurnUndisturbed, Exists
<1> QED BY <1>1, <1>2, <1>5, <1>6, <1>7, TurnKept

\* close before ~Event.
LEMMA CloseFirstKeeps ==
  ASSUME EpollerInv, NEW e \in PollEvents, CloseFirst(e)
  PROVE  EpollerInv'
<1> USE DEF EpollerInv, TableInv
<1> DEFINE f == fd[e]
<1>1. /\ life' = [life EXCEPT ![e] = "closed"] /\ life[e] = "alive" /\ f \in Fds /\ fd[e] = f
      /\ interest' = [interest EXCEPT ![f] = {}] /\ wants[e] # {}
      /\ UNCHANGED <<fd, wants, able, events, ready, pollVars, early>>
  BY EpollerTypes DEF CloseFirst
<1>2. EpollerTypeOK'
  BY <1>1, EpollerTypes DEF EpollerTypeOK, pollVars
<1> HIDE DEF f
<1>3. /\ life'[e] = "closed" /\ \A d \in PollEvents \ {e} : life'[d] = life[d]
      /\ interest'[f] = {} /\ \A g \in Fds \ {f} : interest'[g] = interest[g]
  BY <1>1, EpollerTypes
<1>4. InTable' /\ NobodyWants' /\ OneEach'
  BY <1>1, <1>3, EpollerTypes DEF InTable, NobodyWants, OneEach, Exists
<1>5. Registered'
  BY <1>1, <1>3, EpollerTypes DEF Registered, InTable
<1>6. KernelMatches'
  <2>1. ASSUME NEW g \in Fds \ early
        PROVE  IF Found(g)' /\ life'[events[g]] = "alive" THEN interest'[g] = wants[events[g]]
                                                         ELSE interest'[g] = {}
    <3>1. CASE g = f
      <4>1. events[f] = e
        BY <1>1, <3>1 DEF KernelMatches
      <4> QED BY <1>1, <1>3, <3>1, <4>1
    <3>2. CASE g # f
      BY <1>1, <1>3, <3>2, EpollerTypes, EpollerAssumption DEF Found, Exists, KernelMatches, InTable
    <3> QED BY <3>1, <3>2
  <2>2. ASSUME NEW d \in PollEvents, life'[d] = "alive", wants[d] # {}, fd[d] \notin early
        PROVE  events[fd[d]] = d
    BY <1>1, <1>3, <2>2, EpollerTypes DEF KernelMatches
  <2> QED BY <1>1, <2>1, <2>2 DEF KernelMatches
<1>7. TurnUndisturbed
  BY <1>1, <1>3 DEF TurnUndisturbed
<1> QED BY <1>1, <1>2, <1>4, <1>5, <1>6, <1>7, TurnKept

\* The peer sends, or the kernel has room again.
LEMMA BecomeReadyKeeps ==
  ASSUME EpollerInv, NEW f \in Fds, NEW kind \in Kinds, BecomeReady(f, kind)
  PROVE  EpollerInv'
<1> USE DEF EpollerInv, TableInv
<1>1. UNCHANGED <<eventVars, pollVars, early>> /\ ready' = [ready EXCEPT ![f] = @ \cup {kind}]
  BY DEF BecomeReady
<1>2. EpollerTypeOK'
  BY <1>1, EpollerTypes DEF EpollerTypeOK, pollVars, eventVars
<1>3. InTable' /\ NobodyWants' /\ OneEach' /\ Registered' /\ KernelMatches'
  BY <1>1 DEF InTable, NobodyWants, OneEach, Registered, KernelMatches, Found, Exists, eventVars
<1>4. TurnUndisturbed
  BY <1>1 DEF TurnUndisturbed, eventVars
<1> QED BY <1>1, <1>2, <1>3, <1>4, TurnKept

-----------------------------------------------------------------------------
\* An array whose front is overwritten.
LEMMA OverwrittenFacts ==
  ASSUME NEW S, NEW h \in Seq(S), NEW s \in Seq(S)
  PROVE  LET r == h \o SubSeq(s, Len(h) + 1, Len(s)) IN
         /\ r \in Seq(S) /\ Len(r) = (IF Len(h) <= Len(s) THEN Len(s) ELSE Len(h))
         /\ \A k \in 1..Len(h) : r[k] = h[k]
<1> DEFINE t == SubSeq(s, Len(h) + 1, Len(s))
<1>1. t \in Seq(S) /\ Len(t) = IF Len(h) <= Len(s) THEN Len(s) - Len(h) ELSE 0
  OBVIOUS
<1> HIDE DEF t
<1>2. /\ h \o t \in Seq(S) /\ Len(h \o t) = (IF Len(h) <= Len(s) THEN Len(s) ELSE Len(h))
      /\ \A k \in 1..Len(h) : (h \o t)[k] = h[k]
  <2>1. Len(h) \in Nat /\ Len(s) \in Nat /\ Len(t) \in Nat
    BY <1>1
  <2>2. /\ h \o t \in Seq(S) /\ Len(h \o t) = Len(h) + Len(t)
        /\ \A k \in 1..Len(h \o t) : (h \o t)[k] = IF k <= Len(h) THEN h[k] ELSE t[k - Len(h)]
    BY <1>1, ConcatIndex
  <2> QED BY <1>1, <2>1, <2>2
<1> QED BY <1>2 DEF t

\* epoll_wait.
LEMMA WaitKeeps == EpollerInv /\ EpollWait => EpollerInv'
<1> SUFFICES ASSUME EpollerInv, EpollWait PROVE EpollerInv'
  OBVIOUS
<1> USE DEF EpollerInv, TableInv
<1> DEFINE Ripe == {f \in Fds : interest[f] \cap ready[f] # {}}
<1>1. PICK found \in SetToSeqs(Ripe) :
          /\ num' = Len(found)
          /\ pollEvents' = [k \in 1..Len(found) |->
                               [fd |-> found[k], kinds |-> interest[found[k]] \cap ready[found[k]]]]
                           \o SubSeq(pollEvents, Len(found) + 1, Len(pollEvents))
          /\ reported' = [e \in PollEvents |->
                 IF \E k \in DOMAIN found : events[found[k]] = e
                 THEN interest[fd[e]] \cap ready[fd[e]] ELSE {}]
  BY DEF EpollWait
<1>2. /\ batch = <<>> /\ pos' = 0 /\ i' = 0 /\ lastCall' = NoCall
      /\ UNCHANGED <<life, fd, wants, able, events, interest, ready, batch, strayed, early>>
  BY DEF EpollWait, eventVars
<1>3. IsFiniteSet(Ripe) /\ Cardinality(Ripe) <= Cardinality(Fds) /\ Cardinality(Fds) \in Nat
  BY EpollerAssumption, FS_Subset, FS_CardinalityType
<1>4. /\ found \in Seq(Ripe) /\ IsInjective(found) /\ DOMAIN found = 1..Len(found)
      /\ Len(found) = Cardinality(Ripe) /\ Len(found) \in Nat
      /\ \A k \in 1..Len(found) : found[k] \in Ripe
  <2>1. found \in Seq(Ripe) /\ IsInjective(found)
    BY <1>1, <1>3, EnumerationFacts
  <2>2. found \in [1..Cardinality(Ripe) -> Ripe] /\ Cardinality(Ripe) \in Nat
    BY <1>1, <1>3, FS_CardinalityType DEF SetToSeqs
  <2> HIDE DEF Ripe
  <2> QED BY <2>1, <2>2
<1> DEFINE n == Len(found)
           head == [k \in 1..n |-> [fd |-> found[k], kinds |-> interest[found[k]] \cap ready[found[k]]]]
           Entry == [fd : Fds, kinds : SUBSET Kinds]
<1>5. \A k \in 1..n : [fd |-> found[k], kinds |-> interest[found[k]] \cap ready[found[k]]] \in Entry
  BY <1>4, EpollerTypes
<1>6. head \in Seq(Entry) /\ Len(head) = n /\ pollEvents \in Seq(Entry)
  <2>1. pollEvents \in Seq(Entry)
    BY EpollerTypes
  <2>2. head \in [1..n -> Entry] /\ n \in Nat
    BY <1>4, <1>5
  <2> HIDE DEF Entry, head, n
  <2> QED BY <2>1, <2>2, ListedFacts
<1>7. /\ num' = n
      /\ pollEvents' \in Seq(Entry) /\ n <= Len(pollEvents') /\ Len(pollEvents') <= Cardinality(Fds)
      /\ \A k \in 1..n : pollEvents'[k] = head[k]
  <2> HIDE DEF Entry, head
  <2>1. pollEvents' = head \o SubSeq(pollEvents, Len(head) + 1, Len(pollEvents)) /\ num' = n
    BY <1>1, <1>6 DEF head
  <2>2. Len(pollEvents) <= Cardinality(Fds) /\ Len(pollEvents) \in Nat /\ n <= Cardinality(Fds)
    BY <1>3, <1>4, EpollerTypes DEF EpollTurnInv, EntriesFit
  <2>3. /\ pollEvents' \in Seq(Entry)
        /\ Len(pollEvents') = (IF Len(head) <= Len(pollEvents) THEN Len(pollEvents) ELSE Len(head))
        /\ \A k \in 1..Len(head) : pollEvents'[k] = head[k]
    BY <1>6, <2>1, OverwrittenFacts
  <2>4. n \in Nat /\ Len(head) = n
    BY <1>4, <1>6
  <2> HIDE DEF n
  <2>5. n <= Len(pollEvents') /\ Len(pollEvents') <= Cardinality(Fds)
    BY <1>3, <2>2, <2>3, <2>4
  <2>6. \A k \in 1..n : pollEvents'[k] = head[k]
    BY <2>3, <2>4
  <2> QED BY <2>1, <2>3, <2>5, <2>6
<1>8. EpollerTypeOK'
  <2>1. reported' \in [PollEvents -> SUBSET Kinds]
    BY <1>1, EpollerTypes
  <2>2. /\ num' \in 0..Cardinality(Fds) /\ pos' \in 0..Cardinality(Fds)
        /\ i' \in 0..Cardinality(Fds) /\ i' <= pos'
    BY <1>2, <1>3, <1>4, <1>7
  <2>3. lastCall' \in [of : PollEvents \cup {NoEvent}, kind : Kinds, due : BOOLEAN]
    BY <1>2 DEF NoCall, Kinds
  <2> HIDE DEF Ripe
  <2> QED BY <1>2, <1>7, <2>1, <2>2, <2>3, EpollerTypes DEF EpollerTypeOK
<1>9. InTable' /\ NobodyWants' /\ OneEach' /\ Registered' /\ KernelMatches' /\ early' \subseteq Fds
  BY <1>2 DEF InTable, NobodyWants, OneEach, Registered, KernelMatches, Found, Exists
<1>10. /\ Fresh' \subseteq 1..n /\ Range(batch)' = {} /\ batch' = <<>>
  BY <1>2, <1>4, <1>7, EmptyFacts DEF Fresh
<1>11. EntriesFit'
  BY <1>2, <1>4, <1>7 DEF EntriesFit
<1>12. FreshTold'
  <2>1. ASSUME NEW k \in 1..n
        PROVE  /\ pollEvents'[k].fd = found[k] /\ found[k] \in Fds
               /\ pollEvents'[k].kinds = interest[found[k]] \cap ready[found[k]]
               /\ pollEvents'[k].kinds # {}
    <3>1. found[k] \in Fds /\ interest[found[k]] \cap ready[found[k]] # {}
      BY <1>4
    <3>2. pollEvents'[k] = [fd |-> found[k], kinds |-> interest[found[k]] \cap ready[found[k]]]
      BY <1>7
    <3> QED BY <3>1, <3>2
  <2>2. ASSUME NEW k \in 1..n, NEW e, e = events[found[k]], e # NoEvent
        PROVE  /\ pollEvents'[k].kinds = reported'[e]
               /\ reported'[e] \subseteq wants'[e]
    <3>1. e \in PollEvents /\ fd[e] = found[k] /\ found[k] \in Fds
      BY <2>1, <2>2, EpollerTypes DEF InTable
    <3>2. reported'[e] = interest[found[k]] \cap ready[found[k]]
      BY <1>1, <1>4, <2>2, <3>1
    <3>3. interest[found[k]] = wants[e]
      BY <2>1, <2>2 DEF Registered
    <3> QED BY <1>2, <2>1, <3>2, <3>3
  <2>3. \A k, l \in 1..n : pollEvents'[k].fd = pollEvents'[l].fd => k = l
    <3>1. SUFFICES ASSUME NEW k \in 1..n, NEW l \in 1..n, pollEvents'[k].fd = pollEvents'[l].fd
                   PROVE  k = l
      OBVIOUS
    <3>2. pollEvents'[k].fd = found[k] /\ pollEvents'[l].fd = found[l]
      BY <2>1
    <3>3. found[k] = found[l]
      BY <3>1, <3>2
    <3>4. IsInjective(found) /\ DOMAIN found = 1..n
      BY <1>4
    <3> HIDE DEF n
    <3> QED BY <3>3, <3>4 DEF IsInjective
  <2> HIDE DEF n
  <2> QED BY <1>2, <1>10, <2>1, <2>2, <2>3 DEF FreshTold
<1>13. BatchTold' /\ NoneLeft'
  <2>1. DOMAIN batch' = {} /\ Unstrayed' = Unstrayed
    BY <1>2 DEF Unstrayed
  <2>2. Range(batch) = {}
    BY <1>2, EmptyFacts
  <2> QED BY <1>2, <1>10, <2>1, <2>2 DEF BatchTold, NoneLeft, EpollTurnInv
<1>14. CalledWhenReported'
  BY <1>2 DEF CalledWhenReported, NoCall
<1> QED BY <1>8, <1>9, <1>11, <1>12, <1>13, <1>14 DEF EpollTurnInv

\* Epoller::Poll stops at the end of its entries.
LEMMA LookUpEndsKeeps == EpollerInv /\ LookUpEnds => EpollerInv'
<1> SUFFICES ASSUME EpollerInv, LookUpEnds PROVE EpollerInv'
  OBVIOUS
<1> USE DEF EpollerInv, TableInv
<1>1. /\ num' = i /\ i < num
      /\ UNCHANGED <<life, fd, wants, able, events, interest, ready, pollEvents, pos, i, batch,
                     lastCall, reported, strayed, early>>
  BY DEF LookUpEnds, eventVars
<1>2. EpollerTypeOK'
  BY <1>1 DEF EpollerTypeOK
<1>3. InTable' /\ NobodyWants' /\ OneEach' /\ Registered' /\ KernelMatches' /\ early' \subseteq Fds
  BY <1>1 DEF InTable, NobodyWants, OneEach, Registered, KernelMatches, Found, Exists
<1>4. EntriesFit' /\ Fresh' = {}
  BY <1>1, EpollerTypes DEF EpollTurnInv, EntriesFit, Fresh
<1>5. FreshTold'
  BY <1>4 DEF FreshTold
<1>6. BatchTold' /\ NoneLeft' /\ CalledWhenReported'
  BY <1>1 DEF EpollTurnInv, BatchTold, NoneLeft, CalledWhenReported, Unstrayed
<1> QED BY <1>2, <1>3, <1>4, <1>5, <1>6 DEF EpollTurnInv

\* The next entry.
LEMMA LookUpKeeps == EpollerInv /\ LookUp => EpollerInv'
<1> SUFFICES ASSUME EpollerInv, LookUp PROVE EpollerInv'
  OBVIOUS
<1> USE DEF EpollerInv, TableInv
<1> DEFINE entry == pollEvents[pos + 1]
           e == events[entry.fd]
<1>1. /\ i < num /\ pos < Len(pollEvents) /\ pos' = pos + 1
      /\ UNCHANGED <<life, fd, wants, events, interest, ready, pollEvents, num, lastCall,
                     reported, early>>
      /\ IF Found(entry.fd)
         THEN /\ able' = [able EXCEPT ![e] = @ \cup {Chosen(entry.kinds)}]
              /\ batch' = Append(batch, e) /\ i' = i + 1
              /\ strayed' = IF pos < num THEN strayed ELSE strayed \cup {e}
         ELSE UNCHANGED <<able, batch, i, strayed>>
  BY DEF LookUp
<1>2. /\ pos \in Nat /\ i \in Nat /\ num \in Nat /\ Len(pollEvents) \in Nat /\ i <= pos
      /\ Cardinality(Fds) \in Nat /\ num <= Cardinality(Fds) /\ Len(pollEvents) <= Cardinality(Fds)
  BY EpollerTypes, EpollerAssumption, FS_CardinalityType DEF EpollTurnInv, EntriesFit, EpollerTypeOK
<1>3. entry.fd \in Fds /\ entry.kinds \in SUBSET Kinds /\ Chosen(entry.kinds) \in Kinds
  BY <1>1, <1>2, EntryType DEF Chosen, Kinds
<1>4. InTable' /\ NobodyWants' /\ OneEach' /\ Registered' /\ KernelMatches' /\ early' \subseteq Fds
  BY <1>1 DEF InTable, NobodyWants, OneEach, Registered, KernelMatches, Found, Exists
<1>5. /\ Fresh' \subseteq Fresh /\ pos + 1 \notin Fresh'
      /\ pos < num => pos + 1 \in Fresh
      /\ pos >= num => Fresh' = {}
  BY <1>1, <1>2 DEF Fresh
<1>6. EntriesFit' /\ CalledWhenReported' /\ strayed \subseteq strayed'
  BY <1>1, <1>2 DEF EpollTurnInv, EntriesFit, CalledWhenReported
<1>7. CASE ~Found(entry.fd)
  <2>1. EpollerTypeOK'
    BY <1>1, <1>2, <1>7 DEF EpollerTypeOK
  <2>2. FreshTold' /\ BatchTold' /\ NoneLeft'
    BY <1>1, <1>5, <1>7 DEF EpollTurnInv, FreshTold, BatchTold, NoneLeft, Unstrayed
  <2> QED BY <1>4, <1>6, <2>1, <2>2 DEF EpollTurnInv
<1>8. CASE Found(entry.fd)
  <2>1. e \in PollEvents /\ e # NoEvent /\ fd[e] = entry.fd /\ life[e] \in {"alive", "closed"}
    BY <1>3, <1>8, EpollerTypes DEF Found, InTable
  <2>2. /\ batch' \in Seq(PollEvents) /\ Range(batch') = Range(batch) \cup {e}
        /\ Len(batch') = Len(batch) + 1 /\ DOMAIN batch' = 1..(Len(batch) + 1)
        /\ DOMAIN batch = 1..Len(batch) /\ Len(batch) \in Nat
        /\ batch'[Len(batch) + 1] = e /\ \A k \in 1..Len(batch) : batch'[k] = batch[k]
        /\ \A k \in 1..Len(batch) : batch[k] \in Range(batch)
    <3>1. batch \in Seq(PollEvents) /\ batch' = Append(batch, e)
      BY <1>1, <1>8, EpollerTypes
    <3> HIDE DEF e
    <3> QED BY <2>1, <3>1, AppendFacts DEF Range
  <2>3. /\ able' \in [PollEvents -> SUBSET Kinds]
        /\ able'[e] = able[e] \cup {Chosen(entry.kinds)}
        /\ \A d \in PollEvents \ {e} : able'[d] = able[d]
    <3>1. able' = [able EXCEPT ![e] = @ \cup {Chosen(entry.kinds)}]
      BY <1>1, <1>8
    <3> HIDE DEF e, entry
    <3> QED BY <1>3, <2>1, <3>1, EpollerTypes
  <2> HIDE DEF e, entry
  <2>4. EpollerTypeOK'
    <3>1. strayed' \subseteq PollEvents
      BY <1>1, <1>8, <2>1 DEF EpollerTypeOK
    <3>2. i' \in 0..Cardinality(Fds) /\ pos' \in 0..Cardinality(Fds) /\ i' <= pos'
      BY <1>1, <1>2, <1>8
    <3>3. {wants, able, reported}' \subseteq [PollEvents -> SUBSET Kinds]
      BY <1>1, <2>3, EpollerTypes
    <3> QED BY <1>1, <2>2, <3>1, <3>2, <3>3 DEF EpollerTypeOK
  <2>5. Unstrayed' \subseteq Unstrayed /\ (pos >= num => e \notin Unstrayed')
    BY <1>1, <1>2, <1>8 DEF Unstrayed
  <2>6. ASSUME pos < num
        PROVE  /\ entry.kinds # {} /\ entry.kinds = reported[e] /\ reported[e] \subseteq wants[e]
               /\ \A k \in Fresh' : pollEvents[k].fd # fd[e]
               /\ e \in Unstrayed => e \notin Range(batch) /\ "in" \notin able[e]
    <3>1. pos + 1 \in Fresh
      BY <1>5, <2>6
    <3>2. entry.kinds # {} /\ entry.kinds = reported[e] /\ reported[e] \subseteq wants[e]
      BY <2>1, <3>1 DEF EpollTurnInv, FreshTold, e, entry
    <3>3. \A k \in Fresh' : pollEvents[k].fd # entry.fd
      BY <1>5, <3>1 DEF EpollTurnInv, FreshTold, entry
    <3>4. e \in Unstrayed => e \notin Range(batch)
      BY <2>1, <3>1 DEF EpollTurnInv, FreshTold, entry
    <3> QED BY <2>1, <3>2, <3>3, <3>4 DEF EpollTurnInv, NoneLeft
  <2>7. FreshTold'
    <3>1. CASE pos >= num
      BY <1>5, <3>1 DEF FreshTold
    <3>2. CASE pos < num
      <4>1. \A k \in Fresh', d \in Range(batch') \cap Unstrayed' : fd'[d] # pollEvents'[k].fd
        BY <1>1, <1>5, <2>2, <2>5, <2>6, <3>2 DEF EpollTurnInv, FreshTold
      <4> QED BY <1>1, <1>5, <4>1 DEF EpollTurnInv, FreshTold
    <3> QED BY <1>2, <3>1, <3>2
  <2>8. BatchTold'
    <3>1. ASSUME NEW k \in DOMAIN batch', NEW l \in DOMAIN batch', batch'[k] = batch'[l],
                 batch'[k] \notin strayed'
          PROVE  k = l
      <4>1. CASE k \in 1..Len(batch) /\ l \in 1..Len(batch)
        BY <1>6, <2>2, <3>1, <4>1 DEF EpollTurnInv, BatchTold
      <4>2. CASE k = Len(batch) + 1 /\ l = Len(batch) + 1
        BY <4>2
      <4>3. CASE k # l /\ (k = Len(batch) + 1 \/ l = Len(batch) + 1)
        <5>1. e \in Range(batch) /\ e \notin strayed'
          BY <2>2, <3>1, <4>3
        <5>2. e \in Unstrayed' /\ pos < num
          BY <1>2, <2>1, <2>5, <5>1 DEF Unstrayed
        <5> QED BY <2>5, <2>6, <5>1, <5>2
      <4> QED BY <2>2, <4>1, <4>2, <4>3
    <3>2. ASSUME NEW d \in Range(batch') \cap Unstrayed', life[d] # "dead"
          PROVE  /\ reported[d] # {} /\ Chosen(reported[d]) \in able'[d]
                 /\ "in" \in able'[d] => "in" \in reported[d]
      <4>1. CASE d = e
        <5>1. pos < num /\ e \in Unstrayed
          BY <1>2, <2>5, <3>2, <4>1
        <5> QED BY <2>3, <2>6, <4>1, <5>1 DEF Chosen
      <4>2. CASE d # e
        <5>1. d \in Range(batch) \cap Unstrayed /\ d \in PollEvents
          BY <2>2, <2>5, <3>2, <4>2 DEF Unstrayed
        <5> QED BY <2>3, <3>2, <4>2, <5>1 DEF EpollTurnInv, BatchTold
      <4> QED BY <4>1, <4>2
    <3>3. \A d \in Range(batch') : life[d] # "new"
      BY <2>1, <2>2 DEF EpollTurnInv, BatchTold
    <3> QED BY <1>1, <3>1, <3>2, <3>3 DEF BatchTold
  <2>9. NoneLeft'
    <3>1. ASSUME NEW d \in Unstrayed', "in" \in able'[d], life[d] # "dead"
          PROVE  d \in Range(batch') /\ "in" \in wants[d]
      <4>1. CASE d = e
        <5>1. pos < num /\ e \in Unstrayed
          BY <1>2, <2>5, <3>1, <4>1
        <5>2. Chosen(entry.kinds) = "in" /\ "in" \in entry.kinds
          BY <2>3, <2>6, <3>1, <4>1, <5>1 DEF Chosen
        <5> QED BY <2>2, <2>6, <4>1, <5>1, <5>2
      <4>2. CASE d # e
        <5>1. d \in Unstrayed /\ d \in PollEvents
          BY <2>5, <3>1 DEF Unstrayed
        <5> QED BY <2>2, <2>3, <3>1, <4>2, <5>1 DEF EpollTurnInv, NoneLeft
      <4> QED BY <4>1, <4>2
    <3> QED BY <1>1, <3>1 DEF NoneLeft
  <2> QED BY <1>4, <1>6, <2>4, <2>7, <2>8, <2>9 DEF EpollTurnInv
<1> QED BY <1>7, <1>8

\* Event::Do.
LEMMA DoKeeps == EpollerInv /\ Do => EpollerInv'
<1> SUFFICES ASSUME EpollerInv, Do PROVE EpollerInv'
  OBVIOUS
<1> USE DEF EpollerInv, TableInv
<1> DEFINE e == Head(batch)
           kind == Chosen(Due(e))
<1>1. /\ i = num /\ batch # <<>> /\ batch' = Tail(batch)
      /\ UNCHANGED <<life, fd, wants, events, interest, pollEvents, num, pos, i, reported,
                     strayed, early>>
      /\ IF Exists(e) /\ Due(e) # {}
         THEN /\ able' = [able EXCEPT ![e] = @ \ {kind}]
              /\ lastCall' = [of |-> e, kind |-> kind, due |-> kind \in reported[e]]
         ELSE lastCall' = NoCall /\ UNCHANGED able
  BY DEF Do
<1>2. ready' \in [Fds -> SUBSET Kinds]
  <2>1. ready' = ready \/ ready' = [ready EXCEPT ![fd[e]] = @ \ {kind}]
    BY DEF Do
  <2> QED BY <2>1, EpollerTypes
<1>3. /\ batch' \in Seq(PollEvents) /\ e \in PollEvents /\ e \in Range(batch)
      /\ Range(batch) = {e} \cup Range(batch')
      /\ DOMAIN batch' = 1..(Len(batch) - 1) /\ DOMAIN batch = 1..Len(batch) /\ Len(batch) \in Nat \ {0}
      /\ e = batch[1] /\ \A k \in 1..(Len(batch) - 1) : batch'[k] = batch[k + 1]
      /\ \A d \in Range(batch') : \E k \in 1..(Len(batch) - 1) : d = batch'[k]
  <2>1. batch \in Seq(PollEvents) /\ batch # <<>> /\ batch' = Tail(batch)
    BY <1>1, EpollerTypes
  <2> QED BY <2>1, TailFacts DEF Range
<1>4. kind \in Kinds /\ (kind = "in" <=> "in" \in Due(e)) /\ (Due(e) # {} => kind \in Due(e))
  <2>1. Due(e) \subseteq Kinds
    BY <1>3, EpollerTypes DEF Due
  <2> QED BY <2>1 DEF Chosen, Kinds
<1> HIDE DEF e, kind
<1>5. /\ able' \in [PollEvents -> SUBSET Kinds]
      /\ \A d \in PollEvents \ {e} : able'[d] = able[d]
      /\ able'[e] = IF Exists(e) /\ Due(e) # {} THEN able[e] \ {kind} ELSE able[e]
  <2>1. CASE Exists(e) /\ Due(e) # {}
    <3>1. able' = [able EXCEPT ![e] = @ \ {kind}]
      BY <1>1, <2>1
    <3> QED BY <1>3, <2>1, <3>1, EpollerTypes
  <2>2. CASE ~(Exists(e) /\ Due(e) # {})
    BY <1>1, <2>2, EpollerTypes
  <2> QED BY <2>1, <2>2
<1>6. EpollerTypeOK'
  <2>1. lastCall' \in [of : PollEvents \cup {NoEvent}, kind : Kinds, due : BOOLEAN]
    <3>1. CASE Exists(e) /\ Due(e) # {}
      <4>1. (kind \in reported[e]) \in BOOLEAN
        OBVIOUS
      <4>2. lastCall' = [of |-> e, kind |-> kind, due |-> kind \in reported[e]]
        BY <1>1, <3>1
      <4> QED BY <1>3, <1>4, <4>1, <4>2
    <3>2. CASE ~(Exists(e) /\ Due(e) # {})
      <4>1. lastCall' = [of |-> NoEvent, kind |-> "in", due |-> TRUE]
        BY <1>1, <3>2 DEF NoCall
      <4> QED BY <4>1 DEF Kinds
    <3> QED BY <3>1, <3>2
  <2>2. /\ {wants, able, reported}' \subseteq [PollEvents -> SUBSET Kinds]
        /\ {interest, ready}' \subseteq [Fds -> SUBSET Kinds]
    BY <1>1, <1>2, <1>5, EpollerTypes
  <2> QED BY <1>1, <1>3, <2>1, <2>2 DEF EpollerTypeOK
<1>7. InTable' /\ NobodyWants' /\ OneEach' /\ Registered' /\ KernelMatches' /\ early' \subseteq Fds
  BY <1>1 DEF InTable, NobodyWants, OneEach, Registered, KernelMatches, Found, Exists
<1>8. EntriesFit' /\ Fresh' = {} /\ Unstrayed' = Unstrayed
  BY <1>1, EpollerTypes DEF EpollTurnInv, EntriesFit, Fresh, Unstrayed
<1>9. FreshTold'
  BY <1>8 DEF FreshTold
<1>10. e \in Unstrayed => e \notin Range(batch')
  <2> SUFFICES ASSUME e \in Unstrayed, e \in Range(batch') PROVE FALSE
    OBVIOUS
  <2>1. PICK k \in 1..(Len(batch) - 1) : e = batch'[k]
    BY <1>3
  <2>2. /\ batch[1] = batch[k + 1] /\ batch[1] \notin strayed
        /\ 1 \in DOMAIN batch /\ k + 1 \in DOMAIN batch
    BY <1>3, <2>1 DEF Unstrayed
  <2>3. 1 = k + 1
    BY <2>2 DEF EpollTurnInv, BatchTold
  <2> QED BY <2>1, <2>3
<1>11. BatchTold'
  <2>1. ASSUME NEW k \in DOMAIN batch', NEW l \in DOMAIN batch', batch'[k] = batch'[l],
               batch'[k] \notin strayed
        PROVE  k = l
    <3>1. /\ k + 1 \in DOMAIN batch /\ l + 1 \in DOMAIN batch
          /\ batch[k + 1] = batch[l + 1] /\ batch[k + 1] \notin strayed
      BY <1>3, <2>1
    <3>2. k + 1 = l + 1
      BY <3>1 DEF EpollTurnInv, BatchTold
    <3> QED BY <1>3, <3>2
  <2>2. ASSUME NEW d \in Range(batch') \cap Unstrayed
        PROVE  d \in Range(batch) \cap Unstrayed /\ able'[d] = able[d]
    BY <1>3, <1>5, <1>10, <2>2 DEF Unstrayed
  <2>3. \A d \in Range(batch') : d \in Range(batch)
    BY <1>3
  <2> QED BY <1>1, <1>8, <2>1, <2>2, <2>3 DEF EpollTurnInv, BatchTold
<1>12. NoneLeft'
  <2>1. ASSUME NEW d \in Unstrayed, "in" \in able'[d], life[d] # "dead"
        PROVE  d \in Range(batch') /\ "in" \in wants[d]
    <3>1. d \in PollEvents /\ "in" \in able[d]
      BY <1>5, <2>1 DEF Unstrayed
    <3>2. d \in Range(batch) /\ "in" \in wants[d]
      BY <2>1, <3>1 DEF EpollTurnInv, NoneLeft
    <3>3. d # e
      <4> SUFFICES ASSUME d = e PROVE FALSE
        OBVIOUS
      <4>1. Exists(e) /\ "in" \in Due(e)
        BY <1>3, <2>1, <3>1, <3>2, EpollerTypes DEF Exists, Due, EpollTurnInv, BatchTold
      <4> QED BY <1>4, <1>5, <2>1, <4>1
    <3> QED BY <1>3, <3>2, <3>3
  <2> QED BY <1>1, <1>8, <2>1 DEF NoneLeft
<1>13. CalledWhenReported'
  <2>1. CASE Exists(e) /\ Due(e) # {} /\ e \in Unstrayed
    <3>1. /\ reported[e] # {} /\ Chosen(reported[e]) \in able[e]
          /\ ("in" \in able[e] => "in" \in reported[e])
      BY <1>3, <2>1 DEF EpollTurnInv, BatchTold, Exists
    <3>2. kind \in reported[e]
      <4>1. CASE "in" \in reported[e]
        <5>1. "in" \in able[e]
          BY <3>1, <4>1 DEF Chosen
        <5>2. "in" \in Due(e)
          BY <2>1, <5>1 DEF EpollTurnInv, NoneLeft, Due, Exists
        <5> QED BY <1>4, <4>1, <5>2
      <4>2. CASE "in" \notin reported[e]
        <5>1. reported[e] = {"out"}
          BY <1>3, <3>1, <4>2, EpollerTypes DEF Kinds
        <5>2. kind # "in"
          BY <1>4, <3>1, <4>2 DEF Due
        <5> QED BY <1>4, <5>1, <5>2 DEF Kinds
      <4> QED BY <4>1, <4>2
    <3>3. lastCall' = [of |-> e, kind |-> kind, due |-> kind \in reported[e]]
      BY <1>1, <2>1
    <3>4. lastCall'.due = (kind \in reported[e])
      BY <3>3
    <3> QED BY <3>2, <3>4 DEF CalledWhenReported
  <2>2. CASE Exists(e) /\ Due(e) # {} /\ e \notin Unstrayed
    BY <1>1, <1>3, <2>2 DEF CalledWhenReported, Unstrayed
  <2>3. CASE ~(Exists(e) /\ Due(e) # {})
    BY <1>1, <2>3 DEF CalledWhenReported, NoCall
  <2> QED BY <2>1, <2>2, <2>3
<1> QED BY <1>6, <1>7, <1>8, <1>9, <1>11, <1>12, <1>13 DEF EpollTurnInv

\* Every step keeps the invariant.
LEMMA NextEpollerInv == EpollerInv /\ [EpollerNext]_epollerVars => EpollerInv'
<1>1. ASSUME EpollerInv, UNCHANGED epollerVars PROVE EpollerInv'
  <2>1. UNCHANGED <<eventVars, ready, pollVars, early>>
    BY <1>1 DEF epollerVars
  <2> USE <1>1 DEF EpollerInv, TableInv
  <2>2. EpollerTypeOK'
    BY <2>1 DEF EpollerTypeOK, pollVars, eventVars
  <2>3. InTable' /\ NobodyWants' /\ OneEach' /\ Registered' /\ KernelMatches'
    BY <2>1 DEF InTable, NobodyWants, OneEach, Registered, KernelMatches, Found, Exists, eventVars
  <2>4. TurnUndisturbed
    BY <2>1 DEF TurnUndisturbed, eventVars
  <2> QED BY <2>1, <2>2, <2>3, <2>4, TurnKept
<1>2. EpollerInv /\ EpollerNext => EpollerInv'
  BY OpenKeeps, NotifyKeeps, DestroyKeeps, CloseFirstKeeps, BecomeReadyKeeps, WaitKeeps,
     LookUpKeeps, LookUpEndsKeeps, DoKeeps DEF EpollerNext
<1> QED BY <1>1, <1>2

\* The strengthened invariant holds in every reachable state.
THEOREM EpollerInvHolds == EpollerSpec => []EpollerInv
  BY InitEpollerInv, NextEpollerInv, PTL DEF EpollerSpec

(***************************************************************************)
(* The kernel is registered for what the event in the table wants, and who *)
(* wants something is in the table, whoever destroys what and when; up to  *)
(* a descriptor that is used again before its last event is destroyed.     *)
(***************************************************************************)
THEOREM KernelMatchesHolds == EpollerSpec => []KernelMatches
  BY EpollerInvHolds, PTL DEF EpollerInv

\* A callback is for what this turn of epoll_wait reported, unless the event strayed.
THEOREM CalledWhenReportedHolds == EpollerSpec => []CalledWhenReported
<1>1. EpollerInv => CalledWhenReported
  BY DEF EpollerInv, EpollTurnInv
<1> QED BY <1>1, EpollerInvHolds, PTL

-----------------------------------------------------------------------------
(***************************************************************************)
(* The three together (MCTcpReader.tla).                                   *)
(***************************************************************************)
ReadInv == BInv /\ BufferInv /\ EpollerInv

\* Everything between the kernel and the reader stays what its type says.
THEOREM ReadTypesHold == ReadSpec => []ReadTypesOK
<1>1. ReadInit => ReadInv
  BY InitBInv, InitBufferInv, InitEpollerInv DEF ReadInit, ReadInv
<1>2. [ReadNext]_<<vars, bufferVars, epollerVars>>
        => [Next]_vars /\ [BufferNext]_bufferVars /\ [EpollerNext]_epollerVars
  BY DEF ReadNext
<1>3. ReadInv /\ [ReadNext]_<<vars, bufferVars, epollerVars>> => ReadInv'
  BY <1>2, NextBInv, NextBufferInv, NextEpollerInv DEF ReadInv
<1>4. ReadInv => ReadTypesOK
  BY DEF ReadInv, BInv, BufferInv, EpollerInv, TableInv, ReadTypesOK
<1> QED BY <1>1, <1>3, <1>4, PTL DEF ReadSpec
=============================================================================
