------------------------------- MODULE Buffer -------------------------------
(***************************************************************************)
(* Buffer: a vector with a read and a write index, the ReadBuffer_ and the *)
(* WriteBuffer_ of a TcpConnection.  Users push and pop; the connection    *)
(* looks at the head with Read, offers it to the socket and moves the read *)
(* index by what Socket::Write returned.                                   *)
(***************************************************************************)
EXTENDS Integers, Sequences, SequencesExt

CONSTANTS
    Byte,        \* the values of a byte
    Junk,        \* what is at a place nobody wrote to
    InitSize,    \* InitSize_, the length of a new buffer_ (1024 in the program)
    Chunk,       \* the most that Read is asked for (1024 in the program)
    Wrap,        \* 2^64: the indices are of type uint64_t
    MaxPushed,   \* bound: the bytes ever pushed
    MaxBlocks    \* bound: how often Socket::Write returns -1 with EAGAIN

ASSUME SizesAssumption ==
    /\ InitSize \in Nat /\ Chunk \in Nat \ {0} /\ MaxPushed \in Nat /\ MaxBlocks \in Nat
    /\ Wrap \in Nat /\ InitSize + MaxPushed + Chunk + MaxBlocks < Wrap
ASSUME BytesAssumption == Junk \notin Byte

VARIABLES
    buffer,      \* buffer_
    readIndex,   \* readIndex_
    writeIndex,  \* writeIndex_
    in,          \* the bytes that were pushed and not dropped by Reset
    out,         \* the bytes that were popped or sent
    pushed,      \* how many bytes were ever pushed
    blocks       \* how often the socket would have blocked

bufferVars == <<buffer, readIndex, writeIndex, in, out, pushed, blocks>>

BufferTypeOK ==
    /\ buffer \in Seq(Byte \cup {Junk})
    /\ readIndex \in 0..(Wrap - 1) /\ writeIndex \in 0..(Wrap - 1)
    /\ in \in Seq(Byte \cup {Junk}) /\ out \in Seq(Byte \cup {Junk})
    /\ pushed \in 0..MaxPushed /\ blocks \in 0..MaxBlocks

BufferInit ==
    /\ buffer = [i \in 1..InitSize |-> Junk]
    /\ readIndex = 0 /\ writeIndex = 0
    /\ in = <<>> /\ out = <<>>
    /\ pushed = 0 /\ blocks = 0

-----------------------------------------------------------------------------
\* Write: the bytes are inserted before whatever is at the write index.
Write(bytes) ==
    /\ buffer' = SubSeq(buffer, 1, writeIndex) \o bytes
                    \o SubSeq(buffer, writeIndex + 1, Len(buffer))
    /\ writeIndex' = (writeIndex + Len(bytes)) % Wrap
    /\ UNCHANGED readIndex

\* The length that Read(buf, len) returns, and the bytes it copies.
ReadLen_NoClamp(len) == IF readIndex = writeIndex THEN 0 ELSE len

ReadLen(len) ==
    IF readIndex = writeIndex THEN 0
    ELSE IF (readIndex + len) % Wrap > writeIndex THEN (writeIndex - readIndex) % Wrap
    ELSE len

Read(len) ==
    LET at(i) == (readIndex + i) % Wrap
    IN  [i \in 1..ReadLen(len) |-> IF at(i) \in 1..Len(buffer) THEN buffer[at(i)] ELSE Junk]

\* UpdateReadIndex: a buffer that has been read to its end is reset.
UpdateReadIndex_NoWrap(count) ==
    IF readIndex + count = writeIndex
    THEN readIndex' = 0 /\ writeIndex' = 0 /\ buffer' = <<>>
    ELSE readIndex' = readIndex + count /\ UNCHANGED <<writeIndex, buffer>>

UpdateReadIndex(count) ==
    LET index == (readIndex + count) % Wrap
    IN  IF index = writeIndex
        THEN readIndex' = 0 /\ writeIndex' = 0 /\ buffer' = <<>>
        ELSE readIndex' = index /\ UNCHANGED <<writeIndex, buffer>>

-----------------------------------------------------------------------------
Push(bytes) ==
    /\ pushed + Len(bytes) <= MaxPushed
    /\ pushed' = pushed + Len(bytes)
    /\ in' = in \o bytes
    /\ Write(bytes)
    /\ UNCHANGED <<out, blocks>>

PopHead(len) ==
    /\ out' = out \o Read(len)
    /\ UpdateReadIndex(ReadLen(len))
    /\ UNCHANGED <<in, pushed, blocks>>

\* writeHandler: the socket takes count of the bytes it is offered.
Send(count) ==
    /\ count \in 1..ReadLen(Chunk)
    /\ out' = out \o SubSeq(Read(Chunk), 1, count)
    /\ UpdateReadIndex(count)
    /\ UNCHANGED <<in, pushed, blocks>>

\* writeHandler: count is -1, and goes to UpdateReadIndex as it is.
SendBlocks_Skips ==
    /\ blocks < MaxBlocks
    /\ blocks' = blocks + 1
    /\ ReadLen(Chunk) > 0
    /\ UpdateReadIndex(1)
    /\ UNCHANGED <<in, out, pushed>>

SendBlocks ==
    /\ blocks < MaxBlocks
    /\ blocks' = blocks + 1
    /\ ReadLen(Chunk) > 0
    /\ UpdateReadIndex(-1)
    /\ UNCHANGED <<in, out, pushed>>

\* TcpConnection::Reset drops what is in the buffer.
BufferReset ==
    /\ readIndex' = 0 /\ writeIndex' = 0 /\ buffer' = <<>>
    /\ in' = out
    /\ UNCHANGED <<out, pushed, blocks>>

BufferNext ==
    \/ \E bytes \in BoundedSeq(Byte, MaxPushed) : Push(bytes)
    \/ \E n \in 1..Chunk : PopHead(n) \/ Send(n)
    \/ SendBlocks \/ BufferReset

BufferSpec == BufferInit /\ [][BufferNext]_bufferVars

-----------------------------------------------------------------------------
\* What Read would give if it were asked for everything.
Unread == [i \in 1..((writeIndex - readIndex) % Wrap) |->
              LET at == (readIndex + i) % Wrap
              IN  IF at \in 1..Len(buffer) THEN buffer[at] ELSE Junk]

(***************************************************************************)
(* Even when the socket blocks no byte is lost or overtaken: the bytes     *)
(* that went in are found in order among those that came out and those     *)
(* inside, possibly with others in between.                                *)
(***************************************************************************)
Within(s, t) ==
    \E at \in [DOMAIN s -> DOMAIN t] :
        /\ \A i, j \in DOMAIN s : i < j => at[i] < at[j]
        /\ \A i \in DOMAIN s : t[at[i]] = s[i]

NothingLost == Within(in, out \o Unread)

(***************************************************************************)
(* What the comment on the class says, "Push and PopHead as queue": a      *)
(* Buffer is a ByteQueue whose queue is what lies between the indices.     *)
(* Pushing, popping, sending and dropping do what they should, and a       *)
(* socket that blocks does no more than put one byte in front.             *)
(***************************************************************************)
Abstract == INSTANCE ByteQueue WITH queue <- Unread

ImplementsByteQueue == Abstract!Spec
=============================================================================
