------------------------------ MODULE MsgBuffer ------------------------------
(***************************************************************************)
(* trantor::MsgBuffer (utils/MsgBuffer.cc): bytes between head_ and tail_  *)
(* of a vector, with free space before and after them.                     *)
(*                                                                         *)
(* The operations on integers are the ones on the bytes they consist of.   *)
(* std::copy() is memmove() here, as in the standard libraries: the ranges *)
(* may overlap.                                                            *)
(***************************************************************************)
EXTENDS Integers, Sequences

CONSTANTS
  kBufferOffset,  \* the free space in front of a new buffer
  ExtSize,        \* the size of extBuffer in readFd()
  initLen,        \* the argument of the constructor
  Byte,
  Chunks,         \* the sequences of bytes that are appended, read, put in front
  Lens,           \* the arguments of retrieve() and ensureWritableBytes()
  MaxLen          \* bound: bytes in the buffer

ASSUME SizesAssumption ==
  /\ kBufferOffset \in Nat /\ ExtSize \in Nat /\ initLen \in Nat
  /\ Lens \subseteq Nat /\ MaxLen \in Nat

ASSUME ChunksAssumption == Chunks \subseteq Seq(Byte) /\ 0 \in Byte

VARIABLES
  buffer,   \* buffer_, from 0
  size,     \* buffer_.size()
  head,     \* head_
  tail,     \* tail_
  initCap   \* initCap_

bufferVars == <<buffer, size, head, tail, initCap>>

readableBytes == tail - head
writableBytes == size - tail

\* The bytes in the buffer
Data == [i \in 1 .. tail - head |-> buffer[head + i - 1]]

BufferInit ==
  /\ head = kBufferOffset /\ tail = kBufferOffset
  /\ initCap = initLen
  /\ size = initLen + kBufferOffset
  /\ buffer = [j \in 0 .. initLen + kBufferOffset - 1 |-> 0]

\* The first n, and all but the first n, elements of s
First(s, n) == [i \in 1 .. n |-> s[i]]
Rest(s, n) == [i \in 1 .. Len(s) - n |-> s[n + i]]

\* The vector buf of n bytes with s at position at
Written(buf, n, at, s) ==
  [j \in 0 .. n - 1 |->
     IF at <= j /\ j < at + Len(s) THEN s[j - at + 1] ELSE buf[j]]

\* A new vector of n bytes with s at kBufferOffset
Fresh(n, s) ==
  [j \in 0 .. n - 1 |->
     IF kBufferOffset <= j /\ j < kBufferOffset + Len(s)
       THEN s[j - kBufferOffset + 1] ELSE 0]

\* The bytes up to t can be moved to the front to make room.
Movable(t, len) == head + (size - t) >= len + kBufferOffset

\* The length that ensureWritableBytes() gives a new buffer
NewLen(t, len) ==
  IF size * 2 > kBufferOffset + (t - head) + len THEN size * 2
  ELSE kBufferOffset + (t - head) + len

\* The bytes of buf up to t
Bytes(buf, t) == [i \in 1 .. t - head |-> buf[head + i - 1]]

\* ensureWritableBytes(len) on a buffer that is filled up to t, and the write of s
\* behind its bytes
EnsureAndWrite(buf, t, len, s) ==
  \/ /\ size - t >= len
     /\ buffer' = Written(buf, size, t, s)
     /\ tail' = t + Len(s)
     /\ UNCHANGED <<size, head, initCap>>
  \/ /\ size - t < len /\ Movable(t, len)
     /\ buffer' = Written(buf, size, kBufferOffset, Bytes(buf, t) \o s)
     /\ head' = kBufferOffset
     /\ tail' = kBufferOffset + (t - head) + Len(s)
     /\ UNCHANGED <<size, initCap>>
  \/ /\ size - t < len /\ ~Movable(t, len)
     /\ buffer' = Fresh(NewLen(t, len) + kBufferOffset, Bytes(buf, t) \o s)
     /\ size' = NewLen(t, len) + kBufferOffset
     /\ head' = kBufferOffset
     /\ tail' = kBufferOffset + (t - head) + Len(s)
     /\ initCap' = NewLen(t, len)

-----------------------------------------------------------------------------
\* append(), and the appendInt functions
DoAppend(s) ==
  /\ readableBytes + Len(s) <= MaxLen
  /\ EnsureAndWrite(buffer, tail, Len(s), s)

EnsureWritableBytes(len) == EnsureAndWrite(buffer, tail, len, <<>>)

\* The caller writes at beginWrite() and calls hasWritten(); or readFd(), when the
\* bytes of readv() fit into the buffer.
HasWritten(s) ==
  /\ Len(s) <= writableBytes /\ readableBytes + Len(s) <= MaxLen
  /\ buffer' = Written(buffer, size, tail, s)
  /\ tail' = tail + Len(s)
  /\ UNCHANGED <<size, head, initCap>>

\* readFd() when readv() fills the buffer and goes on in extBuffer: then the bytes
\* there are appended.
ReadFdExt(s) ==
  /\ writableBytes < ExtSize
  /\ writableBytes < Len(s) /\ Len(s) <= writableBytes + ExtSize
  /\ readableBytes + Len(s) <= MaxLen
  /\ EnsureAndWrite(Written(buffer, size, tail, First(s, writableBytes)), size,
                    Len(s) - writableBytes, Rest(s, writableBytes))

\* The bytes can be moved back to make room in front.
Fits(len) == len <= writableBytes

\* Mutant: s is written before the bytes are moved out of its way.
MutBehind(s) ==
  s \o [i \in 1 .. Len(Data) |-> IF i <= Len(s) THEN s[i] ELSE Data[i]]

\* s, with the bytes moved behind it
Behind(s) == s \o Data

\* addInFront(), and the addInFrontInt functions
AddInFront(s) ==
  /\ readableBytes + Len(s) <= MaxLen
  /\ \/ /\ head >= Len(s)
        /\ buffer' = Written(buffer, size, head - Len(s), s)
        /\ head' = head - Len(s)
        /\ UNCHANGED <<size, tail, initCap>>
     \/ /\ head < Len(s) /\ Fits(Len(s))
        /\ buffer' = Written(buffer, size, head, Behind(s))
        /\ tail' = tail + Len(s)
        /\ UNCHANGED <<size, head, initCap>>
     \/ /\ head < Len(s) /\ ~Fits(Len(s))
        /\ LET n == IF Len(s) + readableBytes < initCap THEN initCap
                    ELSE Len(s) + readableBytes
           IN /\ buffer' = Fresh(n + kBufferOffset, s \o Data)
              /\ size' = n + kBufferOffset
              /\ initCap' = n
        /\ head' = kBufferOffset
        /\ tail' = kBufferOffset + Len(s) + readableBytes

\* The size after retrieveAll()
Shrunk == IF size > initCap * 2 THEN initCap ELSE size

RetrieveAll ==
  /\ size' = Shrunk
  /\ buffer' = [j \in 0 .. Shrunk - 1 |-> buffer[j]]
  /\ head' = kBufferOffset /\ tail' = kBufferOffset
  /\ UNCHANGED initCap

\* retrieve(), retrieveUntil(), read() and the readInt functions
Retrieve(len) ==
  \/ len >= readableBytes /\ RetrieveAll
  \/ /\ len < readableBytes
     /\ head' = head + len
     /\ UNCHANGED <<buffer, size, tail, initCap>>

Unwrite(offset) ==
  /\ readableBytes >= offset
  /\ tail' = tail - offset
  /\ UNCHANGED <<buffer, size, head, initCap>>

BufferNext ==
  \/ \E s \in Chunks : DoAppend(s) \/ HasWritten(s) \/ ReadFdExt(s) \/ AddInFront(s)
  \/ \E len \in Lens : EnsureWritableBytes(len) \/ Retrieve(len) \/ Unwrite(len)
  \/ RetrieveAll

BufferSpec == BufferInit /\ [][BufferNext]_bufferVars

-----------------------------------------------------------------------------
\* "writableBytes: Return the size of the empty part in the buffer": the bytes lie
\* in the vector, so that no operation writes or reads outside of it.  Every
\* sequence of operations keeps this, when the constructor got at least
\* kBufferOffset.
InBounds == head <= tail /\ tail <= size

\* Once written, bytes change only at the ends: moving, growing and shrinking the
\* vector are not seen.
Queue == INSTANCE ByteQueue WITH data <- Data
IsByteQueue == Queue!Spec
=============================================================================
