--------------------------- MODULE FileBufferNode ---------------------------
(* A file that sendFile() sends: FileBufferNodeUnix.cc, and the two ways in  *)
(* which sendNodeInLoop() takes the bytes of a file: sendfile(2), or         *)
(* getData(), writeInLoop() and retrieve() where the connection is encrypted *)
(* or the kernel is not Linux.  A byte is its place in the file, from 1.     *)
EXTENDS Integers, Sequences

CONSTANTS
  FileSize,                \* the largest file
  kMaxSendFileBufferSize   \* what getData() reads at once

VARIABLES
  fileSize,         \* st_size
  offset, length,   \* what sendFile() was called with
  asked,            \* history: the number of bytes that this means
  available,        \* sendFd_ >= 0
  isDone,           \* isDone_
  pos,              \* the file offset of sendFd_
  fileBytesToSend,  \* fileBytesToSend_
  msgBuffer,        \* the bytes in msgBufferPtr_
  capacity,         \* what msgBufferPtr_ holds when it is empty, 0 for nullptr
  way,              \* how the bytes are taken: "sendfile" or "read"
  sent,             \* the bytes that the connection took
  readFailed        \* history: a read(2) of the file has failed

fvars == <<fileSize, offset, length, asked, available, isDone, pos,
           fileBytesToSend, msgBuffer, capacity, way, sent, readFailed>>
callVars == <<offset, length, asked, available, way>>

Least(x, y) == IF x < y THEN x ELSE y

Bytes(from, to) == [i \in 1 .. to - from |-> from + i]

\* The constructor: the range is in the file; a length of 0 means its rest.
InFile == IF length = 0 THEN offset < fileSize ELSE length <= fileSize - offset
ToSend == IF length = 0 THEN fileSize - offset ELSE length

\* The node that sendFile() makes; open() or stat() may fail.
FInit ==
  /\ fileSize \in 0 .. FileSize
  /\ offset \in 0 .. FileSize /\ length \in 0 .. FileSize
  /\ way \in {"sendfile", "read"}
  /\ available \in {FALSE, InFile}
  /\ isDone = ~available
  /\ pos = IF available THEN offset ELSE 0
  /\ fileBytesToSend = IF available THEN ToSend ELSE 0
  /\ asked = fileBytesToSend
  /\ msgBuffer = <<>> /\ capacity = 0
  /\ sent = <<>> /\ readFailed = FALSE

\* remainingBytes()
RemainingBytes == IF isDone THEN 0 ELSE fileBytesToSend

\* sendfile(2) takes some bytes from the file offset on, which moves, and
\* retrieve() counts them.  One that takes none, at the end of a truncated file or
\* because it fails, leaves the node as it is: sendNodeInLoop() returns before
\* retrieve(), and its caller tries again or drops the node (see TcpConnection).
SendFile ==
  /\ way = "sendfile" /\ RemainingBytes > 0
  /\ \E n \in 1 .. Least(RemainingBytes, fileSize - pos) :
       /\ sent' = sent \o Bytes(pos, pos + n)
       /\ pos' = pos + n
       /\ fileBytesToSend' = fileBytesToSend - n
  /\ UNCHANGED <<callVars, fileSize, isDone, msgBuffer, capacity, readFailed>>

\* getData(): ensureWritableBytes() makes room for as many bytes as are to be
\* sent, and read(2) reads as many as there is room for.  retrieve() leaves the
\* buffer as large as it was.
Room ==
  LET need == Least(kMaxSendFileBufferSize, fileBytesToSend)
  IN IF capacity >= need THEN capacity ELSE need

\* What getData() leaves in the buffer, by whether its read(2) fails: a read of a
\* file returns less than it was asked for only at the end, and one that fails
\* leaves the buffer empty.
Data(fails) ==
  IF msgBuffer # <<>> THEN msgBuffer
  ELSE IF fails THEN <<>> ELSE Bytes(pos, Least(pos + Room, fileSize))

\* Mutant: retrieve() counts what getData() returned.
MutRetrieve(b, n) ==
  /\ msgBuffer' = SubSeq(b, n + 1, Len(b))
  /\ fileBytesToSend' =
       IF Len(b) > fileBytesToSend THEN 0 ELSE fileBytesToSend - Len(b)

\* retrieve(n) when the buffer holds b
Retrieve(b, n) ==
  /\ msgBuffer' = SubSeq(b, n + 1, Len(b))
  /\ fileBytesToSend' = IF n > fileBytesToSend THEN 0 ELSE fileBytesToSend - n

\* One round of the loop in sendNodeInLoop(): getData(), done() if it has no
\* data, also when the read failed, writeInLoop() of all of it, which takes n
\* bytes, and retrieve().
SendChunk(fails) ==
  /\ way = "read" /\ RemainingBytes > 0
  /\ capacity' = IF msgBuffer = <<>> THEN Room ELSE capacity
  /\ pos' = IF msgBuffer = <<>> THEN pos + Len(Data(fails)) ELSE pos
  /\ isDone' = (Data(fails) = <<>>)
  /\ readFailed' = (msgBuffer = <<>> /\ fails)
  /\ \E n \in 0 .. Len(Data(fails)) :
       /\ sent' = sent \o SubSeq(Data(fails), 1, n)
       /\ Retrieve(Data(fails), n)
  /\ UNCHANGED <<callVars, fileSize>>

\* The file is truncated while it is sent; to read behind its end is the same
\* as to read at it.
Truncate ==
  /\ RemainingBytes > 0
  /\ fileSize' \in pos .. fileSize - 1
  /\ UNCHANGED <<callVars, isDone, pos, fileBytesToSend, msgBuffer, capacity,
                 sent, readFailed>>

FNext == SendFile \/ (\E fails \in BOOLEAN : SendChunk(fails)) \/ Truncate

FSpec == FInit /\ [][FNext]_fvars

-----------------------------------------------------------------------------
\* Short writes, failing reads and a file that shrinks: what is sent is the file
\* from the offset on, without a gap and in order, and remainingBytes() becomes
\* 0 only when all that was asked for is sent, at the end of the file, or when a
\* read has failed: then the rest is given up, and the connection goes on with
\* what was sent behind the file.
\* With sendfile(2), and where the range ends with the file, nothing behind the
\* range is sent.
FileIsSent ==
  /\ available => sent = Bytes(offset, offset + Len(sent))
  /\ RemainingBytes = 0 =>
       Len(sent) >= asked \/ (isDone /\ (pos = fileSize \/ readFailed))
  /\ fileBytesToSend = IF Len(sent) < asked THEN asked - Len(sent) ELSE 0
  /\ way = "sendfile" \/ length = 0 => Len(sent) <= asked

\* sendFile() sends length bytes: TcpConnection.h documents the length as a
\* parameter of "Send a file to the peer."  It does not hold of getData(), which
\* reads as much as the buffer holds also at the end of the range.
SendsTheRange == Len(sent) <= asked
=============================================================================
