--------------------------- MODULE AsyncFileLogger ---------------------------
(***************************************************************************)
(* trantor::AsyncFileLogger (utils/AsyncFileLogger.cc): any thread appends *)
(* messages to a buffer; full buffers are queued for a thread that writes  *)
(* them to the file and gives one back for reuse.  The destructor stops    *)
(* the thread and writes what is left.                                     *)
(*                                                                         *)
(* What runs under mutex_ is one step.  A message is its number and its    *)
(* length.  fopen() and fwrite() succeed.                                  *)
(***************************************************************************)
EXTENDS Naturals, Sequences, SequencesExt

CONSTANTS
  kMemBufferSize,  \* capacity of a buffer
  Limit,           \* the queued buffers beyond which messages are dropped (25)
  MaxMsgs,         \* bound: messages
  Buffers,         \* the strings
  None

VARIABLES
  content,                     \* the messages in each buffer
  logBuffer, nextBuffer,       \* logBufferPtr_, nextBufferPtr_
  writeBuffers, tmpBuffers,    \* writeBuffers_, tmpBuffers_
  lostCounter,                 \* lostCounter_
  stopFlag,                    \* stopFlag_
  pc,                          \* the logging thread; "none" before startLogging()
  tmpPtr,                      \* its buffer
  notified,                    \* cond_ was notified while it waits
  dpc,                         \* the destructor
  file,                        \* what was written to the file
  msgs,                        \* calls of output() so far
  accepted                     \* history: what was put into a buffer

bufVars == <<content, logBuffer, nextBuffer, writeBuffers>>
vars == <<bufVars, tmpBuffers, lostCounter, stopFlag, pc, tmpPtr, notified, dpc,
          file, msgs, accepted>>

Init ==
  /\ content = [b \in Buffers |-> <<>>]
  /\ logBuffer = CHOOSE b \in Buffers : TRUE
  /\ nextBuffer = CHOOSE b \in Buffers : b # logBuffer
  /\ writeBuffers = <<>> /\ tmpBuffers = <<>>
  /\ lostCounter = 0 /\ stopFlag = FALSE
  /\ pc = "none" /\ tmpPtr = None /\ notified = FALSE
  /\ dpc = "alive"
  /\ file = <<>> /\ msgs = 0 /\ accepted = <<>>

\* The characters in a buffer.  The report of lost messages is short and counts as
\* nothing.
Length(c) == FoldLeft(LAMBDA n, m : n + m.len, 0, c)

InUse ==
  {logBuffer, nextBuffer, tmpPtr} \cup Range(writeBuffers) \cup Range(tmpBuffers)

\* std::make_shared<std::string>()
NewBuffer == CHOOSE b \in Buffers : b \notin InUse

\* Mutant: nextBufferPtr_ is not reset.
MutSwapBuffer ==
  LET b == IF nextBuffer # None THEN nextBuffer ELSE NewBuffer
  IN [content |-> [content EXCEPT ![b] = <<>>], log |-> b, next |-> nextBuffer,
      write |-> Append(writeBuffers, logBuffer)]

\* swapBuffer(): the buffers after it
SwapBuffer ==
  LET b == IF nextBuffer # None THEN nextBuffer ELSE NewBuffer
  IN [content |-> [content EXCEPT ![b] = <<>>], log |-> b, next |-> None,
      write |-> Append(writeBuffers, logBuffer)]

Unswapped == [content |-> content, log |-> logBuffer, next |-> nextBuffer,
              write |-> writeBuffers]

Become(s) ==
  logBuffer' = s.log /\ nextBuffer' = s.next /\ writeBuffers' = s.write

-----------------------------------------------------------------------------
\* "100M bytes logs in buffer"
Drops(write) == Len(write) > Limit

\* output(): the thread is notified when the buffer is full; the message is
\* dropped when too many buffers wait.
Output(len) ==
  /\ dpc = "alive" /\ msgs < MaxMsgs /\ len <= kMemBufferSize
  /\ msgs' = msgs + 1
  /\ LET full == kMemBufferSize - Length(content[logBuffer]) < len
         s == IF full THEN SwapBuffer ELSE Unswapped
         lost == IF lostCounter > 0
                   THEN <<[lost |-> lostCounter, len |-> 0]>> ELSE <<>>
         added == lost \o <<[msg |-> msgs + 1, len |-> len]>>
     IN /\ Become(s)
        /\ notified' = (notified \/ (full /\ pc = "waiting"))
        /\ IF Drops(s.write)
             THEN /\ lostCounter' = lostCounter + 1
                  /\ content' = s.content
                  /\ UNCHANGED accepted
             ELSE /\ lostCounter' = 0
                  /\ content' = [s.content EXCEPT ![s.log] = @ \o added]
                  /\ accepted' = accepted \o added
  /\ UNCHANGED <<tmpBuffers, stopFlag, pc, tmpPtr, dpc, file>>

\* output() of a message that is too long for any buffer
OutputTooLong ==
  /\ dpc = "alive" /\ msgs < MaxMsgs
  /\ msgs' = msgs + 1
  /\ UNCHANGED <<bufVars, tmpBuffers, lostCounter, stopFlag, pc, tmpPtr, notified,
                 dpc, file, accepted>>

Flush ==
  /\ dpc = "alive" /\ content[logBuffer] # <<>>
  /\ Become(SwapBuffer) /\ content' = SwapBuffer.content
  /\ notified' = (notified \/ pc = "waiting")
  /\ UNCHANGED <<tmpBuffers, lostCounter, stopFlag, pc, tmpPtr, dpc, file, msgs,
                 accepted>>

StartLogging ==
  /\ dpc = "alive" /\ pc = "none"
  /\ pc' = "check"
  /\ UNCHANGED <<bufVars, tmpBuffers, lostCounter, stopFlag, tmpPtr, notified, dpc,
                 file, msgs, accepted>>

-----------------------------------------------------------------------------
(* logThreadFunc()                                                         *)

Check ==
  /\ pc = "check"
  /\ pc' = IF stopFlag THEN "done" ELSE "lock"
  /\ UNCHANGED <<bufVars, tmpBuffers, lostCounter, stopFlag, tmpPtr, notified, dpc,
                 file, msgs, accepted>>

\* The lock is taken, first or after a notification: wait, or take the buffers.
TakeOrWait ==
  /\ pc = "lock"
  /\ notified' = FALSE
  /\ IF writeBuffers = <<>> /\ ~stopFlag
       THEN pc' = "waiting" /\ UNCHANGED <<writeBuffers, tmpBuffers>>
       ELSE pc' = "write" /\ tmpBuffers' = writeBuffers /\ writeBuffers' = <<>>
  /\ UNCHANGED <<content, logBuffer, nextBuffer, lostCounter, stopFlag, tmpPtr, dpc,
                 file, msgs, accepted>>

\* wait_for() ends with a notification.
Notified ==
  /\ pc = "waiting" /\ notified
  /\ pc' = "lock"
  /\ UNCHANGED <<bufVars, tmpBuffers, lostCounter, stopFlag, tmpPtr, notified, dpc,
                 file, msgs, accepted>>

\* Mutant: the buffer in use is left alone.
MutTimeout ==
  /\ pc = "waiting"
  /\ pc' = "write" /\ notified' = FALSE
  /\ tmpBuffers' = writeBuffers /\ writeBuffers' = <<>>
  /\ UNCHANGED <<content, logBuffer, nextBuffer, lostCounter, stopFlag, tmpPtr, dpc,
                 file, msgs, accepted>>

\* wait_for() times out: the buffer in use is taken, too.
Timeout ==
  /\ pc = "waiting"
  /\ pc' = "write" /\ notified' = FALSE
  /\ LET s == IF content[logBuffer] # <<>> THEN SwapBuffer ELSE Unswapped
     IN /\ content' = s.content /\ logBuffer' = s.log /\ nextBuffer' = s.next
        /\ tmpBuffers' = s.write /\ writeBuffers' = <<>>
  /\ UNCHANGED <<lostCounter, stopFlag, tmpPtr, dpc, file, msgs, accepted>>

\* writeLogToFile(), and tmpPtr->clear()
Write ==
  /\ pc = "write" /\ tmpBuffers # <<>>
  /\ tmpPtr' = Head(tmpBuffers) /\ tmpBuffers' = Tail(tmpBuffers)
  /\ file' = file \o content[Head(tmpBuffers)]
  /\ content' = [content EXCEPT ![Head(tmpBuffers)] = <<>>]
  /\ pc' = "recycle"
  /\ UNCHANGED <<logBuffer, nextBuffer, writeBuffers, lostCounter, stopFlag, notified,
                 dpc, msgs, accepted>>

\* The buffer is the next one to be used.
Recycle ==
  /\ pc = "recycle"
  /\ nextBuffer' = tmpPtr /\ tmpPtr' = None
  /\ pc' = "write"
  /\ UNCHANGED <<content, logBuffer, writeBuffers, tmpBuffers, lostCounter, stopFlag,
                 notified, dpc, file, msgs, accepted>>

Written ==
  /\ pc = "write" /\ tmpBuffers = <<>>
  /\ pc' = "check"
  /\ UNCHANGED <<bufVars, tmpBuffers, lostCounter, stopFlag, tmpPtr, notified, dpc,
                 file, msgs, accepted>>

ThreadStep ==
  Check \/ TakeOrWait \/ Notified \/ Timeout \/ Write \/ Recycle \/ Written

-----------------------------------------------------------------------------
(* ~AsyncFileLogger(); nobody uses the logger any more.                    *)

SetStopFlag ==
  /\ dpc = "alive"
  /\ stopFlag' = TRUE /\ dpc' = "notify"
  /\ UNCHANGED <<bufVars, tmpBuffers, lostCounter, pc, tmpPtr, notified, file, msgs,
                 accepted>>

NotifyAll ==
  /\ dpc = "notify"
  /\ notified' = (notified \/ pc = "waiting") /\ dpc' = "join"
  /\ UNCHANGED <<bufVars, tmpBuffers, lostCounter, stopFlag, pc, tmpPtr, file, msgs,
                 accepted>>

\* What the thread has left
Left == IF content[logBuffer] # <<>> THEN Append(writeBuffers, logBuffer)
        ELSE writeBuffers

\* The thread has ended, or there is none: the rest is written.
Drain ==
  /\ dpc = "join" /\ pc \in {"done", "none"}
  /\ file' = file \o FlattenSeq([i \in DOMAIN Left |-> content[Left[i]]])
  /\ writeBuffers' = <<>>
  /\ dpc' = "dead"
  /\ UNCHANGED <<content, logBuffer, nextBuffer, tmpBuffers, lostCounter, stopFlag, pc,
                 tmpPtr, notified, msgs, accepted>>

DtorStep == NotifyAll \/ Drain

Next ==
  \/ \E len \in 1 .. kMemBufferSize : Output(len)
  \/ OutputTooLong \/ Flush \/ StartLogging
  \/ ThreadStep \/ SetStopFlag \/ DtorStep

Spec == Init /\ [][Next]_vars

\* The logging thread runs, wait_for() ends, and the destructor goes on.
FairSpec == Spec /\ WF_vars(ThreadStep) /\ WF_vars(DtorStep)

-----------------------------------------------------------------------------
Contents(bs) == FlattenSeq([i \in DOMAIN bs |-> content[bs[i]]])

\* Every message that was accepted is in the file or in one buffer on the way
\* to it, and in order: whatever buffers are swapped, recycled and queued, none
\* is in two places, and none is cleared before it was written.  All is in the
\* file when the destructor returns, at whatever point it met the thread.  The
\* queue is bounded ("100M bytes logs in buffer"), also by flush() and by the
\* time-outs of the thread.
InOrder ==
  /\ IF dpc = "dead" THEN file = accepted
     ELSE accepted = file \o Contents(tmpBuffers) \o Contents(writeBuffers)
                     \o content[logBuffer]
  /\ Len(writeBuffers) <= Limit + 1

\* All messages that were accepted reach the file without a flush() and without
\* more messages, because the wait of the thread ends after kLogFlushTimeout.
\* (Messages are bounded, so the file does catch up.)  The destructor returns,
\* also when its notification comes just before the thread waits.
ReachesFile ==
  /\ pc # "none" /\ file # accepted ~> file = accepted
  /\ dpc # "alive" ~> dpc = "dead"
=============================================================================
