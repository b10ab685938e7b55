------------------------------ MODULE MCThreads ------------------------------
(* The classes that have threads of their own.  A behaviour is one of a       *)
(* ConcurrentTaskQueue, of an EventLoopThread, of a SerialTaskQueue, of the   *)
(* buffers and the thread of an AsyncFileLogger, or of the files that loggers *)
(* leave in a directory; the variables of the others stay as they are.        *)
EXTENDS ConcurrentTaskQueue

CONSTANTS
  Owner, NoFunc, MaxFuncs,
  kMemBufferSize, Limit, MaxMsgs, Buffers, None,
  Limits, sizeLimit, MaxSeconds, MaxRecords, MaxFailures

VARIABLES
  class,  \* the class that this behaviour is about
  tpc, funcs, func, quit, loopPtr, held, runSet, loopSet, once, upc, queued, ran,
  nested, nestings, asked,
  content, logBuffer, nextBuffer, writeBuffers, tmpBuffers, lostCounter, stopFlag,
  logpc, tmpPtr, notified, dpc, file, msgs, accepted,
  clock, base, files, logger, maxFiles, switchOnLimitOnly, creationDate,
  filenameQueue, fileSeq, records, failures, deleted, again

Serial == INSTANCE SerialTaskQueue
Log == INSTANCE AsyncFileLogger WITH pc <- logpc
Files == INSTANCE LoggerFile

threadVars == <<tpc, funcs, func, quit, loopPtr, held, runSet, loopSet, once, upc,
                queued, ran>>
serialVars == <<threadVars, nested, nestings, asked>>
logVars == <<content, logBuffer, nextBuffer, writeBuffers, tmpBuffers, lostCounter,
             stopFlag, logpc, tmpPtr, notified, dpc, file, msgs, accepted>>
fileVars == <<clock, base, files, logger, maxFiles, switchOnLimitOnly, creationDate,
              filenameQueue, fileSeq, records, failures, deleted, again>>
allVars == <<class, vars, serialVars, logVars, fileVars>>

MCInit ==
  /\ Init /\ Serial!QInit /\ Log!Init /\ Files!Init
  /\ class \in {"concurrent", "thread", "serial", "logger", "files"}

MCNext ==
  /\ \/ /\ class = "concurrent" /\ Next
        /\ UNCHANGED <<serialVars, logVars, fileVars>>
     \/ /\ class = "thread" /\ Serial!Next
        /\ UNCHANGED <<vars, nested, nestings, asked, logVars, fileVars>>
     \/ /\ class = "serial" /\ Serial!QNext
        /\ UNCHANGED <<vars, logVars, fileVars>>
     \/ /\ class = "logger" /\ Log!Next
        /\ UNCHANGED <<vars, serialVars, fileVars>>
     \/ /\ class = "files" /\ Files!Next
        /\ UNCHANGED <<vars, serialVars, logVars>>
  /\ UNCHANGED class

\* A step of the class
Step(step, logStep) ==
  /\ \/ class = "concurrent" /\ step /\ UNCHANGED <<serialVars, logVars, fileVars>>
     \/ class = "logger" /\ logStep /\ UNCHANGED <<vars, serialVars, fileVars>>
  /\ UNCHANGED class

\* The fairness of ConcurrentTaskQueue and that of AsyncFileLogger
MCSpec ==
  /\ MCInit /\ [][MCNext]_allVars
  /\ \A w \in Workers : SF_allVars(Step(WorkerStep(w), FALSE))
  /\ WF_allVars(Step(\E t \in Users : UserStep(t), Log!ThreadStep))
  /\ WF_allVars(Step(FALSE, Log!DtorStep))

-----------------------------------------------------------------------------
\* The destructor of an EventLoopThread uses the loop while it exists, and
\* waitAllTasksFinished() of a SerialTaskQueue on top of it waits for all tasks
\* before it: see EventLoopThread and SerialTaskQueue.
DtorUsesLiveLoop ==
  /\ class = "thread" => Serial!TypeOK
  /\ class \in {"thread", "serial"} => Serial!DtorUsesLiveLoop /\ Serial!WaitAllMeansDone

\* The messages of a logger reach its file in order, and a record in a file is
\* lost only with the oldest one, which the limit removes: see AsyncFileLogger
\* and LoggerFile.
RecordsAreKept ==
  /\ class = "logger" => Log!InOrder
  /\ class = "files" => Files!NoRecordLost

\* They do reach it: see AsyncFileLogger.
ReachesFile == Log!ReachesFile
=============================================================================
