----------------------------- MODULE LoggerFile -----------------------------
(***************************************************************************)
(* AsyncFileLogger::LoggerFile (utils/AsyncFileLogger.cc): logs go to the  *)
(* file with the base name, which is renamed when it is too long and when  *)
(* the logger is destroyed; with a limit on the number of files the oldest *)
(* are deleted.  The directory outlives the process.                       *)
(*                                                                         *)
(* A name is the pair of the date and the number it is made of; names are  *)
(* compared as the strings are.  A buffer is one record.                   *)
(***************************************************************************)
EXTENDS Naturals, Sequences, FiniteSets, SequencesExt, FiniteSetsExt

CONSTANTS
  Limits,             \* the values of setMaxFiles(); 0 is no limit
  sizeLimit,          \* sizeLimit_, in records
  MaxSeconds,         \* bound: the clock
  MaxRecords,         \* bound: records
  MaxFailures         \* bound: calls of rename() that fail

VARIABLES
  clock,          \* the time in seconds
  base,           \* the records of the file with the base name
  files,          \* the records of each renamed file
  logger,         \* the LoggerFile: none, new, or used
  maxFiles,       \* its maxFiles_
  switchOnLimitOnly,  \* its switchOnLimitOnly_
  creationDate,   \* its creationDate_
  filenameQueue,  \* its filenameQueue_
  fileSeq,        \* fileSeq_, of the process
  records,        \* records written so far
  failures,       \* calls of rename() that failed
  deleted,        \* history: records of files that were removed
  again           \* history: a process used the creation date of an earlier one

vars == <<clock, base, files, logger, maxFiles, switchOnLimitOnly, creationDate,
          filenameQueue, fileSeq, records, failures, deleted, again>>

Init ==
  /\ clock = 1 /\ creationDate = 0
  /\ maxFiles = 0 /\ switchOnLimitOnly = FALSE
  /\ base = {} /\ files = [n \in {} |-> {}]
  /\ logger = "none" /\ filenameQueue = <<>> /\ fileSeq = 0
  /\ records = 0 /\ failures = 0 /\ deleted = {} /\ again = FALSE

\* The order of the names as strings
Older(m, n) == m[1] < n[1] \/ (m[1] = n[1] /\ m[2] < n[2])

Without(fs, names) == [n \in DOMAIN fs \ names |-> fs[n]]
With(fs, name, content) ==
  [n \in DOMAIN fs \cup {name} |-> IF n = name THEN content ELSE fs[n]]

Lost(fs, names) == UNION {fs[n] : n \in names \cap DOMAIN fs}

\* The files that initFilenameQueue() keeps
Newest(names, max) ==
  {n \in names : Cardinality({m \in names : Older(n, m)}) < max}

\* The constructor, called for the first record: the directory is searched for
\* the files of earlier loggers.
Open ==
  /\ logger = "none"
  /\ logger' = "new" /\ creationDate' = clock
  /\ again' = (again \/ (creationDate = clock /\ fileSeq = 0))
  /\ maxFiles' \in Limits /\ switchOnLimitOnly' \in BOOLEAN
  /\ LET keep == IF maxFiles' > 0 THEN Newest(DOMAIN files, maxFiles')
                 ELSE DOMAIN files
     IN /\ filenameQueue' = IF maxFiles' > 0 THEN SetToSortSeq(keep, Older) ELSE <<>>
        /\ files' = Without(files, DOMAIN files \ keep)
        /\ deleted' = deleted \cup Lost(files, DOMAIN files \ keep)
  /\ UNCHANGED <<clock, base, fileSeq, records, failures>>

\* ++fileSeq_
NextSeq == fileSeq + 1

\* The files that deleteOldFiles() removes
Old(queue) == IF Len(queue) > maxFiles
                THEN Range(SubSeq(queue, 1, Len(queue) - maxFiles)) ELSE {}

\* switchLog(), for the records in the file: rename() may fail, which nobody
\* looks at.
SwitchLog(content) ==
  LET name == <<creationDate, fileSeq % 1000000>>
      queue == Append(filenameQueue, name)
      old == IF maxFiles > 0 THEN Old(queue) ELSE {}
  IN /\ fileSeq' = NextSeq
     /\ filenameQueue' = IF maxFiles > 0
                           THEN SelectSeq(queue, LAMBDA n : n \notin old) ELSE <<>>
     /\ \E ok \in BOOLEAN :
          LET fs == IF ok THEN With(files, name, content) ELSE files
          IN /\ ok \/ failures < MaxFailures
             /\ failures' = IF ok THEN failures ELSE failures + 1
             /\ base' = IF ok THEN {} ELSE content
             /\ files' = Without(fs, old)
             /\ deleted' = deleted \cup Lost(fs, old)

\* writeLogToFile()
WriteLog ==
  /\ logger # "none" /\ records < MaxRecords
  /\ logger' = "used"
  /\ records' = records + 1
  /\ LET content == base \cup {records + 1}
     IN IF Cardinality(content) > sizeLimit THEN SwitchLog(content)
        ELSE /\ base' = content
             /\ UNCHANGED <<files, filenameQueue, fileSeq, failures, deleted>>
  /\ UNCHANGED <<clock, maxFiles, switchOnLimitOnly, creationDate, again>>

\* ~LoggerFile(); the process may go on with another logger.
Close ==
  /\ logger = "used"
  /\ logger' = "none"
  /\ IF switchOnLimitOnly
       THEN UNCHANGED <<base, files, filenameQueue, fileSeq, failures, deleted>>
       ELSE SwitchLog(base)
  /\ UNCHANGED <<clock, maxFiles, switchOnLimitOnly, creationDate, records, again>>

\* The process ends, in order or not, and is started again.
Restart ==
  /\ logger' = "none" /\ fileSeq' = 0 /\ filenameQueue' = <<>>
  /\ UNCHANGED <<clock, base, files, maxFiles, switchOnLimitOnly,
                 creationDate, records, failures, deleted, again>>

Second ==
  /\ clock < MaxSeconds
  /\ clock' = clock + 1
  /\ UNCHANGED <<base, files, logger, maxFiles, switchOnLimitOnly,
                 creationDate, filenameQueue, fileSeq, records, failures,
                 deleted, again>>

Next == Open \/ WriteLog \/ Close \/ Restart \/ Second

Spec == Init /\ [][Next]_vars

-----------------------------------------------------------------------------
\* "by default false, will generate new file name on each destroy"
\* (AsyncFileLogger.h): a renamed file replaces no other, so that a record is
\* lost only with a file that the limit removes.  "When the number exceeds the
\* limit, the oldest log file will be deleted." (setMaxFiles): there are never
\* more files than the limit, also of earlier processes, once a logger is
\* there, and what was deleted is older than all that is kept.  The exception:
\* fileSeq_ starts at 0 in each process, so one that starts in the second of
\* the last one's creation date uses its names.
NoRecordLost ==
  LET kept == UNION {files[n] : n \in DOMAIN files}
  IN /\ again \/ 1 .. records = base \cup deleted \cup kept
     /\ again \/ \A d \in deleted, r \in kept : d < r
     /\ maxFiles > 0 /\ logger # "none" =>
          Cardinality(DOMAIN files) <= maxFiles
=============================================================================
