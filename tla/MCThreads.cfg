SPECIFICATION MCSpec
CONSTANTS
  Workers = {w1, w2}
  Users = {u1}
  NoTask = NoTask
  MaxTasks = 3
  Owner = owner
  NoFunc = NoFunc
  MaxFuncs = 2
  Buffers = {b1, b2, b3, b4, b5, b6}
  kMemBufferSize = 2
  Limit = 1
  MaxMsgs = 4
  None = None
  Limits = {0, 2}
  sizeLimit = 1
  MaxSeconds = 2
  MaxRecords = 4
  MaxFailures = 1
CHECK_DEADLOCK FALSE
INVARIANTS TasksAreTaken DtorUsesLiveLoop RecordsAreKept
PROPERTIES ReachesFile SyncIsAnswered
