SPECIFICATION MCSpec
CONSTANTS
  Threads = {t1}
  LoopThread = loop
  LoopKinds = {"mem", "file", "stream", "async"}
  ThreadKinds = {"mem", "file", "stream", "async"}
  MsgSize = 2
  MaxCalls = 2
  MaxLoopCalls = 1
  MaxAsync = 1
  Closes = TRUE
  WriteErrors = TRUE
  ShareStreams = TRUE
  MaxNow = 3
  MaxTimers = 2
  MaxFuncs = 2
  Delays = {0, 1}
  Intervals = {0, 1}
  bucketsNumPerWheel = 3
  maxTimeout = 2
  MaxTicks = 7
  timeout = 2
  Second = 2
  MaxStreams = 2
  NoEntry = NoEntry
CHECK_DEADLOCK FALSE
INVARIANTS WireOrder NoStuckData CloseOnce KickedOnTime NoTimerMissed
PROPERTIES CancelledNeverRuns
