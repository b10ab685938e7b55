SPECIFICATION MCSpec
CONSTANTS
  Threads = {t1}
  LoopThread = loop
  LoopKinds = {"mem"}
  ThreadKinds = {"mem", "stream", "async"}
  MsgSize = 2
  MaxCalls = 2
  MaxLoopCalls = 1
  MaxAsync = 1
  Closes = FALSE
  WriteErrors = FALSE
  ShareStreams = FALSE
CHECK_DEADLOCK FALSE
INVARIANTS NothingSkipped
PROPERTIES DataIsSent
