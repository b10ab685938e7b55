SPECIFICATION MCSpec
CONSTANTS
  t1 = t1
  t2 = t2
  Threads = {t1, t2}
  LoopThread = loop
  NoFunc = NoFunc
  MaxFuncs = 2
  MaxQuitFuncs = 1
  Throws = {"std", "other"}
  Destroyers = {t1}
CHECK_DEADLOCK FALSE
INVARIANTS NoLostWakeup NoLostQuit FuncsInOrder
PROPERTIES QueuedFuncRuns DestroyReturns
