SPECIFICATION FairSpec
CONSTANTS
  Workers = {w1}
  Users = {u1}
  NoTask = NoTask
  MaxTasks = 1
CHECK_DEADLOCK FALSE
PROPERTY StopReturns
