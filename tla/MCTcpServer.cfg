SPECIFICATION MCSpec
CONSTANTS
  Base = base
  l1 = l1
  l2 = l2
  None = None
  Accept = Accept
  IoLoops <- AllLoops
  OwnPool = FALSE
  IdleTimeout = TRUE
  MaxConns = 3
CHECK_DEADLOCK FALSE
INVARIANTS StopIsSafe
PROPERTIES StopReturns
