SPECIFICATION MCSpec
CONSTANTS
  None = None
  MaxSockets = 3
  MaxCalls = 4
  Names = {n1, n2}
  MaxQueries = 3
  Timeouts = {0, 1}
  Workers = 1
  MaxTime = 2
CHECK_DEADLOCK FALSE
INVARIANTS NoDoubleClose ResolversAnswerRight
PROPERTIES AttemptIsAnswered QueriesAreAnswered
