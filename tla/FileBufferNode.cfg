SPECIFICATION FSpec
CONSTANTS
  FileSize = 5
  kMaxSendFileBufferSize = 2
CHECK_DEADLOCK FALSE
INVARIANT SendsTheRange
