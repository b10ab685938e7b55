SPECIFICATION MCSpec
CONSTANTS
  kBufferOffset = 2
  ExtSize = 2
  initLen = 2
  Byte = {0, 1, 2}
  Chunks <- ShortChunks
  Lens = {0, 1, 3}
  MaxLen = 3
  FileSize = 5
  kMaxSendFileBufferSize = 2
  Providers = {"openssl", "botan"}
  MaxData = 3
  MaxRecords = 6
  MaxSend = 3
  BotanSizes = {1, 2}
  Loops = {l1, l2}
  Keys = {k1, k2, k3}
  MaxStores = 3
  maxSessions = 1
  mexExtendSize = 1
  Capacity = 12
  IntBits = 8
  Digits10 = 2
  Ints <- MCInts
  RealSize = 5
  Texts = {0, 1, 5, 12}
  MaxItems = 4
  Threads = {t1, t2}
  Sinks = {"file"}
  Channels = {0, 1}
  Settings = {"level", "time", "sink"}
  MaxSeconds = 2
  MaxChanges = 2
  MaxLines = 2
  BlockBytes = 8
  LenBytes = 4
  ByteBits = 2
  HashBytes = 3
  ReseedCalls = 3
  MaxMessage = 26
  MaxCalls = 8
  DaySeconds = 4
  FracDigits = 2
  MaxDays = 6
  MaxText = 3
  MaxString = 6
SYMMETRY Symmetry
CHECK_DEADLOCK FALSE
INVARIANTS FileIsSent TlsDelivers SessionRefs
  LineIsWhole LinesGoOut DigestInput DateConversions StringsAreKept
PROPERTIES IsByteQueue FinAfterAlert
