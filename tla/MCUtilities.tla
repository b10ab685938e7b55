----------------------------- MODULE MCUtilities -----------------------------
(* The parts that need no event loop.  What the bytes of a connection go      *)
(* through: a MsgBuffer, the node of a file, and with TLS the provider and    *)
(* the cache of sessions.  And the utilities: the stream of a log line, the   *)
(* logger of each thread, digests and random bytes, dates, and strings.  A    *)
(* behaviour is one of the nine; the others stay in one initial state.        *)
(*                                                                            *)
(* Chunks of one and of two bytes; every range of files of up to five bytes,  *)
(* read two at a time; connections that send three units; two loops that      *)
(* store three sessions in a cache with room for one.  Log lines of up to     *)
(* four items around the end of the buffer; two threads, two channels and two *)
(* lines; messages of up to three blocks; three time zones, one of them with  *)
(* a saving time; texts of up to three characters around the limits of UTF-8. *)
EXTENDS MsgBuffer, TLC

ShortChunks == {<<1>>, <<2, 1>>}
MCInts == {-128, -9, 0, 127}
MCZones == {[std |-> 0, dst |-> 0, from |-> 0, to |-> 0],
            [std |-> -1, dst |-> 0, from |-> 0, to |-> 0],
            [std |-> 2, dst |-> 1, from |-> 13, to |-> 18]}
MCChars == {1, 127, 128, 255, 2047, 2048, 65535, 65536}

CONSTANTS FileSize, kMaxSendFileBufferSize,
          Providers, MaxData, MaxRecords, MaxSend, BotanSizes,
          Loops, Keys, MaxStores, maxSessions, mexExtendSize,
          Capacity, IntBits, Digits10, Ints, RealSize, Texts, MaxItems,
          Threads, Sinks, Channels, Settings, MaxSeconds, MaxChanges, MaxLines,
          BlockBytes, LenBytes, ByteBits, HashBytes, ReseedCalls, MaxMessage, MaxCalls,
          DaySeconds, FracDigits, MaxDays, MaxText, MaxString

\* numeric_limits<int>, scaled down
ASSUME IntsAssumption ==
  /\ Ints \subseteq -(2^(IntBits - 1)) .. 2^(IntBits - 1) - 1
  /\ 10^Digits10 <= 2^(IntBits - 1) /\ 2^(IntBits - 1) < 10^(Digits10 + 1)

VARIABLES
  part,  \* the part that this behaviour is about
  fileSize, offset, length, asked, available, isDone, filePos, fileBytesToSend,
  msgBuffer, capacity, way, sent, readFailed,
  conn, lpc, accepted,
  sessions, sessionMap, refs, timers, cancels, stored, open, cachePc,
  stream, exBuffer, written, items, overrun,
  clock, logLevel, localTime, changedAt, outputFunc, flushFunc, outputFuncs, flushFuncs,
  last, line, pc, lines, kind, changes, prepared, late,
  algo, msgLen, ctx, final, rng, filled,
  zone, date, str, made,
  job, input, pos, out, origin

File == INSTANCE FileBufferNode WITH pos <- filePos
Tls == INSTANCE TlsConnection
Cache == INSTANCE SessionManager WITH pc <- cachePc
Ls == INSTANCE LogStream WITH buffer <- stream
Lg == INSTANCE Logger
H == INSTANCE Hashing
D == INSTANCE Date WITH Zones <- MCZones, Radix <- 2, origin <- made
St == INSTANCE Strings WITH Chars <- MCChars

Symmetry == Permutations(Threads)

fileVars == <<fileSize, offset, length, asked, available, isDone, filePos,
              fileBytesToSend, msgBuffer, capacity, way, sent, readFailed>>
tlsVars == <<conn, lpc, accepted>>
cacheVars == <<sessions, sessionMap, refs, timers, cancels, stored, open, cachePc>>
streamVars == <<stream, exBuffer, written, items, overrun>>
loggerVars == <<clock, logLevel, localTime, changedAt, outputFunc, flushFunc, outputFuncs,
                flushFuncs, last, line, pc, lines, kind, changes, prepared, late>>
hashVars == <<algo, msgLen, ctx, final, rng, filled>>
dateVars == <<zone, date, str, made>>
stringVars == <<job, input, pos, out, origin>>
connVars == <<bufferVars, fileVars, tlsVars, cacheVars>>
toolVars == <<streamVars, loggerVars, hashVars, dateVars, stringVars>>

MCInit ==
  /\ part \in {"buffer", "file", "tls", "cache", "stream", "logger", "hash", "date", "strings"}
  /\ part # "logger" => kind = "sink"
  /\ part # "hash" => algo = "md5"
  /\ part # "date" => zone = CHOOSE z \in MCZones : TRUE
  /\ part # "date" => date = 0
  /\ part # "strings" => job = "toUtf8" /\ input = <<>>
  /\ BufferInit /\ File!FInit /\ Tls!Init /\ Cache!Init
  /\ Ls!LInit /\ Lg!LgInit /\ H!HInit /\ D!DInit /\ St!StInit
  /\ part # "file" => fileSize = 0 /\ offset = 0 /\ length = 0 /\ way = "read"
  /\ part # "tls" => conn.provider = "openssl"

ConnNext ==
  \/ part = "buffer" /\ BufferNext /\ UNCHANGED <<fileVars, tlsVars, cacheVars>>
  \/ part = "file" /\ File!FNext /\ UNCHANGED <<bufferVars, tlsVars, cacheVars>>
  \/ part = "tls" /\ Tls!Next /\ UNCHANGED <<bufferVars, fileVars, cacheVars>>
  \/ part = "cache" /\ Cache!Next /\ UNCHANGED <<bufferVars, fileVars, tlsVars>>

ToolNext ==
  \/ part = "stream" /\ Ls!LNext /\ UNCHANGED <<loggerVars, hashVars, dateVars, stringVars>>
  \/ part = "logger" /\ Lg!LgNext /\ UNCHANGED <<streamVars, hashVars, dateVars, stringVars>>
  \/ part = "hash" /\ H!HNext /\ UNCHANGED <<streamVars, loggerVars, dateVars, stringVars>>
  \/ part = "date" /\ D!DNext /\ UNCHANGED <<streamVars, loggerVars, hashVars, stringVars>>
  \/ part = "strings" /\ St!StNext /\ UNCHANGED <<streamVars, loggerVars, hashVars, dateVars>>

MCNext ==
  /\ \/ ConnNext /\ UNCHANGED toolVars
     \/ ToolNext /\ UNCHANGED connVars
  /\ UNCHANGED part

MCSpec == MCInit /\ [][MCNext]_<<part, connVars, toolVars>>

-----------------------------------------------------------------------------
\* A file is sent without a gap and to its end: see FileBufferNode.
FileIsSent == part = "file" => File!FileIsSent

\* TLS records reach the wire in the order in which they are made, with the
\* data in the order of send(), data that is left is waited for, and no message
\* comes from a peer that is not valid: see TlsConnection.
TlsDelivers ==
  part = "tls" => Tls!RecordsInOrder /\ Tls!NoStuckTlsData /\ Tls!MessageIsValid

\* The write side is closed after the data and the alert: see TlsConnection.
FinAfterAlert == [][Tls!FinComesLast]_tlsVars

\* The cache frees a session once and is bounded: see SessionManager.
SessionRefs == part = "cache" => Cache!SessionRefs

\* A log line is what was put into it: see LogStream.
LineIsWhole == part = "stream" => Ls!LineIsWhole

\* A line has its own time, and is flushed where it was written, by functions
\* that exist: see Logger.
LinesGoOut == part = "logger" => Lg!TimeIsRight /\ Lg!SinksAgree

\* A digest is made from the padded message, and random bytes fill the buffer:
\* see Hashing.
DigestInput == part = "hash" => H!DigestInput /\ H!RandomIsWhole

\* Dates survive their conversions: see Date.
DateConversions == part = "date" => D!DateConversions

\* Texts survive theirs: see Strings.
StringsAreKept == part = "strings" => St!StringsAreKept
=============================================================================
