-------------------------------- MODULE Logger --------------------------------
(***************************************************************************)
(* trantor::Logger and RawLogger (utils/Logger.h, utils/Logger.cc), built  *)
(* without spdlog: what a log statement does in each thread.  The          *)
(* constructor puts the time in front of the line, from a string that the  *)
(* thread keeps for a second; the destructor looks up the output function  *)
(* of its channel, calls it and, for an error, calls the flush function.   *)
(*                                                                         *)
(* A pair of an output and a flush function is a sink; the functions of    *)
(* the channels are in two vectors that grow at their first use.  Nothing  *)
(* of this is locked: a reference into a vector dangles once the vector    *)
(* has moved.  LogStream models the text of the line.                      *)
(***************************************************************************)
EXTENDS Integers, Sequences, Functions

CONSTANTS Threads,     \* the threads that log
          Sinks,       \* the sinks that setOutputFunction() is given
          Channels,    \* the indices used, from 0; -1 is the default channel
          Settings,    \* bound: the settings of which one is changed, "level", "time" or "sink"
          MaxSeconds,  \* bound: the clock
          MaxChanges,  \* bound: settings changed
          MaxLines     \* bound: lines of all threads

Stdout == "stdout"   \* defaultOutputFunction() and defaultFlushFunction()
None == "none"       \* an empty std::function
\* kTrace, kInfo and kError stand for the six levels.
Trace == 0
Info == 2
Error == 4
Levels == {Trace, Info, Error}
Indices == Channels \cup {-1}

VARIABLES
  clock,        \* the second that it is
  logLevel,     \* logLevel_()
  localTime,    \* displayLocalTime_()
  changedAt,    \* history: the second of the last setDisplayLocalTime()
  outputFunc,   \* outputFunc_()
  flushFunc,    \* flushFunc_()
  outputFuncs,  \* the vector of outputFunc_(index), its capacity and its moves
  flushFuncs,   \* the vector of flushFunc_(index)
  last,         \* lastSecond_ and lastTimeString_ of each thread
  line,         \* the line that each thread logs, or logged last
  pc,           \* idle, made (before the look-up), call, or flush
  lines,        \* lines that each thread has begun
  kind,         \* the setting that is changed
  changes,      \* how often it has been
  prepared,     \* history: every channel was in the vectors before the first line
  late          \* history: the default sink was changed when a channel had its copy

config == <<logLevel, localTime, changedAt, outputFunc, flushFunc, kind, changes, late>>
vars == <<clock, config, outputFuncs, flushFuncs, last, line, pc, lines, prepared>>

Empty == [elems |-> <<>>, capacity |-> 0, moves |-> 0]
NoLine == [index |-> -1, level |-> Info, raw |-> FALSE, second |-> 0, local |-> FALSE,
           suffix |-> FALSE, str |-> 0, moves |-> 0, sink |-> None, flushed |-> None,
           dangling |-> FALSE, changes |-> 0]

LgInit ==
  /\ clock = 1 /\ kind \in Settings
  /\ logLevel = Info /\ localTime = FALSE /\ changedAt = 0
  /\ outputFunc = Stdout /\ flushFunc = Stdout
  /\ outputFuncs = Empty /\ flushFuncs = Empty
  /\ last = [t \in Threads |-> [second |-> 0, local |-> FALSE]]
  /\ line = [t \in Threads |-> NoLine] /\ pc = [t \in Threads |-> "idle"]
  /\ lines = [t \in Threads |-> 0] /\ changes = 0 /\ late = FALSE /\ prepared = FALSE

-----------------------------------------------------------------------------
\* outputFunc_(index), flushFunc_(index): the vector grows to the index with
\* copies of the default function of this moment; a full one moves.
Grow(vec, index, func) ==
  LET size == Len(vec.elems)
      more == index + 1 - size
  IN IF index < size THEN vec
     ELSE [elems |-> vec.elems \o [i \in 1 .. more |-> func],
           capacity |-> IF index + 1 > vec.capacity THEN index + 1 ELSE vec.capacity,
           moves |-> IF index + 1 > vec.capacity THEN vec.moves + 1 ELSE vec.moves]

Change(setting) ==
  /\ kind = setting /\ changes < MaxChanges
  /\ changes' = changes + 1 /\ UNCHANGED kind

SetOutputFunction(sink, index) ==
  /\ Change("sink")
  /\ IF index < 0
       THEN /\ outputFunc' = sink /\ flushFunc' = sink
            /\ late' = (late \/ outputFuncs.elems # <<>>)
            /\ UNCHANGED <<outputFuncs, flushFuncs>>
       ELSE /\ outputFuncs' = [Grow(outputFuncs, index, outputFunc) EXCEPT !.elems[index + 1] = sink]
            /\ flushFuncs' = [Grow(flushFuncs, index, flushFunc) EXCEPT !.elems[index + 1] = sink]
            /\ UNCHANGED <<outputFunc, flushFunc, late>>
  /\ UNCHANGED <<clock, logLevel, localTime, changedAt, last, line, pc, lines, prepared>>

SetLogLevel(level) ==
  /\ Change("level")
  /\ logLevel' = level
  /\ UNCHANGED <<clock, localTime, changedAt, outputFunc, flushFunc, outputFuncs, flushFuncs,
                 late, last, line, pc, lines, prepared>>

SetDisplayLocalTime(showLocalTime) ==
  /\ Change("time")
  /\ localTime' = showLocalTime /\ changedAt' = clock
  /\ UNCHANGED <<clock, logLevel, outputFunc, flushFunc, outputFuncs, flushFuncs,
                 late, last, line, pc, lines, prepared>>

\* Only the time string depends on the clock.
Tick ==
  /\ kind = "time" /\ clock < MaxSeconds
  /\ clock' = clock + 1
  /\ UNCHANGED <<config, outputFuncs, flushFuncs, last, line, pc, lines, prepared>>

-----------------------------------------------------------------------------
\* formatTime(): the string of the thread's last line is kept if the second is
\* the same; whether "UTC" follows is decided anew.
MutFormatTime(t, second) ==
  last' = [last EXCEPT ![t].second = IF @ # 0 THEN @ ELSE second, ![t].local = localTime]
FormatTime(t, second) ==
  last' = [last EXCEPT ![t] =
             IF second # @.second THEN [second |-> second, local |-> localTime] ELSE @]

\* A log statement: the levels below kWarn are tested before the Logger is made.
Construct(t, index, level, raw) ==
  /\ pc[t] = "idle" /\ SumFunction(lines) < MaxLines /\ (raw => level = Info)
  /\ raw \/ level > Info \/ logLevel <= level
  /\ IF raw THEN UNCHANGED last ELSE FormatTime(t, clock)
  /\ line' = [line EXCEPT ![t] =
       [NoLine EXCEPT !.index = index, !.level = level, !.raw = raw, !.second = clock,
                      !.str = last'[t].second, !.local = last'[t].local, !.suffix = localTime,
                      !.changes = changes]]
  /\ pc' = [pc EXCEPT ![t] = "made"] /\ lines' = [lines EXCEPT ![t] = @ + 1]
  /\ prepared' = IF \A u \in Threads : lines[u] = 0
                   THEN \A i \in Channels : i < Len(outputFuncs.elems) ELSE prepared
  /\ UNCHANGED <<clock, config, outputFuncs, flushFuncs>>

\* ~Logger(), ~RawLogger(): the reference to the output function is taken, ...
Lookup(t) ==
  /\ pc[t] = "made"
  /\ IF line[t].index < 0
       THEN UNCHANGED <<outputFuncs, line>>
       ELSE /\ outputFuncs' = Grow(outputFuncs, line[t].index, outputFunc)
            /\ line' = [line EXCEPT ![t].moves = outputFuncs'.moves]
  /\ pc' = [pc EXCEPT ![t] = "call"]
  /\ UNCHANGED <<clock, config, flushFuncs, last, lines, prepared>>

\* ... and the function that it refers to is called, unless it is empty.
Output(t) ==
  LET index == line[t].index
      sink == IF index < 0 THEN outputFunc ELSE outputFuncs.elems[index + 1]
      flushes == ~line[t].raw /\ sink # None /\ line[t].level >= Error
  IN /\ pc[t] = "call"
     /\ line' = [line EXCEPT ![t].sink = sink,
                             ![t].dangling = index >= 0 /\ outputFuncs.moves # line[t].moves]
     /\ pc' = [pc EXCEPT ![t] = IF flushes THEN "flush" ELSE "idle"]
     /\ UNCHANGED <<clock, config, outputFuncs, flushFuncs, last, lines, prepared>>

Flush(t) ==
  LET index == line[t].index
  IN /\ pc[t] = "flush"
     /\ IF index < 0
          THEN /\ line' = [line EXCEPT ![t].flushed = flushFunc]
               /\ UNCHANGED flushFuncs
          ELSE /\ flushFuncs' = Grow(flushFuncs, index, flushFunc)
               /\ line' = [line EXCEPT ![t].flushed = flushFuncs'.elems[index + 1]]
     /\ pc' = [pc EXCEPT ![t] = "idle"]
     /\ UNCHANGED <<clock, config, outputFuncs, last, lines, prepared>>

LgNext ==
  \/ Tick
  \/ \E level \in Levels : SetLogLevel(level)
  \/ \E b \in BOOLEAN : SetDisplayLocalTime(b)
  \/ \E sink \in Sinks \cup {None}, index \in Indices : SetOutputFunction(sink, index)
  \/ \E t \in Threads, index \in Indices, level \in Levels, raw \in BOOLEAN :
       Construct(t, index, level, raw)
  \/ \E t \in Threads : Lookup(t) \/ Output(t) \/ Flush(t)

-----------------------------------------------------------------------------
\* The time in front of a line is that of the line's second, and it is in the
\* zone that the line names unless setDisplayLocalTime() was called in the same
\* second or later: formatTime() keeps a string for a second.
TimeIsRight ==
  \A t \in Threads : lines[t] > 0 /\ ~line[t].raw =>
    /\ line[t].str = line[t].second
    /\ line[t].second > changedAt => line[t].local = line[t].suffix

\* The flush function that an error calls belongs to the sink that its line went
\* to, unless a sink was set meanwhile or the default sink was replaced after a
\* channel had taken a copy of it; and ~Logger() calls a function that still
\* exists if all channels were set up before the first line.
SinksAgree ==
  \A t \in Threads :
    /\ line[t].flushed # None /\ line[t].changes = changes /\ ~late
         => line[t].flushed = line[t].sink
    /\ prepared => ~line[t].dangling
=============================================================================
