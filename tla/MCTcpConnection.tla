--------------------------- MODULE MCTcpConnection ---------------------------
(* A connection and the timers of its loop.  The connection: three small      *)
(* instances of TcpConnection, one per behaviour: messages while it closes,   *)
(* buffer nodes of every kind with errors, and async streams that two threads *)
(* use.  The timers: a TimerQueue of two timers on a short clock, and the     *)
(* TimingWheel that runs on it and kicks the connection off when it is idle:  *)
(* IdleKickoff with a timeout of two seconds on a clock of half of one,       *)
(* and the wheel alone, with delays that go through several wheels.           *)
EXTENDS TcpConnection

CONSTANTS MaxNow, MaxTimers, MaxFuncs, Delays, Intervals,
          bucketsNumPerWheel, maxTimeout, MaxTicks, timeout, Second, MaxStreams, NoEntry

ASSUME TimersAssumption ==
  /\ MaxNow \in Nat /\ MaxTimers \in Nat /\ MaxFuncs \in Nat
  /\ Delays \subseteq Nat /\ Intervals \subseteq Nat
ASSUME WheelAssumption ==
  /\ bucketsNumPerWheel \in Nat /\ bucketsNumPerWheel > 1
  /\ maxTimeout \in Nat /\ maxTimeout > 1 /\ MaxTicks \in Nat
  /\ timeout \in 1 .. maxTimeout /\ Second \in Nat \ {0} /\ MaxStreams \in Nat

VARIABLES
  instance,  \* what this behaviour is about
  now, created, when, interval, timers, timerIdSet, timerfd, readAt, expired,
  batch, tpc, looping, timerFuncs, unarmed, dropped, cancelled, runs,
  wheels, ticksCounter, due, clock, idleTimeout, idleTimeoutBackup,
  kickoffEntry, conn, lastTimingWheelUpdateTime, opened, closed, lastActivity,
  keep, overlap, kicked

Closing == INSTANCE TcpConnection WITH
  LoopKinds <- {"mem"}, ThreadKinds <- {"mem"}, MaxAsync <- 0,
  Closes <- TRUE, WriteErrors <- TRUE, ShareStreams <- FALSE
Nodes == INSTANCE TcpConnection WITH
  LoopKinds <- Kinds, ThreadKinds <- Kinds \ {"async"},
  Closes <- FALSE, WriteErrors <- TRUE, ShareStreams <- FALSE
Shared == INSTANCE TcpConnection WITH
  LoopKinds <- {"async"}, ThreadKinds <- {"mem", "async"},
  Closes <- FALSE, WriteErrors <- FALSE, ShareStreams <- TRUE

Timers == INSTANCE TimerQueue WITH due <- batch, pc <- tpc, funcs <- timerFuncs
Idle == INSTANCE IdleKickoff WITH Entries <- 1 .. MaxStreams + 1, now <- clock

\* Two wheels of three buckets, and three of two
Two == INSTANCE TimingWheel
         WITH Entries <- {1}, bucketsNumPerWheel <- 3, maxTimeout <- 9, MaxTicks <- 18
Three == INSTANCE TimingWheel
           WITH Entries <- {1}, bucketsNumPerWheel <- 2, maxTimeout <- 8, MaxTicks <- 16

timerVars == <<now, created, when, interval, timers, timerIdSet, timerfd, readAt,
               expired, batch, tpc, looping, timerFuncs, unarmed, dropped, cancelled,
               runs>>
wheelVars == <<wheels, ticksCounter, due>>
connVars == <<clock, idleTimeout, idleTimeoutBackup, kickoffEntry, conn,
              lastTimingWheelUpdateTime, opened, closed, lastActivity, keep, overlap,
              kicked>>
idleVars == <<wheelVars, connVars>>

NoKickoff ==
  /\ clock = 0 /\ idleTimeout = 0 /\ idleTimeoutBackup = 0
  /\ kickoffEntry = NoEntry /\ conn = {} /\ lastTimingWheelUpdateTime = 0
  /\ opened = 0 /\ closed = 0 /\ lastActivity = 0 /\ keep = FALSE
  /\ overlap = FALSE /\ kicked = 0

MCInit ==
  /\ Init /\ Timers!Init
  /\ instance \in {"closing", "nodes", "shared", "timers", "idle", "two", "three"}
  /\ IF instance = "idle" THEN Idle!Init
     ELSE NoKickoff /\ IF instance = "three" THEN Three!WheelInit ELSE Two!WheelInit

MCNext ==
  /\ \/ /\ \/ instance = "closing" /\ Closing!Next
           \/ instance = "nodes" /\ Nodes!Next
           \/ instance = "shared" /\ Shared!Next
        /\ UNCHANGED <<timerVars, idleVars>>
     \/ instance = "timers" /\ Timers!Next /\ UNCHANGED <<vars, idleVars>>
     \/ instance = "idle" /\ Idle!Next /\ UNCHANGED <<vars, timerVars>>
     \/ /\ \/ instance = "two" /\ Two!WheelNext
           \/ instance = "three" /\ Three!WheelNext
        /\ UNCHANGED <<vars, timerVars, connVars>>
  /\ UNCHANGED instance

MCSpec == MCInit /\ [][MCNext]_<<vars, instance, timerVars, idleVars>>

-----------------------------------------------------------------------------
\* No timer is slept through or lost: see TimerQueue.
NoTimerMissed == instance = "timers" => Timers!NoTimerMissed

\* A cancelled timer does not run: see TimerQueue.
CancelledNeverRuns == [][Timers!CancelledStays]_timerVars

\* An entry is held for its delay and released by the next tick (see
\* TimingWheel), and so an idle connection is kicked in time (see IdleKickoff).
KickedOnTime ==
  CASE instance = "idle" -> Idle!ReleasedWhenDue /\ Idle!KickedWhenIdle
    [] instance = "two" -> Two!ReleasedWhenDue
    [] instance = "three" -> Three!ReleasedWhenDue
    [] OTHER -> TRUE
=============================================================================
