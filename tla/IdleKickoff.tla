---------------------------- MODULE IdleKickoff ----------------------------
(***************************************************************************)
(* Kicking off an idle connection (TcpConnectionImpl): the connection puts *)
(* a KickoffEntry into the timing wheel of its loop and inserts it again   *)
(* when it reads or writes; the destructor of the entry closes the         *)
(* connection.  keepAlive() gives this up, and an asynchronous stream may  *)
(* suspend it.                                                             *)
(*                                                                         *)
(* All of this runs in the loop of the connection.  The timer of the wheel *)
(* is punctual.                                                            *)
(***************************************************************************)
EXTENDS TimingWheel

CONSTANTS
  timeout,      \* the seconds of kickoffIdleConnections()
  Second,       \* units of time in a second: the clock is finer than a tick
  MaxStreams,   \* bound: streams opened with disableKickoff
  NoEntry

VARIABLES
  now,                        \* the clock
  idleTimeout,                \* idleTimeout_
  idleTimeoutBackup,          \* idleTimeoutBackup_
  kickoffEntry,               \* kickoffEntry_
  conn,                       \* the entries whose conn_ was not reset
  lastTimingWheelUpdateTime,  \* lastTimingWheelUpdateTime_; 0 is the epoch
  opened, closed,             \* how many streams were opened and closed
  lastActivity,               \* history: the last read or write
  keep,                       \* history: keepAlive() was called
  overlap,                    \* history: a stream was open when another one was
                              \* opened or keepAlive() was called
  kicked                      \* the time at which an entry closed the connection

connVars == <<idleTimeout, idleTimeoutBackup, kickoffEntry, conn,
              lastTimingWheelUpdateTime, opened, closed, lastActivity, keep, overlap>>
vars == <<wheelVars, connVars, now, kicked>>

Epoch == 2 * Second

\* enableKickingOff() at a time long after the epoch, in any phase of the tick
Init ==
  /\ ticksCounter = 0
  /\ wheels = Place(1, Ticks(timeout), [i \in Wheels |-> [b \in Slots |-> {}]])
  /\ due = [e \in Entries |-> IF e = 1 THEN timeout + 1 ELSE 0]
  /\ now \in Epoch .. Epoch + Second - 1
  /\ idleTimeout = timeout /\ idleTimeoutBackup = 0
  /\ kickoffEntry = 1 /\ conn = {1}
  /\ lastTimingWheelUpdateTime = 0
  /\ opened = 0 /\ closed = 0
  /\ lastActivity = now
  /\ keep = FALSE /\ overlap = FALSE /\ kicked = 0

\* kickoffEntry_.lock() finds an entry.
Lockable == kickoffEntry # NoEntry /\ Held(kickoffEntry, wheels)

\* The wheel was updated less than a second ago.
Recent == now < lastTimingWheelUpdateTime + Second

\* A read or a write, and extendLife()
Activity ==
  /\ kicked = 0
  /\ lastActivity' = now
  /\ IF idleTimeout = 0 \/ Recent
       THEN UNCHANGED <<lastTimingWheelUpdateTime, wheelVars>>
       ELSE /\ lastTimingWheelUpdateTime' = now
            /\ IF Lockable THEN Insert(kickoffEntry, idleTimeout)
               ELSE UNCHANGED wheelVars
  /\ UNCHANGED <<now, idleTimeout, idleTimeoutBackup, kickoffEntry, conn,
                 opened, closed, keep, overlap, kicked>>

\* entry->reset(), if there is an entry
Reset == IF Lockable THEN conn \ {kickoffEntry} ELSE conn

KeepAlive ==
  /\ kicked = 0
  /\ idleTimeout' = 0
  /\ conn' = Reset
  /\ keep' = TRUE
  /\ overlap' = (overlap \/ opened # closed)
  /\ UNCHANGED <<wheelVars, now, idleTimeoutBackup, kickoffEntry,
                 lastTimingWheelUpdateTime, opened, closed, lastActivity,
                 kicked>>

\* sendAsyncStream(true)
OpenStream ==
  /\ kicked = 0 /\ opened < MaxStreams
  /\ opened' = opened + 1
  /\ conn' = Reset
  /\ kickoffEntry' = IF Lockable THEN NoEntry ELSE kickoffEntry
  /\ idleTimeoutBackup' = idleTimeout
  /\ idleTimeout' = 0
  /\ overlap' = (overlap \/ opened # closed)
  /\ UNCHANGED <<wheelVars, now, lastTimingWheelUpdateTime, closed,
                 lastActivity, keep, kicked>>

\* Mutant: the timeout is not restored.
MutRestored == 0

\* The timeout after the stream
Restored == idleTimeoutBackup

\* sendAsyncDataInLoop(nullptr): a new entry, if there is a timeout to restore
CloseStream ==
  /\ kicked = 0 /\ closed < opened
  /\ closed' = closed + 1
  /\ lastActivity' = now
  /\ IF Restored > 0
       THEN /\ kickoffEntry' = opened + 1
            /\ conn' = conn \cup {opened + 1}
            /\ idleTimeout' = Restored
            /\ idleTimeoutBackup' = 0
            /\ Insert(opened + 1, Restored)
       ELSE UNCHANGED <<kickoffEntry, conn, idleTimeout, idleTimeoutBackup,
                        wheelVars>>
  /\ UNCHANGED <<now, lastTimingWheelUpdateTime, opened, keep, overlap, kicked>>

\* The entries that this tick releases: each one closes its connection, if it
\* still has one.
Released(ws) == {e \in Entries : Held(e, wheels) /\ ~Held(e, ws)}

\* Time passes; at the end of a second the wheel ticks.
Pass ==
  /\ kicked = 0
  /\ now' = now + 1
  /\ IF now' % Second = 0
       THEN /\ Tick
            /\ kicked' = IF Released(wheels') \cap conn # {} THEN now' ELSE 0
       ELSE UNCHANGED <<wheelVars, kicked>>
  /\ UNCHANGED connVars

Next == Activity \/ KeepAlive \/ OpenStream \/ CloseStream \/ Pass

Spec == Init /\ [][Next]_vars

-----------------------------------------------------------------------------
\* A connection that is kicked was idle for more than a second less than the
\* timeout: that is what the clocks of wheel and connection allow.  One that is
\* idle is kicked, a second after the timeout at the latest.  It is not kicked
\* while a stream is open ("If this parameter is enabled, the connection will
\* not be closed after the inactive timeout.", TcpConnection.h,
\* sendAsyncStream), nor after keepAlive() ("Call this method to avoid being
\* kicked off by TcpServer").  The exception: of two streams that are open at
\* the same time the second saves 0 as the timeout to restore, and a stream
\* that is open at keepAlive() restores the timeout.
KickedWhenIdle ==
  /\ kicked # 0 => kicked - lastActivity > (timeout - 1) * Second
  /\ ~keep /\ opened = closed /\ ~overlap /\ kicked = 0
       => now - lastActivity < (timeout + 1) * Second
  /\ opened # closed => kicked = 0
  /\ keep /\ ~overlap => kicked = 0
=============================================================================
