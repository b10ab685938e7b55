------------------------------ MODULE TcpServer ------------------------------
(***************************************************************************)
(* trantor::TcpServer (net/TcpServer.cc): accepted connections are spread  *)
(* over the I/O loops, the set of connections lives in the loop of the     *)
(* server, and the end of a connection goes through both loops.  stop()    *)
(* closes all connections, gives up the pool of loops and the timing       *)
(* wheels.                                                                 *)
(*                                                                         *)
(* A loop handles a batch of active channels, then its queued functions.   *)
(* A connection is abstracted to its status.                               *)
(***************************************************************************)
EXTENDS Naturals, Sequences, FiniteSets, Functions

CONSTANTS
  Base,         \* loop_ of the server
  IoLoops,      \* ioLoops_, a sequence
  OwnPool,      \* the I/O loops belong to a pool that only the server holds
  IdleTimeout,  \* idleTimeout_ > 0: there is a timing wheel for every I/O loop
  MaxConns,     \* bound: connections accepted
  Accept,       \* the channel of the acceptor
  None

\* setIoLoops() asserts that there are loops ("assert(!ioLoops.empty())"), and
\* without it the server uses loop_ itself.  EventLoopThreadPool makes a new
\* loop for each of its threads.
ASSUME LoopsAssumption ==
  /\ IoLoops \in Seq(Range(IoLoops)) /\ IoLoops # <<>>
  /\ OwnPool => IsInjective(IoLoops)

\* The acceptor's channel is no connection's, and the number of connections
\* is a bound.
ASSUME ConnsAssumption == MaxConns \in Nat /\ Accept \notin 1 .. MaxConns

Loops == Range(IoLoops) \cup {Base}
Conns == 1 .. MaxConns

VARIABLES
  acceptor,     \* acceptorPtr_ is not null and listens
  nextLoopIdx,  \* nextLoopIdx_, from 1
  connSet,      \* connSet_
  loopOf,       \* the I/O loop of each connection
  status,       \* the status of each connection
  funcs,        \* the queue of each loop
  active,       \* the active channels of each loop still to be handled
  loop,         \* each loop: running, quit, or gone
  stopper,      \* the thread in stop(): Base, "other" or None
  spc,          \* where it is
  idx,          \* the loop of its for loop
  wheels,       \* the loops whose timing wheel exists
  aborted       \* an assertion failed

stopVars == <<stopper, spc, idx, wheels>>
vars == <<acceptor, nextLoopIdx, connSet, loopOf, status, funcs, active, loop,
          stopVars, aborted>>

\* start() was called.
Init ==
  /\ acceptor = TRUE /\ nextLoopIdx = 1
  /\ connSet = {}
  /\ loopOf = [c \in Conns |-> Base]
  /\ status = [c \in Conns |-> "none"]
  /\ funcs = [l \in Loops |-> <<>>]
  /\ active = [l \in Loops |-> {}]
  /\ loop = [l \in Loops |-> "running"]
  /\ stopper = None /\ spc = "idle" /\ idx = 1
  /\ wheels = IF IdleTimeout THEN Range(IoLoops) ELSE {}
  /\ aborted = FALSE

\* A loop takes steps unless its thread is in stop().
Runs(l) == loop[l] # "gone" /\ (stopper = l => spc \in {"idle", "done"})

\* queueInLoop()
Enqueue(fs, l, f) == [fs EXCEPT ![l] = Append(@, f)]

\* Mutant: connectDestroyed() is called at once.
MutHandleClose(c, fs) ==
  /\ connSet' = connSet \ {c}
  /\ aborted' = (c \notin connSet)
  /\ status' = [status EXCEPT ![c] = "destroyed"]
  /\ funcs' = fs

\* handleCloseInLoop(), with the status that the connection has then
HandleClose(c, fs) ==
  /\ connSet' = connSet \ {c}
  /\ aborted' = (c \notin connSet)
  /\ status' = [status EXCEPT ![c] = "closed"]
  /\ funcs' = Enqueue(fs, loopOf[c], <<"destroy", c>>)

\* handleClose() of the connection and connectionClosed() of the server: the
\* set of connections is changed in the loop of the server.
Close(c, fs) ==
  IF loopOf[c] = Base THEN HandleClose(c, fs)
  ELSE /\ status' = [status EXCEPT ![c] = "closed"]
       /\ funcs' = Enqueue(fs, Base, <<"close", c>>)
       /\ UNCHANGED <<connSet, aborted>>

-----------------------------------------------------------------------------
\* The next loop in turn
NextIdx(i) == IF i >= Len(IoLoops) THEN 1 ELSE i + 1

\* Acceptor::readCallback() and newConnection(): the next loop in turn;
\* connectEstablished() runs there.
NewConnection(c) ==
  /\ Runs(Base) /\ acceptor /\ Accept \in active[Base]
  /\ active' = [active EXCEPT ![Base] = @ \ {Accept}]
  /\ status[c] = "none" /\ \A d \in Conns : d < c => status[d] # "none"
  /\ LET l == IoLoops[nextLoopIdx]
     IN /\ loopOf' = [loopOf EXCEPT ![c] = l]
        /\ IF l = Base
             THEN /\ status' = [status EXCEPT ![c] = "up"]
                  /\ UNCHANGED funcs
             ELSE /\ status' = [status EXCEPT ![c] = "connecting"]
                  /\ funcs' = Enqueue(funcs, l, <<"establish", c>>)
  /\ nextLoopIdx' = NextIdx(nextLoopIdx)
  /\ connSet' = connSet \cup {c}
  /\ UNCHANGED <<acceptor, loop, stopVars, aborted>>

\* Acceptor::readCallback(): accept() fails.
AcceptFails ==
  /\ Runs(Base) /\ Accept \in active[Base]
  /\ active' = [active EXCEPT ![Base] = @ \ {Accept}]
  /\ UNCHANGED <<acceptor, nextLoopIdx, connSet, loopOf, status, funcs, loop,
                 stopVars, aborted>>

\* The channels that a loop watches
Watched(l) ==
  {c \in Conns : status[c] = "up" /\ loopOf[c] = l}
    \cup (IF l = Base /\ acceptor THEN {Accept} ELSE {})

\* poll() of a loop: channels that have events
Poll(l) ==
  /\ Runs(l) /\ active[l] = {}
  /\ \E cs \in SUBSET Watched(l) :
       cs # {} /\ active' = [active EXCEPT ![l] = cs]
  /\ UNCHANGED <<acceptor, nextLoopIdx, connSet, loopOf, status, funcs, loop,
                 stopVars, aborted>>

\* Channel::handleEvent(): nothing for a channel that was disabled; else the
\* peer may have closed the connection.
HandleEvent(l, c) ==
  /\ Runs(l) /\ c \in active[l]
  /\ active' = [active EXCEPT ![l] = @ \ {c}]
  /\ \/ /\ status[c] = "up"
        /\ Close(c, funcs)
     \/ UNCHANGED <<connSet, aborted, status, funcs>>
  /\ UNCHANGED <<acceptor, nextLoopIdx, loopOf, loop, stopVars>>

\* forceClose() in the loop of the connection
ForceClose(c, fs) ==
  IF status[c] = "up" THEN Close(c, fs)
  ELSE funcs' = fs /\ UNCHANGED <<connSet, aborted, status>>

\* The user closes a connection in a callback of its loop.
ForceCloseInLoop(c) ==
  /\ Runs(loopOf[c]) /\ status[c] = "up"
  /\ ForceClose(c, funcs)
  /\ UNCHANGED <<acceptor, nextLoopIdx, loopOf, active, loop, stopVars>>

-----------------------------------------------------------------------------
(* stop()                                                                  *)

\* The elements of a set in some order: connSet_ is ordered by address.
Listed(S) == CHOOSE s \in Bijection(1 .. Cardinality(S), S) : TRUE

\* The part that runs in the loop of the server: the acceptor goes, and every
\* connection is forced to close, at once or in its own loop.
CloseAll(fs) ==
  LET here == {c \in connSet : loopOf[c] = Base /\ status[c] = "up"}
      there(l) == {c \in connSet : loopOf[c] = l}
  IN /\ acceptor' = FALSE
     /\ connSet' = connSet \ here
     /\ status' = [c \in Conns |-> IF c \in here THEN "closed" ELSE status[c]]
     /\ funcs' = [l \in Loops |->
          fs[l] \o Listed(IF l = Base THEN {<<"destroy", c>> : c \in here}
                          ELSE {<<"forceClose", c>> : c \in there(l)})]

StopInBase ==
  /\ Runs(Base) /\ spc = "idle"
  /\ stopper' = Base
  /\ CloseAll(funcs)
  /\ spc' = "pool"
  /\ UNCHANGED <<nextLoopIdx, loopOf, active, loop, idx, wheels, aborted>>

\* In another thread: queue that part and wait for it.
Stop ==
  /\ spc = "idle"
  /\ stopper' = "other"
  /\ funcs' = Enqueue(funcs, Base, <<"closeAll">>)
  /\ spc' = "wait"
  /\ UNCHANGED <<acceptor, nextLoopIdx, connSet, loopOf, status, active, loop,
                 idx, wheels, aborted>>

\* loopPoolPtr_.reset(): the threads of a pool of its own are destroyed, one
\* after the other.
ResetPool ==
  /\ spc = "pool"
  /\ spc' = IF OwnPool THEN "quit" ELSE "wheels"
  /\ UNCHANGED <<acceptor, nextLoopIdx, connSet, loopOf, status, funcs,
                 active, loop, stopper, idx, wheels, aborted>>

\* ~EventLoopThread(): quit() and join()
QuitLoop ==
  /\ spc = "quit"
  /\ loop' = [loop EXCEPT ![IoLoops[idx]] = "quit"]
  /\ spc' = "join"
  /\ UNCHANGED <<acceptor, nextLoopIdx, connSet, loopOf, status, funcs,
                 active, stopper, idx, wheels, aborted>>

\* The loop ends after its batch, with functions left or not.
LoopEnds(l) ==
  /\ loop[l] = "quit" /\ active[l] = {}
  /\ loop' = [loop EXCEPT ![l] = "gone"]
  /\ funcs' = [funcs EXCEPT ![l] = <<>>]
  /\ UNCHANGED <<acceptor, nextLoopIdx, connSet, loopOf, status, active,
                 stopVars, aborted>>

Joined ==
  /\ spc = "join" /\ loop[IoLoops[idx]] = "gone"
  /\ IF idx < Len(IoLoops) THEN idx' = idx + 1 /\ spc' = "quit"
     ELSE idx' = 1 /\ spc' = "wheels"
  /\ UNCHANGED <<acceptor, nextLoopIdx, connSet, loopOf, status, funcs,
                 active, loop, stopper, wheels, aborted>>

\* Mutant: the reset is queued in this thread's loop, too.
MutResetWheel ==
  /\ spc = "wheels"
  /\ funcs' = Enqueue(funcs, IoLoops[idx], <<"wheel", IoLoops[idx]>>)
  /\ spc' = "wheel"
  /\ UNCHANGED <<acceptor, nextLoopIdx, connSet, loopOf, status, active, loop,
                 stopper, aborted, wheels, idx>>

\* For each timing wheel: reset it in its loop (at once if that is this
\* thread's) and wait.
ResetWheel ==
  /\ spc = "wheels"
  /\ LET l == IoLoops[idx]
     IN \/ /\ ~IdleTimeout
           /\ spc' = "done"
           /\ UNCHANGED <<funcs, wheels, idx>>
        \/ /\ IdleTimeout /\ l = stopper
           /\ wheels' = wheels \ {l}
           /\ spc' = IF idx < Len(IoLoops) THEN "wheels" ELSE "done"
           /\ idx' = idx + 1
           /\ UNCHANGED funcs
        \/ /\ IdleTimeout /\ l # stopper
           /\ funcs' = Enqueue(funcs, l, <<"wheel", l>>)
           /\ spc' = "wheel"
           /\ UNCHANGED <<wheels, idx>>
  /\ UNCHANGED <<acceptor, nextLoopIdx, connSet, loopOf, status, active, loop,
                 stopper, aborted>>

WheelReset ==
  /\ spc = "wheel" /\ IoLoops[idx] \notin wheels
  /\ spc' = IF idx < Len(IoLoops) THEN "wheels" ELSE "done"
  /\ idx' = idx + 1
  /\ UNCHANGED <<acceptor, nextLoopIdx, connSet, loopOf, status, funcs,
                 active, loop, stopper, wheels, aborted>>

-----------------------------------------------------------------------------
\* The queued functions of a loop, after its active channels.
RunFunc(l) ==
  /\ Runs(l) /\ active[l] = {} /\ funcs[l] # <<>>
  /\ LET op == Head(funcs[l])[1]
         c == Head(funcs[l])[2]
         fs == [funcs EXCEPT ![l] = Tail(@)]
     IN \/ /\ op = "establish"
           /\ status' = [status EXCEPT ![c] = "up"]
           /\ funcs' = fs
           /\ UNCHANGED <<acceptor, connSet, aborted, spc, wheels>>
        \/ /\ op = "forceClose"
           /\ ForceClose(c, fs)
           /\ UNCHANGED <<acceptor, spc, wheels>>
        \/ /\ op = "close"
           /\ HandleClose(c, fs)
           /\ UNCHANGED <<acceptor, spc, wheels>>
        \/ /\ op = "destroy"
           /\ status' = [status EXCEPT ![c] = "destroyed"]
           /\ funcs' = fs
           /\ UNCHANGED <<acceptor, connSet, aborted, spc, wheels>>
        \/ /\ op = "closeAll"
           /\ CloseAll(fs)
           /\ spc' = "pool"
           /\ UNCHANGED <<aborted, wheels>>
        \/ /\ op = "wheel"
           /\ wheels' = wheels \ {l}
           /\ funcs' = fs
           /\ UNCHANGED <<acceptor, connSet, status, aborted, spc>>
  /\ UNCHANGED <<nextLoopIdx, loopOf, active, loop, stopper, idx>>

LoopStep(l) ==
  \/ RunFunc(l) \/ LoopEnds(l)
  \/ \E c \in Conns : HandleEvent(l, c)

AcceptStep == AcceptFails \/ \E c \in Conns : NewConnection(c)

StopStep == ResetPool \/ QuitLoop \/ Joined \/ ResetWheel \/ WheelReset

Next ==
  \/ AcceptFails
  \/ \E c \in Conns : NewConnection(c) \/ ForceCloseInLoop(c)
  \/ \E l \in Loops : Poll(l) \/ LoopStep(l)
  \/ StopInBase \/ Stop \/ StopStep

Spec == Init /\ [][Next]_vars

\* Every loop handles its batch and runs its functions in every turn, and the
\* thread in stop() goes on.
FairSpec ==
  /\ Spec
  /\ WF_vars(StopStep)
  /\ WF_vars(AcceptStep)
  /\ \A l \in Loops : WF_vars(LoopStep(l)) /\ SF_vars(RunFunc(l))

-----------------------------------------------------------------------------
TypeOK ==
  /\ acceptor \in BOOLEAN
  /\ nextLoopIdx \in 1 .. Len(IoLoops)
  /\ connSet \subseteq Conns
  /\ loopOf \in [Conns -> Loops]
  /\ status \in [Conns -> {"none", "connecting", "up", "closed", "destroyed"}]
  /\ active \in [Loops -> SUBSET (Conns \cup {Accept})]
  /\ loop \in [Loops -> {"running", "quit", "gone"}]
  /\ stopper \in {Base, "other", None}
  /\ spc \in {"idle", "wait", "pool", "quit", "join", "wheels", "wheel", "done"}
  /\ wheels \subseteq Loops

\* handleCloseInLoop() says "always queue this operation in connLoop, because
\* this connection may be in loop_'s current active channels": a channel that
\* is still to be handled belongs to a connection that exists.  And "assert(n ==
\* 1)": a connection is taken out of the set once, however its own end, stop()
\* and the two loops meet.
NoWildChannel ==
  /\ TypeOK /\ ~aborted
  /\ \A l \in Loops, c \in Conns : c \in active[l] => status[c] # "destroyed"

\* When stop() has gone through the connections, each one that is not closed
\* will be: forceClose() is queued in its loop, behind connectEstablished() if
\* that is still to run, and no connection comes later.
StopMissesNone ==
  spc \notin {"idle", "wait"} =>
    \A c \in Conns :
      status[c] \in {"connecting", "up"} /\ loop[loopOf[c]] # "gone" =>
        \E i \in DOMAIN funcs[loopOf[c]] :
          funcs[loopOf[c]][i] = <<"forceClose", c>>

\* While the server stops, the loops handle only channels of connections that
\* exist, no assertion fails, and stop() misses no connection.
StopIsSafe == NoWildChannel /\ StopMissesNone

\* TcpServer.h says of stop() "Stop the server.": the call returns, and all
\* connections ("use the vector to close the connections") are destroyed in the
\* end, unless their loop ends before.
StopReturns ==
  /\ spc # "idle" ~> spc = "done"
  /\ \A c \in Conns :
       spc = "done" /\ status[c] # "none" ~>
         status[c] = "destroyed" \/ loop[loopOf[c]] = "gone"
=============================================================================
