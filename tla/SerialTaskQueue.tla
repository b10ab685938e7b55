--------------------------- MODULE SerialTaskQueue ---------------------------
(***************************************************************************)
(* trantor::SerialTaskQueue (utils/SerialTaskQueue.cc): an EventLoopThread *)
(* whose loop runs the tasks.  Threads hand tasks over with runInLoop(), a *)
(* task may hand over another, waitAllTasksFinished() waits for an empty   *)
(* task, and stop() quits the loop through the raw pointer of getLoop().   *)
(***************************************************************************)
EXTENDS EventLoopThread, Functions

VARIABLES
  nested,    \* the running task runs another one inside itself
  nestings,  \* number of tasks run inside others, at most MaxFuncs
  asked      \* history: the tasks ahead of each waitAllTasksFinished()

qvars == <<vars, nested, nestings, asked>>

QInit ==
  /\ Init
  /\ nested = FALSE
  /\ nestings = 0
  /\ asked = [u \in Callers |-> {}]

\* runInLoop() in a thread that is not the loop's: queueInLoop().
Hand(u) ==
  /\ upc[u] = "idle" /\ once = "done" /\ loopPtr
  /\ queued[u] < MaxFuncs
  /\ queued' = [queued EXCEPT ![u] = @ + 1]
  /\ funcs' = Append(funcs, <<u, queued[u] + 1>>)

\* runTaskInQueue()
RunTaskInQueue(u) ==
  /\ Hand(u)
  /\ UNCHANGED <<threadVars, quit, loopPtr, held, runVars, loopSet, upc, nested,
                 nestings, asked>>

\* runTaskInQueue() in a task: runInLoop() runs the new task at once.
RunTaskInTask ==
  /\ tpc = "func" /\ func \in Funcs
  /\ nestings < MaxFuncs
  /\ nestings' = nestings + 1
  /\ nested' = TRUE
  /\ UNCHANGED <<vars, asked>>

NestedReturns ==
  /\ nested
  /\ nested' = FALSE
  /\ UNCHANGED <<vars, nestings, asked>>

\* waitAllTasksFinished(): syncTaskInQueue() of an empty task.
WaitAllTasksFinished(u) ==
  /\ Hand(u)
  /\ asked' = [asked EXCEPT ![u] = (Range(funcs) \cup {func}) \ {NoFunc}]
  /\ Goto(u, "sync")
  /\ UNCHANGED <<threadVars, quit, loopPtr, held, runVars, loopSet, nested,
                 nestings>>

Done(x) == \E i \in 1 .. Len(ran) : ran[i] = x

\* fut.get()
MayReturn(u) == Done(<<u, queued[u]>>)

WaitAllReturns(u) ==
  /\ upc[u] = "sync" /\ MayReturn(u)
  /\ Goto(u, "synced")
  /\ UNCHANGED <<threadVars, funcs, quit, loopPtr, held, runVars, loopSet,
                 queued, nested, nestings, asked>>

WaitAllUsed(u) ==
  /\ upc[u] = "synced"
  /\ Goto(u, "idle")
  /\ UNCHANGED <<threadVars, funcs, quit, loopPtr, held, runVars, loopSet,
                 queued, nested, nestings, asked>>

\* stop(): stop_ = true; getLoop() reads loop_ ...
Stop ==
  /\ upc[Owner] = "idle" /\ once = "done" /\ loopPtr
  /\ Goto(Owner, "stopQuit")
  /\ UNCHANGED <<threadVars, funcs, quit, loopPtr, held, runVars, loopSet,
                 queued, nested, nestings, asked>>

\* ... ->quit() sets quit_ ...
StopQuit ==
  /\ upc[Owner] = "stopQuit"
  /\ quit' = TRUE
  /\ Goto(Owner, "stopWakeup")
  /\ UNCHANGED <<threadVars, funcs, loopPtr, held, runVars, loopSet, queued,
                 nested, nestings, asked>>

\* ... and wakes the loop up; then loopThread_.wait().
StopWakeup ==
  /\ upc[Owner] = "stopWakeup"
  /\ Goto(Owner, "join")
  /\ UNCHANGED <<threadVars, funcs, quit, loopPtr, held, runVars, loopSet,
                 queued, nested, nestings, asked>>

\* The constructor is the one of the thread, and run().  The destructor calls
\* stop() unless it was called, and destroys the thread object.
QCallStep ==
  \/ CallStep /\ UNCHANGED <<nested, nestings, asked>>
  \/ StopQuit \/ StopWakeup
  \/ \E u \in Callers : WaitAllReturns(u) \/ WaitAllUsed(u)

QThreadStep ==
  \/ ~nested /\ ThreadStep /\ UNCHANGED <<nested, nestings, asked>>
  \/ NestedReturns

QNext ==
  \/ QThreadStep \/ QCallStep \/ Stop
  \/ /\ \/ once = "no" /\ Run(Owner)
        \/ upc[Owner] = "waited" /\ Dtor
        \/ \E u \in Users : Leave(u)
     /\ UNCHANGED <<nested, nestings, asked>>
  \/ RunTaskInTask
  \/ \E u \in Callers : RunTaskInQueue(u) \/ WaitAllTasksFinished(u)

QSpec == QInit /\ [][QNext]_qvars

-----------------------------------------------------------------------------
\* "Wait until all tasks in the queue are finished": once
\* waitAllTasksFinished() has returned, every task that was in the queue or
\* running when it was called is finished, whichever thread it came from.
WaitAllMeansDone ==
  \A u \in Callers : upc[u] = "synced" => \A x \in asked[u] : Done(x)

=============================================================================
