------------------------- MODULE ConcurrentTaskQueue -------------------------
(***************************************************************************)
(* trantor::ConcurrentTaskQueue (utils/ConcurrentTaskQueue.cc): worker     *)
(* threads that wait on a condition variable for tasks, the threads that   *)
(* submit tasks (tasks submit tasks too) or wait for one with              *)
(* syncTaskInQueue(), and stop(), which does not take the mutex.           *)
(*                                                                         *)
(* A critical section is one action where nobody could see it in between;  *)
(* stop_ is atomic and read outside the mutex.  waiting is the wait set of *)
(* taskCond_.                                                              *)
(***************************************************************************)
EXTENDS Naturals, Sequences, FiniteSets, Functions

CONSTANTS Workers,    \* threads_
          Users,      \* the threads that use the queue
          NoTask,     \* a worker has no task
          MaxTasks    \* bound: tasks submitted

ASSUME ThreadsAssumption ==
  Workers # {} /\ IsFiniteSet(Workers) /\ Workers \cap Users = {}
ASSUME TasksAssumption ==
  /\ MaxTasks \in Nat
  /\ NoTask \notin (Workers \cup Users) \X (1 .. MaxTasks)

Threads == Workers \cup Users
Tasks == Threads \X (1 .. MaxTasks)

VARIABLES
  taskQueue,  \* taskQueue_
  stop,       \* stop_
  mutex,      \* the worker that holds taskMutex_ between two actions, if any
  waiting,    \* the workers that wait on taskCond_
  pc,         \* where each thread is
  task,       \* the task r of each worker
  submitted,  \* number of tasks each thread has submitted
  taken,      \* history: the tasks in the order they were taken
  finished    \* history: the tasks that were run

vars == <<taskQueue, stop, mutex, waiting, pc, task, submitted, taken, finished>>

Free == mutex = {}

Init ==
  /\ taskQueue = <<>>
  /\ stop = FALSE
  /\ mutex = {}
  /\ waiting = {}
  /\ pc = [t \in Threads |-> IF t \in Workers THEN "loop" ELSE "idle"]
  /\ task = [w \in Workers |-> NoTask]
  /\ submitted = [t \in Threads |-> 0]
  /\ taken = <<>>
  /\ finished = {}

Goto(t, label) == pc' = [pc EXCEPT ![t] = label]

-----------------------------------------------------------------------------
(* queueFunc()                                                             *)

\* while (!stop_)
LoopTest(w) ==
  /\ pc[w] = "loop"
  /\ Goto(w, IF stop THEN "exit" ELSE "lock")
  /\ UNCHANGED <<taskQueue, stop, mutex, waiting, task, submitted, taken,
                 finished>>

\* lock(taskMutex_)
Lock(w) ==
  /\ pc[w] = "lock" /\ Free
  /\ mutex' = {w}
  /\ Goto(w, "check")
  /\ UNCHANGED <<taskQueue, stop, waiting, task, submitted, taken, finished>>

\* while (!stop_ && taskQueue_.size() == 0)
MustWait == ~stop /\ taskQueue = <<>>

\* r = std::move(taskQueue_.front()); taskQueue_.pop()
Take(w) ==
  /\ taken' = Append(taken, Head(taskQueue))
  /\ taskQueue' = Tail(taskQueue)

\* Wait, or take a task and unlock, or unlock and go on with the outer loop.
Check(w) ==
  /\ pc[w] = "check"
  /\ \/ /\ MustWait
        /\ Goto(w, "wait")
        /\ UNCHANGED <<taskQueue, mutex, task, taken>>
     \/ /\ ~MustWait /\ taskQueue # <<>>
        /\ Take(w)
        /\ task' = [task EXCEPT ![w] = Head(taskQueue)]
        /\ mutex' = {}
        /\ Goto(w, "run")
     \/ /\ ~MustWait /\ taskQueue = <<>>
        /\ mutex' = {}
        /\ Goto(w, "loop")
        /\ UNCHANGED <<taskQueue, task, taken>>
  /\ UNCHANGED <<stop, waiting, submitted, finished>>

\* taskCond_.wait(lock): join the wait set and unlock, in one step.
Wait(w) ==
  /\ pc[w] = "wait"
  /\ waiting' = waiting \cup {w}
  /\ mutex' = {}
  /\ Goto(w, "waiting")
  /\ UNCHANGED <<taskQueue, stop, task, submitted, taken, finished>>

\* taskCond_.wait(lock) returns, after a notification or spuriously.
WakeUp(w) ==
  /\ pc[w] = "waiting" /\ w \notin waiting
  /\ Goto(w, "lock")
  /\ UNCHANGED <<taskQueue, stop, mutex, waiting, task, submitted, taken,
                 finished>>

SpuriousWakeUp(w) ==
  /\ w \in waiting
  /\ waiting' = waiting \ {w}
  /\ UNCHANGED <<taskQueue, stop, mutex, pc, task, submitted, taken, finished>>

\* Mutant: the thread ends with its first task.
MutTaskReturns(w) ==
  /\ pc[w] = "run"
  /\ finished' = finished \cup {task[w]}
  /\ task' = [task EXCEPT ![w] = NoTask]
  /\ Goto(w, "exit")
  /\ UNCHANGED <<taskQueue, stop, mutex, waiting, submitted, taken>>

\* r() returns.
TaskReturns(w) ==
  /\ pc[w] = "run"
  /\ finished' = finished \cup {task[w]}
  /\ task' = [task EXCEPT ![w] = NoTask]
  /\ Goto(w, "loop")
  /\ UNCHANGED <<taskQueue, stop, mutex, waiting, submitted, taken>>

-----------------------------------------------------------------------------
(* The users, and tasks that use the queue                                 *)

\* Mutant: a task is announced only if the queue was empty.
MutNotifyOne ==
  IF waiting = {} \/ taskQueue # <<>> THEN waiting' = waiting
  ELSE \E w \in waiting : waiting' = waiting \ {w}

\* taskCond_.notify_one()
NotifyOne ==
  IF waiting = {} THEN waiting' = waiting
  ELSE \E w \in waiting : waiting' = waiting \ {w}

\* runTaskInQueue()
Submit(t) ==
  /\ Free
  /\ Len(taken \o taskQueue) < MaxTasks
  /\ submitted' = [submitted EXCEPT ![t] = @ + 1]
  /\ taskQueue' = Append(taskQueue, <<t, submitted[t] + 1>>)
  /\ NotifyOne
  /\ UNCHANGED <<stop, mutex, task, taken, finished>>

RunTaskInQueue(t) ==
  /\ pc[t] \in {"idle", "run"}
  /\ Submit(t)
  /\ UNCHANGED pc

\* syncTaskInQueue() of a user or of a task: submit a task and wait for its
\* promise.
SyncTaskInQueue(t) ==
  /\ pc[t] \in {"idle", "run"}
  /\ Submit(t)
  /\ Goto(t, "sync")

\* fut.get(): the promise is set after the task was run.
MayReturn(t) == <<t, submitted[t]>> \in finished

SyncReturns(t) ==
  /\ pc[t] = "sync" /\ MayReturn(t)
  /\ Goto(t, IF t \in Users THEN "synced" ELSE "run")
  /\ UNCHANGED <<taskQueue, stop, mutex, waiting, task, submitted, taken,
                 finished>>

\* The user goes on with what needs the task done.
SyncUsed(t) ==
  /\ pc[t] = "synced"
  /\ Goto(t, "idle")
  /\ UNCHANGED <<taskQueue, stop, mutex, waiting, task, submitted, taken,
                 finished>>

\* stop() and the destructor, in a user: the test of stop_ and its assignment
\* are two steps.  Two users may both get past the test.
Stop(t) ==
  /\ pc[t] = "idle"
  /\ ~stop
  /\ Goto(t, "stopping")
  /\ UNCHANGED <<taskQueue, stop, mutex, waiting, task, submitted, taken,
                 finished>>

StopSet(t) ==
  /\ pc[t] = "stopping"
  /\ stop' = TRUE
  /\ Goto(t, "notify")
  /\ UNCHANGED <<taskQueue, mutex, waiting, task, submitted, taken, finished>>

\* taskCond_.notify_all()
StopNotify(t) ==
  /\ pc[t] = "notify"
  /\ waiting' = {}
  /\ Goto(t, "join")
  /\ UNCHANGED <<taskQueue, stop, mutex, task, submitted, taken, finished>>

\* Every t.join() returned.
StopJoined(t) ==
  /\ pc[t] = "join"
  /\ \A w \in Workers : pc[w] = "exit"
  /\ Goto(t, "stopped")
  /\ UNCHANGED <<taskQueue, stop, mutex, waiting, task, submitted, taken,
                 finished>>

WorkerStep(w) ==
  \/ LoopTest(w) \/ Lock(w) \/ Check(w) \/ Wait(w) \/ WakeUp(w) \/ TaskReturns(w)
  \/ SyncReturns(w)

UserStep(t) ==
  \/ SyncReturns(t) \/ SyncUsed(t)
  \/ StopSet(t) \/ StopNotify(t) \/ StopJoined(t)

Next ==
  \/ \E w \in Workers : WorkerStep(w) \/ SpuriousWakeUp(w)
  \/ \E t \in Threads : RunTaskInQueue(t) \/ SyncTaskInQueue(t)
  \/ \E t \in Users : Stop(t) \/ UserStep(t)

Spec == Init /\ [][Next]_vars

\* Threads run, tasks return and the mutex is fair to those who wait for it.
\* Nobody has to call the queue, and no spurious wakeup has to happen.
FairSpec ==
  /\ Spec
  /\ \A w \in Workers : SF_vars(WorkerStep(w))
  /\ \A t \in Users : WF_vars(UserStep(t))

-----------------------------------------------------------------------------
TypeOK ==
  /\ taskQueue \in Seq(Tasks) /\ taken \in Seq(Tasks)
  /\ stop \in BOOLEAN
  /\ mutex \subseteq Workers /\ waiting \subseteq Workers
  /\ pc \in [Threads -> {"loop", "lock", "check", "wait", "waiting", "run",
                         "exit", "idle", "sync", "synced", "stopping", "notify",
                         "join", "stopped"}]
  /\ task \in [Workers -> Tasks \cup {NoTask}]
  /\ submitted \in [Threads -> 0 .. MaxTasks]
  /\ finished \subseteq Tasks
  /\ \A w \in Workers : task[w] # NoTask <=> pc[w] \in {"run", "sync"}

\* The workers that will look at the queue before they wait again.
Awake ==
  {w \in Workers : \/ pc[w] \in {"loop", "lock", "check"}
                   \/ pc[w] = "waiting" /\ w \notin waiting}

\* No worker sleeps while there is a task for it: until the queue is stopped,
\* every queued task has a worker of its own that is on its way to the queue,
\* or nobody sleeps.  One notify_one() for each task is enough for that although
\* a notified worker may find its task gone and a busy one misses the
\* notification.
NoIdleWorker ==
  ~stop /\ waiting # {} => Len(taskQueue) <= Cardinality(Awake)

\* Each task of a thread is in exactly one place: in the queue, with one
\* worker, or finished; and a thread's tasks are taken in the order in which it
\* submitted them.  "This means that the task is executed before the method
\* returns": when syncTaskInQueue() has returned no worker still runs the task.
TasksOnce ==
  LET seen == taken \o taskQueue IN
    /\ TypeOK
    /\ IsInjective(seen)
    /\ Range(seen) = {x \in Tasks : x[2] <= submitted[x[1]]}
    /\ \A i, j \in 1 .. Len(seen) :
         i < j /\ seen[i][1] = seen[j][1] => seen[i][2] < seen[j][2]
    /\ \A w \in Workers :
         /\ task[w] # NoTask => task[w] \notin finished
         /\ \A t \in Users : pc[t] = "synced" => task[w] # <<t, submitted[t]>>

\* The workers do not sleep while a task waits for one, and take every task once.
TasksAreTaken == NoIdleWorker /\ TasksOnce

\* Every worker runs a task that waits for another one that is not done.
AllWait == \A w \in Workers : pc[w] = "sync" /\ ~MayReturn(w)

\* syncTaskInQueue() returns, in a user as in a task, unless the queue is stopped
\* or all workers wait for tasks that no worker is left for.
SyncIsAnswered ==
  \A t \in Threads : pc[t] = "sync" ~> (pc[t] # "sync" \/ stop \/ AllWait)

\* ConcurrentTaskQueue.h says of stop() "Stop all threads in the queue.":
\* stop() returns, with every worker gone.
StopReturns ==
  \A t \in Users : pc[t] = "join" ~> pc[t] = "stopped"
=============================================================================
