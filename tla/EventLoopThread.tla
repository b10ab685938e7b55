--------------------------- MODULE EventLoopThread ---------------------------
(***************************************************************************)
(* trantor::EventLoopThread (net/EventLoopThread.cc): a thread that makes  *)
(* an EventLoop, publishes it, waits for run(), loops until quit() and     *)
(* forgets the loop.  Three promises order the thread and the users of the *)
(* object; loop_ (shared) and a local of the thread own the EventLoop.     *)
(*                                                                         *)
(* The loop is abstracted to what module EventLoop shows of it: a queue of *)
(* functions run in order, a quit flag that loop() clears when it starts,  *)
(* and a poll that always returns (it has a timeout).                      *)
(***************************************************************************)
EXTENDS Naturals, Sequences

CONSTANTS Owner,     \* the thread that makes and destroys the object
          Users,     \* other threads that use it
          NoFunc,
          MaxFuncs   \* bound: functions queued by each thread

Callers == Users \cup {Owner}

\* Functions are the one of loopFuncs(), ones that quit the loop, and others.
Started == <<"started">>
Quitter == <<"quit">>
Funcs == Callers \X (1 .. MaxFuncs)

VARIABLES
  tpc,        \* where loopFuncs() is
  funcs,      \* the queue of the EventLoop
  func,       \* the function the loop thread runs
  quit,       \* quit_ of the EventLoop
  loopPtr,    \* loop_ is not null
  held,       \* threads with another owning pointer to the EventLoop
  runSet,     \* promiseForRun_ has its value
  loopSet,    \* promiseForLoop_ has its value
  once,       \* once_: "no", "running" or "done"
  upc,        \* where each caller is
  queued,     \* number of functions each caller has queued
  ran         \* history: the functions that were run

threadVars == <<tpc, func, ran>>
runVars == <<runSet, once>>
vars == <<threadVars, funcs, quit, loopPtr, held, runVars, loopSet, upc, queued>>

Init ==
  /\ tpc = "make"
  /\ funcs = <<>> /\ func = NoFunc
  /\ quit = FALSE
  /\ loopPtr = FALSE
  /\ held = {}
  /\ runSet = FALSE /\ loopSet = FALSE
  /\ once = "no"
  /\ upc = [u \in Callers |-> IF u = Owner THEN "ctor" ELSE "unborn"]
  /\ queued = [u \in Callers |-> 0]
  /\ ran = <<>>

\* The EventLoop exists while somebody owns it.
Alive == tpc \notin {"make", "done"} \/ loopPtr \/ held # {}

Goto(u, label) == upc' = [upc EXCEPT ![u] = label]

-----------------------------------------------------------------------------
(* loopFuncs()                                                             *)

\* The EventLoop is made, its first function queued and its pointer published.
Make ==
  /\ tpc = "make"
  /\ tpc' = "waitRun"
  /\ funcs' = <<Started>>
  /\ UNCHANGED <<func, ran, quit, loopPtr, held, runVars, loopSet, upc, queued>>

\* promiseForRun_.get_future().get()
WaitRun ==
  /\ tpc = "waitRun" /\ runSet
  /\ tpc' = "enter"
  /\ UNCHANGED <<func, ran, funcs, quit, loopPtr, held, runVars, loopSet, upc,
                 queued>>

\* loop() clears quit_.
EnterLoop ==
  /\ tpc = "enter"
  /\ quit' = FALSE
  /\ tpc' = "test"
  /\ UNCHANGED <<func, ran, funcs, loopPtr, held, runVars, loopSet, upc, queued>>

\* while (!quit_): poll and run the functions, or leave the loop.
LoopTest ==
  /\ tpc = "test"
  /\ tpc' = IF quit THEN "clear" ELSE "funcs"
  /\ UNCHANGED <<func, ran, funcs, quit, loopPtr, held, runVars, loopSet, upc,
                 queued>>

\* doRunInLoopFuncs(): the next function, until there is none.
RunFunc ==
  /\ tpc = "funcs"
  /\ IF funcs = <<>>
       THEN tpc' = "test" /\ UNCHANGED <<func, funcs>>
       ELSE tpc' = "func" /\ func' = Head(funcs) /\ funcs' = Tail(funcs)
  /\ UNCHANGED <<ran, quit, loopPtr, held, runVars, loopSet, upc, queued>>

\* A function ends: loopFuncs()'s own sets promiseForLoop_.
FuncReturns ==
  /\ tpc = "func"
  /\ tpc' = "funcs"
  /\ func' = NoFunc
  /\ ran' = Append(ran, func)
  /\ loopSet' = (loopSet \/ func = Started)
  /\ quit' = (quit \/ func = Quitter)
  /\ UNCHANGED <<funcs, loopPtr, held, runVars, upc, queued>>

\* { lock(loopMutex_); loop_ = nullptr; }
Clear ==
  /\ tpc = "clear"
  /\ loopPtr' = FALSE
  /\ tpc' = "exit"
  /\ UNCHANGED <<func, ran, funcs, quit, held, runVars, loopSet, upc, queued>>

\* The thread ends, and its thread_local loop with it.
ThreadEnds ==
  /\ tpc = "exit"
  /\ tpc' = "done"
  /\ UNCHANGED <<func, ran, funcs, quit, loopPtr, held, runVars, loopSet, upc,
                 queued>>

ThreadStep ==
  \/ Make \/ WaitRun \/ EnterLoop \/ LoopTest \/ RunFunc \/ FuncReturns
  \/ Clear \/ ThreadEnds

-----------------------------------------------------------------------------
(* The callers                                                             *)

\* The constructor waits for the pointer; then others may use the object.
Ctor ==
  /\ upc[Owner] = "ctor" /\ tpc # "make"
  /\ loopPtr' = TRUE
  /\ upc' = [u \in Callers |-> "idle"]
  /\ UNCHANGED <<threadVars, funcs, quit, held, runVars, loopSet, queued>>

\* call_once: the first caller lets the thread go and waits until it loops;
\* others wait for the first.
RunOnce(u) ==
  /\ once = "no"
  /\ once' = "running"
  /\ runSet' = TRUE

Run(u) ==
  /\ upc[u] = "idle"
  /\ RunOnce(u)
  /\ Goto(u, "run")
  /\ UNCHANGED <<threadVars, funcs, quit, loopPtr, held, loopSet, queued>>

\* (void)f.get() of promiseForLoop_
Loops == loopSet

RunReturns(u) ==
  /\ upc[u] \in {"run", "dtorRun"} /\ Loops
  /\ once' = "done"
  /\ Goto(u, IF upc[u] = "run" THEN "idle" ELSE "dtorCopy")
  /\ UNCHANGED <<threadVars, funcs, quit, loopPtr, held, runSet, loopSet, queued>>

\* getLoop()->queueInLoop(): a function of the caller, or one that quits.
QueueInLoop(u) ==
  /\ upc[u] = "idle" /\ loopPtr /\ queued[u] < MaxFuncs
  /\ queued' = [queued EXCEPT ![u] = @ + 1]
  /\ \E f \in {<<u, queued[u] + 1>>, Quitter} : funcs' = Append(funcs, f)
  /\ UNCHANGED <<threadVars, quit, loopPtr, held, runVars, loopSet, upc>>

\* wait() of the owner, after run(): join the thread.
Wait ==
  /\ upc[Owner] = "idle" /\ once = "done"
  /\ Goto(Owner, "join")
  /\ UNCHANGED <<threadVars, funcs, quit, loopPtr, held, runVars, loopSet,
                 queued>>

Joined ==
  /\ upc[Owner] = "join" /\ tpc = "done"
  /\ Goto(Owner, "waited")
  /\ UNCHANGED <<threadVars, funcs, quit, loopPtr, held, runVars, loopSet,
                 queued>>

\* A user has finished with the object.
Leave(u) ==
  /\ u # Owner /\ upc[u] = "idle"
  /\ Goto(u, "gone")
  /\ UNCHANGED <<threadVars, funcs, quit, loopPtr, held, runVars, loopSet,
                 queued>>

-----------------------------------------------------------------------------
(* The destructor                                                          *)

\* ~EventLoopThread() begins with run().
Dtor ==
  /\ upc[Owner] \in {"idle", "waited"} /\ \A u \in Users : upc[u] = "gone"
  /\ \/ RunOnce(Owner) /\ Goto(Owner, "dtorRun")
     \/ once = "done" /\ Goto(Owner, "dtorCopy") /\ UNCHANGED runVars
  /\ UNCHANGED <<threadVars, funcs, quit, loopPtr, held, loopSet, queued>>

\* Mutant: the destructor uses a pointer that owns nothing.
MutDtorCopy ==
  /\ upc[Owner] = "dtorCopy"
  /\ held' = held
  /\ Goto(Owner, IF loopPtr THEN "dtorQuit" ELSE "dtorJoin")
  /\ UNCHANGED <<threadVars, funcs, quit, loopPtr, runVars, loopSet, queued>>

\* { lock(loopMutex_); loop = loop_; }
DtorCopy ==
  /\ upc[Owner] = "dtorCopy"
  /\ held' = IF loopPtr THEN held \cup {Owner} ELSE held
  /\ Goto(Owner, IF loopPtr THEN "dtorQuit" ELSE "dtorJoin")
  /\ UNCHANGED <<threadVars, funcs, quit, loopPtr, runVars, loopSet, queued>>

\* loop->quit(): set quit_, ...
DtorQuit ==
  /\ upc[Owner] = "dtorQuit"
  /\ quit' = TRUE
  /\ Goto(Owner, "dtorWakeup")
  /\ UNCHANGED <<threadVars, funcs, loopPtr, held, runVars, loopSet, queued>>

\* ... then wakeup(), which uses the wakeup fd of the loop.
DtorWakeup ==
  /\ upc[Owner] = "dtorWakeup"
  /\ Goto(Owner, "dtorJoin")
  /\ UNCHANGED <<threadVars, funcs, quit, loopPtr, held, runVars, loopSet,
                 queued>>

\* thread_.join() if it was not joined; the local pointer and loop_ go.
DtorJoin ==
  /\ upc[Owner] = "dtorJoin" /\ tpc = "done"
  /\ held' = held \ {Owner}
  /\ loopPtr' = FALSE
  /\ Goto(Owner, "gone")
  /\ UNCHANGED <<threadVars, funcs, quit, runVars, loopSet, queued>>

CallStep ==
  \/ Ctor \/ Joined \/ DtorCopy \/ DtorQuit \/ DtorWakeup \/ DtorJoin
  \/ \E u \in Callers : RunReturns(u)

Next ==
  \/ ThreadStep \/ CallStep \/ Wait \/ Dtor
  \/ \E u \in Callers : Run(u) \/ QueueInLoop(u) \/ Leave(u)

Spec == Init /\ [][Next]_vars

-----------------------------------------------------------------------------
TypeOK ==
  /\ tpc \in {"make", "waitRun", "enter", "test", "funcs", "func", "clear",
              "exit", "done"}
  /\ funcs \in Seq(Funcs \cup {Started, Quitter})
  /\ func \in Funcs \cup {Started, Quitter, NoFunc}
  /\ {quit, loopPtr, runSet, loopSet} \subseteq BOOLEAN
  /\ held \subseteq Callers
  /\ once \in {"no", "running", "done"}
  /\ upc \in [Callers -> {"unborn", "ctor", "idle", "run", "join", "waited", "dtorRun",
                          "dtorCopy", "dtorQuit", "dtorWakeup", "dtorJoin",
                          "gone"}]
  /\ queued \in [Callers -> 0 .. MaxFuncs]
  /\ func # NoFunc <=> tpc = "func"

\* The EventLoop still exists when the destructor uses it, both to set quit_ and
\* to wake it up, although the loop may end (and with it the thread) as soon as
\* quit_ is set, or because a function called quit().  And "Make sure the event
\* loop loops before returning": once run() has returned loop() has cleared
\* quit_, so that no later quit() is lost.
DtorUsesLiveLoop ==
  /\ upc[Owner] \in {"dtorQuit", "dtorWakeup"} => Alive
  /\ once = "done" => tpc \notin {"make", "waitRun", "enter"}
=============================================================================
