------------------------------ MODULE EventLoop ------------------------------
(***************************************************************************)
(* trantor::EventLoop (net/EventLoop.cc): the loop thread inside loop(),   *)
(* and the threads that call queueInLoop(), runOnQuit(), quit() and        *)
(* ~EventLoop() at any moment.  The two functor queues are FuncQueue, the  *)
(* abstraction that MpscQueue implements.                                  *)
(*                                                                         *)
(* One action per access to shared state.  Functors, channel callbacks and *)
(* the code around loop() are user code: in the loop thread they may make  *)
(* any of the calls, and functors and callbacks may throw.  So is the      *)
(* destructor of a functor.                                                *)
(***************************************************************************)
EXTENDS Naturals, Sequences

CONSTANTS Threads,      \* the threads other than the loop's
          LoopThread,   \* threadId_
          NoFunc,       \* dequeue() found nothing
          MaxFuncs,     \* bound: functors each thread passes to queueInLoop()
          MaxQuitFuncs, \* bound: functors each thread passes to runOnQuit()
          Throws,       \* what user code may throw: a subset of {"std", "other"}
          Destroyers    \* the threads that may run ~EventLoop()

ASSUME ThreadsAssumption ==
  /\ LoopThread \notin Threads
  /\ Destroyers \subseteq Threads
  /\ NoFunc \notin (Threads \cup {LoopThread}) \X Nat
ASSUME BoundsAssumption ==
  MaxFuncs \in Nat /\ MaxQuitFuncs \in Nat /\ Throws \subseteq {"std", "other"}

AllThreads == Threads \cup {LoopThread}

\* Functor <<t, k>> is the k-th one that thread t queues.
Funcs == AllThreads \X (1 .. MaxFuncs)
QuitFuncs == AllThreads \X (1 .. MaxQuitFuncs)

VARIABLES
  looping,      \* looping_
  quit,         \* quit_
  funcs,        \* funcs_
  funcsOnQuit,  \* funcsOnQuit_
  wakeupFd,     \* the eventfd counter is not zero
  lpc,          \* where the loop thread is in loop()
  func,         \* loop()'s and doRunInLoopFuncs()'s local functor
  wakeActive,   \* wakeupChannelPtr_ is in activeChannels_ and not yet handled
  pc,           \* where each thread is in a call on the loop
  queued,       \* number of functors each thread has passed to queueInLoop()
  quitQueued,   \* number of functors each thread has passed to runOnQuit()
  ran,          \* history: the functors of funcs_ that were run
  quitRan,      \* history: the functors of funcsOnQuit_ that were run
  due,          \* history: quit functors registered when the loop stopped
  leftover,     \* history: an exception has left funcs_ undrained since
  destroyed     \* ~EventLoop() has destroyed the members

loopVars == <<looping, quit, lpc, func, wakeActive, due, leftover>>
callVars == <<pc, queued, quitQueued>>
vars == <<loopVars, callVars, funcs, funcsOnQuit, wakeupFd, ran, quitRan,
          destroyed>>

\* func is the output of both queues: the loop thread dequeues from one at a
\* time.
F == INSTANCE FuncQueue WITH Items <- Funcs, NoItem <- NoFunc,
                             queue <- funcs, output <- func
Q == INSTANCE FuncQueue WITH Items <- QuitFuncs, NoItem <- NoFunc,
                             queue <- funcsOnQuit, output <- func

\* The functor that thread t is passing, or passed last.
Current(t) == <<t, queued[t]>>
CurrentQuit(t) == <<t, quitQueued[t]>>

isInLoopThread(t) == t = LoopThread

Init ==
  /\ looping = FALSE
  /\ quit = FALSE
  /\ funcs = <<>>
  /\ funcsOnQuit = <<>>
  /\ wakeupFd = FALSE
  /\ lpc = "out"
  /\ func = NoFunc
  /\ wakeActive = FALSE
  /\ pc = [t \in AllThreads |-> "idle"]
  /\ queued = [t \in AllThreads |-> 0]
  /\ quitQueued = [t \in AllThreads |-> 0]
  /\ ran = {}
  /\ quitRan = {}
  /\ due = {}
  /\ leftover = FALSE
  /\ destroyed = FALSE

-----------------------------------------------------------------------------
(* Calls on the loop                                                       *)

BeingDestroyed ==
  destroyed \/ \E d \in Destroyers : pc[d] \in {"destroyWake", "destroySpin"}

\* Thread t runs user code that may call the loop.  At "outer" this is the
\* destructor of the functor that was run last: doRunInLoopFuncs() destroys it
\* before it looks at funcs_ again.  (The functors before it are destroyed when
\* the next one is moved over them, which is part of "run".)  A loop that is
\* being destroyed is only used by its own thread.
InUserCode(t) ==
  /\ pc[t] = "idle"
  /\ isInLoopThread(t) => lpc \in {"out", "handle", "run", "outer", "runQuit"}
  /\ BeingDestroyed => isInLoopThread(t) /\ lpc # "out"

\* queueInLoop(): funcs_.enqueue(cb) takes its place in the queue.
QueueInLoop(t) ==
  /\ InUserCode(t)
  /\ queued[t] < MaxFuncs
  /\ queued' = [queued EXCEPT ![t] = @ + 1]
  /\ F!Reserve(<<t, queued[t] + 1>>)
  /\ pc' = [pc EXCEPT ![t] = "link"]
  /\ UNCHANGED <<loopVars, quitQueued, funcsOnQuit, wakeupFd, ran, quitRan,
                 destroyed>>

\* Mutant: the node is never linked.
MutQueueInLoopLink(t) ==
  /\ pc[t] = "link"
  /\ pc' = [pc EXCEPT ![t] = "wakeup"]
  /\ UNCHANGED <<loopVars, queued, quitQueued, funcs, funcsOnQuit, wakeupFd,
                 ran, quitRan, destroyed>>

\* queueInLoop(): funcs_.enqueue(cb) links the node.
QueueInLoopLink(t) ==
  /\ pc[t] = "link"
  /\ F!Publish(Current(t))
  /\ pc' = [pc EXCEPT ![t] = "wakeup"]
  /\ UNCHANGED <<loopVars, queued, quitQueued, funcsOnQuit, wakeupFd, ran,
                 quitRan, destroyed>>

\* Mutant: wakeup() does nothing while the loop is not running.
MutQueueInLoopWakeup(t) ==
  /\ pc[t] = "wakeup"
  /\ wakeupFd' = (wakeupFd \/ (~isInLoopThread(t) /\ looping))
  /\ pc' = [pc EXCEPT ![t] = "idle"]
  /\ UNCHANGED <<loopVars, queued, quitQueued, funcs, funcsOnQuit, ran,
                 quitRan, destroyed>>

\* queueInLoop(): wakeup() if the caller is not the running loop.
QueueInLoopWakeup(t) ==
  /\ pc[t] = "wakeup"
  /\ wakeupFd' = (wakeupFd \/ ~isInLoopThread(t) \/ ~looping)
  /\ pc' = [pc EXCEPT ![t] = "idle"]
  /\ UNCHANGED <<loopVars, queued, quitQueued, funcs, funcsOnQuit, ran,
                 quitRan, destroyed>>

\* runOnQuit(): funcsOnQuit_.enqueue(cb), in its two steps.
RunOnQuit(t) ==
  /\ InUserCode(t)
  /\ quitQueued[t] < MaxQuitFuncs
  /\ quitQueued' = [quitQueued EXCEPT ![t] = @ + 1]
  /\ Q!Reserve(<<t, quitQueued[t] + 1>>)
  /\ pc' = [pc EXCEPT ![t] = "linkQuit"]
  /\ UNCHANGED <<loopVars, queued, funcs, wakeupFd, ran, quitRan, destroyed>>

RunOnQuitLink(t) ==
  /\ pc[t] = "linkQuit"
  /\ Q!Publish(CurrentQuit(t))
  /\ pc' = [pc EXCEPT ![t] = "idle"]
  /\ UNCHANGED <<loopVars, queued, quitQueued, funcs, wakeupFd, ran, quitRan,
                 destroyed>>

\* Mutant: quit() wakes nobody up.
MutQuit(t) ==
  /\ InUserCode(t)
  /\ quit' = TRUE
  /\ UNCHANGED <<looping, lpc, func, wakeActive, due, leftover, callVars,
                 funcs, funcsOnQuit, wakeupFd, ran, quitRan, destroyed>>

\* quit(): the store of quit_.  The loop thread needs no wakeup().
Quit(t) ==
  /\ InUserCode(t)
  /\ quit' = TRUE
  /\ pc' = [pc EXCEPT ![t] = IF isInLoopThread(t) THEN "idle" ELSE "quitWake"]
  /\ UNCHANGED <<looping, lpc, func, wakeActive, due, leftover, queued,
                 quitQueued, funcs, funcsOnQuit, wakeupFd, ran, quitRan,
                 destroyed>>

\* quit(): wakeup().
QuitWakeup(t) ==
  /\ pc[t] = "quitWake"
  /\ wakeupFd' = TRUE
  /\ pc' = [pc EXCEPT ![t] = "idle"]
  /\ UNCHANGED <<loopVars, queued, quitQueued, funcs, funcsOnQuit, ran,
                 quitRan, destroyed>>

\* ~EventLoop(): quit(), while no other thread but the loop's is in a call.
Destroy(d) ==
  /\ InUserCode(d)
  /\ \A t \in Threads : pc[t] = "idle"
  /\ lpc = "out" => pc[LoopThread] = "idle"
  /\ quit' = TRUE
  /\ pc' = [pc EXCEPT ![d] = "destroyWake"]
  /\ UNCHANGED <<looping, lpc, func, wakeActive, due, leftover, queued,
                 quitQueued, funcs, funcsOnQuit, wakeupFd, ran, quitRan,
                 destroyed>>

DestroyWakeup(d) ==
  /\ pc[d] = "destroyWake"
  /\ wakeupFd' = TRUE
  /\ pc' = [pc EXCEPT ![d] = "destroySpin"]
  /\ UNCHANGED <<loopVars, queued, quitQueued, funcs, funcsOnQuit, ran,
                 quitRan, destroyed>>

\* Mutant: ~EventLoop() also waits until funcs_ is empty.
MutDestroySpin(d) ==
  /\ pc[d] = "destroySpin"
  /\ ~looping /\ funcs = <<>>
  /\ destroyed' = TRUE
  /\ pc' = [pc EXCEPT ![d] = "idle"]
  /\ UNCHANGED <<loopVars, queued, quitQueued, funcs, funcsOnQuit, wakeupFd,
                 ran, quitRan>>

\* ~EventLoop(): the spin on looping_ ends, the members are destroyed.  The
\* loop thread may still be at "onQuit" or "runQuit" and use funcsOnQuit_.
DestroySpin(d) ==
  /\ pc[d] = "destroySpin"
  /\ ~looping
  /\ destroyed' = TRUE
  /\ pc' = [pc EXCEPT ![d] = "idle"]
  /\ UNCHANGED <<loopVars, queued, quitQueued, funcs, funcsOnQuit, wakeupFd,
                 ran, quitRan>>

-----------------------------------------------------------------------------
(* loop()                                                                  *)

\* loop(): looping_ = true.
Loop ==
  /\ lpc = "out"
  /\ pc[LoopThread] = "idle"
  /\ ~BeingDestroyed
  /\ looping' = TRUE
  /\ lpc' = "enter"
  /\ UNCHANGED <<quit, func, wakeActive, due, leftover, callVars, funcs,
                 funcsOnQuit, wakeupFd, ran, quitRan, destroyed>>

\* loop(): quit_ = false, whoever has set it before.
LoopResetQuit ==
  /\ lpc = "enter"
  /\ quit' = FALSE
  /\ lpc' = "test"
  /\ UNCHANGED <<looping, func, wakeActive, due, leftover, callVars, funcs,
                 funcsOnQuit, wakeupFd, ran, quitRan, destroyed>>

RegisteredOnQuit ==
  {funcsOnQuit[i].item : i \in {j \in DOMAIN funcsOnQuit : funcsOnQuit[j].ready}}

\* The try block is left: loopFlagCleaner clears looping_.
LeaveLoop(to) ==
  /\ looping' = FALSE
  /\ due' = RegisteredOnQuit
  /\ lpc' = to

\* loop(): while (!quit_).
LoopTest ==
  /\ lpc = "test"
  /\ IF quit
       THEN LeaveLoop("onQuit")
       ELSE lpc' = "poll" /\ UNCHANGED <<looping, due>>
  /\ UNCHANGED <<quit, func, wakeActive, leftover, callVars, funcs,
                 funcsOnQuit, wakeupFd, ran, quitRan, destroyed>>

\* poll() returns with the wakeup channel among the active ones.
PollWakeup ==
  /\ lpc = "poll"
  /\ wakeupFd
  /\ wakeActive' = TRUE
  /\ lpc' = "handle"
  /\ UNCHANGED <<looping, quit, func, due, leftover, callVars, funcs,
                 funcsOnQuit, wakeupFd, ran, quitRan, destroyed>>

\* poll() returns for another channel, a signal or after kPollTimeMs.
PollOther ==
  /\ lpc = "poll"
  /\ ~wakeupFd
  /\ lpc' = "handle"
  /\ UNCHANGED <<looping, quit, func, wakeActive, due, leftover, callVars,
                 funcs, funcsOnQuit, wakeupFd, ran, quitRan, destroyed>>

\* The wakeup channel's handleEvent(): wakeupRead() resets the counter.
WakeupRead ==
  /\ lpc = "handle"
  /\ wakeActive
  /\ pc[LoopThread] = "idle"
  /\ wakeupFd' = FALSE
  /\ wakeActive' = FALSE
  /\ UNCHANGED <<looping, quit, lpc, func, due, leftover, callVars, funcs,
                 funcsOnQuit, ran, quitRan, destroyed>>

\* loop(): every active channel is handled.
HandleDone ==
  /\ lpc = "handle"
  /\ ~wakeActive
  /\ pc[LoopThread] = "idle"
  /\ lpc' = "outer"
  /\ UNCHANGED <<looping, quit, func, wakeActive, due, leftover, callVars,
                 funcs, funcsOnQuit, wakeupFd, ran, quitRan, destroyed>>

\* doRunInLoopFuncs(): while (!funcs_.empty()).
OuterTest ==
  /\ lpc = "outer"
  /\ pc[LoopThread] = "idle"
  /\ lpc' = IF F!Empty THEN "test" ELSE "inner"
  /\ leftover' = (leftover /\ ~F!Empty)
  /\ UNCHANGED <<looping, quit, func, wakeActive, due, callVars, funcs,
                 funcsOnQuit, wakeupFd, ran, quitRan, destroyed>>

\* doRunInLoopFuncs(): while (funcs_.dequeue(func)) func().
InnerDequeue ==
  /\ lpc = "inner"
  /\ \/ F!Take /\ lpc' = "run" /\ ran' = ran \cup {func'}
     \/ F!TakeFails /\ lpc' = "outer" /\ UNCHANGED ran
  /\ UNCHANGED <<looping, quit, wakeActive, due, leftover, callVars,
                 funcsOnQuit, wakeupFd, quitRan, destroyed>>

FuncReturns ==
  /\ lpc = "run"
  /\ pc[LoopThread] = "idle"
  /\ lpc' = "inner"
  /\ UNCHANGED <<looping, quit, func, wakeActive, due, leftover, callVars,
                 funcs, funcsOnQuit, wakeupFd, ran, quitRan, destroyed>>

\* Mutant: an exception loses the functors that were to be run next.
MutThrow(kind) ==
  /\ lpc \in {"handle", "run"}
  /\ pc[LoopThread] = "idle"
  /\ LeaveLoop(IF kind = "std" THEN "onQuit" ELSE "out")
  /\ funcs' = SelectSeq(funcs, LAMBDA e : ~e.ready)
  /\ wakeActive' = FALSE
  /\ leftover' = TRUE
  /\ UNCHANGED <<quit, func, callVars, funcsOnQuit, wakeupFd, ran, quitRan,
                 destroyed>>

\* A functor or a channel callback throws.  Only a std::exception is caught
\* by loop(); another exception leaves it past the functors on quit.
Throw(kind) ==
  /\ lpc \in {"handle", "run"}
  /\ pc[LoopThread] = "idle"
  /\ LeaveLoop(IF kind = "std" THEN "onQuit" ELSE "out")
  /\ wakeActive' = FALSE
  /\ leftover' = TRUE
  /\ UNCHANGED <<quit, func, callVars, funcs, funcsOnQuit, wakeupFd, ran,
                 quitRan, destroyed>>

\* loop(): while (funcsOnQuit_.dequeue(f)) f(), then return or rethrow.
QuitDequeue ==
  /\ lpc = "onQuit"
  /\ \/ Q!Take /\ lpc' = "runQuit" /\ quitRan' = quitRan \cup {func'}
     \/ Q!TakeFails /\ lpc' = "out" /\ UNCHANGED quitRan
  /\ UNCHANGED <<looping, quit, wakeActive, due, leftover, callVars, funcs,
                 wakeupFd, ran, destroyed>>

\* A functor on quit returns, or throws out of loop().
QuitFuncEnds(to) ==
  /\ lpc = "runQuit"
  /\ pc[LoopThread] = "idle"
  /\ lpc' = to
  /\ UNCHANGED <<looping, quit, func, wakeActive, due, leftover, callVars,
                 funcs, funcsOnQuit, wakeupFd, ran, quitRan, destroyed>>

-----------------------------------------------------------------------------

\* What a thread does of its own will.
UserCall(t) == QueueInLoop(t) \/ RunOnQuit(t) \/ Quit(t)

\* The rest of a call that has begun.
CallStep(t) ==
  \/ QueueInLoopLink(t)
  \/ QueueInLoopWakeup(t)
  \/ RunOnQuitLink(t)
  \/ QuitWakeup(t)
  \/ DestroyWakeup(t)
  \/ DestroySpin(t)

\* What the loop thread does without any user's or kernel's choice.
LoopStep ==
  \/ LoopResetQuit
  \/ LoopTest
  \/ PollWakeup
  \/ WakeupRead
  \/ HandleDone
  \/ OuterTest
  \/ InnerDequeue
  \/ FuncReturns
  \/ QuitDequeue
  \/ QuitFuncEnds("onQuit")

Next ==
  \/ LoopStep
  \/ Loop
  \/ PollOther
  \/ \E kind \in Throws : Throw(kind)
  \/ Throws # {} /\ QuitFuncEnds("out")
  \/ \E t \in AllThreads : UserCall(t) \/ CallStep(t)
  \/ \E d \in Destroyers : Destroy(d)

Spec == Init /\ [][Next]_vars

\* A thread inside a call runs on, and so does the loop thread.  Nothing is
\* assumed of the poll timeout, so that what follows does not rest on it.
Fairness == WF_vars(LoopStep) /\ \A t \in AllThreads : WF_vars(CallStep(t))

FairSpec == Spec /\ Fairness

-----------------------------------------------------------------------------
(* Properties                                                              *)

LoopLocations ==
  {"out", "enter", "test", "poll", "handle", "outer", "inner", "run", "onQuit",
   "runQuit"}
CallLocations ==
  {"idle", "link", "wakeup", "linkQuit", "quitWake", "destroyWake",
   "destroySpin"}

TypeOK ==
  /\ looping \in BOOLEAN
  /\ quit \in BOOLEAN
  /\ funcs \in Seq([item : Funcs, ready : BOOLEAN])
  /\ funcsOnQuit \in Seq([item : QuitFuncs, ready : BOOLEAN])
  /\ wakeupFd \in BOOLEAN
  /\ lpc \in LoopLocations
  /\ func \in Funcs \cup QuitFuncs \cup {NoFunc}
  /\ wakeActive \in BOOLEAN
  /\ pc \in [AllThreads -> CallLocations]
  /\ queued \in [AllThreads -> 0 .. MaxFuncs]
  /\ quitQueued \in [AllThreads -> 0 .. MaxQuitFuncs]
  /\ ran \subseteq Funcs
  /\ quitRan \subseteq QuitFuncs
  /\ due \subseteq QuitFuncs
  /\ leftover \in BOOLEAN
  /\ destroyed \in BOOLEAN

\* The loop never blocks in poll() on a functor that it could run: if the
\* first functor of funcs_ is linked, the eventfd is readable or the thread
\* that linked it is about to call wakeup().  This also covers a functor that
\* the loop thread queued, without wakeup(), behind one not linked yet.  Only
\* the functors that an exception left in funcs_ may wait for the poll timeout
\* of a loop() called again.
NoLostWakeup ==
  lpc = "poll" /\ ~F!Empty /\ ~wakeupFd /\ ~leftover =>
    \E t \in Threads : pc[t] = "wakeup"

\* Nor does it block in poll() while quit_ is set: the eventfd is readable, or
\* the thread that has set quit_ is about to call wakeup().  (A quit() before
\* loop() resets quit_ is forgotten, and not what this is about.)
NoLostQuit ==
  lpc = "poll" /\ quit /\ ~wakeupFd =>
    \E t \in Threads : pc[t] \in {"quitWake", "destroyWake"}

\* What a thread passed to queueInLoop() is run once or still queued, and in
\* the order of its calls, exceptions and restarts of loop() included.
FuncsInOrder ==
  /\ \A t \in AllThreads, k \in 1 .. MaxFuncs :
       k <= queued[t] <=> <<t, k>> \in ran \/ <<t, k>> \in F!Queued
  /\ \A i \in DOMAIN funcs :
       /\ \A f \in ran :
            f[1] = funcs[i].item[1] => f[2] < funcs[i].item[2]
       /\ \A j \in 1 .. i - 1 :
            funcs[j].item[1] = funcs[i].item[1]
              => funcs[j].item[2] < funcs[i].item[2]

\* "We assume the loop thread will *always* exit", says ~EventLoop(), which spins
\* until it does: and so it does, without any help of the poll timeout, wherever
\* in loop() the destructor finds it and whatever functors queue more functors
\* meanwhile.  The exception is the start of loop(): when it resets quit_ after
\* the quit() of the destructor, nobody ends the spin.
DestroyReturns ==
  \A d \in Destroyers :
    pc[d] = "destroyWake" /\ quit /\ lpc # "enter" ~> destroyed

\* A queued functor is run as long as the loop is not left, without any help of
\* the poll timeout.  (The exception: what a thrown exception left behind.)
\* quit() on a loop that is past the start of loop() makes loop() return; and it
\* returns with all functors run that were registered by runOnQuit() when it
\* stopped, unless a call of runOnQuit() is still on its way.
QueuedFuncRuns ==
  /\ \A f \in Funcs : f \in F!Queued /\ ~leftover ~> f \in ran \/ lpc = "out"
  /\ quit /\ lpc \notin {"out", "enter"} ~> lpc = "out"
  /\ [][lpc = "onQuit" /\ lpc' = "out" =>
          due \subseteq quitRan \/ \E t \in AllThreads : pc[t] = "linkQuit"]_vars
=============================================================================
