--------------------------- MODULE EventLoop_proofs ---------------------------
(***************************************************************************)
(* Proofs about EventLoop for any number of threads and functors.          *)
(***************************************************************************)
EXTENDS EventLoop, SequenceTheorems, TLAPS

FEntry == [item : Funcs, ready : BOOLEAN]
QEntry == [item : QuitFuncs, ready : BOOLEAN]

\* What Publish(x) makes of a queue q.
Published(q, x) ==
  [i \in DOMAIN q |-> IF q[i].item = x THEN [item |-> x, ready |-> TRUE] ELSE q[i]]

\* Publish() only makes the entry of one item ready.
LEMMA PublishLemma ==
  ASSUME NEW S, NEW q \in Seq([item : S, ready : BOOLEAN]), NEW x
  PROVE  /\ Published(q, x) \in Seq([item : S, ready : BOOLEAN])
         /\ Len(Published(q, x)) = Len(q)
         /\ \A i \in 1 .. Len(q) : Published(q, x)[i].item = q[i].item
         /\ \A i \in 1 .. Len(q) : q[i].item # x => Published(q, x)[i] = q[i]
<1> DEFINE E == [item : S, ready : BOOLEAN]
<1> DEFINE r == Published(q, x)
<1>1. PICK L \in Nat : L = Len(q) /\ DOMAIN q = 1 .. L
  OBVIOUS
<1>2. ASSUME NEW i \in 1 .. L
      PROVE  r[i] \in E /\ r[i].item = q[i].item
  <2>1. q[i] \in E
    BY Zenon, <1>1, ElementOfSeq
  <2>2. r[i] = IF q[i].item = x THEN [item |-> x, ready |-> TRUE] ELSE q[i]
    BY Zenon, <1>1 DEF Published
  <2>3. CASE q[i].item = x
    <3>1. x \in S
      BY Zenon, <2>1, <2>3
    <3>2. r[i] = [item |-> x, ready |-> TRUE]
      BY Zenon, <2>2, <2>3
    <3>3. [item |-> x, ready |-> TRUE] \in E
      BY Zenon, <3>1
    <3>4. [item |-> x, ready |-> TRUE].item = x
      BY Zenon
    <3> QED
      BY <3>2, <3>3, <3>4, <2>3, Zenon
  <2>4. CASE q[i].item # x
    BY Zenon, <2>1, <2>2, <2>4
  <2> QED
    BY Zenon, <2>3, <2>4
<1>3. DOMAIN r = 1 .. L /\ r = [i \in 1 .. L |-> r[i]]
  BY Zenon, <1>1 DEF Published
<1>4. r \in [1 .. L -> E]
  BY Zenon, <1>2, <1>3
<1>5. \A i \in 1 .. L : q[i].item # x => r[i] = q[i]
  BY Zenon, <1>1 DEF Published
<1> HIDE DEF r, E
<1>6. r \in Seq(E) /\ Len(r) = L
  BY <1>4
<1> QED
  BY Zenon, <1>1, <1>2, <1>5, <1>6 DEF r, E

LEMMA AppendLemma ==
  ASSUME NEW S, NEW s \in Seq(S), NEW e \in S
  PROVE  /\ Append(s, e) \in Seq(S)
         /\ Len(Append(s, e)) = Len(s) + 1
         /\ \A i \in 1 .. Len(s) : Append(s, e)[i] = s[i]
         /\ Append(s, e)[Len(s) + 1] = e
OBVIOUS

LEMMA TailLemma ==
  ASSUME NEW S, NEW s \in Seq(S), s # <<>>
  PROVE  /\ Head(s) \in S /\ Head(s) = s[1]
         /\ Len(s) > 0
         /\ Tail(s) \in Seq(S)
         /\ Len(Tail(s)) = Len(s) - 1
         /\ \A i \in 1 .. Len(s) - 1 : Tail(s)[i] = s[i + 1]
OBVIOUS
-----------------------------------------------------------------------------
(* What the actions that move functors do to the two queues.               *)

LEMMA QueueTypes ==
  ASSUME TypeOK, [Next]_vars
  PROVE  /\ funcs' \in Seq(FEntry)
         /\ funcsOnQuit' \in Seq(QEntry)
         /\ func' \in Funcs \cup QuitFuncs \cup {NoFunc}
         /\ ran' \subseteq Funcs
         /\ quitRan' \subseteq QuitFuncs
         /\ due' \subseteq QuitFuncs
<1> DEFINE Goal == /\ funcs' \in Seq(FEntry)
                   /\ funcsOnQuit' \in Seq(QEntry)
                   /\ func' \in Funcs \cup QuitFuncs \cup {NoFunc}
                   /\ ran' \subseteq Funcs
                   /\ quitRan' \subseteq QuitFuncs
                   /\ due' \subseteq QuitFuncs
<1> SUFFICES Goal
  BY Zenon
<1>0. /\ funcs \in Seq(FEntry)
      /\ funcsOnQuit \in Seq(QEntry)
      /\ func \in Funcs \cup QuitFuncs \cup {NoFunc}
      /\ ran \subseteq Funcs /\ quitRan \subseteq QuitFuncs /\ due \subseteq QuitFuncs
  BY Zenon DEF TypeOK, FEntry, QEntry
<1>1. ASSUME NEW t \in AllThreads, QueueInLoop(t)
      PROVE  Goal
  <2>1. <<t, queued[t] + 1>> \in Funcs
    BY SMTT(30), <1>1, BoundsAssumption DEF TypeOK, QueueInLoop, Funcs
  <2>2. [item |-> <<t, queued[t] + 1>>, ready |-> FALSE] \in FEntry
    BY Zenon, <2>1 DEF FEntry
  <2>3. funcs' \in Seq(FEntry)
    BY Zenon, <2>2, <1>0, <1>1, AppendLemma DEF QueueInLoop, F!Reserve
  <2> QED
    BY Zenon, <2>3, <1>0, <1>1 DEF QueueInLoop, loopVars
<1>2. ASSUME NEW t \in AllThreads, QueueInLoopLink(t)
      PROVE  Goal
  <2>1. funcs' \in Seq(FEntry)
    <3>1. funcs' = Published(funcs, Current(t))
      BY Zenon, <1>2 DEF QueueInLoopLink, F!Publish, Published
    <3>2. funcs \in Seq([item : Funcs, ready : BOOLEAN])
      BY Zenon DEF TypeOK
    <3>3. Published(funcs, Current(t)) \in Seq([item : Funcs, ready : BOOLEAN])
      BY Zenon, <3>2, PublishLemma
    <3> QED
      BY Zenon, <3>1, <3>3 DEF FEntry
  <2> QED
    BY Zenon, <2>1, <1>0, <1>2 DEF QueueInLoopLink, loopVars
<1>3. ASSUME NEW t \in AllThreads, RunOnQuit(t)
      PROVE  Goal
  <2>1. <<t, quitQueued[t] + 1>> \in QuitFuncs
    BY SMTT(30), <1>3, BoundsAssumption DEF TypeOK, RunOnQuit, QuitFuncs
  <2>2. [item |-> <<t, quitQueued[t] + 1>>, ready |-> FALSE] \in QEntry
    BY Zenon, <2>1 DEF QEntry
  <2>3. funcsOnQuit' \in Seq(QEntry)
    BY Zenon, <2>2, <1>0, <1>3, AppendLemma DEF RunOnQuit, Q!Reserve
  <2> QED
    BY Zenon, <2>3, <1>0, <1>3 DEF RunOnQuit, loopVars
<1>4. ASSUME NEW t \in AllThreads, RunOnQuitLink(t)
      PROVE  Goal
  <2>1. funcsOnQuit' \in Seq(QEntry)
    <3>1. funcsOnQuit' = Published(funcsOnQuit, CurrentQuit(t))
      BY Zenon, <1>4 DEF RunOnQuitLink, Q!Publish, Published
    <3>2. funcsOnQuit \in Seq([item : QuitFuncs, ready : BOOLEAN])
      BY Zenon DEF TypeOK
    <3>3. Published(funcsOnQuit, CurrentQuit(t)) \in Seq([item : QuitFuncs, ready : BOOLEAN])
      BY Zenon, <3>2, PublishLemma
    <3> QED
      BY Zenon, <3>1, <3>3 DEF QEntry
  <2> QED
    BY Zenon, <2>1, <1>0, <1>4 DEF RunOnQuitLink, loopVars
<1>5. RegisteredOnQuit \subseteq QuitFuncs
  <2> SUFFICES ASSUME NEW i \in DOMAIN funcsOnQuit
               PROVE  funcsOnQuit[i].item \in QuitFuncs
    BY Zenon DEF RegisteredOnQuit
  <2>1. funcsOnQuit[i] \in QEntry
    BY <1>0
  <2> QED
    BY Zenon, <2>1 DEF QEntry
<1>6. CASE LoopTest
  BY Zenon, <1>0, <1>5, <1>6 DEF LoopTest, LeaveLoop
<1>7. ASSUME NEW kind \in Throws, Throw(kind)
      PROVE  Goal
  BY Zenon, <1>0, <1>5, <1>7 DEF Throw, LeaveLoop
<1>8. CASE InnerDequeue
  <2>1. CASE F!Take
    <3>1. funcs # <<>>
      BY Zenon, <2>1 DEF F!Take, F!Empty
    <3>2. Head(funcs) \in FEntry /\ funcs' \in Seq(FEntry)
      BY Zenon, <3>1, <2>1, <1>0, TailLemma DEF F!Take
    <3>3. func' \in Funcs
      BY Zenon, <3>2, <2>1 DEF F!Take, FEntry
    <3> QED
      BY Zenon, <3>2, <3>3, <2>1, <1>0, <1>8 DEF InnerDequeue, F!Take, F!TakeFails
  <2>2. CASE F!TakeFails
    BY Zenon, <2>2, <1>0, <1>8 DEF InnerDequeue, F!Take, F!TakeFails
  <2> QED
    BY Zenon, <2>1, <2>2, <1>8 DEF InnerDequeue
<1>9. CASE QuitDequeue
  <2>1. CASE Q!Take
    <3>1. funcsOnQuit # <<>>
      BY Zenon, <2>1 DEF Q!Take, Q!Empty
    <3>2. Head(funcsOnQuit) \in QEntry /\ funcsOnQuit' \in Seq(QEntry)
      BY Zenon, <3>1, <2>1, <1>0, TailLemma DEF Q!Take
    <3>3. func' \in QuitFuncs
      BY Zenon, <3>2, <2>1 DEF Q!Take, QEntry
    <3> QED
      BY Zenon, <3>2, <3>3, <2>1, <1>0, <1>9 DEF QuitDequeue, Q!Take, Q!TakeFails
  <2>2. CASE Q!TakeFails
    BY Zenon, <2>2, <1>0, <1>9 DEF QuitDequeue, Q!Take, Q!TakeFails
  <2> QED
    BY Zenon, <2>1, <2>2, <1>9 DEF QuitDequeue
<1>10. ASSUME UNCHANGED <<funcs, funcsOnQuit, func, ran, quitRan, due>>
       PROVE  Goal
  BY Zenon, <1>0, <1>10
<1>11. ASSUME NEW t \in AllThreads,
              Quit(t) \/ QueueInLoopWakeup(t) \/ QuitWakeup(t) \/ DestroyWakeup(t)
                \/ DestroySpin(t) \/ Destroy(t)
       PROVE  Goal
  BY Zenon, <1>10, <1>11 DEF Quit, QueueInLoopWakeup, QuitWakeup, DestroyWakeup,
                      DestroySpin, Destroy, loopVars
<1>12. ASSUME LoopResetQuit \/ PollWakeup \/ WakeupRead \/ HandleDone \/ OuterTest
              \/ FuncReturns \/ Loop \/ PollOther \/ QuitFuncEnds("onQuit")
              \/ QuitFuncEnds("out") \/ UNCHANGED vars
       PROVE  Goal
  BY Zenon, <1>10, <1>12 DEF LoopResetQuit, PollWakeup, WakeupRead, HandleDone, OuterTest,
                      FuncReturns, Loop, PollOther, QuitFuncEnds, vars, loopVars
<1> HIDE DEF Goal
<1>13. CASE LoopStep
  BY Zenon, <1>6, <1>8, <1>9, <1>12, <1>13 DEF LoopStep
<1>14. ASSUME NEW t \in AllThreads, UserCall(t) \/ CallStep(t)
       PROVE  Goal
  BY Zenon, <1>1, <1>2, <1>3, <1>4, <1>11, <1>14 DEF UserCall, CallStep
<1>15. ASSUME NEW d \in Destroyers, Destroy(d)
       PROVE  Goal
  BY Zenon, <1>11, <1>15, ThreadsAssumption DEF AllThreads
<1> QED
  BY Zenon, <1>7, <1>12, <1>13, <1>14, <1>15 DEF Next
\* The variables of a step other than the queues and the histories.
LEMMA ScalarTypes ==
  ASSUME TypeOK, [Next]_vars
  PROVE  /\ looping' \in BOOLEAN /\ quit' \in BOOLEAN /\ wakeupFd' \in BOOLEAN
         /\ lpc' \in LoopLocations /\ wakeActive' \in BOOLEAN
         /\ pc' \in [AllThreads -> CallLocations]
         /\ queued' \in [AllThreads -> 0 .. MaxFuncs]
         /\ quitQueued' \in [AllThreads -> 0 .. MaxQuitFuncs]
         /\ leftover' \in BOOLEAN /\ destroyed' \in BOOLEAN
<1> DEFINE Goal == /\ looping' \in BOOLEAN /\ quit' \in BOOLEAN /\ wakeupFd' \in BOOLEAN
                   /\ lpc' \in LoopLocations /\ wakeActive' \in BOOLEAN
                   /\ pc' \in [AllThreads -> CallLocations]
                   /\ queued' \in [AllThreads -> 0 .. MaxFuncs]
                   /\ quitQueued' \in [AllThreads -> 0 .. MaxQuitFuncs]
                   /\ leftover' \in BOOLEAN /\ destroyed' \in BOOLEAN
<1> SUFFICES Goal
  BY Zenon
<1> USE BoundsAssumption DEF TypeOK, LoopLocations, CallLocations
<1>1. ASSUME NEW t \in AllThreads, UserCall(t)
      PROVE  Goal
  <2>1. CASE QueueInLoop(t)
    BY <2>1 DEF QueueInLoop, loopVars
  <2>2. CASE RunOnQuit(t)
    BY <2>2 DEF RunOnQuit, loopVars
  <2>3. CASE Quit(t)
    BY Zenon, <2>3 DEF Quit
  <2> QED
    BY Zenon, <1>1, <2>1, <2>2, <2>3 DEF UserCall
<1>2. ASSUME NEW t \in AllThreads, CallStep(t)
      PROVE  Goal
  <2>1. CASE QueueInLoopLink(t)
    BY ZenonT(30), <2>1 DEF QueueInLoopLink, loopVars
  <2>2. CASE RunOnQuitLink(t)
    BY Zenon, <2>2 DEF RunOnQuitLink, loopVars
  <2>3. CASE QueueInLoopWakeup(t)
    BY Zenon, <2>3 DEF QueueInLoopWakeup, loopVars
  <2>4. CASE QuitWakeup(t)
    BY Zenon, <2>4 DEF QuitWakeup, loopVars
  <2>5. CASE DestroyWakeup(t)
    BY ZenonT(30), <2>5 DEF DestroyWakeup, loopVars
  <2>6. CASE DestroySpin(t)
    BY Zenon, <2>6 DEF DestroySpin, loopVars
  <2> QED
    BY Zenon, <1>2, <2>1, <2>2, <2>3, <2>4, <2>5, <2>6 DEF CallStep
<1>3. ASSUME NEW t \in AllThreads, Destroy(t)
      PROVE  Goal
  BY Zenon, <1>3 DEF Destroy
<1>4. CASE LoopResetQuit \/ PollWakeup \/ WakeupRead \/ HandleDone \/ FuncReturns
  BY ZenonT(30), <1>4 DEF LoopResetQuit, PollWakeup, WakeupRead, HandleDone, FuncReturns, callVars
<1>5. CASE OuterTest
  BY Zenon, <1>5 DEF OuterTest, callVars
<1>9. CASE InnerDequeue
  BY Zenon, <1>9 DEF InnerDequeue, callVars
<1>10. CASE QuitDequeue
  BY Zenon, <1>10 DEF QuitDequeue, callVars
<1>11. CASE LoopTest
  BY Zenon, <1>11 DEF LoopTest, LeaveLoop, callVars
<1>6. CASE Loop \/ PollOther \/ QuitFuncEnds("onQuit") \/ QuitFuncEnds("out")
  BY ZenonT(30), <1>6 DEF Loop, PollOther, QuitFuncEnds, callVars
<1>7. ASSUME NEW kind \in Throws, Throw(kind)
      PROVE  Goal
  BY Zenon, <1>7 DEF Throw, LeaveLoop, callVars
<1>8. CASE UNCHANGED vars
  BY ZenonT(30), <1>8 DEF vars, loopVars, callVars
<1> HIDE DEF Goal
<1> QED
  BY Zenon, <1>1, <1>2, <1>3, <1>4, <1>5, <1>6, <1>7, <1>8, <1>9, <1>10, <1>11, ThreadsAssumption
     DEF Next, LoopStep, AllThreads

LEMMA InitType == Init => TypeOK
<1> SUFFICES ASSUME Init PROVE TypeOK
  BY Zenon
<1>1. /\ funcs \in Seq([item : Funcs, ready : BOOLEAN])
      /\ funcsOnQuit \in Seq([item : QuitFuncs, ready : BOOLEAN])
  BY Zenon, EmptySeq DEF Init
<1>2. /\ pc \in [AllThreads -> CallLocations]
      /\ queued \in [AllThreads -> 0 .. MaxFuncs]
      /\ quitQueued \in [AllThreads -> 0 .. MaxQuitFuncs]
  BY BoundsAssumption DEF Init, CallLocations
<1> QED
  BY Zenon, <1>1, <1>2 DEF Init, TypeOK, LoopLocations

LEMMA TypeStep == TypeOK /\ [Next]_vars => TypeOK'
BY Zenon, QueueTypes, ScalarTypes DEF TypeOK, FEntry, QEntry

\* The variables keep their types, whatever the threads do.
THEOREM TypeCorrect == Spec => []TypeOK
BY InitType, TypeStep, PTL DEF Spec

-----------------------------------------------------------------------------
(* The inductive invariants                                                *)

\* looping_ is set exactly inside the try block, and the loop thread is in a
\* call of its own only while it runs user code.
ControlInv ==
  /\ looping <=> lpc \in {"enter", "test", "poll", "handle", "outer", "inner", "run"}
  /\ pc[LoopThread] # "idle" => lpc \in {"out", "handle", "run", "outer", "runQuit"}

\* Outside of the part of the loop that ends with a look at funcs_, a functor
\* that could be run is covered by the eventfd or by a pending wakeup(): also
\* before loop() is called and while functors run on quit.
WakeupInv ==
  lpc \notin {"handle", "outer", "inner", "run"} /\ ~F!Empty /\ ~wakeupFd /\ ~leftover =>
    \E t \in AllThreads : pc[t] = "wakeup"

LEMMA ControlStep ==
  ASSUME TypeOK, ControlInv, NoLostQuit, [Next]_vars
  PROVE  ControlInv' /\ NoLostQuit'
<1> DEFINE Goal == ControlInv' /\ NoLostQuit'
<1> SUFFICES Goal
  BY Zenon
<1> USE ThreadsAssumption DEF TypeOK, LoopLocations, CallLocations, AllThreads,
                              ControlInv, NoLostQuit
<1>1. ASSUME NEW t \in AllThreads, UserCall(t)
      PROVE  Goal
  <2>1. CASE QueueInLoop(t)
    BY Zenon, <2>1 DEF QueueInLoop, InUserCode, isInLoopThread, loopVars
  <2>2. CASE RunOnQuit(t)
    BY Zenon, <2>2 DEF RunOnQuit, InUserCode, isInLoopThread, loopVars
  <2>3. CASE Quit(t)
    BY Zenon, <2>3 DEF Quit, InUserCode, isInLoopThread
  <2> QED
    BY Zenon, <1>1, <2>1, <2>2, <2>3 DEF UserCall
<1>2. ASSUME NEW t \in AllThreads, CallStep(t)
      PROVE  Goal
  <2>1. CASE QueueInLoopLink(t) \/ RunOnQuitLink(t) \/ QuitWakeup(t)
    BY <2>1 DEF QueueInLoopLink, RunOnQuitLink, QuitWakeup, loopVars
  <2>2. CASE QueueInLoopWakeup(t)
    BY Zenon, <2>2 DEF QueueInLoopWakeup, loopVars
  <2>3. CASE DestroyWakeup(t)
    BY Zenon, <2>3 DEF DestroyWakeup, loopVars
  <2>4. CASE DestroySpin(t)
    BY Zenon, <2>4 DEF DestroySpin, loopVars
  <2> QED
    BY Zenon, <1>2, <2>1, <2>2, <2>3, <2>4 DEF CallStep
<1>3. ASSUME NEW d \in Destroyers, Destroy(d)
      PROVE  Goal
  BY Zenon, <1>3 DEF Destroy, InUserCode, isInLoopThread
<1>4. CASE LoopResetQuit \/ PollWakeup \/ WakeupRead \/ HandleDone \/ FuncReturns
  BY <1>4 DEF LoopResetQuit, PollWakeup, WakeupRead, HandleDone, FuncReturns, callVars
<1>5. CASE OuterTest \/ InnerDequeue \/ QuitDequeue
  BY <1>5 DEF OuterTest, InnerDequeue, QuitDequeue, callVars
<1>6. CASE LoopTest
  BY Zenon, <1>6 DEF LoopTest, LeaveLoop, callVars
<1>7. CASE Loop
  BY Zenon, <1>7 DEF Loop, BeingDestroyed, callVars
<1>8. CASE PollOther \/ QuitFuncEnds("onQuit") \/ QuitFuncEnds("out")
  BY <1>8 DEF PollOther, QuitFuncEnds, callVars
<1>9. ASSUME NEW kind \in Throws, Throw(kind)
      PROVE  Goal
  BY Zenon, <1>9 DEF Throw, LeaveLoop, callVars
<1>10. CASE UNCHANGED vars
  BY Zenon, <1>10 DEF vars, loopVars, callVars
<1> HIDE DEF Goal
<1> QED
  BY Zenon, <1>1, <1>2, <1>3, <1>4, <1>5, <1>6, <1>7, <1>8, <1>9, <1>10 DEF Next, LoopStep
LEMMA WakeupStep ==
  ASSUME TypeOK, ControlInv, WakeupInv, [Next]_vars
  PROVE  WakeupInv'
<1> USE ThreadsAssumption DEF TypeOK, LoopLocations, CallLocations, AllThreads
<1>1. UNCHANGED funcs => (F!Empty' <=> F!Empty)
  BY Zenon DEF F!Empty
<1>2. ASSUME NEW t \in AllThreads, QueueInLoop(t)
      PROVE  WakeupInv'
  <2>1. F!Empty => F!Empty'
    <3> DEFINE e == [item |-> <<t, queued[t] + 1>>, ready |-> FALSE]
    <3>1. funcs' = Append(funcs, e) /\ ~e.ready
      BY Zenon, <1>2 DEF QueueInLoop, F!Reserve
    <3> HIDE DEF e
    <3>2. funcs = <<>> => Head(funcs') = e
      BY <3>1
    <3>3. funcs # <<>> => Head(funcs') = Head(funcs)
      BY <3>1
    <3> QED
      BY Zenon, <3>1, <3>2, <3>3 DEF F!Empty
  <2>2. \A s \in AllThreads : pc[s] = "wakeup" => pc'[s] = "wakeup"
    BY Zenon, <1>2 DEF QueueInLoop, InUserCode
  <2> QED
    BY Zenon, <2>1, <2>2, <1>2 DEF QueueInLoop, WakeupInv, loopVars
<1>3. ASSUME NEW t \in AllThreads, QueueInLoopLink(t)
      PROVE  WakeupInv'
  BY Zenon, <1>3 DEF QueueInLoopLink, WakeupInv
<1>4. ASSUME NEW t \in AllThreads, QueueInLoopWakeup(t)
      PROVE  WakeupInv'
  BY Zenon, <1>4 DEF QueueInLoopWakeup, isInLoopThread, ControlInv, WakeupInv, loopVars
<1>5. ASSUME NEW t \in AllThreads,
             \/ RunOnQuit(t) \/ RunOnQuitLink(t) \/ Quit(t) \/ QuitWakeup(t)
             \/ Destroy(t) \/ DestroyWakeup(t) \/ DestroySpin(t)
      PROVE  WakeupInv'
  <2>1. UNCHANGED <<funcs, lpc, leftover>> /\ (wakeupFd => wakeupFd')
    BY Zenon, <1>5 DEF RunOnQuit, RunOnQuitLink, Quit, QuitWakeup, Destroy,
                DestroyWakeup, DestroySpin, loopVars
  <2>2. \A s \in AllThreads : pc[s] = "wakeup" => pc'[s] = "wakeup"
    BY Zenon, <1>5 DEF RunOnQuit, RunOnQuitLink, Quit, QuitWakeup, Destroy,
                DestroyWakeup, DestroySpin, InUserCode
  <2> QED
    BY Zenon, <2>1, <2>2, <1>1 DEF WakeupInv
<1>6. CASE Loop \/ LoopResetQuit \/ PollWakeup \/ PollOther \/ WakeupRead \/ HandleDone
  BY Zenon, <1>1, <1>6 DEF Loop, LoopResetQuit, PollWakeup, PollOther, WakeupRead,
                    HandleDone, WakeupInv, callVars
<1>7. CASE LoopTest
  BY Zenon, <1>1, <1>7 DEF LoopTest, LeaveLoop, WakeupInv, callVars
<1>8. CASE OuterTest
  BY Zenon, <1>1, <1>8 DEF OuterTest, WakeupInv, callVars
<1>9. CASE InnerDequeue
  BY Zenon, <1>9 DEF InnerDequeue, WakeupInv
<1>10. CASE FuncReturns \/ QuitFuncEnds("onQuit") \/ QuitFuncEnds("out")
  BY Zenon, <1>1, <1>10 DEF FuncReturns, QuitFuncEnds, WakeupInv, callVars
<1>11. ASSUME NEW kind \in Throws, Throw(kind)
       PROVE  WakeupInv'
  BY Zenon, <1>11 DEF Throw, WakeupInv
<1>12. CASE QuitDequeue
  BY Zenon, <1>1, <1>12 DEF QuitDequeue, WakeupInv, callVars
<1>13. CASE UNCHANGED vars
  BY Zenon, <1>1, <1>13 DEF vars, loopVars, callVars, WakeupInv
<1> QED
  BY Zenon, <1>2, <1>3, <1>4, <1>5, <1>6, <1>7, <1>8, <1>9, <1>10, <1>11, <1>12, <1>13
     DEF Next, LoopStep, UserCall, CallStep
\* FuncsInOrder depends on the items of funcs_ alone.
LEMMA SameItems ==
  ASSUME TypeOK, FuncsInOrder, UNCHANGED <<queued, ran>>,
         funcs' \in Seq(FEntry), Len(funcs') = Len(funcs),
         \A i \in 1 .. Len(funcs) : funcs'[i].item = funcs[i].item
  PROVE  FuncsInOrder'
<1>1. PICK L \in Nat : L = Len(funcs) /\ DOMAIN funcs = 1 .. L /\ DOMAIN funcs' = 1 .. L
  BY DEF TypeOK
<1>2. F!Queued' = F!Queued
  BY Zenon, <1>1 DEF F!Queued
<1> QED
  BY SMTT(30), <1>1, <1>2 DEF FuncsInOrder

LEMMA OrderStep ==
  ASSUME TypeOK, FuncsInOrder, [Next]_vars
  PROVE  FuncsInOrder'
<1> USE BoundsAssumption
<1>0. /\ funcs \in Seq(FEntry) /\ ran \subseteq Funcs
      /\ queued \in [AllThreads -> 0 .. MaxFuncs]
  BY Zenon DEF TypeOK, FEntry
<1>1. PICK L \in Nat : L = Len(funcs) /\ DOMAIN funcs = 1 .. L
  BY <1>0
<1>2. \A i \in 1 .. L : funcs[i].item \in Funcs
  <2> SUFFICES ASSUME NEW i \in 1 .. L PROVE funcs[i].item \in Funcs
    BY Zenon
  <2>1. funcs[i] \in FEntry
    BY <1>0, <1>1
  <2> QED
    BY Zenon, <2>1 DEF FEntry
<1>3. ASSUME UNCHANGED <<funcs, queued, ran>>
      PROVE  FuncsInOrder'
  BY ZenonT(30), <1>3 DEF FuncsInOrder, F!Queued
<1>4. ASSUME NEW t \in AllThreads, QueueInLoop(t)
      PROVE  FuncsInOrder'
  <2> DEFINE k == queued[t] + 1
  <2>1. k \in 1 .. MaxFuncs /\ <<t, k>> \in Funcs
    BY <1>0, <1>4 DEF QueueInLoop, Funcs
  <2>2. queued' = [queued EXCEPT ![t] = k] /\ ran' = ran
    BY Zenon, <1>4 DEF QueueInLoop
  <2>3. /\ Len(funcs') = L + 1 /\ DOMAIN funcs' = 1 .. L + 1
        /\ \A i \in 1 .. L : funcs'[i] = funcs[i]
        /\ funcs'[L + 1].item = <<t, k>>
    <3> DEFINE e == [item |-> <<t, k>>, ready |-> FALSE]
    <3>1. e \in FEntry /\ e.item = <<t, k>>
      BY Zenon, <2>1 DEF FEntry
    <3>2. funcs' = Append(funcs, e)
      BY Zenon, <1>4 DEF QueueInLoop, F!Reserve
    <3> HIDE DEF e
    <3> QED
      BY <3>1, <3>2, <1>0, <1>1, AppendLemma
  <2>4. F!Queued' = F!Queued \cup {<<t, k>>}
    <3>1. F!Queued' = {funcs'[i].item : i \in 1 .. L + 1}
      BY Zenon, <2>3 DEF F!Queued
    <3>2. F!Queued = {funcs[i].item : i \in 1 .. L}
      BY Zenon, <1>1 DEF F!Queued
    <3>3. \A i \in 1 .. L + 1 : i \in 1 .. L \/ i = L + 1
      BY <1>1
    <3>4. L + 1 \in 1 .. L + 1 /\ \A i \in 1 .. L : i \in 1 .. L + 1
      BY <1>1
    <3> HIDE DEF k
    <3> QED
      BY Zenon, <3>1, <3>2, <3>3, <3>4, <2>3
  <2>5. \A s \in AllThreads, m \in 1 .. MaxFuncs :
          m <= queued'[s] <=> m <= queued[s] \/ <<s, m>> = <<t, k>>
    BY <2>1, <2>2, <1>0
  <2> HIDE DEF k
  <2>6. \A f \in ran : f[1] = t => f[2] < k
    <3> SUFFICES ASSUME NEW f \in ran, f[1] = t PROVE f[2] < k
      BY Zenon
    <3>1. f = <<t, f[2]>> /\ f[2] \in 1 .. MaxFuncs
      BY <1>0 DEF Funcs
    <3>2. f[2] <= queued[t]
      BY Zenon, <3>1 DEF FuncsInOrder
    <3> QED
      BY <3>1, <3>2, <1>0 DEF k
  <2>7. \A i \in 1 .. L : funcs[i].item[1] = t => funcs[i].item[2] < k
    <3> SUFFICES ASSUME NEW i \in 1 .. L, funcs[i].item[1] = t
                 PROVE  funcs[i].item[2] < k
      BY Zenon
    <3>1. funcs[i].item = <<t, funcs[i].item[2]>> /\ funcs[i].item[2] \in 1 .. MaxFuncs
      BY <1>2 DEF Funcs
    <3>2. funcs[i].item[2] <= queued[t]
      BY Zenon, <3>1, <1>1 DEF FuncsInOrder, F!Queued
    <3> QED
      BY <3>1, <3>2, <1>0 DEF k
  <2>8. \A s \in AllThreads, m \in 1 .. MaxFuncs :
          m <= queued'[s] <=> <<s, m>> \in ran' \/ <<s, m>> \in F!Queued'
    BY Zenon, <2>2, <2>4, <2>5 DEF FuncsInOrder
  <2>9. ASSUME NEW i \in 1 .. L + 1
        PROVE  /\ \A f \in ran' : f[1] = funcs'[i].item[1] => f[2] < funcs'[i].item[2]
               /\ \A j \in 1 .. i - 1 :
                    funcs'[j].item[1] = funcs'[i].item[1]
                      => funcs'[j].item[2] < funcs'[i].item[2]
    <3>1. CASE i \in 1 .. L
      BY <3>1, <2>2, <2>3, <1>1, SMTT(30) DEF FuncsInOrder
    <3>2. CASE i = L + 1
      BY <3>2, <2>2, <2>3, <2>6, <2>7, <1>1
    <3> QED
      BY <3>1, <3>2, <1>1
  <2> QED
    BY Zenon, <2>3, <2>8, <2>9 DEF FuncsInOrder
<1>5. ASSUME NEW t \in AllThreads, QueueInLoopLink(t)
      PROVE  FuncsInOrder'
  <2>1. funcs' = Published(funcs, Current(t))
    BY Zenon, <1>5 DEF QueueInLoopLink, F!Publish, Published
  <2>2. /\ funcs' \in Seq(FEntry) /\ Len(funcs') = Len(funcs)
        /\ \A i \in 1 .. Len(funcs) : funcs'[i].item = funcs[i].item
    <3>1. funcs \in Seq([item : Funcs, ready : BOOLEAN])
      BY Zenon DEF TypeOK
    <3>2. /\ Published(funcs, Current(t)) \in Seq([item : Funcs, ready : BOOLEAN])
          /\ Len(Published(funcs, Current(t))) = Len(funcs)
      BY Zenon, <3>1, PublishLemma
    <3>3. ASSUME NEW i \in 1 .. Len(funcs)
          PROVE  Published(funcs, Current(t))[i].item = funcs[i].item
      <4>1. i \in DOMAIN funcs
        BY <3>1
      <4> QED
        BY Zenon, <4>1 DEF Published
    <3> QED
      BY <3>2, <3>3, <2>1, Zenon DEF FEntry
  <2> QED
    BY Zenon, <2>2, <1>5, SameItems DEF QueueInLoopLink
<1>6. CASE InnerDequeue /\ F!Take
  <2>1. funcs # <<>> /\ L > 0
    BY Zenon, <1>1, <1>6, TailLemma, <1>0 DEF F!Take, F!Empty
  <2>2. /\ Head(funcs) = funcs[1] /\ Len(funcs') = L - 1 /\ DOMAIN funcs' = 1 .. L - 1
        /\ \A i \in 1 .. L - 1 : funcs'[i] = funcs[i + 1]
    BY <2>1, <1>0, <1>1, <1>6, TailLemma DEF F!Take
  <2>3. /\ ran' = ran \cup {funcs[1].item} /\ queued' = queued
    BY Zenon, <2>1, <2>2, <1>6 DEF InnerDequeue, F!Take, F!TakeFails, callVars
  <2>4. F!Queued \cup ran = F!Queued' \cup ran'
    <3>1. F!Queued \subseteq F!Queued' \cup {funcs[1].item}
      <4> SUFFICES ASSUME NEW i \in 1 .. L, i # 1
                   PROVE  funcs[i].item \in F!Queued'
        BY Zenon, <1>1 DEF F!Queued
      <4>1. i - 1 \in 1 .. L - 1 /\ funcs'[i - 1] = funcs[i]
        BY <2>2, <1>1
      <4> QED
        BY Zenon, <4>1, <2>2 DEF F!Queued
    <3>2. F!Queued' \subseteq F!Queued
      BY SMTT(30), <2>2, <1>1 DEF F!Queued
    <3>3. funcs[1].item \in F!Queued
      BY <2>1, <1>1 DEF F!Queued
    <3> QED
      BY Zenon, <3>1, <3>2, <3>3, <2>3
  <2>5. \A s \in AllThreads, m \in 1 .. MaxFuncs :
          m <= queued'[s] <=> <<s, m>> \in ran' \/ <<s, m>> \in F!Queued'
    BY Zenon, <2>3, <2>4 DEF FuncsInOrder
  <2>6. ASSUME NEW i \in 1 .. L - 1
        PROVE  /\ \A f \in ran' : f[1] = funcs'[i].item[1] => f[2] < funcs'[i].item[2]
               /\ \A j \in 1 .. i - 1 :
                    funcs'[j].item[1] = funcs'[i].item[1]
                      => funcs'[j].item[2] < funcs'[i].item[2]
    <3>1. i + 1 \in DOMAIN funcs /\ 1 \in 1 .. (i + 1) - 1
      BY <1>1
    <3>2. \A f \in ran' : f[1] = funcs'[i].item[1] => f[2] < funcs'[i].item[2]
      BY ZenonT(30), <3>1, <2>2, <2>3 DEF FuncsInOrder
    <3>3. ASSUME NEW j \in 1 .. i - 1
          PROVE  funcs'[j].item[1] = funcs'[i].item[1]
                   => funcs'[j].item[2] < funcs'[i].item[2]
      <4>1. j \in 1 .. L - 1 /\ j + 1 \in 1 .. (i + 1) - 1
        BY <1>1
      <4> QED
        BY Zenon, <4>1, <3>1, <2>2 DEF FuncsInOrder
    <3> QED
      BY Zenon, <3>2, <3>3
  <2> QED
    BY Zenon, <2>2, <2>5, <2>6 DEF FuncsInOrder
<1>7. CASE InnerDequeue /\ F!TakeFails
  BY Zenon, <1>3, <1>7 DEF InnerDequeue, F!Take, F!TakeFails, callVars
<1>8. ASSUME NEW t \in AllThreads,
             \/ QueueInLoopWakeup(t) \/ RunOnQuit(t) \/ RunOnQuitLink(t) \/ Quit(t)
             \/ QuitWakeup(t) \/ Destroy(t) \/ DestroyWakeup(t) \/ DestroySpin(t)
      PROVE  FuncsInOrder'
  BY Zenon, <1>3, <1>8 DEF QueueInLoopWakeup, RunOnQuit, RunOnQuitLink, Quit, QuitWakeup,
                    Destroy, DestroyWakeup, DestroySpin
<1>9. ASSUME \/ Loop \/ LoopResetQuit \/ LoopTest \/ PollWakeup \/ PollOther
             \/ WakeupRead \/ HandleDone \/ OuterTest \/ FuncReturns \/ QuitDequeue
             \/ QuitFuncEnds("onQuit") \/ QuitFuncEnds("out") \/ UNCHANGED vars
             \/ \E kind \in Throws : Throw(kind)
      PROVE  FuncsInOrder'
  BY Zenon, <1>3, <1>9 DEF Loop, LoopResetQuit, LoopTest, PollWakeup, PollOther, WakeupRead,
                    HandleDone, OuterTest, FuncReturns, QuitDequeue, QuitFuncEnds,
                    Throw, vars, callVars
<1>10. InnerDequeue => F!Take \/ F!TakeFails
  BY Zenon DEF InnerDequeue
<1> QED
  BY Zenon, <1>4, <1>5, <1>6, <1>7, <1>8, <1>9, <1>10, ThreadsAssumption
     DEF Next, LoopStep, UserCall, CallStep, AllThreads
-----------------------------------------------------------------------------

Inv == TypeOK /\ ControlInv /\ WakeupInv /\ NoLostQuit /\ FuncsInOrder

LEMMA InitInv == Init => Inv
<1> SUFFICES ASSUME Init PROVE Inv
  BY Zenon
<1>1. TypeOK
  BY Zenon, InitType
<1>2. ControlInv /\ WakeupInv /\ NoLostQuit
  BY Zenon DEF Init, ControlInv, WakeupInv, NoLostQuit, F!Empty, AllThreads
<1>3. DOMAIN funcs = {} /\ F!Queued = {} /\ ran = {}
  BY DEF Init, F!Queued
<1>4. FuncsInOrder
  BY <1>3, BoundsAssumption DEF Init, FuncsInOrder
<1> QED
  BY Zenon, <1>1, <1>2, <1>4 DEF Inv

LEMMA SpecInv == Spec => []Inv
<1>1. Inv /\ [Next]_vars => Inv'
  <2> SUFFICES ASSUME Inv, [Next]_vars PROVE Inv'
    BY Zenon
  <2>1. TypeOK'
    BY Zenon, TypeStep DEF Inv
  <2>2. (ControlInv /\ NoLostQuit)'
    BY Zenon, ControlStep DEF Inv
  <2>3. WakeupInv'
    BY Zenon, WakeupStep DEF Inv
  <2>4. FuncsInOrder'
    BY Zenon, OrderStep DEF Inv
  <2> QED
    BY Zenon, <2>1, <2>2, <2>3, <2>4 DEF Inv
<1> QED
  BY <1>1, InitInv, PTL DEF Spec

\* With any number of threads, the loop never sleeps in poll() on a functor
\* that it could run, unless an exception left the functor behind.
THEOREM NoLostWakeupHolds == Spec => []NoLostWakeup
<1>1. Inv => NoLostWakeup
  BY Zenon DEF Inv, ControlInv, WakeupInv, NoLostWakeup, AllThreads
<1> QED
  BY <1>1, SpecInv, PTL

\* With any number of threads, the loop never sleeps in poll() on quit_.
THEOREM NoLostQuitHolds == Spec => []NoLostQuit
<1>1. Inv => NoLostQuit
  BY Zenon DEF Inv
<1> QED
  BY <1>1, SpecInv, PTL

\* For any number of threads and functors, no functor is lost or run twice, and
\* each thread's functors are run in the order in which it queued them.
THEOREM FuncsInOrderHolds == Spec => []FuncsInOrder
<1>1. Inv => FuncsInOrder
  BY Zenon DEF Inv
<1> QED
  BY <1>1, SpecInv, PTL
=============================================================================
