--------------------------- MODULE TimerQueue_proofs ---------------------------
(* NoTimerMissed and CancelledNeverRuns of a TimerQueue, for any number of     *)
(* timers and queued calls and a clock of any length.                          *)
EXTENDS TimerQueue, WellFoundedInduction, SequenceTheorems, TLAPS

\* What is assumed of the constants
Bounds ==
  /\ MaxNow \in Nat /\ MaxTimers \in Nat
  /\ Delays \subseteq Nat /\ Intervals \subseteq Nat

Calls == [call : {"add", "invalidate"}, id : 1 .. created]

\* TypeOK in two parts
Flags == looping \in BOOLEAN /\ unarmed \in BOOLEAN
Shapes ==
  /\ now \in Times /\ created \in 0 .. MaxTimers
  /\ when \in [Ids -> Times] /\ interval \in [Ids -> Nat]
  /\ timers \subseteq 1 .. created /\ timerIdSet \subseteq 1 .. created
  /\ timerfd \in 0 .. Disarmed /\ readAt \in Times
  /\ expired \subseteq 1 .. created /\ due \subseteq expired
  /\ pc \in {"idle", "calling", "callback"}
  /\ dropped \subseteq 1 .. created /\ cancelled \subseteq 1 .. created
  /\ runs \in [Ids -> 0 .. 2]

\* The queued addTimerInLoop() of a timer is the first call for it, and the timer
\* is not yet in the heap or among those that expired.
FuncsInv ==
  /\ \A j, k \in 1 .. Len(funcs) :
       j < k /\ funcs[k].call = "add" => funcs[j].id # funcs[k].id
  /\ \A i \in Ids : AddPending(i) => i \notin timers \cup expired

\* Where the timers are
BatchInv ==
  /\ pc = "idle" => expired = {}
  /\ timers \cap expired = {}
  /\ timerIdSet \subseteq timers \cup expired \cup dropped

\* A timer that runs once has not run while it is still to run.
RunsInv ==
  /\ \A i \in Ids : i > created \/ AddPending(i) => runs[i] = 0
  /\ \A i \in timers \cup due : interval[i] = 0 => runs[i] = 0
  /\ \A i \in Ids : interval[i] = 0 => runs[i] <= 1

\* No call is queued that would bring a cancelled timer back.
CancelInv == \A i \in cancelled : i \notin timerIdSet /\ ~AddPending(i)

IInv == TypeOK /\ FuncsInv /\ BatchInv /\ RunsInv /\ CancelInv /\ TimerfdArmed

-----------------------------------------------------------------------------
(* The heap, the clock and the queue of calls                              *)

\* TypeOK is what its parts say.
LEMMA TypeParts == TypeOK <=> Flags /\ Shapes /\ funcs \in Seq(Calls)
BY Zenon DEF TypeOK, Flags, Shapes, Calls

\* A set of natural numbers has a least element.
LEMMA LeastOf ==
  ASSUME NEW T, T \subseteq Nat, T # {}
  PROVE  \E x \in T : \A y \in T : x <= y
<1> DEFINE R == OpToRel(<, Nat)
<1>1. PICK x \in T : \A y \in T : ~(<<y, x>> \in R)
  BY Zenon, NatLessThanWellFounded, WFMin
<1>2. \A y \in T : <<y, x>> \in R <=> y < x
  BY Zenon DEF OpToRel
<1> HIDE DEF R
<1>3. \A y \in T : ~(y < x)
  BY <1>1, <1>2, Zenon
<1> QED BY <1>3

\* timers_.top() of a heap that is not empty is one of its timers, and none is
\* earlier.
LEMMA TopIsFirst ==
  ASSUME Bounds, NEW S \in SUBSET Ids, S # {}, NEW w \in [Ids -> Times]
  PROVE  Top(S, w) \in S /\ \A j \in S : w[Top(S, w)] <= w[j]
<1> DEFINE T == {w[i] : i \in S}
<1>1. T \subseteq Nat /\ T # {}
  BY DEF Times, Bounds
<1>2. PICK x \in T : \A y \in T : x <= y
  BY Zenon, <1>1, LeastOf
<1>3. \E i \in S : \A j \in S : w[i] <= w[j]
  BY Zenon, <1>2
<1> QED BY Zenon, <1>3 DEF Top

\* What resetTimerfd() sets is a time, and not later than the timer or the next
\* instant.
LEMMA ExpirationIsSoon ==
  ASSUME Bounds, now \in Times, NEW t \in Times
  PROVE  /\ Expiration(t) \in Times
         /\ Expiration(t) <= AtLeast(t, AtMost(MaxNow, now + 1))
BY DEF Bounds, Times, Expiration, AtLeast, AtMost

\* A call more at the end of the queue
LEMMA PendingAppend ==
  ASSUME NEW S, funcs \in Seq(S), NEW f, funcs' = Append(funcs, f), NEW i, AddPending(i)'
  PROVE  AddPending(i) \/ f = [call |-> "add", id |-> i]
<1>1. PICK k \in 1 .. Len(funcs') : funcs'[k] = [call |-> "add", id |-> i]
  BY Zenon DEF AddPending
<1>2. CASE k \in 1 .. Len(funcs)
  BY <1>1, <1>2 DEF AddPending
<1>3. CASE k = Len(funcs) + 1
  BY <1>1, <1>3
<1> QED BY <1>1, <1>2, <1>3

\* The first call is taken off the queue: what is left adds no timer that it was
\* about.
LEMMA PendingTail ==
  ASSUME NEW S, funcs \in Seq(S), funcs # <<>>, funcs' = Tail(funcs), FuncsInv,
         NEW i, AddPending(i)'
  PROVE  AddPending(i) /\ Head(funcs).id # i
<1>1. PICK k \in 1 .. Len(funcs') : funcs'[k] = [call |-> "add", id |-> i]
  BY Zenon DEF AddPending
<1>2. /\ k + 1 \in 1 .. Len(funcs) /\ 1 \in 1 .. Len(funcs) /\ 1 < k + 1
      /\ funcs[k + 1] = [call |-> "add", id |-> i] /\ Head(funcs) = funcs[1]
  BY <1>1
<1>3. funcs[k + 1].call = "add" /\ funcs[k + 1].id = i
  BY <1>2
<1>4. funcs[1].id # funcs[k + 1].id
  BY Zenon, <1>2, <1>3 DEF FuncsInv
<1> QED BY Zenon, <1>2, <1>3, <1>4 DEF AddPending

\* The timer of a queued addTimerInLoop() was created.
LEMMA PendingWasCreated ==
  ASSUME TypeOK, NEW i, AddPending(i)
  PROVE  i \in 1 .. created
<1>1. PICK k \in 1 .. Len(funcs) : funcs[k] = [call |-> "add", id |-> i]
  BY Zenon DEF AddPending
<1>2. funcs[k] \in [call : {"add", "invalidate"}, id : 1 .. created]
  BY <1>1 DEF TypeOK
<1> QED BY <1>1, <1>2

\* The first call of the queue is one that addTimer() or invalidateTimer() made.
LEMMA FirstCall ==
  ASSUME TypeOK, funcs # <<>>
  PROVE  /\ Head(funcs).call \in {"add", "invalidate"} /\ Head(funcs).id \in 1 .. created
         /\ Head(funcs).call = "add" => AddPending(Head(funcs).id)
<1>1. Head(funcs) \in [call : {"add", "invalidate"}, id : 1 .. created]
  BY Zenon, HeadTailProperties DEF TypeOK
<1>2. Head(funcs) = funcs[1] /\ 1 \in 1 .. Len(funcs)
  BY DEF TypeOK
<1>3. Head(funcs) = [call |-> Head(funcs).call, id |-> Head(funcs).id]
  BY Zenon, <1>1
<1> QED BY Zenon, <1>1, <1>2, <1>3 DEF AddPending

-----------------------------------------------------------------------------
(* The steps                                                               *)

\* The initial state: no timer, nothing queued.
LEMMA InitInv == ASSUME Bounds, Init PROVE IInv
<1>1. Shapes
  BY DEF Bounds, Init, Shapes, Times, Disarmed, Ids
<1>2. Flags
  BY Zenon DEF Init, Flags
<1>3. funcs \in Seq(Calls)
  BY DEF Init
<1>4. \A i : ~AddPending(i)
  BY DEF Init, AddPending
<1>5. FuncsInv /\ BatchInv /\ RunsInv /\ CancelInv /\ TimerfdArmed
  BY <1>4 DEF Init, FuncsInv, BatchInv, RunsInv, CancelInv, TimerfdArmed, Ids, Bounds
<1> QED BY Zenon, <1>1, <1>2, <1>3, <1>5, TypeParts DEF IInv

\* The flags stay flags.
LEMMA FlagsStep == ASSUME Flags, [Next]_vars PROVE Flags'
<1> USE DEF Flags, heapVars
<1>1. ASSUME NEW d \in Delays, NEW v \in Intervals, AddTimer(d, v) \/ AddTimerQueued(d, v)
      PROVE  Flags'
  BY <1>1, Zenon DEF AddTimer, AddTimerQueued, AddTimerInLoop
<1>2. ASSUME NEW i \in Ids, InvalidateTimer(i) \/ InvalidateTimerQueued(i) \/ RunTimer(i)
      PROVE  Flags'
  BY <1>2, Zenon DEF InvalidateTimer, InvalidateTimerQueued, RunTimer
<1>3. CASE RunFunc
  BY <1>3, Zenon DEF RunFunc, AddTimerInLoop
<1>4. CASE HandleRead \/ HandleReadEnds
  BY <1>4, Zenon DEF HandleRead, HandleReadEnds, ResetExpired
<1>5. CASE CallbackReturns \/ CallbackThrows \/ ResetTimerQueue
  BY <1>5, Zenon DEF CallbackReturns, CallbackThrows, ResetTimerQueue
<1>6. CASE Tick \/ Loop \/ LoopReturns \/ UNCHANGED vars
  BY <1>6, Zenon DEF Tick, Loop, LoopReturns, vars
<1> QED BY Zenon, <1>1, <1>2, <1>3, <1>4, <1>5, <1>6 DEF Next, User, LoopStep

\* The queued calls are for timers that were created.
LEMMA CallsStep ==
  ASSUME created \in Nat, funcs \in Seq(Calls), [Next]_vars PROVE funcs' \in Seq(Calls')
<1>1. ASSUME NEW c \in Seq(Calls), created' \in {created, created + 1} PROVE c \in Seq(Calls')
  <2>1. Calls \subseteq Calls'
    BY <1>1 DEF Calls
  <2> QED BY <1>1, <2>1
<1>2. ASSUME UNCHANGED <<created, funcs>> PROVE funcs' \in Seq(Calls')
  BY Zenon, <1>2 DEF Calls
<1>3. ASSUME NEW d \in Delays, NEW v \in Intervals, AddTimer(d, v) PROVE funcs' \in Seq(Calls')
  <2>1. created' = created + 1 /\ funcs' = funcs
    BY Zenon, <1>3 DEF AddTimer, NewTimer
  <2> QED BY Zenon, <1>1, <2>1
<1>4. ASSUME NEW d \in Delays, NEW v \in Intervals, AddTimerQueued(d, v) PROVE funcs' \in Seq(Calls')
  <2>1. created' = created + 1 /\ funcs' = Append(funcs, [call |-> "add", id |-> created + 1])
    BY Zenon, <1>4 DEF AddTimerQueued, NewTimer
  <2>2. funcs \in Seq(Calls')
    BY Zenon, <1>1, <2>1
  <2>3. [call |-> "add", id |-> created + 1] \in Calls'
    BY <2>1 DEF Calls
  <2> QED BY <2>1, <2>2, <2>3
<1>5. ASSUME NEW i \in Ids, InvalidateTimerQueued(i) PROVE funcs' \in Seq(Calls')
  <2>1. /\ created' = created /\ funcs' = Append(funcs, [call |-> "invalidate", id |-> i])
        /\ i \in 1 .. created
    BY <1>5 DEF InvalidateTimerQueued, timerVars, Ids
  <2>2. funcs \in Seq(Calls') /\ [call |-> "invalidate", id |-> i] \in Calls'
    BY Zenon, <2>1 DEF Calls
  <2> QED BY <2>1, <2>2
<1>6. CASE RunFunc
  <2>1. created' = created /\ funcs # <<>> /\ funcs' = Tail(funcs)
    BY Zenon, <1>6 DEF RunFunc, timerVars
  <2>2. Tail(funcs) \in Seq(Calls)
    BY Zenon, <2>1, HeadTailProperties
  <2> QED BY Zenon, <2>1, <2>2 DEF Calls
<1>7. ASSUME NEW i \in Ids, InvalidateTimer(i) \/ RunTimer(i) PROVE funcs' \in Seq(Calls')
  BY Zenon, <1>2, <1>7 DEF InvalidateTimer, RunTimer, timerVars
<1>8. CASE HandleRead \/ HandleReadEnds \/ CallbackReturns \/ CallbackThrows \/ ResetTimerQueue
  BY Zenon, <1>2, <1>8 DEF HandleRead, HandleReadEnds, CallbackReturns, CallbackThrows, ResetTimerQueue,
                    timerVars
<1>9. CASE Tick \/ Loop \/ LoopReturns \/ UNCHANGED vars
  BY Zenon, <1>2, <1>9 DEF Tick, Loop, LoopReturns, vars, timerVars
<1> QED BY Zenon, <1>3, <1>4, <1>5, <1>6, <1>7, <1>8, <1>9 DEF Next, User, LoopStep

\* Times, sets and counters stay what they are.
LEMMA ShapesStep == ASSUME Bounds, IInv, [Next]_vars PROVE Shapes'
<1> USE DEF timerVars, heapVars, batchVars
<1>0. Shapes /\ funcs \in Seq(Calls)
  BY Zenon, TypeParts DEF IInv
<1>1. ASSUME NEW i, NEW t \in Times, AddTimerInLoop(i, t) PROVE timerfd' \in 0 .. Disarmed
  <2>1. Expiration(t) \in Times
    BY Zenon, <1>0, ExpirationIsSoon DEF Shapes
  <2> QED BY <1>0, <1>1, <2>1 DEF AddTimerInLoop, Shapes, Times, Disarmed, Bounds
<1>2. ASSUME NEW d \in Delays, NEW v \in Intervals, NewTimer(d, v)
      PROVE  /\ created' = created + 1 /\ created' \in 0 .. MaxTimers
             /\ AtMost(MaxNow, now + d) \in Times
             /\ when' \in [Ids -> Times] /\ interval' \in [Ids -> Nat]
  <2>1. AtMost(MaxNow, now + d) \in Times /\ v \in Nat
    BY <1>0, <1>2 DEF Shapes, AtMost, Times, Bounds
  <2>2. created' = created + 1 /\ created' \in 0 .. MaxTimers
    BY <1>0, <1>2 DEF NewTimer, Shapes, Bounds
  <2> QED BY Zenon, <1>0, <1>2, <2>1, <2>2 DEF NewTimer, Shapes
<1>3. ASSUME NEW d \in Delays, NEW v \in Intervals, AddTimer(d, v) PROVE Shapes'
  <2>1. NewTimer(d, v) /\ AddTimerInLoop(created + 1, AtMost(MaxNow, now + d))
    BY Zenon, <1>3 DEF AddTimer
  <2>2. timerfd' \in 0 .. Disarmed
    BY Zenon, <1>1, <1>2, <2>1
  <2>3. 1 .. created \subseteq 1 .. created' /\ created + 1 \in 1 .. created'
    BY <1>0, <1>2, <2>1 DEF Shapes
  <2>4. timers' \subseteq 1 .. created' /\ timerIdSet' \subseteq 1 .. created'
    BY Zenon, <1>0, <2>1, <2>3 DEF AddTimerInLoop, Shapes
  <2> QED BY Zenon, <1>0, <1>2, <1>3, <2>1, <2>2, <2>3, <2>4 DEF AddTimer, Shapes
<1>4. ASSUME NEW d \in Delays, NEW v \in Intervals, AddTimerQueued(d, v) PROVE Shapes'
  <2>1. NewTimer(d, v)
    BY Zenon, <1>4 DEF AddTimerQueued
  <2>2. 1 .. created \subseteq 1 .. created'
    BY <1>0, <1>2, <2>1 DEF Shapes
  <2> QED BY Zenon, <1>0, <1>2, <1>4, <2>1, <2>2 DEF AddTimerQueued, Shapes
<1>5. ASSUME NEW i \in Ids, InvalidateTimer(i) PROVE Shapes'
  <2>1. i \in 1 .. created
    BY <1>0, <1>5 DEF InvalidateTimer, Ids, Shapes
  <2> QED BY Zenon, <1>0, <1>5, <2>1 DEF InvalidateTimer, Shapes
<1>6. ASSUME NEW i \in Ids, InvalidateTimerQueued(i) PROVE Shapes'
  BY Zenon, <1>0, <1>6 DEF InvalidateTimerQueued, Shapes
<1>7. CASE RunFunc
  <2> DEFINE id == Head(funcs).id
  <2>1. id \in 1 .. created /\ when[id] \in Times
    <3>1. Head(funcs) \in Calls
      BY Zenon, <1>0, <1>7, HeadTailProperties DEF RunFunc
    <3>2. id \in 1 .. created
      BY Zenon, <3>1 DEF Calls
    <3> QED BY <1>0, <3>2 DEF Shapes, Ids, Bounds
  <2> HIDE DEF id
  <2>2. CASE AddTimerInLoop(id, when[id]) /\ UNCHANGED cancelled
    <3>1. timerfd' \in 0 .. Disarmed
      BY Zenon, <1>1, <2>1, <2>2
    <3>2. timers' = timers \cup {id} /\ timerIdSet' = timerIdSet \cup {id}
      BY Zenon, <2>2 DEF AddTimerInLoop
    <3> QED BY Zenon, <1>0, <1>7, <2>1, <2>2, <3>1, <3>2 DEF RunFunc, Shapes
  <2>3. CASE /\ timerIdSet' = timerIdSet \ {id} /\ cancelled' = cancelled \cup {id}
             /\ UNCHANGED <<timers, timerfd, unarmed>>
    BY Zenon, <1>0, <1>7, <2>1, <2>3 DEF RunFunc, Shapes
  <2> QED BY Zenon, <1>7, <2>2, <2>3 DEF RunFunc, id
<1>8. CASE HandleRead
  <2>1. Disarmed \in 0 .. Disarmed
    BY DEF Disarmed, Bounds
  <2> QED BY Zenon, <1>0, <1>8, <2>1 DEF HandleRead, Shapes
<1>9. ASSUME NEW i \in Ids, RunTimer(i) PROVE Shapes'
  <2>1. runs' \in [Ids -> 0 .. 2]
    BY <1>0, <1>9 DEF RunTimer, Shapes, AtMost
  <2> QED BY Zenon, <1>0, <1>9, <2>1 DEF RunTimer, Shapes
<1>10. CASE CallbackReturns \/ CallbackThrows
  BY Zenon, <1>0, <1>10 DEF CallbackReturns, CallbackThrows, Shapes
<1>11. ASSUME timers' \in SUBSET Ids, when' \in [Ids -> Times],
              timers' # {} => timerfd' = Expiration(when'[Top(timers', when')]),
              timers' = {} => timerfd' \in {timerfd, Disarmed}
       PROVE  timerfd' \in 0 .. Disarmed
  <2>1. CASE timers' = {}
    BY <1>0, <1>11, <2>1 DEF Shapes, Disarmed, Bounds
  <2>2. CASE timers' # {}
    <3>1. when'[Top(timers', when')] \in Times
      BY Zenon, <1>11, <2>2, TopIsFirst
    <3>2. Expiration(when'[Top(timers', when')]) \in Times
      BY Zenon, <1>0, <3>1, ExpirationIsSoon DEF Shapes
    <3> QED BY <1>11, <2>2, <3>2 DEF Times, Disarmed, Bounds
  <2> QED BY Zenon, <2>1, <2>2
<1>12. CASE HandleReadEnds
  <2>1. /\ when' = Restarted /\ timers' = timers \cup Again /\ Again \subseteq expired
        /\ timerIdSet' \subseteq timerIdSet /\ timerfd' = Rearm(timers', when')
    BY Zenon, <1>12 DEF HandleReadEnds, ResetExpired, Again
  <2>2. when' \in [Ids -> Times]
    <3>1. ASSUME NEW i \in Ids PROVE AtMost(MaxNow, readAt + interval[i]) \in Times
      BY <1>0 DEF Shapes, AtMost, Times, Bounds
    <3> QED BY Zenon, <1>0, <2>1, <3>1 DEF Restarted, Shapes
  <2>3. timers' \subseteq 1 .. created /\ timers' \in SUBSET Ids
    BY <1>0, <2>1 DEF Shapes, Ids, Bounds
  <2>4. timerfd' \in 0 .. Disarmed
    BY Zenon, <1>11, <2>1, <2>2, <2>3 DEF Rearm
  <2> QED BY Zenon, <1>0, <1>12, <2>1, <2>2, <2>3, <2>4 DEF HandleReadEnds, Shapes
<1>13. CASE ResetTimerQueue
  <2>1. timers' \in SUBSET Ids /\ when' \in [Ids -> Times]
    BY <1>0, <1>13 DEF ResetTimerQueue, Shapes, Ids, Bounds
  <2>2. timerfd' \in 0 .. Disarmed
    BY Zenon, <1>11, <1>13, <2>1 DEF ResetTimerQueue
  <2> QED BY Zenon, <1>0, <1>13, <2>2 DEF ResetTimerQueue, Shapes
<1>14. CASE Tick
  <2>1. now' \in Times
    BY <1>0, <1>14 DEF Tick, Shapes, Times, Bounds
  <2> QED BY Zenon, <1>0, <1>14, <2>1 DEF Tick, Shapes
<1>15. CASE Loop \/ LoopReturns \/ UNCHANGED vars
  BY Zenon, <1>0, <1>15 DEF Loop, LoopReturns, vars, Shapes
<1> QED BY Zenon, <1>3, <1>4, <1>5, <1>6, <1>7, <1>8, <1>9, <1>10, <1>12, <1>13, <1>14, <1>15
      DEF Next, User, LoopStep

\* Each step keeps the types.
LEMMA TypeStep == ASSUME Bounds, IInv, [Next]_vars PROVE TypeOK'
<1>1. Flags /\ created \in Nat /\ funcs \in Seq(Calls)
  BY TypeParts DEF IInv, Shapes
<1>2. Flags' /\ funcs' \in Seq(Calls') /\ Shapes'
  BY Zenon, <1>1, FlagsStep, CallsStep, ShapesStep
<1> QED BY Zenon, <1>2 DEF TypeOK, Flags, Shapes, Calls

-----------------------------------------------------------------------------
(* The queue of calls and the places of the timers                         *)

\* What a step does to the queue: nothing, a call more, or the first one less.
LEMMA FuncsStep == ASSUME Bounds, IInv, [Next]_vars PROVE FuncsInv'
<1>0. TypeOK /\ FuncsInv /\ BatchInv /\ created \in Nat
  BY DEF IInv, TypeOK
<1>1. ASSUME UNCHANGED funcs, timers' \cup expired' \subseteq timers \cup expired \cup {created + 1}
      PROVE  FuncsInv'
  <2>1. ASSUME NEW i \in Ids, AddPending(i)' PROVE i \notin timers' \cup expired'
    <3>1. AddPending(i)
      BY Zenon, <1>1, <2>1 DEF AddPending
    <3>2. i \in 1 .. created /\ i \notin timers \cup expired
      BY Zenon, <1>0, <2>1, <3>1, PendingWasCreated DEF FuncsInv
    <3> QED BY <1>0, <1>1, <3>2
  <2>2. \A j, k \in 1 .. Len(funcs') :
           j < k /\ funcs'[k].call = "add" => funcs'[j].id # funcs'[k].id
    BY Zenon, <1>0, <1>1 DEF FuncsInv
  <2> QED BY Zenon, <2>1, <2>2 DEF FuncsInv
<1>2. ASSUME NEW f, f.call \in {"add", "invalidate"}, f.call = "add" => f.id = created + 1,
             f = [call |-> f.call, id |-> f.id],
             funcs' = Append(funcs, f), UNCHANGED <<timers, expired>>
      PROVE  FuncsInv'
  <2>1. ASSUME NEW i \in Ids, AddPending(i)' PROVE i \notin timers' \cup expired'
    <3>1. AddPending(i) \/ f = [call |-> "add", id |-> i]
      <4>1. funcs \in Seq(Calls)
        BY Zenon, <1>0, TypeParts
      <4> QED BY Zenon, <1>2, <2>1, <4>1, PendingAppend
    <3>2. CASE AddPending(i)
      BY Zenon, <1>0, <1>2, <2>1, <3>2 DEF FuncsInv
    <3>3. CASE f = [call |-> "add", id |-> i]
      <4>1. i = created + 1
        BY Zenon, <1>2, <3>3
      <4> QED BY <1>0, <1>2, <4>1 DEF TypeOK
    <3> QED BY Zenon, <3>1, <3>2, <3>3
  <2>2. ASSUME NEW j \in 1 .. Len(funcs'), NEW k \in 1 .. Len(funcs'), j < k, funcs'[k].call = "add"
        PROVE  funcs'[j].id # funcs'[k].id
    <3>1. /\ j \in 1 .. Len(funcs) /\ funcs'[j] = funcs[j]
          /\ k \in 1 .. Len(funcs) => funcs'[k] = funcs[k]
          /\ k \notin 1 .. Len(funcs) => funcs'[k] = f
      BY <1>0, <1>2, <2>2 DEF TypeOK
    <3>2. funcs[j].id \in 1 .. created
      <4>1. funcs[j] \in Calls
        BY <1>0, <3>1, TypeParts
      <4> QED BY Zenon, <4>1 DEF Calls
    <3>3. CASE k \in 1 .. Len(funcs)
      BY Zenon, <1>0, <2>2, <3>1, <3>3 DEF FuncsInv
    <3>4. CASE k \notin 1 .. Len(funcs)
      BY <1>0, <1>2, <2>2, <3>1, <3>2, <3>4
    <3> QED BY Zenon, <3>3, <3>4
  <2> QED BY Zenon, <2>1, <2>2 DEF FuncsInv
<1>3. ASSUME NEW d \in Delays, NEW v \in Intervals, AddTimerQueued(d, v) PROVE FuncsInv'
  <2> DEFINE f == [call |-> "add", id |-> created + 1]
  <2>1. f.call = "add" /\ f.id = created + 1 /\ funcs' = Append(funcs, f) /\ UNCHANGED <<timers, expired>>
    BY Zenon, <1>3 DEF AddTimerQueued, heapVars, batchVars
  <2> QED BY <1>2, <2>1
<1>4. ASSUME NEW i \in Ids, InvalidateTimerQueued(i) PROVE FuncsInv'
  <2> DEFINE f == [call |-> "invalidate", id |-> i]
  <2>1. f.call = "invalidate" /\ f.id = i /\ funcs' = Append(funcs, f) /\ UNCHANGED <<timers, expired>>
    BY Zenon, <1>4 DEF InvalidateTimerQueued, heapVars, batchVars
  <2> QED BY <1>2, <2>1
<1>5. CASE RunFunc
  <2>1. /\ funcs # <<>> /\ funcs' = Tail(funcs) /\ expired' = expired
        /\ timers' \subseteq timers \cup {Head(funcs).id}
    BY Zenon, <1>5 DEF RunFunc, AddTimerInLoop, batchVars
  <2>2. ASSUME NEW i \in Ids, AddPending(i)' PROVE i \notin timers' \cup expired'
    <3>1. funcs \in Seq([call : {"add", "invalidate"}, id : 1 .. created])
      BY Zenon, <1>0 DEF TypeOK
    <3>2. AddPending(i) /\ Head(funcs).id # i
      BY Zenon, <1>0, <2>1, <2>2, <3>1, PendingTail
    <3> QED BY Zenon, <1>0, <2>1, <3>2 DEF FuncsInv
  <2>3. ASSUME NEW j \in 1 .. Len(funcs'), NEW k \in 1 .. Len(funcs'), j < k, funcs'[k].call = "add"
        PROVE  funcs'[j].id # funcs'[k].id
    <3>1. /\ j + 1 \in 1 .. Len(funcs) /\ k + 1 \in 1 .. Len(funcs) /\ j + 1 < k + 1
          /\ funcs'[j] = funcs[j + 1] /\ funcs'[k] = funcs[k + 1]
      <4>1. funcs \in Seq([call : {"add", "invalidate"}, id : 1 .. created])
        BY Zenon, <1>0 DEF TypeOK
      <4>2. /\ Len(funcs') = Len(funcs) - 1 /\ Len(funcs) \in Nat
            /\ \A i \in 1 .. Len(funcs') : funcs'[i] = funcs[i + 1]
        BY SMTT(30), <4>1, <2>1
      <4> QED BY SMTT(30), <4>2, <2>3
    <3> QED BY ZenonT(30), <1>0, <2>3, <3>1 DEF FuncsInv
  <2> QED BY Zenon, <2>2, <2>3 DEF FuncsInv
<1>6. ASSUME NEW d \in Delays, NEW v \in Intervals, AddTimer(d, v) PROVE FuncsInv'
  BY Zenon, <1>1, <1>6 DEF AddTimer, AddTimerInLoop, batchVars
<1>7. ASSUME NEW i \in Ids, InvalidateTimer(i) \/ RunTimer(i) PROVE FuncsInv'
  BY Zenon, <1>1, <1>7 DEF InvalidateTimer, RunTimer, heapVars, batchVars
<1>8. CASE HandleRead
  BY Zenon, <1>1, <1>8 DEF HandleRead
<1>9. CASE HandleReadEnds
  BY Zenon, <1>1, <1>9 DEF HandleReadEnds, ResetExpired, Again
<1>10. CASE CallbackReturns \/ CallbackThrows \/ ResetTimerQueue
  BY Zenon, <1>1, <1>10 DEF CallbackReturns, CallbackThrows, ResetTimerQueue, heapVars, batchVars
<1>11. CASE Tick \/ Loop \/ LoopReturns \/ UNCHANGED vars
  BY Zenon, <1>1, <1>11 DEF Tick, Loop, LoopReturns, vars, heapVars, batchVars
<1> QED BY Zenon, <1>3, <1>4, <1>5, <1>6, <1>7, <1>8, <1>9, <1>10, <1>11 DEF Next, User, LoopStep

\* A timer is in one place, and timerIdSet_ names no timer that is nowhere.
LEMMA BatchStep == ASSUME Bounds, IInv, [Next]_vars PROVE BatchInv'
<1>0. BatchInv /\ created + 1 \notin expired
  BY DEF IInv, TypeOK
<1>1. ASSUME NEW d \in Delays, NEW v \in Intervals, AddTimer(d, v) \/ AddTimerQueued(d, v)
      PROVE  BatchInv'
  BY Zenon, <1>0, <1>1 DEF AddTimer, AddTimerQueued, AddTimerInLoop, BatchInv, heapVars, batchVars
<1>2. ASSUME NEW i \in Ids, InvalidateTimer(i) \/ InvalidateTimerQueued(i) PROVE BatchInv'
  BY Zenon, <1>0, <1>2 DEF InvalidateTimer, InvalidateTimerQueued, BatchInv, heapVars, batchVars
<1>3. CASE RunFunc
  BY Zenon, <1>0, <1>3 DEF RunFunc, AddTimerInLoop, BatchInv, batchVars
<1>4. CASE HandleRead
  BY Zenon, <1>0, <1>4 DEF HandleRead, BatchInv
<1>5. ASSUME NEW i \in Ids, RunTimer(i) PROVE BatchInv'
  BY Zenon, <1>0, <1>5 DEF RunTimer, BatchInv, heapVars
<1>6. CASE HandleReadEnds
  BY Zenon, <1>0, <1>6 DEF HandleReadEnds, ResetExpired, Again, BatchInv
<1>7. CASE CallbackReturns \/ CallbackThrows \/ ResetTimerQueue
  BY Zenon, <1>0, <1>7 DEF CallbackReturns, CallbackThrows, ResetTimerQueue, BatchInv, heapVars, batchVars
<1>8. CASE Tick \/ Loop \/ LoopReturns \/ UNCHANGED vars
  BY Zenon, <1>0, <1>8 DEF Tick, Loop, LoopReturns, vars, BatchInv, heapVars, batchVars
<1> QED BY Zenon, <1>1, <1>2, <1>3, <1>4, <1>5, <1>6, <1>7, <1>8 DEF Next, User, LoopStep

\* A step queues addTimerInLoop() for a new timer only.
LEMMA PendingStep ==
  ASSUME Bounds, IInv, [Next]_vars, NEW i, AddPending(i)'
  PROVE  AddPending(i) \/ i = created + 1
<1>0. TypeOK /\ FuncsInv /\ funcs \in Seq([call : {"add", "invalidate"}, id : 1 .. created])
  BY Zenon DEF IInv, TypeOK
<1>1. CASE UNCHANGED funcs
  BY Zenon, <1>1 DEF AddPending
<1>2. CASE RunFunc
  <2>1. funcs # <<>> /\ funcs' = Tail(funcs)
    BY Zenon, <1>2 DEF RunFunc
  <2> QED BY Zenon, <1>0, <2>1, PendingTail
<1>3. ASSUME NEW f, funcs' = Append(funcs, f), f = [call |-> "add", id |-> i] => i = created + 1
      PROVE  AddPending(i) \/ i = created + 1
  BY Zenon, <1>0, <1>3, PendingAppend
<1>4. ASSUME NEW d \in Delays, NEW v \in Intervals, AddTimerQueued(d, v)
      PROVE  AddPending(i) \/ i = created + 1
  <2>1. funcs' = Append(funcs, [call |-> "add", id |-> created + 1])
    BY Zenon, <1>4 DEF AddTimerQueued
  <2> QED BY Zenon, <1>3, <2>1
<1>5. ASSUME NEW j \in Ids, InvalidateTimerQueued(j) PROVE AddPending(i) \/ i = created + 1
  <2>1. funcs' = Append(funcs, [call |-> "invalidate", id |-> j])
    BY Zenon, <1>5 DEF InvalidateTimerQueued
  <2>2. [call |-> "invalidate", id |-> j] # [call |-> "add", id |-> i]
    BY Zenon
  <2> QED BY Zenon, <1>3, <2>1, <2>2
<1>6. UNCHANGED funcs \/ RunFunc
      \/ (\E d \in Delays, v \in Intervals : AddTimerQueued(d, v))
      \/ \E j \in Ids : InvalidateTimerQueued(j)
  BY ZenonT(30) DEF Next, User, LoopStep, AddTimer, InvalidateTimer, Loop, LoopReturns, ResetTimerQueue,
         CallbackThrows, HandleRead, CallbackReturns, HandleReadEnds, RunTimer, Tick, vars
<1> QED BY Zenon, <1>1, <1>2, <1>4, <1>5, <1>6

-----------------------------------------------------------------------------
(* What runs                                                               *)

\* A timer that runs once is off the heap and the batch when it has run.
LEMMA RunsStep == ASSUME Bounds, IInv, [Next]_vars PROVE RunsInv'
<1>0. /\ TypeOK /\ FuncsInv /\ BatchInv /\ RunsInv
      /\ created \in 0 .. MaxTimers /\ MaxTimers \in Nat /\ due \subseteq expired
      /\ timers \subseteq 1 .. created /\ expired \subseteq 1 .. created
      /\ runs \in [Ids -> 0 .. 2] /\ interval \in [Ids -> Nat] /\ Ids = 1 .. MaxTimers
  BY Zenon DEF IInv, TypeOK, Bounds, Ids
<1>1. ASSUME created' \in {created, created + 1}, UNCHANGED runs,
             \A i \in timers' \cup due' :
               interval'[i] = 0 => (i \in timers \cup due /\ interval[i] = 0) \/ runs[i] = 0,
             \A i \in Ids : interval'[i] = 0 => interval[i] = 0 \/ runs[i] = 0
      PROVE  RunsInv'
  <2>1. ASSUME NEW i \in Ids, i > created' \/ AddPending(i)' PROVE runs'[i] = 0
    <3>1. i > created \/ AddPending(i)
      BY <1>0, <1>1, <2>1, PendingStep
    <3> QED BY Zenon, <1>0, <1>1, <2>1, <3>1 DEF RunsInv
  <2>2. \A i \in timers' \cup due' : interval'[i] = 0 => runs'[i] = 0
    BY Zenon, <1>0, <1>1 DEF RunsInv
  <2>3. \A i \in Ids : interval'[i] = 0 => runs'[i] <= 1
    BY <1>0, <1>1 DEF RunsInv
  <2> QED BY Zenon, <2>1, <2>2, <2>3 DEF RunsInv
<1>2. ASSUME UNCHANGED <<created, interval, runs>>, timers' \cup due' \subseteq timers \cup due
      PROVE  RunsInv'
  BY Zenon, <1>1, <1>2
<1>3. ASSUME NEW d \in Delays, NEW v \in Intervals, AddTimer(d, v) \/ AddTimerQueued(d, v)
      PROVE  RunsInv'
  <2>1. /\ created' = created + 1 /\ created + 1 \in Ids /\ UNCHANGED <<runs, due>>
        /\ timers' \subseteq timers \cup {created + 1}
        /\ \A i \in Ids \ {created + 1} : interval'[i] = interval[i]
    BY <1>0, <1>3 DEF AddTimer, AddTimerQueued, NewTimer, AddTimerInLoop, heapVars, batchVars
  <2>2. runs[created + 1] = 0
    BY <1>0, <2>1 DEF RunsInv
  <2>3. \A i \in timers \cup due : i \in Ids \ {created + 1}
    BY <1>0
  <2>4. \A i \in timers' \cup due' :
          interval'[i] = 0 => (i \in timers \cup due /\ interval[i] = 0) \/ runs[i] = 0
    BY Zenon, <2>1, <2>2, <2>3
  <2>5. \A i \in Ids : interval'[i] = 0 => interval[i] = 0 \/ runs[i] = 0
    BY Zenon, <2>1, <2>2
  <2> QED BY Zenon, <1>1, <2>1, <2>4, <2>5
<1>4. CASE RunFunc
  <2>1. /\ funcs # <<>> /\ UNCHANGED <<created, interval, runs, due>>
        /\ \/ timers' = timers
           \/ Head(funcs).call = "add" /\ timers' = timers \cup {Head(funcs).id}
    BY Zenon, <1>4 DEF RunFunc, AddTimerInLoop, timerVars, batchVars
  <2>2. Head(funcs).call = "add" => Head(funcs).id \in Ids /\ runs[Head(funcs).id] = 0
    BY <1>0, <2>1, FirstCall DEF RunsInv
  <2>3. \A i \in timers' \cup due' :
          interval'[i] = 0 => (i \in timers \cup due /\ interval[i] = 0) \/ runs[i] = 0
    BY ZenonT(30), <2>1, <2>2
  <2> QED BY Zenon, <1>1, <2>1, <2>3
<1>5. ASSUME NEW i \in Ids, RunTimer(i) PROVE RunsInv'
  <2>1. CASE UNCHANGED runs
    BY Zenon, <1>2, <1>5, <2>1 DEF RunTimer, timerVars, heapVars
  <2>2. CASE runs' = [runs EXCEPT ![i] = AtMost(2, @ + 1)]
    <3>1. /\ i \in due /\ due' = due \ {i} /\ UNCHANGED <<created, interval, timers, funcs>>
      BY Zenon, <1>5 DEF RunTimer, timerVars, heapVars
    <3>2. /\ \A j \in Ids \ {i} : runs'[j] = runs[j]
          /\ runs[i] = 0 => runs'[i] = 1
      BY <1>0, <2>2 DEF AtMost
    <3>3. i \notin timers /\ i <= created /\ ~AddPending(i)
      BY <1>0, <3>1 DEF BatchInv, FuncsInv
    <3>4. \A j : AddPending(j)' <=> AddPending(j)
      BY Zenon, <3>1 DEF AddPending
    <3>5. \A j \in Ids : j > created' \/ AddPending(j)' => runs'[j] = 0
      BY <1>0, <3>1, <3>2, <3>3, <3>4 DEF RunsInv
    <3>6. \A j \in timers' \cup due' : interval'[j] = 0 => runs'[j] = 0
      BY <1>0, <3>1, <3>2, <3>3 DEF RunsInv
    <3>7. \A j \in Ids : interval'[j] = 0 => runs'[j] <= 1
      BY <1>0, <3>1, <3>2 DEF RunsInv
    <3> QED BY Zenon, <3>5, <3>6, <3>7 DEF RunsInv
  <2> QED BY ZenonT(30), <1>5, <2>1, <2>2 DEF RunTimer
<1>6. CASE HandleReadEnds
  <2>1. /\ UNCHANGED <<created, interval, runs, due>> /\ timers' = timers \cup Again
        /\ \A i \in Again : i \in Ids /\ interval[i] # 0
    BY <1>0, <1>6 DEF HandleReadEnds, ResetExpired, Again
  <2>2. \A i \in timers' \cup due' :
          interval'[i] = 0 => (i \in timers \cup due /\ interval[i] = 0) \/ runs[i] = 0
    BY Zenon, <2>1
  <2> QED BY ZenonT(30), <1>1, <2>1, <2>2
<1>7. ASSUME NEW i \in Ids, InvalidateTimer(i) \/ InvalidateTimerQueued(i) PROVE RunsInv'
  BY ZenonT(30), <1>2, <1>7 DEF InvalidateTimer, InvalidateTimerQueued, timerVars, heapVars, batchVars
<1>8. CASE HandleRead
  BY Zenon, <1>2, <1>8 DEF HandleRead, timerVars
<1>9. CASE CallbackReturns \/ CallbackThrows \/ ResetTimerQueue
  BY ZenonT(30), <1>2, <1>9 DEF CallbackReturns, CallbackThrows, ResetTimerQueue, timerVars, heapVars, batchVars
<1>10. CASE Tick \/ Loop \/ LoopReturns \/ UNCHANGED vars
  BY ZenonT(30), <1>2, <1>10 DEF Tick, Loop, LoopReturns, vars, timerVars, heapVars, batchVars
<1> QED BY Zenon, <1>3, <1>4, <1>5, <1>6, <1>7, <1>8, <1>9, <1>10 DEF Next, User, LoopStep

\* Only addTimerInLoop() puts an id into timerIdSet_, and it is not queued for a
\* timer that is cancelled.
LEMMA CancelStep == ASSUME Bounds, IInv, [Next]_vars PROVE CancelInv'
<1>0. /\ TypeOK /\ FuncsInv /\ CancelInv
      /\ created \in Nat /\ cancelled \subseteq 1 .. created
      /\ funcs \in Seq([call : {"add", "invalidate"}, id : 1 .. created])
  BY DEF IInv, TypeOK
<1>1. ASSUME UNCHANGED cancelled, timerIdSet' \subseteq timerIdSet \cup {created + 1}
      PROVE  CancelInv'
  <2>1. ASSUME NEW i \in cancelled PROVE i \notin timerIdSet' /\ ~AddPending(i)'
    <3>1. i \notin timerIdSet /\ ~AddPending(i) /\ i # created + 1
      BY <1>0 DEF CancelInv
    <3> QED BY Zenon, <1>1, <3>1, PendingStep
  <2> QED BY Zenon, <1>1, <2>1 DEF CancelInv
<1>2. ASSUME NEW d \in Delays, NEW v \in Intervals, AddTimer(d, v) \/ AddTimerQueued(d, v)
      PROVE  CancelInv'
  BY Zenon, <1>1, <1>2 DEF AddTimer, AddTimerQueued, AddTimerInLoop, heapVars
<1>3. ASSUME NEW i \in Ids, InvalidateTimer(i) PROVE CancelInv'
  <2>1. timerIdSet' = timerIdSet \ {i} /\ UNCHANGED funcs
    BY Zenon, <1>3 DEF InvalidateTimer
  <2>2. \A j : AddPending(j)' <=> AddPending(j)
    BY ZenonT(30), <2>1 DEF AddPending
  <2>3. CASE AddPending(i)
    BY Zenon, <1>1, <1>3, <2>3 DEF InvalidateTimer
  <2>4. CASE ~AddPending(i)
    <3>1. cancelled' = cancelled \cup {i}
      BY Zenon, <1>3, <2>4 DEF InvalidateTimer
    <3> QED BY Zenon, <1>0, <2>1, <2>2, <2>4, <3>1 DEF CancelInv
  <2> QED BY Zenon, <2>3, <2>4
<1>4. CASE RunFunc
  <2>1. funcs # <<>> /\ funcs' = Tail(funcs)
    BY Zenon, <1>4 DEF RunFunc
  <2>2. \A j : AddPending(j)' => AddPending(j) /\ Head(funcs).id # j
    BY Zenon, <1>0, <2>1, PendingTail
  <2>3. CASE Head(funcs).call = "add"
    <3>1. UNCHANGED cancelled /\ timerIdSet' = timerIdSet \cup {Head(funcs).id}
      BY ZenonT(30), <1>4, <2>3 DEF RunFunc, AddTimerInLoop
    <3>2. AddPending(Head(funcs).id)
      BY Zenon, <1>0, <2>1, <2>3, FirstCall
    <3>3. Head(funcs).id \notin cancelled
      BY ZenonT(30), <1>0, <3>2 DEF CancelInv
    <3> QED BY Zenon, <1>0, <2>2, <3>1, <3>3 DEF CancelInv
  <2>4. CASE Head(funcs).call # "add"
    <3>1. timerIdSet' = timerIdSet \ {Head(funcs).id} /\ cancelled' = cancelled \cup {Head(funcs).id}
      BY Zenon, <1>4, <2>4 DEF RunFunc
    <3> QED BY Zenon, <1>0, <2>2, <3>1 DEF CancelInv
  <2> QED BY Zenon, <2>3, <2>4
<1>5. CASE HandleReadEnds
  BY Zenon, <1>1, <1>5 DEF HandleReadEnds, ResetExpired
<1>6. ASSUME NEW i \in Ids, InvalidateTimerQueued(i) \/ RunTimer(i) PROVE CancelInv'
  BY Zenon, <1>1, <1>6 DEF InvalidateTimerQueued, RunTimer, heapVars
<1>7. CASE HandleRead \/ CallbackReturns \/ CallbackThrows \/ ResetTimerQueue
  BY ZenonT(30), <1>1, <1>7 DEF HandleRead, CallbackReturns, CallbackThrows, ResetTimerQueue, heapVars
<1>8. CASE Tick \/ Loop \/ LoopReturns \/ UNCHANGED vars
  BY Zenon, <1>1, <1>8 DEF Tick, Loop, LoopReturns, vars, heapVars
<1> QED BY Zenon, <1>2, <1>3, <1>4, <1>5, <1>6, <1>7, <1>8 DEF Next, User, LoopStep

-----------------------------------------------------------------------------
(* The timerfd                                                             *)

\* The first time of a heap is the least one, whichever timer has it.
LEMMA TopTime ==
  ASSUME Bounds, NEW S \in SUBSET Ids, NEW w \in [Ids -> Times],
         NEW i \in S, \A j \in S : w[i] <= w[j]
  PROVE  w[Top(S, w)] = w[i]
<1>1. Top(S, w) \in S /\ w[Top(S, w)] <= w[i] /\ w[i] <= w[Top(S, w)]
  BY Zenon, TopIsFirst
<1>2. w[Top(S, w)] \in Nat /\ w[i] \in Nat
  BY <1>1 DEF Times, Bounds
<1> QED BY <1>1, <1>2

\* What is early enough is so one instant later.
LEMMA TickAllowsMore ==
  ASSUME NEW f \in Nat, NEW w \in Nat, NEW m \in Nat, NEW n \in Nat, NEW n1 \in {n, n + 1},
         f <= AtLeast(w, AtMost(m, n + 1))
  PROVE  f <= AtLeast(w, AtMost(m, n1 + 1))
BY DEF AtLeast, AtMost

\* A timer more: the timerfd is set if it is the new first one.
LEMMA AddArms ==
  ASSUME Bounds, TypeOK, TypeOK', TimerfdArmed, NEW i \in Ids,
         AddTimerInLoop(i, when'[i]), UNCHANGED <<now, pc>>,
         \A j \in timers : when'[j] = when[j]
  PROVE  TimerfdArmed'
<1>a. Shapes /\ timers' = timers \cup {i}
  BY Zenon, TypeParts DEF AddTimerInLoop
<1>b. when' \in [Ids -> Times]
  BY Zenon DEF TypeOK
<1>c. timers \in SUBSET Ids /\ when \in [Ids -> Times] /\ now \in Times
  BY <1>a DEF Shapes, Ids, Bounds
<1>0. /\ timers \in SUBSET Ids /\ timers' = timers \cup {i} /\ timers' \in SUBSET Ids
      /\ when \in [Ids -> Times] /\ when' \in [Ids -> Times] /\ now \in Times /\ MaxNow \in Nat
  BY Zenon, <1>a, <1>b, <1>c DEF Bounds
<1>1. CASE EarliestChanged(i, when'[i])
  <2>1. timerfd' = Expiration(when'[i])
    BY ZenonT(30), <1>1 DEF AddTimerInLoop
  <2>2. \A j \in timers' : when'[i] <= when'[j]
    <3>1. timers # {} => \A j \in timers : when[Top(timers, when)] <= when[j] /\ Top(timers, when) \in timers
      BY ZenonT(30), <1>0, TopIsFirst
    <3>2. \A j \in timers : when'[j] \in Nat /\ when[j] \in Nat
      BY <1>0 DEF Times
    <3> QED BY <1>0, <1>1, <3>1, <3>2 DEF EarliestChanged, Times
  <2>3. when'[Top(timers', when')] = when'[i]
    BY ZenonT(30), <1>0, <2>2, TopTime
  <2>4. Expiration(when'[i]) <= AtLeast(when'[i], AtMost(MaxNow, now + 1))
    BY Zenon, <1>0, ExpirationIsSoon
  <2> QED BY Zenon, <2>1, <2>3, <2>4 DEF TimerfdArmed
<1>2. CASE ~EarliestChanged(i, when'[i])
  <2>1. timers # {} /\ ~(when'[i] < when[Top(timers, when)]) /\ timerfd' = timerfd /\ unarmed' = unarmed
    BY ZenonT(30), <1>2 DEF AddTimerInLoop, EarliestChanged, TypeOK
  <2> DEFINE t == Top(timers, when)
  <2>2. t \in timers /\ \A j \in timers : when[t] <= when[j]
    BY Zenon, <1>0, <2>1, TopIsFirst
  <2> HIDE DEF t
  <2>3. \A j \in timers' : when'[t] <= when'[j]
    BY <1>0, <2>1, <2>2 DEF Times, t
  <2>4. when'[Top(timers', when')] = when[t]
    <3>1. t \in timers' /\ when'[t] = when[t]
      BY Zenon, <1>0, <2>2
    <3> QED BY ZenonT(30), <1>0, <2>3, <3>1, TopTime
  <2> QED BY Zenon, <2>1, <2>4 DEF TimerfdArmed, t
<1> QED BY Zenon, <1>1, <1>2

\* No step leaves a heap without the timerfd, or with one that is too late.
LEMMA ArmedStep == ASSUME Bounds, IInv, [Next]_vars, TypeOK' PROVE TimerfdArmed'
<1>a. TypeOK /\ FuncsInv /\ TimerfdArmed /\ Shapes
  BY Zenon, TypeParts DEF IInv
<1>b. timers' \in SUBSET Ids /\ when' \in [Ids -> Times] /\ now' \in Times
  <2>1. created' \in 0 .. MaxTimers /\ timers' \subseteq 1 .. created'
    BY ZenonT(30) DEF TypeOK
  <2>2. when' \in [Ids -> Times] /\ now' \in Times
    BY Zenon DEF TypeOK
  <2> QED BY <2>1, <2>2 DEF Ids, Bounds
<1>c. /\ timers \subseteq 1 .. created /\ created \in 0 .. MaxTimers /\ MaxTimers \in Nat
      /\ timers \in SUBSET Ids /\ when \in [Ids -> Times] /\ now \in Times /\ MaxNow \in Nat
      /\ timerfd \in Nat
  BY <1>a DEF Shapes, Ids, Bounds, Disarmed
<1>0. /\ TypeOK /\ FuncsInv /\ TimerfdArmed
      /\ timers \subseteq 1 .. created /\ created \in 0 .. MaxTimers /\ MaxTimers \in Nat
      /\ timers \in SUBSET Ids /\ when \in [Ids -> Times] /\ now \in Times /\ MaxNow \in Nat
      /\ timers' \in SUBSET Ids /\ when' \in [Ids -> Times] /\ now' \in Times /\ timerfd \in Nat
  BY <1>a, <1>b, <1>c, Zenon
<1>1. ASSUME UNCHANGED <<timers, timerfd, unarmed>>, pc' = "idle" => pc = "idle",
             now' \in {now, now + 1}, \A i \in timers : when'[i] = when[i]
      PROVE  TimerfdArmed'
  <2>1. CASE timers = {}
    BY Zenon, <1>1, <2>1 DEF TimerfdArmed
  <2>2. CASE timers # {}
    <3> DEFINE t == Top(timers, when)
    <3>1. t \in timers /\ \A j \in timers : when[t] <= when[j]
      BY Zenon, <1>0, <2>2, TopIsFirst
    <3>2. ~unarmed /\ pc = "idle" => timerfd <= AtLeast(when[t], AtMost(MaxNow, now + 1))
      BY Zenon, <1>0, <2>2 DEF TimerfdArmed
    <3> HIDE DEF t
    <3>3. t \in timers' /\ when'[t] = when[t] /\ \A j \in timers' : when'[t] <= when'[j]
      BY Zenon, <1>1, <3>1
    <3>4. when'[Top(timers', when')] = when[t]
      BY Zenon, <1>0, <3>3, TopTime
    <3>5. when[t] \in Nat /\ now \in Nat
      BY <1>0, <3>1 DEF Times
    <3>6. ASSUME ~unarmed, pc = "idle"
          PROVE  timerfd <= AtLeast(when[t], AtMost(MaxNow, now' + 1))
      <4>1. timerfd <= AtLeast(when[t], AtMost(MaxNow, now + 1))
        BY <3>2, <3>6, Zenon
      <4>2. now' \in {now, now + 1}
        BY Zenon, <1>1
      <4> QED BY Zenon, <1>c, <3>5, <4>1, <4>2, TickAllowsMore
    <3> QED BY Zenon, <1>1, <3>4, <3>6 DEF TimerfdArmed
  <2> QED BY Zenon, <2>1, <2>2
<1>2. ASSUME NEW d \in Delays, NEW v \in Intervals, NewTimer(d, v)
      PROVE  /\ created + 1 \in Ids /\ when'[created + 1] = AtMost(MaxNow, now + d)
             /\ \A j \in timers : when'[j] = when[j]
  BY <1>0, <1>2 DEF NewTimer, Ids
<1>3. ASSUME NEW d \in Delays, NEW v \in Intervals, AddTimer(d, v) PROVE TimerfdArmed'
  <2>1. /\ NewTimer(d, v) /\ AddTimerInLoop(created + 1, AtMost(MaxNow, now + d))
        /\ UNCHANGED <<now, pc>>
    BY Zenon, <1>3 DEF AddTimer, batchVars
  <2> QED BY Zenon, <1>0, <1>2, <2>1, AddArms
<1>4. ASSUME NEW d \in Delays, NEW v \in Intervals, AddTimerQueued(d, v) PROVE TimerfdArmed'
  <2>1. NewTimer(d, v) /\ UNCHANGED <<now, timers, timerfd, unarmed, pc>>
    BY Zenon, <1>4 DEF AddTimerQueued, heapVars, batchVars
  <2> QED BY Zenon, <1>1, <1>2, <2>1
<1>5. CASE RunFunc
  <2>1. /\ funcs # <<>> /\ UNCHANGED <<now, when, pc>>
        /\ \/ Head(funcs).call = "add" /\ AddTimerInLoop(Head(funcs).id, when[Head(funcs).id])
           \/ UNCHANGED <<timers, timerfd, unarmed>>
    BY Zenon, <1>5 DEF RunFunc, timerVars, batchVars
  <2>2. Head(funcs).id \in Ids
    BY <1>0, <2>1, FirstCall DEF Ids
  <2>3. CASE AddTimerInLoop(Head(funcs).id, when[Head(funcs).id])
    BY Zenon, <1>0, <2>1, <2>2, <2>3, AddArms
  <2>4. CASE UNCHANGED <<timers, timerfd, unarmed>>
    BY Zenon, <1>1, <2>1, <2>4
  <2> QED BY Zenon, <2>1, <2>3, <2>4
<1>6. ASSUME pc' # "idle" \/ unarmed' PROVE TimerfdArmed'
  BY Zenon, <1>6 DEF TimerfdArmed
<1>7. ASSUME timers' # {} => timerfd' = Expiration(when'[Top(timers', when')]), UNCHANGED now
      PROVE  TimerfdArmed'
  <2>1. CASE timers' = {}
    BY Zenon, <2>1 DEF TimerfdArmed
  <2>2. CASE timers' # {}
    <3>1. when'[Top(timers', when')] \in Times
      BY ZenonT(30), <1>0, <2>2, TopIsFirst
    <3> QED BY Zenon, <1>0, <1>7, <2>2, <3>1, ExpirationIsSoon DEF TimerfdArmed
  <2> QED BY Zenon, <2>1, <2>2
<1>8. CASE HandleRead \/ CallbackReturns \/ CallbackThrows
  BY Zenon, <1>6, <1>8 DEF HandleRead, CallbackReturns, CallbackThrows
<1>9. ASSUME NEW i \in Ids, RunTimer(i) PROVE TimerfdArmed'
  BY Zenon, <1>6, <1>9 DEF RunTimer
<1>10. CASE HandleReadEnds
  BY Zenon, <1>7, <1>10 DEF HandleReadEnds, ResetExpired, Rearm
<1>11. CASE ResetTimerQueue
  BY Zenon, <1>7, <1>11 DEF ResetTimerQueue, timerVars
<1>12. ASSUME NEW i \in Ids, InvalidateTimer(i) \/ InvalidateTimerQueued(i) PROVE TimerfdArmed'
  BY Zenon, <1>1, <1>12 DEF InvalidateTimer, InvalidateTimerQueued, timerVars, heapVars, batchVars
<1>13. CASE Tick \/ Loop \/ LoopReturns \/ UNCHANGED vars
  BY Zenon, <1>1, <1>13 DEF Tick, Loop, LoopReturns, vars, timerVars, heapVars, batchVars
<1> QED BY Zenon, <1>3, <1>4, <1>5, <1>8, <1>9, <1>10, <1>11, <1>12, <1>13 DEF Next, User, LoopStep

-----------------------------------------------------------------------------
(* The theorems                                                            *)

\* The invariant holds in every state.
THEOREM InvariantHolds == ASSUME Bounds PROVE Spec => []IInv
<1>1. Init => IInv
  BY Zenon, InitInv
<1>2. IInv /\ [Next]_vars => IInv'
  <2> SUFFICES ASSUME IInv, [Next]_vars PROVE IInv'
    BY Zenon
  <2>1. TypeOK'
    BY Zenon, TypeStep
  <2> QED BY Zenon, <2>1, FuncsStep, BatchStep, RunsStep, CancelStep, ArmedStep DEF IInv
<1> QED BY <1>1, <1>2, PTL DEF Spec

\* NoTimerMissed: outside handleRead() the timerfd is set for the first timer of the
\* heap or earlier, each id is in the heap, in the batch or was dropped by an
\* exception, and a timer that runs once does not run twice.
THEOREM NoTimerMissedHolds == ASSUME Bounds PROVE Spec => []NoTimerMissed
<1>1. IInv => NoTimerMissed
  BY Zenon DEF IInv, BatchInv, RunsInv, NoTimerMissed, LiveTimersAreQueued
<1> QED BY <1>1, InvariantHolds, PTL

\* CancelledNeverRuns: no step runs a timer that is cancelled.
THEOREM CancelledNeverRunsHolds == ASSUME Bounds PROVE Spec => CancelledNeverRuns
<1>1. IInv /\ [Next]_vars => [CancelledStays]_vars
  <2> SUFFICES ASSUME IInv, [Next]_vars PROVE CancelledStays
    BY Zenon
  <2>1. CASE UNCHANGED runs
    BY Zenon, <2>1 DEF CancelledStays
  <2>2. ASSUME NEW i \in Ids, RunTimer(i), ~UNCHANGED runs PROVE CancelledStays
    <3>1. i \in timerIdSet /\ runs' = [runs EXCEPT ![i] = AtMost(2, @ + 1)]
      BY Zenon, <2>2 DEF RunTimer
    <3>2. i \notin cancelled
      BY Zenon, <3>1 DEF IInv, CancelInv
    <3>3. runs \in [Ids -> 0 .. 2]
      BY Zenon DEF IInv, TypeOK
    <3> QED BY <3>1, <3>2, <3>3 DEF CancelledStays
  <2>3. UNCHANGED runs \/ \E i \in Ids : RunTimer(i)
    BY ZenonT(30) DEF Next, User, LoopStep, AddTimer, AddTimerQueued, InvalidateTimer, InvalidateTimerQueued,
           Loop, LoopReturns, ResetTimerQueue, CallbackThrows, RunFunc, HandleRead,
           CallbackReturns, HandleReadEnds, Tick, vars
  <2> QED BY Zenon, <2>1, <2>2, <2>3
<1> QED BY <1>1, InvariantHolds, PTL DEF Spec, CancelledNeverRuns
=============================================================================
