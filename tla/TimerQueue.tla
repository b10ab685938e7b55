------------------------------ MODULE TimerQueue ------------------------------
(***************************************************************************)
(* trantor::TimerQueue (net/inner/TimerQueue.cc, Linux): timers added and  *)
(* invalidated by the loop thread, also from inside a timer callback, and  *)
(* by other threads through the loop's functor queue; the timerfd that     *)
(* wakes the loop; callbacks that throw out of loop().                     *)
(*                                                                         *)
(* One unit of the clock is the 100 microseconds below which               *)
(* howMuchTimeFromNow() does not go.  The clock stops at MaxNow, which     *)
(* stands for every later time.                                            *)
(***************************************************************************)
EXTENDS Naturals, Sequences, FiniteSets

CONSTANTS MaxNow,     \* bound: the horizon of the clock
          MaxTimers,  \* bound: timers created
          MaxFuncs,   \* bound: functors pending in the loop
          Delays,     \* when - now in calls of addTimer()
          Intervals   \* interval_: 0 for a one-shot timer

Ids == 1 .. MaxTimers
Times == 0 .. MaxNow
Disarmed == MaxNow + 1

VARIABLES
  now,         \* steady_clock::now()
  created,     \* timersCreated_
  when,        \* when_ of each timer
  interval,    \* interval_ of each timer
  timers,      \* timers_: the timers in the heap
  timerIdSet,  \* timerIdSet_
  timerfd,     \* when timerfd_ becomes readable
  readAt,      \* handleRead()'s local now
  expired,     \* handleRead()'s local vector
  due,         \* the part of expired that the for loop has not reached
  pc,          \* the loop thread: idle, calling (in handleRead) or callback
  looping,     \* isRunning(): looping_ and not quit_
  funcs,       \* calls of other threads that are queued in the loop
  unarmed,     \* history: since an exception nobody has set timerfd_
  dropped,     \* history: the expired timers that an exception left behind
  cancelled,   \* history: timers whose invalidateTimer() was carried out
  runs         \* history: times each timer has run, 2 for more than once

timerVars == <<created, when, interval>>
heapVars == <<timers, timerIdSet, timerfd, unarmed>>
batchVars == <<readAt, expired, due, pc, dropped>>
vars == <<now, timerVars, heapVars, batchVars, looping, funcs, cancelled, runs>>

Init ==
  /\ now = 0
  /\ created = 0
  /\ when = [i \in Ids |-> 0]
  /\ interval = [i \in Ids |-> 0]
  /\ timers = {}
  /\ timerIdSet = {}
  /\ timerfd = Disarmed
  /\ readAt = 0
  /\ expired = {}
  /\ due = {}
  /\ pc = "idle"
  /\ looping = FALSE
  /\ funcs = <<>>
  /\ unarmed = FALSE
  /\ dropped = {}
  /\ cancelled = {}
  /\ runs = [i \in Ids |-> 0]

-----------------------------------------------------------------------------
AtMost(a, b) == IF a <= b THEN a ELSE b
AtLeast(a, b) == IF a >= b THEN a ELSE b

\* resetTimerfd(): the expiration, at least one unit from now.
Expiration(t) == AtMost(MaxNow, AtLeast(t, now + 1))

\* timers_.top() of a heap S under the times w.
Top(S, w) == CHOOSE i \in S : \A j \in S : w[i] <= w[j]

\* reset() of an empty heap leaves timerfd_ as it is.
Rearm(S, w) == IF S = {} THEN timerfd ELSE Expiration(w[Top(S, w)])

\* Mutant: insert() does not see that it has a new earliest timer when the
\* heap was empty.
MutEarliestChanged(i, t) == timers # {} /\ t < when[Top(timers, when)]

\* insert(): the new timer is the first to expire.
EarliestChanged(i, t) == timers = {} \/ t < when[Top(timers, when)]

\* addTimerInLoop() of timer i, that expires at t.
AddTimerInLoop(i, t) ==
  /\ timerIdSet' = timerIdSet \cup {i}
  /\ timers' = timers \cup {i}
  /\ timerfd' = IF EarliestChanged(i, t) THEN Expiration(t) ELSE timerfd
  /\ unarmed' = (unarmed /\ ~EarliestChanged(i, t))

\* User code runs in the loop thread: a timer callback, any other callback or
\* functor, or the code around loop().
InLoopThread == pc \in {"idle", "callback"}

\* new Timer(cb, now + d, v)
NewTimer(d, v) ==
  /\ created < MaxTimers
  /\ created' = created + 1
  /\ when' = [when EXCEPT ![created + 1] = AtMost(MaxNow, now + d)]
  /\ interval' = [interval EXCEPT ![created + 1] = v]

\* addTimer() in the loop thread: runInLoop() adds the timer at once.
AddTimer(d, v) ==
  /\ InLoopThread
  /\ NewTimer(d, v)
  /\ AddTimerInLoop(created + 1, AtMost(MaxNow, now + d))
  /\ UNCHANGED <<now, batchVars, looping, funcs, cancelled, runs>>

\* addTimer() in another thread: runInLoop() queues addTimerInLoop().
AddTimerQueued(d, v) ==
  /\ Len(funcs) < MaxFuncs
  /\ NewTimer(d, v)
  /\ funcs' = Append(funcs, [call |-> "add", id |-> created + 1])
  /\ UNCHANGED <<now, heapVars, batchVars, looping, cancelled, runs>>

AddPending(i) ==
  \E k \in 1 .. Len(funcs) : funcs[k] = [call |-> "add", id |-> i]

\* EventLoop::invalidateTimer() in the loop thread: nothing unless the loop
\* runs. It is not carried out, either, while addTimerInLoop() of the timer is
\* queued.
InvalidateTimer(i) ==
  /\ InLoopThread /\ looping
  /\ i <= created
  /\ timerIdSet' = timerIdSet \ {i}
  /\ cancelled' = IF AddPending(i) THEN cancelled ELSE cancelled \cup {i}
  /\ UNCHANGED <<now, timerVars, timers, timerfd, unarmed, batchVars, looping,
                 funcs, runs>>

\* EventLoop::invalidateTimer() in another thread: queued if the loop runs.
\* Bound: not again for a timer that is invalidated.
InvalidateTimerQueued(i) ==
  /\ looping
  /\ i <= created /\ i \notin cancelled
  /\ Len(funcs) < MaxFuncs
  /\ funcs' = Append(funcs, [call |-> "invalidate", id |-> i])
  /\ UNCHANGED <<now, timerVars, heapVars, batchVars, looping, cancelled, runs>>

\* doRunInLoopFuncs() runs the first queued call.
RunFunc ==
  /\ looping /\ pc = "idle"
  /\ funcs # <<>>
  /\ funcs' = Tail(funcs)
  /\ LET f == Head(funcs) IN
       \/ /\ f.call = "add"
          /\ AddTimerInLoop(f.id, when[f.id])
          /\ UNCHANGED cancelled
       \/ /\ f.call = "invalidate"
          /\ timerIdSet' = timerIdSet \ {f.id}
          /\ cancelled' = cancelled \cup {f.id}
          /\ UNCHANGED <<timers, timerfd, unarmed>>
  /\ UNCHANGED <<now, timerVars, batchVars, looping, runs>>

-----------------------------------------------------------------------------
\* handleRead(): read the timerfd and take the expired timers off the heap.
HandleRead ==
  /\ looping /\ pc = "idle"
  /\ timerfd <= now
  /\ timerfd' = Disarmed
  /\ readAt' = now
  /\ expired' = {i \in timers : when[i] < now}
  /\ due' = expired'
  /\ timers' = timers \ expired'
  /\ pc' = "calling"
  /\ UNCHANGED <<now, timerVars, timerIdSet, unarmed, dropped, looping, funcs,
                 cancelled, runs>>

\* Mutant: handleRead() runs what getExpired() returned without looking at
\* timerIdSet_ again.
MutRunTimer(i) ==
  /\ pc = "calling"
  /\ i \in due /\ \A j \in due : when[i] <= when[j]
  /\ due' = due \ {i}
  /\ pc' = "callback" /\ runs' = [runs EXCEPT ![i] = AtMost(2, @ + 1)]
  /\ UNCHANGED <<now, timerVars, heapVars, readAt, expired, dropped, looping,
                 funcs, cancelled>>

\* handleRead(): the next expired timer runs unless it was invalidated.
RunTimer(i) ==
  /\ pc = "calling"
  /\ i \in due /\ \A j \in due : when[i] <= when[j]
  /\ due' = due \ {i}
  /\ \/ /\ i \in timerIdSet
        /\ pc' = "callback"
        /\ runs' = [runs EXCEPT ![i] = AtMost(2, @ + 1)]
     \/ i \notin timerIdSet /\ UNCHANGED <<pc, runs>>
  /\ UNCHANGED <<now, timerVars, heapVars, readAt, expired, dropped, looping,
                 funcs, cancelled>>

CallbackReturns ==
  /\ pc = "callback"
  /\ pc' = "calling"
  /\ UNCHANGED <<now, timerVars, heapVars, readAt, expired, due, dropped,
                 looping, funcs, cancelled, runs>>

\* The exception leaves handleRead() before reset(), and loop().
CallbackThrows ==
  /\ pc = "callback"
  /\ pc' = "idle" /\ expired' = {} /\ due' = {}
  /\ looping' = FALSE
  /\ unarmed' = TRUE /\ dropped' = dropped \cup expired
  /\ UNCHANGED <<now, timerVars, timers, timerIdSet, timerfd, readAt, funcs,
                 cancelled, runs>>

\* reset(expired, now): the repeating timers that go back on the heap.
Again == {i \in expired \cap timerIdSet : interval[i] > 0}

\* Timer::restart(now) for each of them.
Restarted ==
  [i \in Ids |-> IF i \in Again THEN AtMost(MaxNow, readAt + interval[i])
                 ELSE when[i]]

\* reset(expired, now): restart the repeating timers, forget the ids of the
\* others and arm the timerfd for what is now the first.
ResetExpired ==
  /\ timerIdSet' = timerIdSet \ (expired \ Again)
  /\ timers' = timers \cup Again
  /\ when' = Restarted
  /\ timerfd' = Rearm(timers', when')
  /\ unarmed' = (unarmed /\ timers' = {})

\* The end of handleRead().
HandleReadEnds ==
  /\ pc = "calling" /\ due = {}
  /\ ResetExpired
  /\ expired' = {} /\ pc' = "idle"
  /\ UNCHANGED <<now, created, interval, readAt, due, dropped, looping, funcs,
                 cancelled, runs>>

-----------------------------------------------------------------------------
Tick ==
  /\ now < MaxNow
  /\ now' = now + 1
  /\ UNCHANGED <<timerVars, heapVars, batchVars, looping, funcs, cancelled,
                 runs>>

\* loop() is called, and returns after quit().
Loop ==
  /\ ~looping /\ pc = "idle"
  /\ looping' = TRUE
  /\ UNCHANGED <<now, timerVars, heapVars, batchVars, funcs, cancelled, runs>>

LoopReturns ==
  /\ looping /\ pc = "idle"
  /\ looping' = FALSE
  /\ UNCHANGED <<now, timerVars, heapVars, batchVars, funcs, cancelled, runs>>

\* resetTimerQueue(), after fork() and before loop(): a new timerfd_.
ResetTimerQueue ==
  /\ ~looping /\ pc = "idle"
  /\ timerfd' = IF timers = {} THEN Disarmed
                ELSE Expiration(when[Top(timers, when)])
  /\ unarmed' = FALSE
  /\ UNCHANGED <<now, timerVars, timers, timerIdSet, batchVars, looping,
                 funcs, cancelled, runs>>

User ==
  \/ \E d \in Delays, v \in Intervals : AddTimer(d, v) \/ AddTimerQueued(d, v)
  \/ \E i \in Ids : InvalidateTimer(i) \/ InvalidateTimerQueued(i)
  \/ Loop \/ LoopReturns \/ ResetTimerQueue \/ CallbackThrows

LoopStep ==
  \/ RunFunc \/ HandleRead \/ CallbackReturns \/ HandleReadEnds
  \/ \E i \in Ids : RunTimer(i)

Next == User \/ LoopStep \/ Tick

Spec == Init /\ [][Next]_vars

-----------------------------------------------------------------------------
TypeOK ==
  /\ now \in Times /\ created \in 0 .. MaxTimers
  /\ when \in [Ids -> Times] /\ interval \in [Ids -> Nat]
  /\ timers \subseteq 1 .. created /\ timerIdSet \subseteq 1 .. created
  /\ timerfd \in 0 .. Disarmed
  /\ readAt \in Times
  /\ expired \subseteq 1 .. created /\ due \subseteq expired
  /\ pc \in {"idle", "calling", "callback"}
  /\ looping \in BOOLEAN
  /\ funcs \in Seq([call : {"add", "invalidate"}, id : 1 .. created])
  /\ unarmed \in BOOLEAN /\ dropped \subseteq 1 .. created
  /\ cancelled \subseteq 1 .. created
  /\ runs \in [Ids -> 0 .. 2]

\* Outside handleRead(), a heap that is not empty has the timerfd set, and not
\* for later than its first timer (or the next instant): insert() and reset()
\* between them never leave a timer that the loop would sleep through.  Only an
\* exception of a callback does, until timerfd_ is set again.
TimerfdArmed ==
  pc = "idle" /\ timers # {} /\ ~unarmed =>
    timerfd <= AtLeast(when[Top(timers, when)], AtMost(MaxNow, now + 1))

\* timerIdSet_ holds no id that is on its way nowhere: each one is in the heap
\* or among the expired timers of handleRead(), which reset() disposes of.  An
\* id outside both would stay in the set, and its timer would never run again:
\* only the batch of a callback that threw ends like that.  No timer is in both,
\* and one that runs once is not run again.
LiveTimersAreQueued ==
  /\ TypeOK
  /\ timerIdSet \subseteq timers \cup expired \cup dropped
  /\ timers \cap expired = {}
  /\ \A i \in Ids : interval[i] = 0 => runs[i] <= 1

\* No timer is slept through, lost or run too often.
NoTimerMissed == TimerfdArmed /\ LiveTimersAreQueued

\* A timer is not run after the loop has carried out invalidateTimer() for it,
\* be it from a callback of the same batch of expired timers or between two
\* runs of a repeating timer, and whatever exceptions and restarts come
\* between.
CancelledStays == \A i \in cancelled : runs'[i] = runs[i]
CancelledNeverRuns == [][CancelledStays]_vars

=============================================================================
