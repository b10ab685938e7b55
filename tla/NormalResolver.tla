---------------------------- MODULE NormalResolver ----------------------------
(***************************************************************************)
(* trantor::NormalResolver (net/inner/NormalResolver.cc, NormalResolver.h),*)
(* the resolver of a build without c-ares: resolve() looks into the cache  *)
(* of the process and leaves the rest to a ConcurrentTaskQueue, whose      *)
(* workers call getaddrinfo().  An address from the cache is given to the  *)
(* callback while the mutex of the cache is held.                          *)
(*                                                                         *)
(* A call of resolve() is known by its number; a callback may call         *)
(* resolve() again, and returns after that call has returned.              *)
(***************************************************************************)
EXTENDS Integers, FiniteSets

CONSTANTS Names,      \* hostnames
          MaxQueries, \* bound: calls of resolve()
          Timeouts,   \* the values of timeout_; 0 is no limit
          Workers,    \* threads of concurrentTaskQueue()
          MaxTime     \* bound: the clock, in seconds

Calls == 1 .. MaxQueries
NoCall == 0

VARIABLES
  time,      \* the second that it is
  timeout,   \* timeout_
  entries,   \* globalCache(): when the address of a name was stored, or -1
  calls,     \* the calls of resolve()
  holder     \* the call that holds globalMutex() while a callback runs

nvars == <<time, timeout, entries, calls, holder>>

NoQuery == [at |-> "none", name |-> CHOOSE n \in Names : TRUE, parent |-> NoCall,
            answers |-> 0, age |-> 0]

NInit ==
  /\ time = 0 /\ timeout \in Timeouts
  /\ entries = [n \in Names |-> -1]
  /\ calls = [q \in Calls |-> NoQuery] /\ holder = NoCall

Goto(q, label) == calls' = [calls EXCEPT ![q].at = label]
Answer(q, label, age) ==
  calls' = [calls EXCEPT ![q].at = label, ![q].answers = @ + 1, ![q].age = age]

InCallback == {"hit", "taskHit", "callback", "failed"}
InTask == {"task", "taskHit", "getaddrinfo", "callback", "failed", "store"}

\* The callback that the call runs has not called resolve() or is done with it.
CallbackDone(q) ==
  \A p \in Calls : calls[p].parent = q => calls[p].at # "lookup" /\ calls[p].at # "hit"

-----------------------------------------------------------------------------
\* resolve(), by a thread of the user or by the callback of another call
Resolve(q, n, parent) ==
  /\ calls[q].at = "none" /\ \A p \in 1 .. q - 1 : calls[p].at # "none"
  /\ parent # NoCall => calls[parent].at \in InCallback /\ CallbackDone(parent)
  /\ calls' = [calls EXCEPT ![q] = [NoQuery EXCEPT !.at = "lookup", !.name = n, !.parent = parent]]
  /\ UNCHANGED <<time, timeout, entries, holder>>

Fresh(n) == entries[n] # -1 /\ (timeout = 0 \/ entries[n] + timeout > time)

\* The look-up under the mutex: the callback is called before it is released.
Lookup(q, hit, miss) ==
  /\ holder = NoCall
  /\ IF Fresh(calls[q].name)
       THEN Answer(q, hit, time - entries[calls[q].name]) /\ holder' = q
       ELSE Goto(q, miss) /\ UNCHANGED holder
  /\ UNCHANGED <<time, timeout, entries>>

HitReturns(q) ==
  /\ calls[q].at \in {"hit", "taskHit"} /\ CallbackDone(q)
  /\ Goto(q, "done") /\ holder' = NoCall
  /\ UNCHANGED <<time, timeout, entries>>

\* A worker begins with the task; the others that run tasks are busy.
RunTask(q) ==
  /\ calls[q].at = "queued"
  /\ Cardinality({p \in Calls : calls[p].at \in InTask}) < Workers
  /\ Goto(q, "task")
  /\ UNCHANGED <<time, timeout, entries, holder>>

\* getaddrinfo() fails, and the callback is given an empty address, ...
Fail(q) ==
  /\ calls[q].at = "getaddrinfo"
  /\ Answer(q, "failed", 0)
  /\ UNCHANGED <<time, timeout, entries, holder>>

\* ... or it is given what was found, before that goes to the cache.
Found(q) ==
  /\ calls[q].at = "getaddrinfo"
  /\ Answer(q, "callback", 0)
  /\ UNCHANGED <<time, timeout, entries, holder>>

CallbackReturns(q) ==
  /\ calls[q].at \in {"callback", "failed"} /\ CallbackDone(q)
  /\ Goto(q, IF calls[q].at = "callback" THEN "store" ELSE "done")
  /\ UNCHANGED <<time, timeout, entries, holder>>

Store(q) ==
  /\ calls[q].at = "store" /\ holder = NoCall
  /\ entries' = [entries EXCEPT ![calls[q].name] = time]
  /\ Goto(q, "done")
  /\ UNCHANGED <<time, timeout, holder>>

Tick ==
  /\ time < MaxTime
  /\ time' = time + 1
  /\ UNCHANGED <<timeout, entries, calls, holder>>

NStep(q) ==
  \/ calls[q].at = "lookup" /\ Lookup(q, "hit", "queued")
  \/ calls[q].at = "task" /\ Lookup(q, "taskHit", "getaddrinfo")
  \/ RunTask(q) \/ HitReturns(q) \/ Fail(q) \/ Found(q) \/ CallbackReturns(q) \/ Store(q)

NNext ==
  \/ \E q \in Calls : NStep(q)
  \/ \E q \in Calls, n \in Names, parent \in Calls \cup {NoCall} : Resolve(q, n, parent)
  \/ Tick

-----------------------------------------------------------------------------
\* A callback that holds the mutex has called resolve(), which waits for it.
Relocked ==
  holder # NoCall /\ \E p \in Calls : calls[p].parent = holder /\ calls[p].at = "lookup"

\* A callback is called at most once, with an address that was stored within
\* the timeout, and nobody else changes the cache meanwhile.
AnsweredFresh ==
  \A q \in Calls :
    /\ calls[q].answers <= 1
    /\ calls[q].at \in {"hit", "taskHit"} => holder = q
    /\ timeout = 0 \/ calls[q].age < timeout

Waits(q) == calls[q].at = "lookup"
Answered(q) == calls[q].answers = 1 \/ Relocked

\* Every call of resolve() is answered, unless a callback calls resolve() with
\* the mutex held.
CallsAreAnswered == \A q \in Calls : Waits(q) ~> Answered(q)
=============================================================================
