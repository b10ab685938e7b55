----------------------------- MODULE AresResolver -----------------------------
(***************************************************************************)
(* trantor::AresResolver (net/inner/AresResolver.h, AresResolver.cc): a    *)
(* resolver that gives its queries to the c-ares library, whose socket it  *)
(* polls and whose time-outs it keeps by one timer of the loop.            *)
(*                                                                         *)
(* c-ares is known by what it is asked and what it calls: it answers a     *)
(* query when it is asked, when its socket is read or when its time-out is *)
(* over, and it may close its socket.  Callbacks run in the loop thread,   *)
(* and may call resolve() again; another thread may call it, too.  The     *)
(* user releases the resolver in the loop thread, outside of resolve().    *)
(***************************************************************************)
EXTENDS Integers, Sequences, FiniteSets

CONSTANTS Names,     \* hostnames
          MaxQueries \* calls of resolve()

Queries == 1 .. MaxQueries

VARIABLES
  cache,        \* globalCache(): of each name none, fresh or stale
  host,         \* the name of each call of resolve()
  query,        \* of each call: none, queued, asked or answered
  queueInLoop,  \* the functions in the queue of the loop
  timerActive,  \* timerActive_
  timer,        \* number of timers in the loop that call onTimer()
  channel,      \* channels_ has the socket of c-ares
  owned,        \* the user has a reference
  alive,        \* the resolver is not destroyed
  where         \* where the loop thread is: see below

rvars == <<cache, host, query, queueInLoop, timerActive, timer, channel, owned,
           alive, where>>

RInit ==
  /\ cache = [n \in Names |-> "none"]
  /\ host = [q \in Queries |-> CHOOSE n \in Names : TRUE]
  /\ query = [q \in Queries |-> "none"]
  /\ queueInLoop = <<>>
  /\ timerActive = FALSE /\ timer = 0 /\ channel = FALSE
  /\ owned = TRUE /\ alive = TRUE
  /\ where = <<"idle">>

\* where is a stack: below a callback is the function that c-ares was called
\* in.
Asked == {q \in Queries : query[q] = "asked"}

\* Mutant: the function of the timer has a plain pointer.
MutReferences == owned \/ queueInLoop # <<>>

\* The user, the function of the timer and those in the queue have references.
References == owned \/ timer > 0 \/ queueInLoop # <<>>

\* A reference is released in the loop thread.  If it is the last one,
\* ares_destroy() closes the socket and its channel is removed.
Release ==
  alive' = (alive /\ References') /\ channel' = (channel /\ References')

-----------------------------------------------------------------------------
(* resolve()                                                               *)

\* The next call of resolve() is for n.
NextQuery(q, n) ==
  /\ owned /\ query[q] = "none" /\ \A p \in 1 .. q - 1 : query[p] # "none"
  /\ host' = [host EXCEPT ![q] = n]

\* The address is in the cache: the callback is called by resolve() itself.
ResolveCached(q, n) ==
  /\ NextQuery(q, n) /\ cache[n] = "fresh"
  /\ query' = [query EXCEPT ![q] = "answered"]
  /\ UNCHANGED <<cache, queueInLoop, timerActive, timer, channel, owned,
                 alive, where>>

\* In another thread resolveInLoop() is queued with a reference.
ResolveInThread(q, n) ==
  /\ NextQuery(q, n) /\ cache[n] # "fresh"
  /\ query' = [query EXCEPT ![q] = "queued"]
  /\ queueInLoop' = Append(queueInLoop, q)
  /\ UNCHANGED <<cache, timerActive, timer, channel, owned, alive, where>>

\* ares_getaddrinfo() opens its socket, with onSockCreate().
Ask(q) ==
  /\ query' = [query EXCEPT ![q] = "asked"]
  /\ channel' = TRUE
  /\ where' = <<"asking">> \o where

\* resolveInLoop() begins, in a callback or anywhere else in the loop thread.
ResolveInLoop(q, n) ==
  /\ where[1] \in {"idle", "callback"}
  /\ NextQuery(q, n) /\ cache[n] # "fresh"
  /\ Ask(q)
  /\ UNCHANGED <<cache, queueInLoop, timerActive, timer, owned, alive>>

RunQueued ==
  /\ where = <<"idle">> /\ queueInLoop # <<>>
  /\ Ask(Head(queueInLoop))
  /\ queueInLoop' = Tail(queueInLoop)
  /\ UNCHANGED <<cache, host, timerActive, timer, owned, alive>>

\* runAfter(timeout, onTimer), unless there is such a timer
Arm ==
  IF ~timerActive /\ Asked # {} THEN timerActive' = TRUE /\ timer' = timer + 1
  ELSE UNCHANGED <<timerActive, timer>>

\* ares_getaddrinfo() returns; a function of the queue ends and is destroyed.
Resolving ==
  /\ where[1] = "asking"
  /\ Arm
  /\ where' = Tail(where)
  /\ UNCHANGED <<cache, host, query, queueInLoop, owned>>
  /\ Release

-----------------------------------------------------------------------------
(* What c-ares calls                                                       *)

\* onQueryResult(): also a failure goes to the cache, as the address 0.0.0.0.
OnQueryResult(q) ==
  /\ where[1] \in {"asking", "read", "timer"} /\ query[q] = "asked"
  /\ query' = [query EXCEPT ![q] = "answered"]
  /\ cache' = [cache EXCEPT ![host[q]] = "fresh"]
  /\ where' = <<"callback">> \o where
  /\ UNCHANGED <<host, queueInLoop, timerActive, timer, channel, owned, alive>>

CallbackReturns ==
  /\ where[1] = "callback"
  /\ where' = Tail(where)
  /\ UNCHANGED <<cache, host, query, queueInLoop, timerActive, timer, channel,
                 owned, alive>>

\* onSockStateChange(): c-ares closes its socket.
OnSockStateChange ==
  /\ where[1] \in {"read", "timer"} /\ channel
  /\ channel' = FALSE
  /\ UNCHANGED <<cache, host, query, queueInLoop, timerActive, timer, owned,
                 alive, where>>

\* onSockCreate(): it opens another one for a query that is left.
OnSockCreate ==
  /\ where[1] \in {"read", "timer"} /\ ~channel /\ Asked # {}
  /\ channel' = TRUE
  /\ UNCHANGED <<cache, host, query, queueInLoop, timerActive, timer, owned,
                 alive, where>>

OnRead ==
  /\ where = <<"idle">> /\ channel
  /\ where' = <<"read">> \o where
  /\ UNCHANGED <<cache, host, query, queueInLoop, timerActive, timer, channel,
                 owned, alive>>

ReadReturns ==
  /\ where[1] = "read"
  /\ where' = Tail(where)
  /\ UNCHANGED <<cache, host, query, queueInLoop, timerActive, timer, channel,
                 owned, alive>>

\* Mutant: the function does not call ares_process_fd().
MutOnTimer == where = <<"idle">> /\ timer > 0 /\ UNCHANGED rvars

\* The timer expires; its function holds a reference until it returns.
OnTimer ==
  /\ where = <<"idle">> /\ timer > 0
  /\ where' = <<"timer">> \o where
  /\ UNCHANGED <<cache, host, query, queueInLoop, timerActive, timer, channel,
                 owned, alive>>

\* onTimer() after ares_process_fd(): set again while something is asked
TimerReturns ==
  /\ where[1] = "timer"
  /\ timerActive' = (Asked # {})
  /\ timer' = IF Asked # {} THEN timer ELSE timer - 1
  /\ where' = Tail(where)
  /\ UNCHANGED <<cache, host, query, queueInLoop, owned>>
  /\ Release

-----------------------------------------------------------------------------
\* The user releases the resolver.
UserReleases ==
  /\ owned /\ where[1] \in {"idle", "callback"}
  /\ \A i \in DOMAIN where : where[i] # "asking"
  /\ owned' = FALSE
  /\ UNCHANGED <<cache, host, query, queueInLoop, timerActive, timer, where>>
  /\ Release

\* Time passes and an address is too old.
Age(n) ==
  /\ cache[n] = "fresh"
  /\ cache' = [cache EXCEPT ![n] = "stale"]
  /\ UNCHANGED <<host, query, queueInLoop, timerActive, timer, channel, owned,
                 alive, where>>

Return == Resolving \/ CallbackReturns \/ ReadReturns \/ TimerReturns

RNext ==
  \/ Return \/ RunQueued \/ OnTimer \/ OnRead \/ OnSockStateChange
  \/ OnSockCreate \/ UserReleases
  \/ \E q \in Queries :
       \/ OnQueryResult(q)
       \/ \E n \in Names :
            ResolveCached(q, n) \/ ResolveInThread(q, n) \/ ResolveInLoop(q, n)
  \/ \E n \in Names : Age(n)

RSpec == RInit /\ [][RNext]_rvars

\* A query that the library gives up when its time-outs are over
GiveUp == where[1] = "timer" /\ \E q \in Queries : OnQueryResult(q)

\* The loop runs, its functions are called and its timers expire.
FairRSpec ==
  RSpec /\ WF_rvars(Return) /\ SF_rvars(RunQueued) /\ SF_rvars(OnTimer)
        /\ SF_rvars(GiveUp)

-----------------------------------------------------------------------------
\* There is one timer while timerActive_ says so, and while a query is asked:
\* otherwise one whose answer was lost would never end.
OneTimer ==
  /\ timer = (IF timerActive THEN 1 ELSE 0)
  /\ Asked # {} => timerActive \/ \E i \in DOMAIN where : where[i] = "asking"

\* The resolver exists while c-ares has a query, whose QueryData has a plain
\* pointer to it, and while the channel calls onRead(): the timer, of which
\* there is one, keeps it.
ResolverIsAlive ==
  OneTimer /\ (Asked # {} \/ channel \/ where # <<"idle">> => alive)

Waits(q) == query[q] \in {"queued", "asked"}
Answered(q) == query[q] = "answered"

\* Every call of resolve() is answered.
QueriesAreAnswered == \A q \in Queries : Waits(q) ~> Answered(q)
=============================================================================
