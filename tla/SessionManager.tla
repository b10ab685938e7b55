---------------------------- MODULE SessionManager ----------------------------
(***************************************************************************)
(* The cache of TLS sessions (SessionManager in                            *)
(* net/inner/tlsprovider/OpenSSLProvider.cc), shared by the connections of *)
(* all loops.  Its mutex is held in each of the parts of store(), in       *)
(* get() and in the function of the timer, but not from one to the next.   *)
(* A timer belongs to the loop that stored the session: another loop       *)
(* cancels it by a function that the owner runs later.                     *)
(***************************************************************************)
EXTENDS Integers, Sequences, FiniteSets, SequencesExt, TLC

CONSTANTS Loops,          \* the event loops that have TLS connections
          Keys,           \* hostname and address
          MaxStores,      \* sessions that are stored
          maxSessions,    \* maxSessions_
          mexExtendSize   \* mexExtendSize_

Sessions == 1 .. MaxStores

VARIABLES
  sessions,    \* sessions_, the newest first
  sessionMap,  \* sessionMap_
  refs,        \* references that each SSL_SESSION has
  timers,      \* pending timers: of which session, key and loop
  cancels,     \* invalidateTimer() calls that are queued in the loops
  stored,      \* number of sessions that were stored
  open,        \* sessions whose own connection is open
  pc           \* of each loop: idle, or between the parts of store()

vars == <<sessions, sessionMap, refs, timers, cancels, stored, open, pc>>

Init ==
  /\ sessions = <<>> /\ sessionMap = [k \in {} |-> {}]
  /\ refs = [s \in Sessions |-> 0]
  /\ timers = {} /\ cancels = {}
  /\ stored = 0 /\ open = {}
  /\ pc = [l \in Loops |-> "idle"]

Entry(s, k, l) == [session |-> s, key |-> k, loop |-> l]

\* The cache without an entry that is in it, of which the reference is dropped
Dropped(e) ==
  /\ refs' = [refs EXCEPT ![e.session] = @ - 1]
  /\ sessions' = SelectSeq(sessions, LAMBDA x : x # e)
  /\ sessionMap' = [k \in DOMAIN sessionMap \ {e.key} |-> sessionMap[k]]

\* invalidateTimer() of another loop is queued.
InvalidateTimer(l, e) ==
  IF e.loop = l THEN timers' = timers \ {e} /\ UNCHANGED cancels
  ELSE cancels' = cancels \cup {e} /\ UNCHANGED timers

\* Mutant: the reference to the session that is replaced is kept.
MutReplaced(k) == refs

\* SSL_SESSION_free() of the session that the key has
Replaced(k) ==
  IF k \in DOMAIN sessionMap THEN [refs EXCEPT ![sessionMap[k].session] = @ - 1]
  ELSE refs

\* loop->runAfter(sessionTimeout_)
NewTimer(e) == {e}

\* The first part of store(), by a connection of loop l
Store(l, k) ==
  /\ pc[l] = "idle" /\ stored < MaxStores
  /\ LET e == Entry(stored + 1, k, l)
         old == IF k \in DOMAIN sessionMap THEN {sessionMap[k]} ELSE {}
         mine == {x \in old : x.loop = l}
     IN /\ sessions' = <<e>> \o SelectSeq(sessions, LAMBDA x : x \notin old)
        /\ sessionMap' = (k :> e) @@ sessionMap
        /\ refs' = [Replaced(k) EXCEPT ![e.session] = 2]
        /\ timers' = (timers \ mine) \cup NewTimer(e)
        /\ cancels' = cancels \cup (old \ mine)
        /\ open' = open \cup {e.session}
  /\ stored' = stored + 1
  /\ pc' = [pc EXCEPT ![l] = "stored"]

Excess ==
  Len(sessions) >= maxSessions + mexExtendSize /\ Len(sessions) > maxSessions

\* removeExcessSession(): the last entry is the oldest.
RemoveExcessSession(l) ==
  /\ pc[l] = "stored"
  /\ IF Excess
       THEN Dropped(Last(sessions)) /\ InvalidateTimer(l, Last(sessions))
       ELSE UNCHANGED <<sessions, sessionMap, refs, timers, cancels>>
  /\ pc' = [pc EXCEPT ![l] = "idle"]
  /\ UNCHANGED <<stored, open>>

\* The function of a timer: whatever the key has now goes.
Expire(e) ==
  IF e.key \in DOMAIN sessionMap THEN Dropped(sessionMap[e.key])
  ELSE UNCHANGED <<sessions, sessionMap, refs>>

TimerExpires(e) ==
  /\ e \in timers /\ pc[e.loop] = "idle"
  /\ timers' = timers \ {e}
  /\ Expire(e)
  /\ UNCHANGED <<cancels, stored, open, pc>>

\* A loop carries out an invalidateTimer() of another one.
CancelTimer(e) ==
  /\ e \in cancels /\ pc[e.loop] = "idle"
  /\ timers' = timers \ {e} /\ cancels' = cancels \ {e}
  /\ UNCHANGED <<sessions, sessionMap, refs, stored, open, pc>>

\* The connection that made the session is destroyed.
CloseConnection(s) ==
  /\ s \in open
  /\ open' = open \ {s}
  /\ refs' = [refs EXCEPT ![s] = @ - 1]
  /\ UNCHANGED <<sessions, sessionMap, timers, cancels, stored, pc>>

Next ==
  \/ \E l \in Loops : RemoveExcessSession(l) \/ \E k \in Keys : Store(l, k)
  \/ \E e \in timers : TimerExpires(e)
  \/ \E e \in cancels : CancelTimer(e)
  \/ \E s \in open : CloseConnection(s)

Spec == Init /\ [][Next]_vars

-----------------------------------------------------------------------------
\* A session has one reference for its place in the cache and one for its own
\* connection: none is freed twice and none is kept for ever.  The list and the
\* map have the same entries, each key once.  Every session in the cache still
\* has its timer, though timers of sessions that were replaced from another
\* loop expire, too, and take newer sessions away.  Loops that are between the
\* two parts of store() exceed the limit by one each; otherwise it is met.
SessionRefs ==
  LET cached == ToSet(sessions)
      one(b) == IF b THEN 1 ELSE 0
  IN /\ \A s \in Sessions :
          refs[s] = one(s \in open) + one(\E e \in cached : e.session = s)
     /\ cached = {sessionMap[k] : k \in DOMAIN sessionMap}
     /\ \A k \in DOMAIN sessionMap : sessionMap[k].key = k
     /\ Len(sessions) = Cardinality(DOMAIN sessionMap)
     /\ cached \subseteq timers \ cancels
     /\ Len(sessions) < maxSessions + mexExtendSize +
                          Cardinality({l \in Loops : pc[l] # "idle"})
=============================================================================
