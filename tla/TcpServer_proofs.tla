--------------------------- MODULE TcpServer_proofs ---------------------------
(***************************************************************************)
(* Proof that stop() of the server is safe (StopIsSafe), for any number of *)
(* connections and any I/O loops, the server's own among them or not.      *)
(*                                                                         *)
(* StopIsSafe is not inductive.  What a queued function relies on when it  *)
(* runs has to hold from when it is queued (FuncsOK), a function that must *)
(* not run twice is queued once (OnceOK), forceClose() of a connection     *)
(* that is still to be established stands behind connectEstablished()      *)
(* (OrderOK, PresentOK), and no loop of a pool ends before its turn        *)
(* (StopOK).                                                               *)
(***************************************************************************)
EXTENDS TcpServer, FiniteSetTheorems, SequenceTheorems, TLAPS

Functors ==
  ({"establish", "forceClose", "close", "destroy"} \X Conns)
    \cup {<<"closeAll">>} \cup ({"wheel"} \X Loops)

\* What a function f in the queue of the loop l relies on
FuncOK(l, f, cs, lo, st, sp) ==
  /\ f = <<"closeAll">> => l = Base /\ sp = "wait"
  /\ \A c \in Conns :
       /\ f = <<"establish", c>> => lo[c] = l /\ st[c] = "connecting"
       /\ f = <<"forceClose", c>> => st[c] # "none"
       /\ f = <<"close", c>> => l = Base /\ c \in cs /\ st[c] = "closed"
       /\ f = <<"destroy", c>> =>
            lo[c] = l /\ c \notin cs /\ st[c] \in {"closed", "destroyed"}

FuncsOK(fs, cs, lo, st, sp) ==
  \A l \in Loops : \A f \in Range(fs[l]) : FuncOK(l, f, cs, lo, st, sp)

\* A queue holds these functions once.
Single(f) ==
  f = <<"closeAll">> \/ \E c \in Conns : f \in {<<"establish", c>>, <<"close", c>>}
Once(q) ==
  \A i, j \in 1 .. Len(q) : q[i] = q[j] /\ Single(q[i]) => i = j
OnceOK(fs) == \A l \in Loops : Once(fs[l])

\* forceClose() of a connection of C stands behind connectEstablished().
Order(q, C) ==
  \A j \in 1 .. Len(q) : \A c \in C :
    q[j] = <<"forceClose", c>> =>
      \E i \in 1 .. Len(q) : i < j /\ q[i] = <<"establish", c>>
Connecting(st) == {c \in Conns : st[c] = "connecting"}
OrderOK(fs, st, lp) ==
  \A l \in Loops : lp[l] # "gone" => Order(fs[l], Connecting(st))

\* A connection that connects has connectEstablished() in its loop's queue.
PresentOK(fs, lo, st, lp) ==
  \A c \in Conns : st[c] = "connecting" /\ lp[lo[c]] # "gone" =>
                     <<"establish", c>> \in Range(fs[lo[c]])

\* The connections that are not closed are in the set of the server, and those
\* of its own loop are established at once.
ConnOK(cs, lo, st) ==
  \A c \in Conns :
    /\ st[c] \in {"connecting", "up"} => c \in cs
    /\ c \in cs => st[c] # "none"
    /\ st[c] = "connecting" => lo[c] # Base

\* An active channel is that of a connection of the loop that exists.
ActiveOK(ac, lo, st) ==
  \A l \in Loops, c \in Conns :
    c \in ac[l] => lo[c] = l /\ st[c] \in {"up", "closed"}

\* StopMissesNone, all connections of the set D apart
MissesOnly(D, fs, lo, st, lp) ==
  \A c \in Conns \ D :
    st[c] \in {"connecting", "up"} /\ lp[lo[c]] # "gone" =>
      <<"forceClose", c>> \in Range(fs[lo[c]])

\* Where stop() is: the acceptor is gone when the connections were closed, and
\* the loops of the pool end one after the other.
StopOK(sp, ac, lp, ix) ==
  /\ sp \notin {"idle", "wait"} => ~ac
  /\ sp \in {"idle", "wait", "pool"} =>
       ix = 1 /\ \A l \in Loops : lp[l] = "running"
  /\ sp \in {"quit", "join", "wheels", "wheel"} => ix \in 1 .. Len(IoLoops)
  /\ sp \in {"quit", "join"} =>
       /\ OwnPool
       /\ \A j \in 1 .. Len(IoLoops) : j > ix => lp[IoLoops[j]] = "running"
  /\ sp = "quit" => lp[IoLoops[ix]] = "running"

\* The conditions on the queues
QueuesOK(fs, cs, lo, st, lp, sp) ==
  /\ fs \in [Loops -> Seq(Functors)]
  /\ FuncsOK(fs, cs, lo, st, sp)
  /\ OnceOK(fs)
  /\ OrderOK(fs, st, lp)
  /\ PresentOK(fs, lo, st, lp)

ServerInv ==
  /\ TypeOK /\ idx \in Nat /\ aborted = FALSE
  /\ QueuesOK(funcs, connSet, loopOf, status, loop, spc)
  /\ ConnOK(connSet, loopOf, status)
  /\ ActiveOK(active, loopOf, status)
  /\ spc \notin {"idle", "wait"} => MissesOnly({}, funcs, loopOf, status, loop)
  /\ StopOK(spc, acceptor, loop, idx)

-----------------------------------------------------------------------------
(* The queues                                                              *)

\* What a queue holds, when queueInLoop() adds a function or the first is taken.
LEMMA RangeIs ==
  ASSUME NEW S, NEW q \in Seq(S)
  PROVE  \A f : f \in Range(q) <=> \E i \in 1 .. Len(q) : q[i] = f
BY DEF Range

\* queueInLoop() adds one function at the end of a queue.
LEMMA RangeAppend ==
  ASSUME NEW S, NEW q \in Seq(S), NEW f \in S
  PROVE  /\ Append(q, f) \in Seq(S)
         /\ \A g : g \in Range(Append(q, f)) <=> g \in Range(q) \/ g = f
<1>1. Append(q, f) \in Seq(S) /\ Len(Append(q, f)) = Len(q) + 1 /\ Len(q) \in Nat
  OBVIOUS
<1>2. \A i \in 1 .. Len(q) : Append(q, f)[i] = q[i]
  OBVIOUS
<1>3. Append(q, f)[Len(q) + 1] = f
  OBVIOUS
<1>4. f \in Range(Append(q, f))
  <2>1. Len(q) + 1 \in 1 .. Len(Append(q, f))
    BY <1>1
  <2>2. \E i \in 1 .. Len(Append(q, f)) : Append(q, f)[i] = f
    BY Zenon, <1>3, <2>1
  <2> QED
    BY Zenon, <1>1, <2>2, RangeIs
<1>5. ASSUME NEW i \in 1 .. Len(q)
      PROVE  q[i] \in Range(Append(q, f))
  <2>1. i \in 1 .. Len(q) + 1
    OBVIOUS
  <2> QED
    BY Zenon, <1>1, <1>2, <2>1, RangeIs
<1>6. ASSUME NEW i \in 1 .. Len(q) + 1
      PROVE  Append(q, f)[i] \in Range(q) \/ Append(q, f)[i] = f
  <2>1. CASE i \in 1 .. Len(q)
    BY Zenon, <1>2, <2>1, RangeIs
  <2> QED
    BY <1>1, <1>3, <2>1
<1> QED
  BY ZenonT(30), <1>1, <1>4, <1>5, <1>6, RangeIs

\* Taking the first function leaves the others.
LEMMA RangeTail ==
  ASSUME NEW S, NEW q \in Seq(S), q # <<>>
  PROVE  /\ Tail(q) \in Seq(S) /\ Head(q) \in Range(q) /\ Head(q) \in S
         /\ \A g : g \in Range(q) <=> g \in Range(Tail(q)) \/ g = Head(q)
<1>1. Tail(q) \in Seq(S) /\ Len(Tail(q)) = Len(q) - 1 /\ Len(q) \in Nat \ {0}
  OBVIOUS
<1>2. \A i \in 1 .. Len(q) - 1 : Tail(q)[i] = q[i + 1]
  BY <1>1
<1>3. Head(q) = q[1] /\ 1 \in 1 .. Len(q)
  BY <1>1
<1>4. \A g : g \in Range(q) => g \in Range(Tail(q)) \/ g = Head(q)
  <2> SUFFICES ASSUME NEW i \in 1 .. Len(q), q[i] # Head(q)
               PROVE  q[i] \in Range(Tail(q))
    BY RangeIs
  <2>1. i - 1 \in 1 .. Len(q) - 1 /\ (i - 1) + 1 = i
    BY <1>1, <1>3
  <2> QED
    BY Zenon, <1>1, <1>2, <2>1, RangeIs
<1>5. \A g : g \in Range(Tail(q)) => g \in Range(q)
  <2> SUFFICES ASSUME NEW i \in 1 .. Len(q) - 1
               PROVE  Tail(q)[i] \in Range(q)
    BY Zenon, <1>1, RangeIs
  <2> QED
    BY <1>1, <1>2, RangeIs
<1> QED
  BY <1>1, <1>3, <1>4, <1>5, RangeIs

\* stop() adds several functions to a queue at once.
LEMMA RangeJoin ==
  ASSUME NEW S, NEW q \in Seq(S), NEW r \in Seq(S)
  PROVE  /\ q \o r \in Seq(S)
         /\ \A g : g \in Range(q \o r) <=> g \in Range(q) \/ g \in Range(r)
<1>1. q \o r \in Seq(S) /\ Len(q \o r) = Len(q) + Len(r)
      /\ Len(q) \in Nat /\ Len(r) \in Nat
  OBVIOUS
<1>2. \A i \in 1 .. Len(q) : (q \o r)[i] = q[i] /\ i \in 1 .. Len(q \o r)
  OBVIOUS
<1>3. \A i \in 1 .. Len(r) :
        (q \o r)[Len(q) + i] = r[i] /\ Len(q) + i \in 1 .. Len(q \o r)
  OBVIOUS
<1>4. ASSUME NEW i \in 1 .. Len(q \o r)
      PROVE  (q \o r)[i] \in Range(q) \/ (q \o r)[i] \in Range(r)
  <2>1. CASE i <= Len(q)
    <3>1. i \in 1 .. Len(q)
      BY <1>1, <2>1
    <3> QED
      BY Zenon, <1>2, <3>1, RangeIs
  <2>2. CASE i > Len(q)
    <3>1. i - Len(q) \in 1 .. Len(r) /\ Len(q) + (i - Len(q)) = i
      BY <1>1, <2>2
    <3> QED
      BY <1>3, <3>1, RangeIs
  <2> QED
    BY <1>1, <2>1, <2>2
<1>5. \A g : g \in Range(q \o r) <=> \E i \in 1 .. Len(q \o r) : (q \o r)[i] = g
  BY Zenon, <1>1, RangeIs
<1>6. \A g : g \in Range(q) => g \in Range(q \o r)
  BY <1>2, <1>5, RangeIs
<1>7. \A g : g \in Range(r) => g \in Range(q \o r)
  BY <1>3, <1>5, RangeIs
<1>8. \A g : g \in Range(q \o r) => g \in Range(q) \/ g \in Range(r)
  BY Zenon, <1>4, <1>5
<1> QED
  BY Zenon, <1>1, <1>6, <1>7, <1>8

\* Once(q) when a function is added or taken, or functions that may be queued
\* many times are added.
LEMMA OnceAppend ==
  ASSUME NEW S, NEW q \in Seq(S), NEW f \in S, Once(q),
         Single(f) => f \notin Range(q)
  PROVE  Once(Append(q, f))
<1>1. Len(Append(q, f)) = Len(q) + 1 /\ Len(q) \in Nat
  OBVIOUS
<1>2. \A i \in 1 .. Len(q) : Append(q, f)[i] = q[i]
  OBVIOUS
<1>3. Append(q, f)[Len(q) + 1] = f
  OBVIOUS
<1> SUFFICES ASSUME NEW i \in 1 .. Len(q) + 1, NEW j \in 1 .. Len(q) + 1,
                    Append(q, f)[i] = Append(q, f)[j], Single(Append(q, f)[i])
             PROVE  i = j
  BY Zenon, <1>1 DEF Once
<1>4. CASE i \in 1 .. Len(q) /\ j \in 1 .. Len(q)
  BY Zenon, <1>2, <1>4 DEF Once
<1>5. CASE i = Len(q) + 1 /\ j \in 1 .. Len(q)
  BY Zenon, <1>2, <1>3, <1>5, RangeIs
<1>6. CASE i \in 1 .. Len(q) /\ j = Len(q) + 1
  BY Zenon, <1>2, <1>3, <1>6, RangeIs
<1> QED
  BY <1>1, <1>4, <1>5, <1>6

\* A function that a queue holds once is gone from it when it was taken.
LEMMA OnceTail ==
  ASSUME NEW S, NEW q \in Seq(S), q # <<>>, Once(q)
  PROVE  /\ Once(Tail(q))
         /\ Single(Head(q)) => Head(q) \notin Range(Tail(q))
<1>1. Tail(q) \in Seq(S) /\ Len(Tail(q)) = Len(q) - 1 /\ Len(q) \in Nat \ {0}
  OBVIOUS
<1>2. \A i \in 1 .. Len(q) - 1 : Tail(q)[i] = q[i + 1] /\ i + 1 \in 1 .. Len(q)
  BY <1>1
<1>3. Head(q) = q[1] /\ 1 \in 1 .. Len(q)
  BY <1>1
<1>4. Once(Tail(q))
  <2> SUFFICES ASSUME NEW i \in 1 .. Len(q) - 1, NEW j \in 1 .. Len(q) - 1,
                      Tail(q)[i] = Tail(q)[j], Single(Tail(q)[i])
               PROVE  i = j
    BY Zenon, <1>1 DEF Once
  <2>1. i + 1 = j + 1
    BY Zenon, <1>2 DEF Once
  <2> QED
    BY <1>1, <2>1
<1>5. ASSUME Single(Head(q)), NEW i \in 1 .. Len(q) - 1, Tail(q)[i] = Head(q)
      PROVE  FALSE
  <2>1. i + 1 = 1
    BY Zenon, <1>2, <1>3, <1>5 DEF Once
  <2> QED
    BY <1>1, <2>1
<1> QED
  BY Zenon, <1>1, <1>4, <1>5, RangeIs

\* Functions that may be queued again keep a queue as it should be.
LEMMA OnceJoin ==
  ASSUME NEW S, NEW q \in Seq(S), NEW r \in Seq(S), Once(q),
         \A f \in Range(r) : ~Single(f)
  PROVE  Once(q \o r)
<1>1. Len(q \o r) = Len(q) + Len(r) /\ Len(q) \in Nat /\ Len(r) \in Nat
  OBVIOUS
<1>2. \A i \in 1 .. Len(q) : (q \o r)[i] = q[i]
  OBVIOUS
<1>3. \A i \in 1 .. Len(r) : (q \o r)[Len(q) + i] = r[i] /\ ~Single(r[i])
  BY RangeIs
<1>4. ASSUME NEW i \in 1 .. Len(q \o r), Single((q \o r)[i])
      PROVE  i \in 1 .. Len(q)
  <2> SUFFICES ASSUME i > Len(q) PROVE FALSE
    BY <1>1
  <2>1. i - Len(q) \in 1 .. Len(r) /\ Len(q) + (i - Len(q)) = i
    BY <1>1
  <2> QED
    BY Zenon, <1>3, <1>4, <2>1
<1> SUFFICES ASSUME NEW i \in 1 .. Len(q \o r), NEW j \in 1 .. Len(q \o r),
                    (q \o r)[i] = (q \o r)[j], Single((q \o r)[i])
             PROVE  i = j
  BY Zenon DEF Once
<1>5. i \in 1 .. Len(q) /\ j \in 1 .. Len(q)
  BY Zenon, <1>4
<1> QED
  BY Zenon, <1>2, <1>5 DEF Once

\* Order(q, C) when a function is added or taken, when functions are added, and
\* when C changes.
LEMMA OrderAppend ==
  ASSUME NEW S, NEW q \in Seq(S), NEW f \in S, NEW C, Order(q, C),
         \A c \in C : f # <<"forceClose", c>>
  PROVE  Order(Append(q, f), C)
<1>1. Len(Append(q, f)) = Len(q) + 1 /\ Len(q) \in Nat
  OBVIOUS
<1>2. \A i \in 1 .. Len(q) : Append(q, f)[i] = q[i]
  OBVIOUS
<1>3. Append(q, f)[Len(q) + 1] = f
  OBVIOUS
<1> SUFFICES ASSUME NEW j \in 1 .. Len(q) + 1, NEW c \in C,
                    Append(q, f)[j] = <<"forceClose", c>>
             PROVE  \E i \in 1 .. Len(q) + 1 :
                      i < j /\ Append(q, f)[i] = <<"establish", c>>
  BY Zenon, <1>1 DEF Order
<1>4. j \in 1 .. Len(q)
  <2>1. j # Len(q) + 1
    BY Zenon, <1>3
  <2> QED
    BY <1>1, <2>1
<1>5. PICK i \in 1 .. Len(q) : i < j /\ q[i] = <<"establish", c>>
  BY Zenon, <1>2, <1>4 DEF Order
<1>6. i \in 1 .. Len(q) + 1
  BY <1>1
<1> QED
  BY Zenon, <1>2, <1>5, <1>6

\* The order stays when a function other than connectEstablished() is taken.
LEMMA OrderTail ==
  ASSUME NEW S, NEW q \in Seq(S), q # <<>>, NEW C, NEW D \in SUBSET C, Order(q, C),
         \A c \in D : Head(q) # <<"establish", c>>
  PROVE  Order(Tail(q), D)
<1>1. Len(Tail(q)) = Len(q) - 1 /\ Len(q) \in Nat \ {0}
  OBVIOUS
<1>2. \A i \in 1 .. Len(q) - 1 : Tail(q)[i] = q[i + 1] /\ i + 1 \in 1 .. Len(q)
  BY <1>1
<1>3. Head(q) = q[1]
  BY <1>1
<1> SUFFICES ASSUME NEW j \in 1 .. Len(q) - 1, NEW c \in D,
                    Tail(q)[j] = <<"forceClose", c>>
             PROVE  \E i \in 1 .. Len(q) - 1 :
                      i < j /\ Tail(q)[i] = <<"establish", c>>
  BY Zenon, <1>1 DEF Order
<1>4. PICK i \in 1 .. Len(q) : i < j + 1 /\ q[i] = <<"establish", c>>
  BY Zenon, <1>2 DEF Order
<1>5. i # 1
  BY Zenon, <1>3, <1>4
<1>6. i - 1 \in 1 .. Len(q) - 1 /\ (i - 1) + 1 = i /\ i - 1 < j
  BY <1>1, <1>4, <1>5
<1> QED
  BY Zenon, <1>2, <1>4, <1>6

\* The first function is no forceClose() of a connection that still connects.
LEMMA OrderHead ==
  ASSUME NEW S, NEW q \in Seq(S), q # <<>>, NEW C, Order(q, C)
  PROVE  \A c \in C : Head(q) # <<"forceClose", c>>
<1>1. Head(q) = q[1] /\ 1 \in 1 .. Len(q) /\ Len(q) \in Nat
  OBVIOUS
<1>2. \A i \in 1 .. Len(q) : ~(i < 1)
  BY <1>1
<1> QED
  BY Zenon, <1>1, <1>2 DEF Order

\* forceClose() is added behind the connectEstablished() that is queued.
LEMMA OrderJoin ==
  ASSUME NEW S, NEW q \in Seq(S), NEW r \in Seq(S), NEW C, Order(q, C),
         \A c \in C : <<"forceClose", c>> \in Range(r) =>
                        <<"establish", c>> \in Range(q)
  PROVE  Order(q \o r, C)
<1>1. Len(q \o r) = Len(q) + Len(r) /\ Len(q) \in Nat /\ Len(r) \in Nat
  OBVIOUS
<1>2. \A i \in 1 .. Len(q) : (q \o r)[i] = q[i] /\ i \in 1 .. Len(q \o r)
  OBVIOUS
<1>3. \A i \in 1 .. Len(r) : (q \o r)[Len(q) + i] = r[i]
  OBVIOUS
<1> SUFFICES ASSUME NEW j \in 1 .. Len(q \o r), NEW c \in C,
                    (q \o r)[j] = <<"forceClose", c>>
             PROVE  \E i \in 1 .. Len(q \o r) :
                      i < j /\ (q \o r)[i] = <<"establish", c>>
  BY Zenon DEF Order
<1>4. CASE j <= Len(q)
  <2>1. j \in 1 .. Len(q)
    BY <1>1, <1>4
  <2>2. PICK i \in 1 .. Len(q) : i < j /\ q[i] = <<"establish", c>>
    BY Zenon, <1>2, <2>1 DEF Order
  <2> QED
    BY Zenon, <1>2, <2>2
<1>5. CASE j > Len(q)
  <2>1. j - Len(q) \in 1 .. Len(r) /\ Len(q) + (j - Len(q)) = j
    BY <1>1, <1>5
  <2>2. r[j - Len(q)] = <<"forceClose", c>>
    BY Zenon, <1>3, <2>1
  <2>3. <<"forceClose", c>> \in Range(r)
    BY Zenon, <2>1, <2>2, RangeIs
  <2>4. PICK i \in 1 .. Len(q) : q[i] = <<"establish", c>>
    BY Zenon, <2>3, RangeIs
  <2>5. i < j
    BY <1>1, <1>5
  <2> QED
    BY Zenon, <1>2, <2>4, <2>5
<1>6. j <= Len(q) \/ j > Len(q)
  BY <1>1
<1> QED
  BY Zenon, <1>4, <1>5, <1>6

\* The order holds of further connections that no forceClose() is queued for.
LEMMA OrderChange ==
  ASSUME NEW S, NEW q \in Seq(S), NEW C, NEW D, Order(q, C),
         \A c \in D : c \in C \/ <<"forceClose", c>> \notin Range(q)
  PROVE  Order(q, D)
<1>1. \A j \in 1 .. Len(q) : q[j] \in Range(q)
  BY Zenon, RangeIs
<1> QED
  BY Zenon, <1>1 DEF Order

\* Listed() of a finite set holds its elements.
LEMMA ListedIs ==
  ASSUME NEW S, IsFiniteSet(S)
  PROVE  Listed(S) \in Seq(S) /\ \A x : x \in Range(Listed(S)) <=> x \in S
<1> DEFINE n == Cardinality(S)
<1>1. n \in Nat /\ \E s : s \in Bijection(1 .. n, S)
  BY Zenon, FS_CardinalityType DEF ExistsBijection
<1>2. Listed(S) \in Bijection(1 .. n, S)
  BY Zenon, <1>1 DEF Listed
<1>3. Listed(S) \in [1 .. n -> S] /\ \A x \in S : \E i \in 1 .. n : Listed(S)[i] = x
  BY Zenon, <1>2 DEF Bijection, Injection, Surjection
<1> HIDE DEF n
<1>4. Listed(S) \in Seq(S)
  BY <1>1, <1>3
<1>5. DOMAIN Listed(S) = 1 .. n
  BY Zenon, <1>3
<1> QED
  BY Zenon, <1>3, <1>4, <1>5 DEF Range

\* A function is queued that may be: what a queue holds after that.
LEMMA Enqueued ==
  ASSUME NEW fs \in [Loops -> Seq(Functors)], NEW l \in Loops, NEW f \in Functors,
         NEW st, NEW lp, OnceOK(fs), OrderOK(fs, st, lp),
         Single(f) => f \notin Range(fs[l]),
         \A c \in Conns : f # <<"forceClose", c>>
  PROVE  /\ Enqueue(fs, l, f) \in [Loops -> Seq(Functors)]
         /\ \A k \in Loops : \A g :
              g \in Range(Enqueue(fs, l, f)[k]) <=>
                g \in Range(fs[k]) \/ (k = l /\ g = f)
         /\ OnceOK(Enqueue(fs, l, f))
         /\ OrderOK(Enqueue(fs, l, f), st, lp)
<1> DEFINE es == Enqueue(fs, l, f)
<1>1. es \in [Loops -> Seq(Functors)] /\ es[l] = Append(fs[l], f)
      /\ \A k \in Loops : k # l => es[k] = fs[k]
  BY DEF Enqueue
<1>2. fs[l] \in Seq(Functors)
  BY Zenon
<1> HIDE DEF es
<1>3. \A g : g \in Range(es[l]) <=> g \in Range(fs[l]) \/ g = f
  BY Zenon, <1>1, <1>2, RangeAppend
<1>4. Once(es[l])
  BY Zenon, <1>1, <1>2, OnceAppend DEF OnceOK
<1>5. lp[l] # "gone" => Order(es[l], Connecting(st))
  BY <1>1, <1>2, OrderAppend DEF OrderOK, Connecting
<1>6. OnceOK(es) /\ OrderOK(es, st, lp)
  BY Zenon, <1>1, <1>4, <1>5 DEF OnceOK, OrderOK
<1>7. \A k \in Loops : \A g :
        g \in Range(es[k]) <=> g \in Range(fs[k]) \/ (k = l /\ g = f)
  BY Zenon, <1>1, <1>3
<1> QED
  BY Zenon, <1>1, <1>6, <1>7 DEF es

\* The first function of a queue is taken.
TakenFrom(fs, es, l) ==
  /\ es \in [Loops -> Seq(Functors)]
  /\ Head(fs[l]) \in Functors /\ Head(fs[l]) \in Range(fs[l])
  /\ \A k \in Loops : \A g :
       g \in Range(fs[k]) <=> g \in Range(es[k]) \/ (k = l /\ g = Head(fs[l]))
  /\ OnceOK(es)
  /\ Single(Head(fs[l])) => Head(fs[l]) \notin Range(es[l])

\* What is known of the queues when the loop takes the first function of one
LEMMA Popped ==
  ASSUME NEW fs \in [Loops -> Seq(Functors)], NEW l \in Loops, fs[l] # <<>>,
         OnceOK(fs), NEW es, es = [fs EXCEPT ![l] = Tail(@)]
  PROVE  TakenFrom(fs, es, l)
<1>1. fs[l] \in Seq(Functors)
  BY Zenon
<1>2. es \in [Loops -> Seq(Functors)] /\ es[l] = Tail(fs[l])
      /\ \A k \in Loops : k # l => es[k] = fs[k]
  BY <1>1
<1>3. /\ Head(fs[l]) \in Functors /\ Head(fs[l]) \in Range(fs[l])
      /\ \A g : g \in Range(fs[l]) <=> g \in Range(es[l]) \/ g = Head(fs[l])
  BY Zenon, <1>1, <1>2, RangeTail
<1>4. /\ Once(es[l])
      /\ Single(Head(fs[l])) => Head(fs[l]) \notin Range(es[l])
  BY Zenon, <1>1, <1>2, OnceTail DEF OnceOK
<1>5. OnceOK(es)
  BY Zenon, <1>2, <1>4 DEF OnceOK
<1> QED
  BY Zenon, <1>2, <1>3, <1>4, <1>5 DEF TakenFrom

\* The same of their order
LEMMA OrderPopped ==
  ASSUME NEW fs \in [Loops -> Seq(Functors)], NEW l \in Loops, fs[l] # <<>>,
         NEW es, es = [fs EXCEPT ![l] = Tail(@)], NEW st, NEW sn, NEW lp,
         OrderOK(fs, st, lp), Connecting(sn) \subseteq Connecting(st),
         \A c \in Connecting(sn) : Head(fs[l]) # <<"establish", c>>
  PROVE  OrderOK(es, sn, lp)
<1>1. \A k \in Loops : fs[k] \in Seq(Functors)
  BY Zenon
<1>2. es[l] = Tail(fs[l]) /\ \A k \in Loops : k # l => es[k] = fs[k]
  BY Zenon, <1>1
<1>3. lp[l] # "gone" => Order(es[l], Connecting(sn))
  BY ZenonT(30), <1>1, <1>2, OrderTail DEF OrderOK
<1>4. \A k \in Loops : k # l /\ lp[k] # "gone" => Order(es[k], Connecting(sn))
  BY Zenon, <1>1, <1>2, OrderChange DEF OrderOK
<1> QED
  BY Zenon, <1>3, <1>4 DEF OrderOK

\* What the loops and the set of connections are like when a connection c has
\* been closed
Closed(c) ==
  /\ aborted' = FALSE
  /\ connSet' \subseteq Conns
  /\ status' = [status EXCEPT ![c] = "closed"]
  /\ QueuesOK(funcs', connSet', loopOf, status', loop, spc)
  /\ ConnOK(connSet', loopOf, status')
  /\ spc \notin {"idle", "wait"} => MissesOnly({}, funcs', loopOf, status', loop)

\* handleCloseInLoop() of a connection of the set that no other call is queued for
LEMMA HandleCloses ==
  ASSUME TypeOK, NEW fs, QueuesOK(fs, connSet, loopOf, status, loop, spc),
         ConnOK(connSet, loopOf, status), NEW c \in Conns, c \in connSet,
         status[c] \in {"up", "closed"}, <<"close", c>> \notin Range(fs[Base]),
         spc \notin {"idle", "wait"} => MissesOnly({c}, fs, loopOf, status, loop),
         HandleClose(c, fs)
  PROVE  Closed(c)
<1> DEFINE f == <<"destroy", c>>
<1>1. f \in Functors /\ loopOf[c] \in Loops /\ Base \in Loops
  BY Zenon DEF Functors, TypeOK, Loops
<1>2. ~Single(f) /\ \A d \in Conns : f # <<"forceClose", d>>
  BY Zenon DEF Single
<1>3. /\ connSet' = connSet \ {c} /\ aborted' = FALSE
      /\ status' = [status EXCEPT ![c] = "closed"]
      /\ funcs' = Enqueue(fs, loopOf[c], f)
  BY Zenon DEF HandleClose
<1>4. /\ status'[c] = "closed" /\ \A d \in Conns : d # c => status'[d] = status[d]
      /\ Connecting(status') = Connecting(status)
  BY Zenon, <1>3 DEF TypeOK, Connecting
<1>5. /\ funcs' \in [Loops -> Seq(Functors)]
      /\ \A k \in Loops : \A g :
           g \in Range(funcs'[k]) <=> g \in Range(fs[k]) \/ (k = loopOf[c] /\ g = f)
      /\ OnceOK(funcs') /\ OrderOK(funcs', status, loop)
  <2>1. fs \in [Loops -> Seq(Functors)] /\ OnceOK(fs) /\ OrderOK(fs, status, loop)
    BY Zenon DEF QueuesOK
  <2> HIDE DEF f
  <2> QED
    BY Zenon, <1>1, <1>2, <1>3, <2>1, Enqueued
<1>6. OrderOK(funcs', status', loop)
  BY Zenon, <1>4, <1>5 DEF OrderOK
<1>7. FuncsOK(funcs', connSet', loopOf, status', spc)
  <2> SUFFICES ASSUME NEW k \in Loops, NEW g \in Range(funcs'[k])
               PROVE  FuncOK(k, g, connSet', loopOf, status', spc)
    BY Zenon DEF FuncsOK
  <2>1. CASE g \in Range(fs[k])
    <3>1. FuncOK(k, g, connSet, loopOf, status, spc)
      BY Zenon, <2>1 DEF QueuesOK, FuncsOK
    <3>2. g # <<"close", c>>
      BY Zenon, <2>1, <3>1 DEF FuncOK
    <3> QED
      BY Zenon, <1>3, <1>4, <3>1, <3>2 DEF FuncOK
  <2>2. CASE k = loopOf[c] /\ g = f
    BY Zenon, <1>3, <1>4, <2>2 DEF FuncOK
  <2> QED
    BY Zenon, <1>5, <2>1, <2>2
<1>8. PresentOK(funcs', loopOf, status', loop)
  BY Zenon, <1>4, <1>5 DEF PresentOK, QueuesOK, TypeOK
<1>9. ConnOK(connSet', loopOf, status')
  BY Zenon, <1>3, <1>4 DEF ConnOK
<1>10. spc \notin {"idle", "wait"} => MissesOnly({}, funcs', loopOf, status', loop)
  BY Zenon, <1>4, <1>5 DEF MissesOnly, TypeOK
<1> QED
  BY Zenon, <1>3, <1>5, <1>6, <1>7, <1>8, <1>9, <1>10 DEF Closed, QueuesOK, TypeOK

\* handleClose() of a connection that is up
LEMMA Closes ==
  ASSUME TypeOK, aborted = FALSE, NEW fs,
         QueuesOK(fs, connSet, loopOf, status, loop, spc),
         ConnOK(connSet, loopOf, status), NEW c \in Conns, status[c] = "up",
         spc \notin {"idle", "wait"} => MissesOnly({c}, fs, loopOf, status, loop),
         Close(c, fs)
  PROVE  Closed(c)
<1>1. c \in connSet /\ Base \in Loops
  BY Zenon DEF ConnOK, Loops
<1>2. <<"close", c>> \notin Range(fs[Base])
  BY ZenonT(30), <1>1 DEF QueuesOK, FuncsOK, FuncOK
<1>3. CASE loopOf[c] = Base
  BY Zenon, <1>1, <1>2, <1>3, HandleCloses DEF Close
<1>4. CASE loopOf[c] # Base
  <2> DEFINE f == <<"close", c>>
  <2>1. f \in Functors
    BY Zenon DEF Functors
  <2>2. \A d \in Conns : f # <<"forceClose", d>>
    BY Zenon
  <2>3. /\ connSet' = connSet /\ aborted' = FALSE
        /\ status' = [status EXCEPT ![c] = "closed"]
        /\ funcs' = Enqueue(fs, Base, f)
    BY Zenon, <1>4 DEF Close
  <2>4. /\ status'[c] = "closed" /\ \A d \in Conns : d # c => status'[d] = status[d]
        /\ Connecting(status') = Connecting(status)
    BY Zenon, <2>3 DEF TypeOK, Connecting
  <2>5. /\ funcs' \in [Loops -> Seq(Functors)]
        /\ \A k \in Loops : \A g :
             g \in Range(funcs'[k]) <=> g \in Range(fs[k]) \/ (k = Base /\ g = f)
        /\ OnceOK(funcs') /\ OrderOK(funcs', status, loop)
    BY ZenonT(30), <1>1, <1>2, <2>1, <2>2, <2>3, Enqueued DEF QueuesOK
  <2>6. OrderOK(funcs', status', loop)
    BY Zenon, <2>4, <2>5 DEF OrderOK
  <2>7. FuncsOK(funcs', connSet', loopOf, status', spc)
    <3> SUFFICES ASSUME NEW k \in Loops, NEW g \in Range(funcs'[k])
                 PROVE  FuncOK(k, g, connSet', loopOf, status', spc)
      BY Zenon DEF FuncsOK
    <3>1. CASE g \in Range(fs[k])
      <4>1. FuncOK(k, g, connSet, loopOf, status, spc)
        BY Zenon, <3>1 DEF QueuesOK, FuncsOK
      <4> QED
        BY Zenon, <2>3, <2>4, <4>1 DEF FuncOK
    <3>2. CASE k = Base /\ g = f
      BY Zenon, <1>1, <2>3, <2>4, <3>2 DEF FuncOK
    <3> QED
      BY Zenon, <2>5, <3>1, <3>2
  <2>8. PresentOK(funcs', loopOf, status', loop)
    BY Zenon, <2>4, <2>5 DEF PresentOK, QueuesOK, TypeOK
  <2>9. ConnOK(connSet', loopOf, status')
    BY Zenon, <2>3, <2>4 DEF ConnOK
  <2>10. spc \notin {"idle", "wait"} => MissesOnly({}, funcs', loopOf, status', loop)
    BY Zenon, <2>4, <2>5 DEF MissesOnly, TypeOK
  <2> QED
    BY Zenon, <2>3, <2>5, <2>6, <2>7, <2>8, <2>9, <2>10 DEF Closed, QueuesOK, TypeOK
<1> QED
  BY Zenon, <1>3, <1>4

\* A call for each of some connections
LEMMA CallsAre ==
  ASSUME NEW op \in {"destroy", "forceClose"}, NEW C \in SUBSET Conns
  PROVE  /\ Listed({<<op, c>> : c \in C}) \in Seq(Functors)
         /\ \A g : g \in Range(Listed({<<op, c>> : c \in C})) <=>
                     \E c \in C : g = <<op, c>>
<1> DEFINE T == {<<op, c>> : c \in C}
           F == [c \in C |-> <<op, c>>]
<1>1. IsFiniteSet(C)
  <2>1. IsFiniteSet(1 .. MaxConns)
    BY ConnsAssumption, FS_Interval
  <2> QED
    BY Zenon, <2>1, FS_Subset DEF Conns
<1>2. F \in Surjection(C, T)
  BY Zenon DEF Surjection
<1>3. IsFiniteSet(T)
  BY Zenon, <1>1, <1>2, FS_Surjection
<1>4. T \subseteq Functors
  BY DEF Functors
<1>5. Listed(T) \in Seq(T) /\ \A x : x \in Range(Listed(T)) <=> x \in T
  BY Zenon, <1>3, ListedIs
<1>6. Listed(T) \in Seq(Functors)
  BY <1>4, <1>5
<1> QED
  BY Zenon, <1>5, <1>6

\* The part of stop() that runs in the loop of the server
LEMMA ClosesAll ==
  ASSUME TypeOK, NEW fs, QueuesOK(fs, connSet, loopOf, status, loop, spc),
         ConnOK(connSet, loopOf, status), \A l \in Loops : loop[l] # "gone",
         <<"closeAll">> \notin Range(fs[Base]), CloseAll(fs)
  PROVE  /\ acceptor' = FALSE /\ connSet' \subseteq Conns
         /\ status' \in [Conns -> {"none", "connecting", "up", "closed", "destroyed"}]
         /\ \A c \in Conns : \/ status'[c] = status[c]
                             \/ status[c] = "up" /\ status'[c] = "closed"
         /\ QueuesOK(funcs', connSet', loopOf, status', loop, "pool")
         /\ ConnOK(connSet', loopOf, status')
         /\ MissesOnly({}, funcs', loopOf, status', loop)
<1> DEFINE here == {c \in connSet : loopOf[c] = Base /\ status[c] = "up"}
           there(l) == {c \in connSet : loopOf[c] = l}
           calls(l) == Listed(IF l = Base THEN {<<"destroy", c>> : c \in here}
                              ELSE {<<"forceClose", c>> : c \in there(l)})
<1>1. /\ acceptor' = FALSE
      /\ connSet' = connSet \ here
      /\ status' = [c \in Conns |-> IF c \in here THEN "closed" ELSE status[c]]
      /\ funcs' = [l \in Loops |-> fs[l] \o calls(l)]
  BY Zenon DEF CloseAll
<1>2. here \subseteq Conns /\ \A l \in Loops : there(l) \subseteq Conns
  BY Zenon DEF TypeOK
<1>3. calls(Base) \in Seq(Functors)
      /\ \A g : g \in Range(calls(Base)) <=> \E c \in here : g = <<"destroy", c>>
  BY Zenon, <1>2, CallsAre
<1>4. ASSUME NEW l \in Loops, l # Base
      PROVE  calls(l) \in Seq(Functors)
             /\ \A g : g \in Range(calls(l)) <=>
                         \E c \in there(l) : g = <<"forceClose", c>>
  <2>1. calls(l) = Listed({<<"forceClose", c>> : c \in there(l)})
    BY Zenon, <1>4
  <2>2. there(l) \in SUBSET Conns
    BY Zenon, <1>2
  <2> HIDE DEF calls, there
  <2> QED
    BY Zenon, <2>1, <2>2, CallsAre
<1>5. Base \in Loops /\ fs \in [Loops -> Seq(Functors)]
  BY Zenon DEF Loops, QueuesOK
<1>6. \A l \in Loops : calls(l) \in Seq(Functors) /\ fs[l] \in Seq(Functors)
  BY Zenon, <1>3, <1>4, <1>5
<1> HIDE DEF calls
<1>7. funcs' \in [Loops -> Seq(Functors)]
  BY Zenon, <1>1, <1>6, RangeJoin
<1>8. \A l \in Loops : \A g : g \in Range(funcs'[l]) <=>
                                g \in Range(fs[l]) \/ g \in Range(calls(l))
  BY Zenon, <1>1, <1>6, RangeJoin
<1>9. \A c \in Conns : /\ c \in here => status'[c] = "closed"
                       /\ c \notin here => status'[c] = status[c]
  BY Zenon, <1>1
<1>10. Connecting(status') = Connecting(status)
  BY Zenon, <1>9 DEF Connecting
<1>11. FuncsOK(funcs', connSet', loopOf, status', "pool")
  <2> SUFFICES ASSUME NEW k \in Loops, NEW g \in Range(funcs'[k])
               PROVE  FuncOK(k, g, connSet', loopOf, status', "pool")
    BY Zenon DEF FuncsOK
  <2>1. CASE g \in Range(fs[k])
    <3>1. FuncOK(k, g, connSet, loopOf, status, spc)
      BY Zenon, <2>1 DEF QueuesOK, FuncsOK
    <3>2. g # <<"closeAll">>
      BY Zenon, <2>1, <3>1 DEF FuncOK
    <3>3. \A c \in here : g # <<"close", c>> /\ g # <<"establish", c>>
      BY Zenon, <3>1, <1>2 DEF FuncOK
    <3> QED
      BY Zenon, <1>1, <1>9, <3>1, <3>2, <3>3 DEF FuncOK
  <2>2. CASE g \in Range(calls(k)) /\ k = Base
    <3>1. PICK c \in here : g = <<"destroy", c>>
      BY Zenon, <1>3, <2>2
    <3>2. c \in Conns /\ c \notin connSet' /\ status'[c] = "closed" /\ loopOf[c] = k
      BY Zenon, <1>1, <1>2, <1>9, <2>2
    <3> QED
      BY Zenon, <3>1, <3>2 DEF FuncOK
  <2>3. CASE g \in Range(calls(k)) /\ k # Base
    <3>1. PICK c \in there(k) : g = <<"forceClose", c>>
      BY <1>4, <2>3
    <3>2. c \in Conns /\ c \in connSet /\ status'[c] # "none"
      BY Zenon, <1>2, <1>9, <2>3 DEF ConnOK
    <3> QED
      BY Zenon, <3>1, <3>2 DEF FuncOK
  <2> QED
    BY Zenon, <1>8, <2>1, <2>2, <2>3
<1>12. OnceOK(funcs')
  <2> SUFFICES ASSUME NEW l \in Loops PROVE Once(fs[l] \o calls(l))
    BY Zenon, <1>1 DEF OnceOK
  <2>1. \A g \in Range(calls(l)) : ~Single(g)
    BY <1>3, <1>4 DEF Single
  <2> QED
    BY Zenon, <1>6, <2>1, OnceJoin DEF QueuesOK, OnceOK
<1>13. OrderOK(funcs', status', loop)
  <2> SUFFICES ASSUME NEW l \in Loops
               PROVE  Order(fs[l] \o calls(l), Connecting(status))
    BY Zenon, <1>1, <1>10 DEF OrderOK
  <2>1. ASSUME NEW c \in Connecting(status), <<"forceClose", c>> \in Range(calls(l))
        PROVE  <<"establish", c>> \in Range(fs[l])
    <3>1. loopOf[c] = l
      <4>1. CASE l = Base
        BY <1>3, <2>1, <4>1
      <4>2. CASE l # Base
        BY <1>4, <2>1, <4>2
      <4> QED
        BY Zenon, <4>1, <4>2
    <3> QED
      BY Zenon, <3>1 DEF QueuesOK, PresentOK, Connecting
  <2>2. Order(fs[l], Connecting(status))
    BY Zenon DEF QueuesOK, OrderOK
  <2> QED
    BY <1>6, <2>1, <2>2, OrderJoin
<1>14. PresentOK(funcs', loopOf, status', loop)
  BY ZenonT(30), <1>8, <1>9 DEF PresentOK, QueuesOK, TypeOK
<1>15. ConnOK(connSet', loopOf, status')
  BY Zenon, <1>1, <1>9 DEF ConnOK
<1>16. MissesOnly({}, funcs', loopOf, status', loop)
  <2> SUFFICES ASSUME NEW c \in Conns, status'[c] \in {"connecting", "up"}
               PROVE  <<"forceClose", c>> \in Range(funcs'[loopOf[c]])
    BY Zenon DEF MissesOnly
  <2>1. c \notin here /\ status'[c] = status[c] /\ c \in connSet
    BY Zenon, <1>9 DEF ConnOK
  <2>2. loopOf[c] # Base
    BY Zenon, <2>1 DEF ConnOK
  <2>3. loopOf[c] \in Loops /\ c \in there(loopOf[c])
    BY Zenon, <2>1 DEF TypeOK
  <2> QED
    BY Zenon, <1>4, <1>8, <2>2, <2>3
<1> QED
  BY Zenon, <1>1, <1>7, <1>9, <1>11, <1>12, <1>13, <1>14, <1>15, <1>16 DEF QueuesOK, TypeOK

-----------------------------------------------------------------------------
(* The steps of the loops                                                  *)

\* newConnection()
LEMMA NewStep ==
  ASSUME ServerInv, NEW c \in Conns, NewConnection(c)
  PROVE  ServerInv'
<1> DEFINE l == IoLoops[nextLoopIdx]
           f == <<"establish", c>>
           fresh == IF l = Base THEN "up" ELSE "connecting"
<1>1. l \in Loops /\ Base \in Loops /\ nextLoopIdx' \in 1 .. Len(IoLoops)
  BY LoopsAssumption DEF ServerInv, TypeOK, Loops, NewConnection, NextIdx, Range
<1>2. /\ connSet' = connSet \cup {c} /\ status[c] = "none" /\ acceptor = TRUE
      /\ loopOf' = [loopOf EXCEPT ![c] = l]
      /\ status' = [status EXCEPT ![c] = fresh]
      /\ active' = [active EXCEPT ![Base] = @ \ {Accept}]
      /\ IF l = Base THEN funcs' = funcs ELSE funcs' = Enqueue(funcs, l, f)
      /\ acceptor' = acceptor /\ loop' = loop /\ stopper' = stopper /\ spc' = spc
      /\ idx' = idx /\ wheels' = wheels /\ aborted' = aborted
  BY Zenon DEF NewConnection, stopVars, ServerInv, TypeOK
<1> HIDE DEF l
<1>3. /\ status'[c] = fresh /\ loopOf'[c] = l
      /\ \A d \in Conns : d # c => status'[d] = status[d] /\ loopOf'[d] = loopOf[d]
  BY Zenon, <1>2 DEF ServerInv, TypeOK
<1>4. spc \in {"idle", "wait"}
  BY Zenon, <1>2 DEF ServerInv, StopOK
<1>5. TypeOK' /\ idx' \in Nat /\ aborted' = FALSE
  BY Zenon, <1>1, <1>2 DEF ServerInv, TypeOK
<1>6. \A k \in Loops : \A g \in Range(funcs[k]) :
        FuncOK(k, g, connSet, loopOf, status, spc)
  BY Zenon DEF ServerInv, QueuesOK, FuncsOK
<1>7. \A k \in Loops :
        {f, <<"forceClose", c>>, <<"close", c>>, <<"destroy", c>>} \cap Range(funcs[k]) = {}
  BY ZenonT(30), <1>2, <1>6 DEF FuncOK
<1>8. /\ funcs \in [Loops -> Seq(Functors)] /\ OnceOK(funcs)
      /\ OrderOK(funcs, status, loop) /\ PresentOK(funcs, loopOf, status, loop)
  BY Zenon DEF ServerInv, QueuesOK
<1>9. /\ funcs' \in [Loops -> Seq(Functors)]
      /\ \A k \in Loops : \A g :
           g \in Range(funcs'[k]) <=>
             g \in Range(funcs[k]) \/ (l # Base /\ k = l /\ g = f)
      /\ OnceOK(funcs') /\ OrderOK(funcs', status, loop)
  <2>1. f \in Functors /\ f \notin Range(funcs[l])
        /\ \A d \in Conns : f # <<"forceClose", d>>
    BY Zenon, <1>1, <1>7 DEF Functors
  <2> HIDE DEF f
  <2>2. CASE l = Base
    BY Zenon, <1>2, <1>8, <2>2
  <2>3. CASE l # Base
    <3>1. funcs' = Enqueue(funcs, l, f)
      BY Zenon, <1>2, <2>3
    <3>2. /\ Enqueue(funcs, l, f) \in [Loops -> Seq(Functors)]
          /\ \A k \in Loops : \A g :
               g \in Range(Enqueue(funcs, l, f)[k]) <=>
                 g \in Range(funcs[k]) \/ (k = l /\ g = f)
          /\ OnceOK(Enqueue(funcs, l, f))
          /\ OrderOK(Enqueue(funcs, l, f), status, loop)
      BY Zenon, <1>1, <1>8, <2>1, Enqueued
    <3> QED
      BY Zenon, <2>3, <3>1, <3>2
  <2> QED
    BY Zenon, <2>2, <2>3
<1>10. FuncsOK(funcs', connSet', loopOf', status', spc')
  <2> SUFFICES ASSUME NEW k \in Loops, NEW g \in Range(funcs'[k])
               PROVE  FuncOK(k, g, connSet', loopOf', status', spc')
    BY Zenon DEF FuncsOK
  <2>1. CASE g \in Range(funcs[k])
    <3>1. FuncOK(k, g, connSet, loopOf, status, spc)
      BY Zenon, <1>6, <2>1
    <3>2. g \notin {f, <<"forceClose", c>>, <<"close", c>>, <<"destroy", c>>}
      BY Zenon, <1>7, <2>1
    <3> QED
      BY ZenonT(30), <1>2, <1>3, <3>1, <3>2 DEF FuncOK
  <2>2. CASE l # Base /\ k = l /\ g = f
    BY Zenon, <1>2, <1>3, <2>2 DEF FuncOK
  <2> QED
    BY <1>9, <2>1, <2>2
<1>11. OrderOK(funcs', status', loop')
  <2> SUFFICES ASSUME NEW k \in Loops, loop[k] # "gone"
               PROVE  Order(funcs'[k], Connecting(status'))
    BY Zenon, <1>2 DEF OrderOK
  <2>1. Order(funcs'[k], Connecting(status)) /\ funcs'[k] \in Seq(Functors)
    BY Zenon, <1>9 DEF OrderOK
  <2>2. \A d \in Connecting(status') : d \in Connecting(status) \/ d = c
    BY Zenon, <1>3 DEF Connecting
  <2>3. <<"forceClose", c>> \notin Range(funcs'[k])
    BY <1>7, <1>9
  <2> QED
    BY Zenon, <2>1, <2>2, <2>3, OrderChange
<1>12. PresentOK(funcs', loopOf', status', loop')
  <2> SUFFICES ASSUME NEW d \in Conns, status'[d] = "connecting",
                      loop'[loopOf'[d]] # "gone"
               PROVE  <<"establish", d>> \in Range(funcs'[loopOf'[d]])
    BY Zenon DEF PresentOK
  <2>1. CASE d = c
    BY Zenon, <1>1, <1>3, <1>9, <2>1
  <2>2. CASE d # c
    BY Zenon, <1>2, <1>3, <1>8, <1>9, <2>2 DEF PresentOK, ServerInv, TypeOK
  <2> QED
    BY Zenon, <2>1, <2>2
<1>13. ConnOK(connSet', loopOf', status')
  BY <1>2, <1>3 DEF ServerInv, ConnOK
<1>14. ActiveOK(active', loopOf', status')
  <2>1. \A k \in Loops : active'[k] \subseteq active[k]
    BY Zenon, <1>2 DEF ServerInv, TypeOK
  <2>2. \A k \in Loops : c \notin active[k]
    BY Zenon, <1>2 DEF ServerInv, ActiveOK
  <2> QED
    BY <1>3, <2>1, <2>2 DEF ServerInv, ActiveOK
<1>15. StopOK(spc', acceptor', loop', idx')
  BY Zenon, <1>2 DEF ServerInv, StopOK
<1> QED
  BY Zenon, <1>2, <1>4, <1>5, <1>9, <1>10, <1>11, <1>12, <1>13, <1>14, <1>15
     DEF ServerInv, QueuesOK

\* A connection is closed in a step that leaves the rest as it is.
LEMMA ClosedStep ==
  ASSUME ServerInv, NEW c \in Conns, status[c] \in {"up", "closed"}, Closed(c),
         active' \in [Loops -> SUBSET (Conns \cup {Accept})],
         \A l \in Loops : active'[l] \subseteq active[l],
         UNCHANGED <<acceptor, nextLoopIdx, loopOf, loop, stopVars>>
  PROVE  ServerInv'
<1>1. /\ acceptor' = acceptor /\ nextLoopIdx' = nextLoopIdx /\ loopOf' = loopOf
      /\ loop' = loop /\ stopper' = stopper /\ spc' = spc /\ idx' = idx
      /\ wheels' = wheels
  BY Zenon DEF stopVars
<1>2. /\ aborted' = FALSE /\ connSet' \subseteq Conns
      /\ status' = [status EXCEPT ![c] = "closed"]
  BY Zenon DEF Closed
<1>3. TypeOK' /\ idx' \in Nat
  BY Zenon, <1>1, <1>2 DEF ServerInv, TypeOK
<1>4. \A d \in Conns : status'[d] = status[d] \/ (d = c /\ status'[d] = "closed")
  BY Zenon, <1>2 DEF ServerInv, TypeOK
<1>5. ActiveOK(active', loopOf', status')
  BY ZenonT(30), <1>1, <1>4 DEF ServerInv, ActiveOK
<1>6. StopOK(spc', acceptor', loop', idx')
  BY Zenon, <1>1 DEF ServerInv
<1> QED
  BY Zenon, <1>1, <1>2, <1>3, <1>5, <1>6 DEF ServerInv, Closed

\* handleEvent() of a connection
LEMMA EventStep ==
  ASSUME ServerInv, NEW l \in Loops, NEW c \in Conns, HandleEvent(l, c)
  PROVE  ServerInv'
<1>1. /\ active' = [active EXCEPT ![l] = @ \ {c}]
      /\ UNCHANGED <<acceptor, nextLoopIdx, loopOf, loop, stopVars>>
  BY Zenon DEF HandleEvent
<1>2. /\ active' \in [Loops -> SUBSET (Conns \cup {Accept})]
      /\ \A k \in Loops : active'[k] \subseteq active[k]
  BY Zenon, <1>1 DEF ServerInv, TypeOK
<1>3. CASE status[c] = "up" /\ Close(c, funcs)
  <2>1. MissesOnly({}, funcs, loopOf, status, loop) =>
          MissesOnly({c}, funcs, loopOf, status, loop)
    BY Zenon DEF MissesOnly
  <2>2. Closed(c)
    BY Zenon, <1>3, <2>1, Closes DEF ServerInv
  <2> QED
    BY Zenon, <1>1, <1>2, <1>3, <2>2, ClosedStep
<1>4. CASE UNCHANGED <<connSet, aborted, status, funcs>>
  <2>1. TypeOK'
    BY Zenon, <1>1, <1>2, <1>4 DEF ServerInv, TypeOK, stopVars
  <2>2. ActiveOK(active', loopOf', status')
    BY Zenon, <1>1, <1>2, <1>4 DEF ServerInv, ActiveOK
  <2> QED
    BY Zenon, <1>1, <1>4, <2>1, <2>2 DEF ServerInv, stopVars
<1> QED
  BY Zenon, <1>3, <1>4 DEF HandleEvent

\* The user closes a connection.
LEMMA ForceStep ==
  ASSUME ServerInv, NEW c \in Conns, ForceCloseInLoop(c)
  PROVE  ServerInv'
<1>1. /\ status[c] = "up" /\ Close(c, funcs) /\ active' = active
      /\ UNCHANGED <<acceptor, nextLoopIdx, loopOf, loop, stopVars>>
  BY Zenon DEF ForceCloseInLoop, ForceClose
<1>2. MissesOnly({}, funcs, loopOf, status, loop) =>
        MissesOnly({c}, funcs, loopOf, status, loop)
  BY Zenon DEF MissesOnly
<1>3. Closed(c)
  BY Zenon, <1>1, <1>2, Closes DEF ServerInv
<1> QED
  BY Zenon, <1>1, <1>3, ClosedStep DEF ServerInv, TypeOK

\* The shape of a queued function
LEMMA ShapesAre ==
  ASSUME NEW f \in Functors
  PROVE  /\ f[1] \in {"establish", "forceClose", "close", "destroy"} =>
              f[2] \in Conns /\ f = <<f[1], f[2]>>
         /\ f[1] = "closeAll" => f = <<"closeAll">>
         /\ f[1] = "wheel" => \E k \in Loops : f = <<"wheel", k>>
BY DEF Functors

\* What holds of the queues when the first function of the loop l has been
\* taken and has not run.
LEMMA Taken ==
  ASSUME ServerInv, NEW l \in Loops, funcs[l] # <<>>, NEW fs,
         fs = [funcs EXCEPT ![l] = Tail(@)]
  PROVE  /\ TakenFrom(funcs, fs, l)
         /\ FuncOK(l, Head(funcs[l]), connSet, loopOf, status, spc)
         /\ FuncsOK(fs, connSet, loopOf, status, spc)
<1>1. funcs \in [Loops -> Seq(Functors)] /\ OnceOK(funcs)
  BY Zenon DEF ServerInv, QueuesOK
<1>2. TakenFrom(funcs, fs, l)
  BY Zenon, <1>1, Popped
<1>3. \A k \in Loops : \A g \in Range(funcs[k]) :
        FuncOK(k, g, connSet, loopOf, status, spc)
  BY Zenon DEF ServerInv, QueuesOK, FuncsOK
<1>4. FuncsOK(fs, connSet, loopOf, status, spc)
  BY Zenon, <1>2, <1>3 DEF FuncsOK, TakenFrom
<1> QED
  BY Zenon, <1>2, <1>3, <1>4 DEF TakenFrom

\* A function other than connectEstablished() is taken: the conditions on the
\* queues stay, and stop() misses no connection but the one that is closed.
LEMMA TakenQueues ==
  ASSUME ServerInv, NEW l \in Loops, funcs[l] # <<>>, NEW fs,
         fs = [funcs EXCEPT ![l] = Tail(@)],
         \A c \in Conns : Head(funcs[l]) # <<"establish", c>>
  PROVE  /\ QueuesOK(fs, connSet, loopOf, status, loop, spc)
         /\ \A D : (\A c \in Conns \ D : Head(funcs[l]) # <<"forceClose", c>>) =>
                     (spc \notin {"idle", "wait"} =>
                        MissesOnly(D, fs, loopOf, status, loop))
<1>1. TakenFrom(funcs, fs, l) /\ FuncsOK(fs, connSet, loopOf, status, spc)
  BY Zenon, Taken
<1>2. OrderOK(fs, status, loop)
  <2>1. funcs \in [Loops -> Seq(Functors)] /\ OrderOK(funcs, status, loop)
    BY Zenon DEF ServerInv, QueuesOK
  <2>2. \A c \in Connecting(status) : Head(funcs[l]) # <<"establish", c>>
    BY Zenon DEF Connecting
  <2> QED
    BY Zenon, <2>1, <2>2, OrderPopped
<1>3. \A c \in Conns : loopOf[c] \in Loops
  BY Zenon DEF ServerInv, TypeOK
<1>4. PresentOK(fs, loopOf, status, loop)
  BY Zenon, <1>1, <1>3 DEF ServerInv, QueuesOK, PresentOK, TakenFrom
<1>5. ASSUME NEW D, \A c \in Conns \ D : Head(funcs[l]) # <<"forceClose", c>>,
             spc \notin {"idle", "wait"}
      PROVE  MissesOnly(D, fs, loopOf, status, loop)
  <2>1. MissesOnly({}, funcs, loopOf, status, loop)
    BY Zenon, <1>5 DEF ServerInv
  <2> QED
    BY Zenon, <1>1, <1>3, <1>5, <2>1 DEF MissesOnly, TakenFrom
<1> QED
  BY Zenon, <1>1, <1>2, <1>4, <1>5 DEF QueuesOK, TakenFrom

\* connectEstablished(), connectDestroyed() and the reset of a wheel in their
\* loop
LEMMA RunQuiet ==
  ASSUME ServerInv, NEW l \in Loops, RunFunc(l),
         Head(funcs[l])[1] \in {"establish", "destroy", "wheel"}
  PROVE  ServerInv'
<1> DEFINE h == Head(funcs[l])
           fs == [funcs EXCEPT ![l] = Tail(@)]
<1>1. funcs[l] # <<>> /\ active[l] = {}
  BY Zenon DEF RunFunc
<1>2. /\ acceptor' = acceptor /\ nextLoopIdx' = nextLoopIdx /\ loopOf' = loopOf
      /\ connSet' = connSet /\ aborted' = aborted /\ active' = active
      /\ loop' = loop /\ stopper' = stopper /\ spc' = spc /\ idx' = idx
      /\ wheels' \subseteq wheels /\ funcs' = fs
      /\ h[1] = "establish" => status' = [status EXCEPT ![h[2]] = "up"]
      /\ h[1] = "destroy" => status' = [status EXCEPT ![h[2]] = "destroyed"]
      /\ h[1] = "wheel" => status' = status
  BY Zenon DEF RunFunc
<1> HIDE DEF fs
<1>3. /\ TakenFrom(funcs, fs, l) /\ FuncOK(l, h, connSet, loopOf, status, spc)
      /\ FuncsOK(fs, connSet, loopOf, status, spc)
  BY Zenon, <1>1, Taken DEF fs
<1>4. /\ h \in Functors /\ fs \in [Loops -> Seq(Functors)] /\ OnceOK(fs)
      /\ \A k \in Loops : \A g :
           g \in Range(funcs[k]) <=> g \in Range(fs[k]) \/ (k = l /\ g = h)
      /\ Single(h) => h \notin Range(fs[l])
  BY Zenon, <1>3 DEF TakenFrom
<1>5. StopOK(spc', acceptor', loop', idx') /\ idx' \in Nat /\ aborted' = FALSE
  BY Zenon, <1>2 DEF ServerInv
<1>6. CASE h[1] = "establish"
  <2> DEFINE c == h[2]
  <2>1. c \in Conns /\ h = <<"establish", c>>
    BY Zenon, <1>3, <1>4, <1>6, ShapesAre
  <2> HIDE DEF h, c
  <2>2. loopOf[c] = l /\ status[c] = "connecting"
    BY Zenon, <1>3, <1>4, <2>1 DEF FuncOK
  <2>3. status' = [status EXCEPT ![c] = "up"]
    BY Zenon, <1>2, <1>6 DEF c
  <2>4. /\ status'[c] = "up" /\ \A d \in Conns : d # c => status'[d] = status[d]
    BY Zenon, <2>1, <2>3 DEF ServerInv, TypeOK
  <2>5. TypeOK'
    BY Zenon, <1>2, <2>1, <2>3 DEF ServerInv, TypeOK
  <2>6. \A k \in Loops : h \notin Range(fs[k])
    <3>1. h \notin Range(fs[l])
      BY Zenon, <1>3, <1>4, <2>1 DEF Single
    <3>2. \A k \in Loops : k # l => h \notin Range(fs[k])
      BY <1>3, <1>4, <2>1, <2>2 DEF FuncsOK, FuncOK
    <3> QED
      BY Zenon, <3>1, <3>2
  <2>7. FuncsOK(fs, connSet, loopOf, status', spc)
    <3> SUFFICES ASSUME NEW k \in Loops, NEW g \in Range(fs[k])
                 PROVE  FuncOK(k, g, connSet, loopOf, status', spc)
      BY Zenon DEF FuncsOK
    <3>1. FuncOK(k, g, connSet, loopOf, status, spc) /\ g # h
      BY Zenon, <1>3, <1>4, <2>6 DEF FuncsOK
    <3> QED
      BY Zenon, <2>1, <2>2, <2>4, <3>1 DEF FuncOK
  <2>8. OrderOK(fs, status', loop)
    <3>1. funcs \in [Loops -> Seq(Functors)] /\ OrderOK(funcs, status, loop)
      BY Zenon DEF ServerInv, QueuesOK
    <3>2. /\ Connecting(status') \subseteq Connecting(status)
          /\ \A d \in Connecting(status') : h # <<"establish", d>>
      BY Zenon, <2>1, <2>4 DEF Connecting
    <3> QED
      BY Zenon, <1>1, <3>1, <3>2, OrderPopped DEF fs, h
  <2>9. PresentOK(fs, loopOf, status', loop)
    <3> SUFFICES ASSUME NEW d \in Conns, status'[d] = "connecting",
                        loop[loopOf[d]] # "gone"
                 PROVE  <<"establish", d>> \in Range(fs[loopOf[d]])
      BY Zenon DEF PresentOK
    <3>1. d # c /\ status[d] = "connecting" /\ loopOf[d] \in Loops
      BY Zenon, <2>4 DEF ServerInv, TypeOK
    <3>2. <<"establish", d>> \in Range(funcs[loopOf[d]]) /\ h # <<"establish", d>>
      BY Zenon, <2>1, <3>1 DEF ServerInv, QueuesOK, PresentOK
    <3> QED
      BY Zenon, <1>4, <3>1, <3>2
  <2>10. ConnOK(connSet, loopOf, status')
    BY Zenon, <2>2, <2>4 DEF ServerInv, ConnOK
  <2>11. ActiveOK(active, loopOf, status')
    BY ZenonT(30), <2>2, <2>4 DEF ServerInv, ActiveOK
  <2>12. ASSUME spc \notin {"idle", "wait"}
         PROVE  MissesOnly({}, fs, loopOf, status', loop)
    <3>1. MissesOnly({}, funcs, loopOf, status, loop)
      BY Zenon, <2>12 DEF ServerInv
    <3> SUFFICES ASSUME NEW d \in Conns, status'[d] \in {"connecting", "up"},
                        loop[loopOf[d]] # "gone"
                 PROVE  <<"forceClose", d>> \in Range(fs[loopOf[d]])
      BY Zenon DEF MissesOnly
    <3>2. status[d] \in {"connecting", "up"} /\ loopOf[d] \in Loops
      BY Zenon, <2>2, <2>4 DEF ServerInv, TypeOK
    <3>3. <<"forceClose", d>> \in Range(funcs[loopOf[d]]) /\ h # <<"forceClose", d>>
      BY Zenon, <2>1, <3>1, <3>2 DEF MissesOnly
    <3> QED
      BY Zenon, <1>4, <3>2, <3>3
  <2> QED
    BY Zenon, <1>2, <1>3, <1>4, <1>5, <2>5, <2>7, <2>8, <2>9, <2>10, <2>11, <2>12
       DEF ServerInv, QueuesOK
<1>7. ASSUME h[1] \in {"destroy", "wheel"}
      PROVE  /\ QueuesOK(fs, connSet, loopOf, status, loop, spc)
             /\ spc \notin {"idle", "wait"} => MissesOnly({}, fs, loopOf, status, loop)
  <2>1. \A c \in Conns : h # <<"establish", c>> /\ h # <<"forceClose", c>>
    BY <1>7
  <2> QED
    BY Zenon, <1>1, <2>1, TakenQueues DEF fs
<1>8. CASE h[1] = "destroy"
  <2> DEFINE c == h[2]
  <2>1. c \in Conns /\ h = <<"destroy", c>>
    BY Zenon, <1>3, <1>4, <1>8, ShapesAre
  <2> HIDE DEF h, c
  <2>2. loopOf[c] = l /\ c \notin connSet /\ status[c] \in {"closed", "destroyed"}
    BY Zenon, <1>3, <1>4, <2>1 DEF FuncOK
  <2>3. status' = [status EXCEPT ![c] = "destroyed"]
    BY Zenon, <1>2, <1>8 DEF c
  <2>4. /\ status'[c] = "destroyed"
        /\ \A d \in Conns : d # c => status'[d] = status[d]
        /\ Connecting(status') = Connecting(status)
    BY Zenon, <2>1, <2>2, <2>3 DEF ServerInv, TypeOK, Connecting
  <2>5. TypeOK'
    BY Zenon, <1>2, <2>1, <2>3 DEF ServerInv, TypeOK
  <2>6. FuncsOK(fs, connSet, loopOf, status', spc)
    <3> SUFFICES ASSUME NEW k \in Loops, NEW g \in Range(fs[k])
                 PROVE  FuncOK(k, g, connSet, loopOf, status', spc)
      BY Zenon DEF FuncsOK
    <3>1. FuncOK(k, g, connSet, loopOf, status, spc)
      BY Zenon, <1>3, <1>4 DEF FuncsOK
    <3> QED
      BY ZenonT(30), <2>1, <2>2, <2>4, <3>1 DEF FuncOK
  <2>7. OrderOK(fs, status', loop) /\ PresentOK(fs, loopOf, status', loop)
    BY Zenon, <1>7, <1>8, <2>2, <2>4 DEF QueuesOK, OrderOK, PresentOK
  <2>8. ConnOK(connSet, loopOf, status')
    BY Zenon, <2>2, <2>4 DEF ServerInv, ConnOK
  <2>9. ActiveOK(active, loopOf, status')
    BY <1>1, <2>2, <2>4 DEF ServerInv, ActiveOK
  <2>10. spc \notin {"idle", "wait"} => MissesOnly({}, fs, loopOf, status', loop)
    BY Zenon, <1>7, <1>8, <2>2, <2>4 DEF MissesOnly
  <2> QED
    BY Zenon, <1>2, <1>3, <1>4, <1>5, <2>5, <2>6, <2>7, <2>8, <2>9, <2>10
       DEF ServerInv, QueuesOK
<1>9. CASE h[1] = "wheel"
  <2>1. TypeOK'
    BY Zenon, <1>2, <1>9 DEF ServerInv, TypeOK
  <2> QED
    BY Zenon, <1>2, <1>5, <1>7, <1>9, <2>1 DEF ServerInv
<1> QED
  BY Zenon, <1>6, <1>8, <1>9

\* forceClose(), the end of a connection in the loop of the server, and the
\* part of stop() that was queued there
LEMMA RunCloses ==
  ASSUME ServerInv, NEW l \in Loops, RunFunc(l),
         Head(funcs[l])[1] \in {"forceClose", "close", "closeAll"}
  PROVE  ServerInv'
<1> DEFINE h == Head(funcs[l])
           fs == [funcs EXCEPT ![l] = Tail(@)]
<1>1. funcs[l] # <<>> /\ loop[l] # "gone"
  BY Zenon DEF RunFunc, Runs
<1>2. /\ h[1] = "forceClose" =>
           ForceClose(h[2], fs) /\ UNCHANGED <<acceptor, spc, wheels>>
      /\ h[1] = "close" =>
           HandleClose(h[2], fs) /\ UNCHANGED <<acceptor, spc, wheels>>
      /\ h[1] = "closeAll" =>
           CloseAll(fs) /\ spc' = "pool" /\ UNCHANGED <<aborted, wheels>>
      /\ UNCHANGED <<nextLoopIdx, loopOf, active, loop, stopper, idx>>
  BY Zenon DEF RunFunc
<1>3. \A c \in Conns : h # <<"establish", c>>
  OBVIOUS
<1> HIDE DEF fs
<1>4. /\ TakenFrom(funcs, fs, l) /\ FuncOK(l, h, connSet, loopOf, status, spc)
      /\ QueuesOK(fs, connSet, loopOf, status, loop, spc)
      /\ \A D : (\A c \in Conns \ D : h # <<"forceClose", c>>) =>
                  (spc \notin {"idle", "wait"} => MissesOnly(D, fs, loopOf, status, loop))
  BY Zenon, <1>1, <1>3, Taken, TakenQueues DEF fs
<1>5. h \in Functors /\ (Single(h) => h \notin Range(fs[l]))
  BY Zenon, <1>4 DEF TakenFrom
<1>6. /\ active' \in [Loops -> SUBSET (Conns \cup {Accept})]
      /\ \A k \in Loops : active'[k] \subseteq active[k]
  BY Zenon, <1>2 DEF ServerInv, TypeOK
<1>7. CASE h[1] = "forceClose"
  <2> DEFINE c == h[2]
  <2>1. c \in Conns /\ h = <<"forceClose", c>>
    BY Zenon, <1>5, <1>7, ShapesAre
  <2>2. ForceClose(c, fs)
        /\ UNCHANGED <<acceptor, nextLoopIdx, loopOf, loop, stopVars>>
    BY Zenon, <1>2, <1>7 DEF stopVars
  <2>3. spc \notin {"idle", "wait"} => MissesOnly({c}, fs, loopOf, status, loop)
    BY <1>4, <2>1
  <2>4. status[c] # "connecting"
    <3>1. funcs[l] \in Seq(Functors) /\ Order(funcs[l], Connecting(status))
      BY Zenon, <1>1 DEF ServerInv, QueuesOK, OrderOK
    <3>2. \A d \in Connecting(status) : h # <<"forceClose", d>>
      BY Zenon, <1>1, <3>1, OrderHead
    <3> QED
      BY Zenon, <2>1, <3>2 DEF Connecting
  <2> HIDE DEF c, h
  <2>5. CASE status[c] = "up"
    <3>1. Closed(c)
      BY Zenon, <1>4, <2>1, <2>2, <2>3, <2>5, Closes DEF ForceClose, ServerInv
    <3> QED
      BY Zenon, <1>6, <2>1, <2>2, <2>5, <3>1, ClosedStep
  <2>6. CASE status[c] # "up"
    <3>1. /\ funcs' = fs /\ connSet' = connSet /\ aborted' = aborted
          /\ status' = status /\ acceptor' = acceptor /\ nextLoopIdx' = nextLoopIdx
          /\ loopOf' = loopOf /\ loop' = loop /\ stopper' = stopper /\ spc' = spc
          /\ idx' = idx /\ wheels' = wheels /\ active' = active
      BY Zenon, <1>2, <2>2, <2>6 DEF ForceClose, stopVars
    <3>2. TypeOK'
      BY Zenon, <3>1 DEF ServerInv, TypeOK
    <3>3. spc \notin {"idle", "wait"} => MissesOnly({}, fs, loopOf, status, loop)
      BY Zenon, <2>3, <2>4, <2>6 DEF MissesOnly
    <3> QED
      BY Zenon, <1>4, <3>1, <3>2, <3>3 DEF ServerInv
  <2> QED
    BY Zenon, <2>5, <2>6
<1>8. CASE h[1] = "close"
  <2> DEFINE c == h[2]
  <2>1. c \in Conns /\ h = <<"close", c>>
    BY Zenon, <1>5, <1>8, ShapesAre
  <2>2. HandleClose(c, fs)
        /\ UNCHANGED <<acceptor, nextLoopIdx, loopOf, loop, stopVars>>
    BY Zenon, <1>2, <1>8 DEF stopVars
  <2>3. spc \notin {"idle", "wait"} => MissesOnly({c}, fs, loopOf, status, loop)
    BY <1>4, <2>1
  <2> HIDE DEF c, h
  <2>4. l = Base /\ c \in connSet /\ status[c] = "closed"
    BY Zenon, <1>4, <2>1 DEF FuncOK
  <2>5. <<"close", c>> \notin Range(fs[Base])
    BY Zenon, <1>5, <2>1, <2>4 DEF Single
  <2>6. Closed(c)
    BY Zenon, <1>4, <2>1, <2>2, <2>3, <2>4, <2>5, HandleCloses DEF ServerInv
  <2> QED
    BY Zenon, <1>6, <2>1, <2>2, <2>4, <2>6, ClosedStep
<1>9. CASE h[1] = "closeAll"
  <2>1. h = <<"closeAll">>
    BY Zenon, <1>5, <1>9, ShapesAre
  <2>2. l = Base /\ spc = "wait" /\ <<"closeAll">> \notin Range(fs[Base])
    BY Zenon, <1>4, <1>5, <2>1 DEF FuncOK, Single
  <2>3. CloseAll(fs) /\ spc' = "pool" /\ UNCHANGED <<aborted, wheels>>
    BY Zenon, <1>2, <1>9
  <2>4. idx = 1 /\ \A k \in Loops : loop[k] = "running"
    BY Zenon, <2>2 DEF ServerInv, StopOK
  <2> HIDE DEF h
  <2>5. /\ acceptor' = FALSE /\ connSet' \subseteq Conns
        /\ status' \in [Conns -> {"none", "connecting", "up", "closed", "destroyed"}]
        /\ \A c \in Conns : \/ status'[c] = status[c]
                            \/ status[c] = "up" /\ status'[c] = "closed"
        /\ QueuesOK(funcs', connSet', loopOf, status', loop, "pool")
        /\ ConnOK(connSet', loopOf, status')
        /\ MissesOnly({}, funcs', loopOf, status', loop)
    BY Zenon, <1>4, <2>2, <2>3, <2>4, ClosesAll DEF ServerInv
  <2>6. TypeOK'
    BY Zenon, <1>2, <2>3, <2>5 DEF ServerInv, TypeOK
  <2>7. ActiveOK(active', loopOf', status')
    BY Zenon, <1>2, <2>5 DEF ServerInv, ActiveOK
  <2>8. StopOK(spc', acceptor', loop', idx')
    BY Zenon, <1>2, <2>3, <2>4, <2>5 DEF StopOK
  <2> QED
    BY Zenon, <1>2, <2>3, <2>5, <2>6, <2>7, <2>8 DEF ServerInv
<1> QED
  BY Zenon, <1>7, <1>8, <1>9

-----------------------------------------------------------------------------
(* The steps of stop()                                                     *)

\* stop() in the thread of the server: it closes the connections at once.
LEMMA StopBaseStep ==
  ASSUME ServerInv, StopInBase
  PROVE  ServerInv'
<1>1. /\ spc = "idle" /\ spc' = "pool" /\ stopper' = Base /\ CloseAll(funcs)
      /\ UNCHANGED <<nextLoopIdx, loopOf, active, loop, idx, wheels, aborted>>
  BY Zenon DEF StopInBase
<1>2. <<"closeAll">> \notin Range(funcs[Base])
  BY Zenon, <1>1 DEF ServerInv, QueuesOK, FuncsOK, FuncOK, Loops
<1>3. idx = 1 /\ \A k \in Loops : loop[k] = "running"
  BY Zenon, <1>1 DEF ServerInv, StopOK
<1>4. /\ acceptor' = FALSE /\ connSet' \subseteq Conns
      /\ status' \in [Conns -> {"none", "connecting", "up", "closed", "destroyed"}]
      /\ \A c \in Conns : \/ status'[c] = status[c]
                          \/ status[c] = "up" /\ status'[c] = "closed"
      /\ QueuesOK(funcs', connSet', loopOf, status', loop, "pool")
      /\ ConnOK(connSet', loopOf, status')
      /\ MissesOnly({}, funcs', loopOf, status', loop)
  BY Zenon, <1>1, <1>2, <1>3, ClosesAll DEF ServerInv
<1>5. TypeOK'
  BY Zenon, <1>1, <1>4 DEF ServerInv, TypeOK
<1>6. ActiveOK(active', loopOf', status')
  BY Zenon, <1>1, <1>4 DEF ServerInv, ActiveOK
<1>7. StopOK(spc', acceptor', loop', idx')
  BY Zenon, <1>1, <1>3, <1>4 DEF StopOK
<1> QED
  BY Zenon, <1>1, <1>4, <1>5, <1>6, <1>7 DEF ServerInv

\* stop() or the reset of a timing wheel queues a function that relies on
\* nothing but where stop() is.
LEMMA QueuedStep ==
  ASSUME ServerInv, NEW l \in Loops, NEW f \in Functors,
         \A c \in Conns : f \notin {<<"establish", c>>, <<"forceClose", c>>,
                                    <<"close", c>>, <<"destroy", c>>},
         f = <<"closeAll">> => l = Base /\ spc' = "wait" /\ spc # "wait",
         <<"closeAll">> \in UNION {Range(funcs[k]) : k \in Loops} => spc' = spc
  PROVE  /\ QueuesOK(Enqueue(funcs, l, f), connSet, loopOf, status, loop, spc')
         /\ spc \notin {"idle", "wait"} =>
              MissesOnly({}, Enqueue(funcs, l, f), loopOf, status, loop)
<1> DEFINE es == Enqueue(funcs, l, f)
<1>1. /\ funcs \in [Loops -> Seq(Functors)] /\ OnceOK(funcs)
      /\ OrderOK(funcs, status, loop) /\ PresentOK(funcs, loopOf, status, loop)
      /\ FuncsOK(funcs, connSet, loopOf, status, spc)
  BY Zenon DEF ServerInv, QueuesOK
<1>2. Single(f) => f \notin Range(funcs[l])
  BY Zenon, <1>1 DEF Single, FuncsOK, FuncOK
<1>3. \A c \in Conns : f # <<"forceClose", c>>
  BY Zenon
<1>4. /\ es \in [Loops -> Seq(Functors)]
      /\ \A k \in Loops : \A g :
           g \in Range(es[k]) <=> g \in Range(funcs[k]) \/ (k = l /\ g = f)
      /\ OnceOK(es) /\ OrderOK(es, status, loop)
  BY Zenon, <1>1, <1>2, <1>3, Enqueued
<1> HIDE DEF es
<1>5. \A c \in Conns : loopOf[c] \in Loops
  BY Zenon DEF ServerInv, TypeOK
<1>6. FuncsOK(es, connSet, loopOf, status, spc')
  <2> SUFFICES ASSUME NEW k \in Loops, NEW g \in Range(es[k])
               PROVE  FuncOK(k, g, connSet, loopOf, status, spc')
    BY Zenon DEF FuncsOK
  <2>1. CASE g \in Range(funcs[k])
    <3>1. FuncOK(k, g, connSet, loopOf, status, spc)
      BY Zenon, <1>1, <2>1 DEF FuncsOK
    <3>2. g = <<"closeAll">> => spc' = spc
      BY Zenon, <2>1
    <3> QED
      BY Zenon, <3>1, <3>2 DEF FuncOK
  <2>2. CASE k = l /\ g = f
    BY Zenon, <2>2 DEF FuncOK
  <2> QED
    BY Zenon, <1>4, <2>1, <2>2
<1>7. PresentOK(es, loopOf, status, loop)
  BY Zenon, <1>1, <1>4, <1>5 DEF PresentOK
<1>8. spc \notin {"idle", "wait"} => MissesOnly({}, es, loopOf, status, loop)
  BY Zenon, <1>4, <1>5 DEF MissesOnly, ServerInv
<1> QED
  BY Zenon, <1>4, <1>6, <1>7, <1>8 DEF QueuesOK, es

\* Outside the wait for the loop of the server its part of stop() is not queued.
LEMMA NoneWaits ==
  ASSUME ServerInv, spc # "wait"
  PROVE  /\ <<"closeAll">> \notin UNION {Range(funcs[k]) : k \in Loops}
         /\ \A sp : FuncsOK(funcs, connSet, loopOf, status, sp)
<1>1. \A k \in Loops : \A g \in Range(funcs[k]) :
        FuncOK(k, g, connSet, loopOf, status, spc)
  BY Zenon DEF ServerInv, QueuesOK, FuncsOK
<1>2. \A k \in Loops : \A g \in Range(funcs[k]) : g # <<"closeAll">>
  BY Zenon, <1>1 DEF FuncOK
<1>3. \A sp : \A k \in Loops : \A g \in Range(funcs[k]) :
        FuncOK(k, g, connSet, loopOf, status, sp)
  BY <1>1, <1>2 DEF FuncOK
<1> QED
  BY Zenon, <1>2, <1>3 DEF FuncsOK

\* stop() in another thread queues its part.
LEMMA StopQueued ==
  ASSUME ServerInv, Stop
  PROVE  ServerInv'
<1> DEFINE f == <<"closeAll">>
<1>1. /\ spc = "idle" /\ spc' = "wait" /\ stopper' = "other"
      /\ funcs' = Enqueue(funcs, Base, f)
      /\ acceptor' = acceptor /\ nextLoopIdx' = nextLoopIdx /\ loopOf' = loopOf
      /\ connSet' = connSet /\ status' = status /\ active' = active
      /\ loop' = loop /\ idx' = idx /\ wheels' = wheels /\ aborted' = aborted
  BY Zenon DEF Stop
<1>2. f \in Functors /\ Base \in Loops
  BY Zenon DEF Functors, Loops
<1>3. \A c \in Conns : f \notin {<<"establish", c>>, <<"forceClose", c>>,
                                 <<"close", c>>, <<"destroy", c>>}
  BY Zenon
<1>4. f \notin UNION {Range(funcs[k]) : k \in Loops}
  BY Zenon, <1>1, NoneWaits
<1>5. QueuesOK(Enqueue(funcs, Base, f), connSet, loopOf, status, loop, spc')
  BY Zenon, <1>1, <1>2, <1>3, <1>4, QueuedStep
<1>6. TypeOK'
  BY Zenon, <1>1 DEF ServerInv, TypeOK
<1>7. StopOK(spc', acceptor', loop', idx')
  BY Zenon, <1>1 DEF ServerInv, StopOK
<1> QED
  BY Zenon, <1>1, <1>5, <1>6, <1>7 DEF ServerInv

\* A step of stop() that changes neither a queue nor a connection
LEMMA StopOnly ==
  ASSUME ServerInv, spc \notin {"idle", "wait"},
         spc' \in {"quit", "join", "wheels", "wheel", "done"}, idx' \in Nat,
         wheels' \subseteq Loops, loop' \in [Loops -> {"running", "quit", "gone"}],
         \A l \in Loops : loop'[l] # "gone" => loop[l] # "gone",
         StopOK(spc', acceptor, loop', idx'),
         UNCHANGED <<acceptor, nextLoopIdx, connSet, loopOf, status, funcs,
                     active, stopper, aborted>>
  PROVE  ServerInv'
<1>1. /\ acceptor' = acceptor /\ nextLoopIdx' = nextLoopIdx /\ loopOf' = loopOf
      /\ connSet' = connSet /\ status' = status /\ active' = active
      /\ funcs' = funcs /\ stopper' = stopper /\ aborted' = aborted
  BY Zenon
<1>2. TypeOK'
  BY Zenon, <1>1 DEF ServerInv, TypeOK
<1>3. FuncsOK(funcs, connSet, loopOf, status, spc')
  BY Zenon, NoneWaits
<1>4. \A c \in Conns : loopOf[c] \in Loops
  BY Zenon DEF ServerInv, TypeOK
<1>5. QueuesOK(funcs, connSet, loopOf, status, loop', spc')
  BY Zenon, <1>3, <1>4 DEF ServerInv, QueuesOK, OrderOK, PresentOK
<1>6. MissesOnly({}, funcs, loopOf, status, loop')
  BY Zenon, <1>4 DEF ServerInv, MissesOnly
<1> QED
  BY Zenon, <1>1, <1>2, <1>5, <1>6 DEF ServerInv

\* The steps of stop() that end the loops of the server's own pool
LEMMA PoolStep ==
  ASSUME ServerInv, ResetPool \/ QuitLoop \/ Joined
  PROVE  ServerInv'
<1>1. CASE ResetPool
  <2>1. /\ spc = "pool" /\ spc' = IF OwnPool THEN "quit" ELSE "wheels"
        /\ loop' = loop /\ idx' = idx /\ wheels' = wheels
        /\ UNCHANGED <<acceptor, nextLoopIdx, connSet, loopOf, status, funcs,
                       active, stopper, aborted>>
    BY Zenon, <1>1 DEF ResetPool
  <2>2. idx = 1 /\ ~acceptor /\ \A l \in Loops : loop[l] = "running"
    BY Zenon, <2>1 DEF ServerInv, StopOK
  <2>3. 1 \in 1 .. Len(IoLoops) /\ \A j \in 1 .. Len(IoLoops) : IoLoops[j] \in Loops
    BY LoopsAssumption DEF Loops, Range
  <2>4. StopOK(spc', acceptor, loop', idx')
    BY Zenon, <2>1, <2>2, <2>3 DEF StopOK
  <2>5. /\ idx' \in Nat /\ wheels' \subseteq Loops
        /\ loop' \in [Loops -> {"running", "quit", "gone"}]
    BY Zenon, <2>1 DEF ServerInv, TypeOK
  <2> QED
    BY Zenon, <2>1, <2>4, <2>5, StopOnly
<1>2. CASE QuitLoop
  <2>1. /\ spc = "quit" /\ spc' = "join" /\ idx' = idx /\ wheels' = wheels
        /\ loop' = [loop EXCEPT ![IoLoops[idx]] = "quit"]
        /\ UNCHANGED <<acceptor, nextLoopIdx, connSet, loopOf, status, funcs,
                       active, stopper, aborted>>
    BY Zenon, <1>2 DEF QuitLoop
  <2>2. /\ OwnPool /\ idx \in 1 .. Len(IoLoops) /\ ~acceptor
        /\ \A j \in 1 .. Len(IoLoops) : j > idx => loop[IoLoops[j]] = "running"
        /\ loop[IoLoops[idx]] = "running"
    BY Zenon, <2>1 DEF ServerInv, StopOK
  <2>3. \A j \in 1 .. Len(IoLoops) :
          IoLoops[j] \in Loops /\ (IoLoops[j] = IoLoops[idx] => j = idx)
    BY <2>2, LoopsAssumption DEF Loops, Range, IsInjective
  <2>4. /\ idx' \in Nat /\ wheels' \subseteq Loops
        /\ loop' \in [Loops -> {"running", "quit", "gone"}]
        /\ \A l \in Loops : loop'[l] # "gone" => loop[l] # "gone"
    BY Zenon, <2>1, <2>2, <2>3 DEF ServerInv, TypeOK
  <2>5. \A j \in 1 .. Len(IoLoops) : j > idx => loop'[IoLoops[j]] = "running"
    BY <2>1, <2>2, <2>3 DEF ServerInv, TypeOK
  <2>6. StopOK(spc', acceptor, loop', idx')
    BY Zenon, <2>1, <2>2, <2>5 DEF StopOK
  <2> QED
    BY Zenon, <2>1, <2>4, <2>6, StopOnly
<1>3. CASE Joined
  <2>1. /\ spc = "join" /\ loop' = loop /\ wheels' = wheels
        /\ \/ idx < Len(IoLoops) /\ idx' = idx + 1 /\ spc' = "quit"
           \/ idx' = 1 /\ spc' = "wheels"
        /\ UNCHANGED <<acceptor, nextLoopIdx, connSet, loopOf, status, funcs,
                       active, stopper, aborted>>
    BY Zenon, <1>3 DEF Joined
  <2>2. /\ OwnPool /\ idx \in 1 .. Len(IoLoops) /\ ~acceptor
        /\ \A j \in 1 .. Len(IoLoops) : j > idx => loop[IoLoops[j]] = "running"
    BY Zenon, <2>1 DEF ServerInv, StopOK
  <2>3. Len(IoLoops) \in Nat
    BY LoopsAssumption
  <2>4. StopOK(spc', acceptor, loop', idx')
    BY <2>1, <2>2, <2>3 DEF StopOK
  <2>5. /\ idx' \in Nat /\ wheels' \subseteq Loops
        /\ loop' \in [Loops -> {"running", "quit", "gone"}]
    BY <2>1, <2>2 DEF ServerInv, TypeOK
  <2> QED
    BY Zenon, <2>1, <2>4, <2>5, StopOnly
<1> QED
  BY Zenon, <1>1, <1>2, <1>3

\* The reset of the timing wheels
LEMMA WheelStep ==
  ASSUME ServerInv, ResetWheel \/ WheelReset
  PROVE  ServerInv'
<1>1. /\ spc \in {"wheels", "wheel"} /\ loop' = loop
      /\ UNCHANGED <<acceptor, nextLoopIdx, connSet, loopOf, status, active,
                     stopper, aborted>>
  BY Zenon DEF ResetWheel, WheelReset
<1>2. idx \in 1 .. Len(IoLoops) /\ ~acceptor /\ Len(IoLoops) \in Nat
  BY <1>1, LoopsAssumption DEF ServerInv, StopOK
<1>3. IoLoops[idx] \in Loops
  BY <1>2, LoopsAssumption DEF Loops, Range
<1>4. CASE /\ funcs' = funcs /\ wheels' \subseteq wheels
           /\ \/ spc' = "done" /\ (idx' = idx \/ idx' = idx + 1)
              \/ idx < Len(IoLoops) /\ spc' = "wheels" /\ idx' = idx + 1
  <2>1. StopOK(spc', acceptor, loop', idx')
    BY <1>2, <1>4 DEF StopOK
  <2>2. /\ idx' \in Nat /\ wheels' \subseteq Loops
        /\ loop' \in [Loops -> {"running", "quit", "gone"}]
    BY <1>1, <1>2, <1>4 DEF ServerInv, TypeOK
  <2> QED
    BY Zenon, <1>1, <1>4, <2>1, <2>2, StopOnly
<1>5. CASE /\ funcs' = Enqueue(funcs, IoLoops[idx], <<"wheel", IoLoops[idx]>>)
           /\ spc = "wheels" /\ spc' = "wheel" /\ idx' = idx /\ wheels' = wheels
  <2> DEFINE f == <<"wheel", IoLoops[idx]>>
  <2>1. f \in Functors
    BY Zenon, <1>3 DEF Functors
  <2>2. f # <<"closeAll">>
        /\ \A c \in Conns : f \notin {<<"establish", c>>, <<"forceClose", c>>,
                                      <<"close", c>>, <<"destroy", c>>}
    BY Zenon
  <2>3. <<"closeAll">> \notin UNION {Range(funcs[k]) : k \in Loops}
    BY Zenon, <1>5, NoneWaits
  <2>4. funcs' = Enqueue(funcs, IoLoops[idx], f)
    BY Zenon, <1>5
  <2> HIDE DEF f
  <2>5. /\ QueuesOK(funcs', connSet, loopOf, status, loop, spc')
        /\ MissesOnly({}, funcs', loopOf, status, loop)
    BY Zenon, <1>3, <1>5, <2>1, <2>2, <2>3, <2>4, QueuedStep
  <2>6. TypeOK'
    BY Zenon, <1>1, <1>5 DEF ServerInv, TypeOK
  <2>7. StopOK(spc', acceptor', loop', idx')
    BY Zenon, <1>1, <1>2, <1>5 DEF StopOK
  <2> QED
    BY Zenon, <1>1, <1>5, <2>5, <2>6, <2>7 DEF ServerInv
<1>6. CASE ResetWheel
  BY Zenon, <1>4, <1>5, <1>6 DEF ResetWheel
<1>7. CASE WheelReset
  BY Zenon, <1>4, <1>7 DEF WheelReset
<1> QED
  BY Zenon, <1>6, <1>7

\* A loop of the pool ends.
LEMMA EndStep ==
  ASSUME ServerInv, NEW l \in Loops, LoopEnds(l)
  PROVE  ServerInv'
<1>1. /\ loop[l] = "quit"
      /\ loop' = [loop EXCEPT ![l] = "gone"]
      /\ funcs' = [funcs EXCEPT ![l] = <<>>]
      /\ acceptor' = acceptor /\ nextLoopIdx' = nextLoopIdx /\ loopOf' = loopOf
      /\ connSet' = connSet /\ status' = status /\ active' = active
      /\ stopper' = stopper /\ spc' = spc /\ idx' = idx /\ wheels' = wheels
      /\ aborted' = aborted
  BY Zenon DEF LoopEnds, stopVars
<1>2. /\ loop'[l] = "gone" /\ \A k \in Loops : k # l => loop'[k] = loop[k]
      /\ funcs'[l] = <<>> /\ \A k \in Loops : k # l => funcs'[k] = funcs[k]
      /\ funcs' \in [Loops -> Seq(Functors)]
  BY <1>1 DEF ServerInv, QueuesOK, TypeOK
<1>3. Range(<<>>) = {}
  BY DEF Range
<1>4. \A c \in Conns : loopOf[c] \in Loops
  BY Zenon DEF ServerInv, TypeOK
<1>5. FuncsOK(funcs', connSet, loopOf, status, spc)
  BY Zenon, <1>2, <1>3 DEF ServerInv, QueuesOK, FuncsOK
<1>6. OnceOK(funcs')
  <2>1. Once(<<>>)
    BY DEF Once
  <2> QED
    BY Zenon, <1>2, <2>1 DEF ServerInv, QueuesOK, OnceOK
<1>7. OrderOK(funcs', status, loop')
  BY Zenon, <1>2 DEF ServerInv, QueuesOK, OrderOK
<1>8. PresentOK(funcs', loopOf, status, loop')
  BY Zenon, <1>2, <1>4 DEF ServerInv, QueuesOK, PresentOK
<1>9. spc \notin {"idle", "wait"} => MissesOnly({}, funcs', loopOf, status, loop')
  BY Zenon, <1>2, <1>4 DEF ServerInv, MissesOnly
<1>10. TypeOK'
  BY Zenon, <1>1 DEF ServerInv, TypeOK
<1>11. StopOK(spc', acceptor', loop', idx')
  <2>1. \A j \in 1 .. Len(IoLoops) :
          IoLoops[j] \in Loops
          /\ (loop[IoLoops[j]] = "running" => loop'[IoLoops[j]] = "running")
    BY <1>1, <1>2, LoopsAssumption DEF Loops, Range
  <2> QED
    BY ZenonT(30), <1>1, <1>2, <2>1 DEF ServerInv, StopOK
<1> QED
  BY Zenon, <1>1, <1>2, <1>5, <1>6, <1>7, <1>8, <1>9, <1>10, <1>11 DEF ServerInv, QueuesOK

\* poll(), a failed accept(), and steps of others
LEMMA PollStep ==
  ASSUME ServerInv,
         AcceptFails \/ (\E l \in Loops : Poll(l)) \/ UNCHANGED vars
  PROVE  ServerInv'
<1>1. /\ acceptor' = acceptor /\ nextLoopIdx' = nextLoopIdx /\ loopOf' = loopOf
      /\ connSet' = connSet /\ status' = status /\ funcs' = funcs
      /\ loop' = loop /\ stopper' = stopper /\ spc' = spc /\ idx' = idx
      /\ wheels' = wheels /\ aborted' = aborted
  BY Zenon DEF AcceptFails, Poll, vars, stopVars
<1>2. active' \in [Loops -> SUBSET (Conns \cup {Accept})]
      /\ ActiveOK(active', loopOf, status)
  <2>1. CASE AcceptFails
    BY ZenonT(30), <2>1 DEF AcceptFails, ServerInv, TypeOK, ActiveOK
  <2>2. ASSUME NEW l \in Loops, Poll(l)
        PROVE  active' \in [Loops -> SUBSET (Conns \cup {Accept})]
               /\ ActiveOK(active', loopOf, status)
    <3>1. PICK cs \in SUBSET Watched(l) : active' = [active EXCEPT ![l] = cs]
      BY Zenon, <2>2 DEF Poll
    <3>2. /\ cs \subseteq Conns \cup {Accept}
          /\ \A c \in Conns : c \in cs => status[c] = "up" /\ loopOf[c] = l
      BY Zenon, ConnsAssumption DEF Watched, Conns
    <3> QED
      BY <3>1, <3>2 DEF ServerInv, TypeOK, ActiveOK
  <2>3. CASE UNCHANGED vars
    BY Zenon, <2>3 DEF vars, ServerInv, TypeOK
  <2> QED
    BY Zenon, <2>1, <2>2, <2>3
<1>3. TypeOK'
  BY Zenon, <1>1, <1>2 DEF ServerInv, TypeOK
<1> QED
  BY Zenon, <1>1, <1>2, <1>3 DEF ServerInv

-----------------------------------------------------------------------------
(* The invariant                                                           *)

\* A new server satisfies the invariant.
LEMMA ServerInit ==
  ASSUME Init
  PROVE  ServerInv
<1>1. Len(IoLoops) \in Nat \ {0} /\ Range(IoLoops) \subseteq Loops
  BY LoopsAssumption DEF Loops
<1>2. TypeOK /\ idx = 1 /\ aborted = FALSE /\ spc = "idle"
  BY <1>1 DEF Init, TypeOK, Loops
<1>3. /\ \A l \in Loops : funcs[l] = <<>> /\ active[l] = {} /\ loop[l] = "running"
      /\ \A c \in Conns : status[c] = "none"
      /\ connSet = {} /\ funcs \in [Loops -> Seq(Functors)]
  BY DEF Init
<1>4. Range(<<>>) = {} /\ Once(<<>>) /\ \A C : Order(<<>>, C)
  BY DEF Range, Once, Order
<1>5. QueuesOK(funcs, connSet, loopOf, status, loop, spc)
  BY Zenon, <1>3, <1>4 DEF QueuesOK, FuncsOK, OnceOK, OrderOK, PresentOK
<1>6. ConnOK(connSet, loopOf, status) /\ ActiveOK(active, loopOf, status)
  BY Zenon, <1>3 DEF ConnOK, ActiveOK
<1>7. StopOK(spc, acceptor, loop, idx)
  BY Zenon, <1>2, <1>3 DEF StopOK
<1> QED
  BY Zenon, <1>2, <1>5, <1>6, <1>7 DEF ServerInv

\* Every step of the server, its connections and stop() keeps the invariant.
LEMMA ServerStep ==
  ASSUME ServerInv, [Next]_vars
  PROVE  ServerInv'
<1>1. ASSUME NEW l \in Loops, RunFunc(l)
      PROVE  ServerInv'
  <2>1. Head(funcs[l])[1] \in {"establish", "forceClose", "close", "destroy",
                               "closeAll", "wheel"}
    BY Zenon, <1>1 DEF RunFunc
  <2> QED
    BY Zenon, <1>1, <2>1, RunQuiet, RunCloses
<1> QED
  BY Zenon, <1>1, NewStep, ForceStep, EventStep, EndStep, PollStep, StopBaseStep,
     StopQueued, PoolStep, WheelStep DEF Next, LoopStep, StopStep

\* The invariant is as strong as StopIsSafe.
LEMMA ServerSafe ==
  ASSUME ServerInv
  PROVE  StopIsSafe
<1>1. NoWildChannel
  BY Zenon DEF ServerInv, NoWildChannel, ActiveOK
<1>2. \A c \in Conns : funcs[loopOf[c]] \in Seq(Functors)
  BY Zenon DEF ServerInv, QueuesOK, TypeOK
<1>3. StopMissesNone
  <2> SUFFICES ASSUME spc \notin {"idle", "wait"}, NEW c \in Conns,
                      status[c] \in {"connecting", "up"},
                      loop[loopOf[c]] # "gone"
               PROVE  \E i \in DOMAIN funcs[loopOf[c]] :
                        funcs[loopOf[c]][i] = <<"forceClose", c>>
    BY Zenon DEF StopMissesNone
  <2>1. <<"forceClose", c>> \in Range(funcs[loopOf[c]])
    BY Zenon DEF ServerInv, MissesOnly
  <2> QED
    BY Zenon, <2>1 DEF Range
<1> QED
  BY Zenon, <1>1, <1>3 DEF StopIsSafe

\* stop() of the server (TcpServer::stop() and handleCloseInLoop()) is safe for
\* any I/O loops, own or kept, and any number of connections: a loop handles
\* only channels of connections that exist, a connection leaves the set once,
\* and when stop() has gone through the connections, forceClose() is queued for
\* each one that is not closed.
THEOREM StopSafe == Spec => []StopIsSafe
<1>1. Init => ServerInv
  BY Zenon, ServerInit
<1>2. ServerInv /\ [Next]_vars => ServerInv'
  BY Zenon, ServerStep
<1>3. ServerInv => StopIsSafe
  BY Zenon, ServerSafe
<1> QED
  BY <1>1, <1>2, <1>3, PTL DEF Spec
=============================================================================
