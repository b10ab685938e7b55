--------------------- MODULE TcpConnectionOrder_proofs ------------------------
(* The data that a TcpConnection sends keeps its order, and nothing of it is      *)
(* skipped: the kinds of steps that move data, and what they preserve.  That     *)
(* every step of TcpConnection is of one of these kinds is shown in              *)
(* TcpConnection_proofs.                                                         *)
EXTENDS TcpConnection, TLAPS

\* An async stream keeps the order of its data if one thread uses it and no write
\* fails, or if it sends once.
StreamsInOrder == MaxAsync <= 1 \/ (~ShareStreams /\ ~WriteErrors)

Functors ==
  [call : Kinds \cup {"established", "destroy", "asyncClose", "shutdown", "forceClose"},
   id : Ids \cup {NoId}]
    \cup [call : {"asyncData"}, id : Ids, unit : Units]

BufferNodes == [kind : Kinds, data : Seq(Units), done : BOOLEAN]

-----------------------------------------------------------------------------
(* Sequences of units.  The call of a unit is its key; the units of a thread  *)
(* are ordered by their call and their number.                                *)

Key(d) == <<d[1], d[2]>>
KeysIn(s) == {Key(s[p]) : p \in 1 .. Len(s)}
KeysLT(X, Y) == \A x \in X, y \in Y : x[1] = y[1] => x[2] < y[2]
KeysLE(X, Y) == \A x \in X, y \in Y : x[1] = y[1] => x[2] <= y[2]

\* Of each call, what is in s comes before what is in t.
UnitsLT(s, t) ==
  \A p \in 1 .. Len(s), q \in 1 .. Len(t) : Key(s[p]) = Key(t[q]) => s[p][3] < t[q][3]

Before(d, e) == d[2] < e[2] \/ (d[2] = e[2] /\ d[3] < e[3])
AllBefore(s, t) ==
  \A p \in 1 .. Len(s), q \in 1 .. Len(t) : s[p][1] = t[q][1] => Before(s[p], t[q])
Ordered(s) == \A p, q \in 1 .. Len(s) : p < q /\ s[p][1] = s[q][1] => Before(s[p], s[q])

\* The first unit of a call that is missing in w is the first one in s.
Previous(d) == <<d[1], d[2], d[3] - 1>>
Follows(w, s) ==
  \A p \in 1 .. Len(s) : s[p][3] > 1 =>
    \/ \E j \in 1 .. Len(w) : w[j] = Previous(s[p])
    \/ \E q \in 1 .. p - 1 : s[q] = Previous(s[p])

-----------------------------------------------------------------------------
(* The inductive invariant                                                   *)

TypeInv == TypeOK /\ funcs \in Seq(Functors)

Used(cl, id) == id[2] <= cl[id[1]]

\* A queued send has a node of its own that is not in the list, and what a
\* functor does with an async stream concerns the node of one.
FuncOK(nd, l, cl, f) ==
  /\ f.call \in Kinds =>
       /\ f.id \in Ids /\ f.id[1] \in Threads /\ Used(cl, f.id)
       /\ nd[f.id].kind = f.call /\ f.id \notin Range(l)
  /\ f.call \in {"asyncData", "asyncClose"} => f.id \in Ids /\ nd[f.id].kind = "async"

\* The sends of a thread are queued in the order of its calls.
InTurn(f, g) ==
  f.call \in Kinds /\ g.call \in Kinds /\ f.id[1] = g.id[1] => f.id[2] < g.id[2]

IdsInv ==
  /\ \A i \in 1 .. Len(list) : Used(calls, list[i])
  /\ \A id \in Ids : node[id].kind = "async" => Used(calls, id)
  /\ \A id \in open : node[id].kind = "async"
  /\ \A i \in 1 .. Len(funcs) : FuncOK(node, list, calls, funcs[i])
  /\ \A i, j \in 1 .. Len(funcs) : i < j => InTurn(funcs[i], funcs[j])

\* The calls whose data is in node id of the heap nd, or may come to be there
KeysOf(nd, id) == KeysIn(nd[id].data) \cup (IF nd[id].kind = "async" THEN {id} ELSE {})

NextUnit(sent, id) == <<Unit(id, sent[id] + 1)>>

\* The socket took the data in order, what is in the list goes on from there,
\* and no call comes before that of an earlier node.
ListInOrder(w, nd, l) ==
  /\ Ordered(w)
  /\ \A i \in 1 .. Len(l) :
       /\ Ordered(nd[l[i]].data) /\ UnitsLT(w, nd[l[i]].data)
       /\ KeysLE(KeysIn(w), KeysOf(nd, l[i]))
       /\ \A k \in KeysIn(nd[l[i]].data) : k \in Ids /\ nd[k].kind = nd[l[i]].kind
  /\ \A i, j \in 1 .. Len(l) : i < j => KeysLT(KeysOf(nd, l[i]), KeysOf(nd, l[j]))

\* The data of an async stream is its own, in order, and older than what is sent next.
StreamInOrder(w, nd, sent, id) ==
  /\ KeysIn(nd[id].data) \subseteq {id}
  /\ Ordered(nd[id].data) /\ UnitsLT(w, nd[id].data)
  /\ UnitsLT(w, NextUnit(sent, id)) /\ UnitsLT(nd[id].data, NextUnit(sent, id))

\* What a functor adds is newer than what the socket took and the list holds.
FuncInOrder(w, nd, l, sent, f) ==
  /\ f.call \in Kinds =>
       /\ KeysLT(KeysIn(w), {f.id})
       /\ \A i \in 1 .. Len(l) : KeysLT(KeysOf(nd, l[i]), {f.id})
       /\ f.call \in {"file", "stream"} => nd[f.id].data = UnitsOf(f.id)
  /\ f.call = "asyncData" =>
       /\ f.id[1] \in Threads /\ Key(f.unit) = f.id
       /\ UnitsLT(w, <<f.unit>>) /\ UnitsLT(nd[f.id].data, <<f.unit>>)
       /\ UnitsLT(<<f.unit>>, NextUnit(sent, f.id))

DataInTurn(f, g) ==
  f.call = "asyncData" /\ g.call = "asyncData" => UnitsLT(<<f.unit>>, <<g.unit>>)

\* The calls in X have been made.
Made(cl, X) == \A x \in X : Used(cl, x)

\* What is on the wire and in the heap
DataInv(w, nd, l, cl, sent) ==
  /\ ListInOrder(w, nd, l)
  /\ Made(cl, KeysIn(w)) /\ \A i \in 1 .. Len(l) : Made(cl, KeysOf(nd, l[i]))
  /\ \A id \in Ids : nd[id].kind = "async" => StreamInOrder(w, nd, sent, id)

\* What the queue will add
QueueInv(w, nd, l, sent, fs) ==
  /\ \A i \in 1 .. Len(fs) : FuncInOrder(w, nd, l, sent, fs[i])
  /\ \A i, j \in 1 .. Len(fs) : i < j => DataInTurn(fs[i], fs[j])

OrderInv ==
  DataInv(wire, node, list, calls, asyncSent) /\ QueueInv(wire, node, list, asyncSent, funcs)

In(d, s) == \E p \in 1 .. Len(s) : s[p] = d

\* A unit that was sent through an async stream has not been lost.
Present(w, nd, fs, id, u) ==
  \/ In(Unit(id, u), w)
  \/ In(Unit(id, u), nd[id].data)
  \/ \E i \in 1 .. Len(fs) : fs[i].call = "asyncData" /\ fs[i].unit = Unit(id, u)

\* What the socket will take from the list follows what it took.
ListFollows(w, nd, l) ==
  \A i \in 1 .. Len(l) : nd[l[i]].kind # "async" => Follows(w, nd[l[i]].data)

AllPresent(w, nd, fs, sent) ==
  MaxAsync > 1 =>
    \A id \in Ids : nd[id].kind = "async" => \A u \in 1 .. sent[id] : Present(w, nd, fs, id, u)

\* Nothing is missing on the wire, nor, as long as it can be written to, in what
\* goes on from there.
GapInv ==
  /\ Follows(<<>>, wire)
  /\ \A id \in Ids : ~Used(calls, id) => asyncSent[id] = 0
  /\ ~writeClosed => ListFollows(wire, node, list) /\ AllPresent(wire, node, funcs, asyncSent)

-----------------------------------------------------------------------------
(* What a send does, in the loop: the socket takes the first n units of the   *)
(* data D of node id, and the rest is lost, or becomes the last node of the   *)
(* list, or a part of it.                                                     *)

\* The step leaves the heap nd alone but for the data of node id, which is X.
SetData(nd, id, X) ==
  /\ node' \in [Ids -> BufferNodes]
  /\ node'[id].data = X
  /\ \A x \in Ids : /\ node'[x].kind = nd[x].kind /\ node'[x].done = nd[x].done
                    /\ x # id => node'[x].data = nd[x].data

Lost(nd, id, D, n) ==
  /\ list' = list
  /\ SetData(nd, id, IF nd[id].kind = "mem" THEN nd[id].data ELSE Rest(D, n))

Listed(nd, id, D, n) ==
  /\ list' = Append(list, id)
  /\ SetData(nd, id, Rest(D, n))
  /\ list = <<>> => "write" \in events' \/ (nd[id].kind = "async" /\ Rest(D, n) = <<>>)

Merged(nd, id, D, n) ==
  /\ list' = list /\ list # <<>> /\ n = 0
  /\ nd[id].kind = "mem" /\ nd[list[Len(list)]].kind = "mem"
  /\ SetData(nd, list[Len(list)], nd[list[Len(list)]].data \o D)

Sends(nd, id, D) ==
  \E n \in 0 .. Len(D) :
    /\ wire' = wire \o SubSeq(D, 1, n)
    /\ n > 0 => list = <<>> /\ ~writeClosed
    /\ events' = events \/ events' = events \cup {"write"}
    /\ Lost(nd, id, D, n) \/ Listed(nd, id, D, n) \/ Merged(nd, id, D, n)

\* What writeCallback() does with the first node
Writes(id) ==
  /\ UNCHANGED list
  /\ \E n \in 0 .. Len(node[id].data) :
       /\ wire' = wire \o SubSeq(node[id].data, 1, n)
       /\ n > 0 => ~writeClosed
       /\ SetData(node, id, Rest(node[id].data, n))

\* What sendAsyncDataInLoop() does with a unit of data
AddsData(id, unit) ==
  /\ UNCHANGED list
  /\ events' = events \/ events' = events \cup {"write"}
  /\ \/ /\ wire' = wire \o <<unit>> /\ UNCHANGED node
        /\ ~writeClosed /\ list # <<>> /\ Head(list) = id /\ node[id].data = <<>>
     \/ wire' = wire /\ SetData(node, id, node[id].data \o <<unit>>)
     \/ wire' = wire /\ UNCHANGED node /\ (writeClosed \/ WriteErrors)

-----------------------------------------------------------------------------
(* The kinds of steps, by what they do to the data on its way                 *)

SameData ==
  /\ node' \in [Ids -> BufferNodes]
  /\ \A x \in Ids : node'[x].kind = node[x].kind /\ node'[x].data = node[x].data

\* No data moves; at most a functor without data is queued or run.
Quiet ==
  /\ UNCHANGED <<list, wire, calls, asyncSent>> /\ SameData
  /\ open' \subseteq open /\ (writeClosed => writeClosed')
  /\ \/ UNCHANGED funcs
     \/ /\ funcs # <<>> /\ funcs' = Tail(funcs)
        /\ Head(funcs).call \notin Kinds \cup {"asyncData"}
     \/ \E g \in Functors :
          /\ g.call \notin Kinds \cup {"asyncData"}
          /\ g.call = "asyncClose" => g.id \in open
          /\ funcs' = Append(funcs, g)

Fresh(t) == <<t, calls[t] + 1>>

\* The heap with a new node for the next call of thread t
WithNode(kind, t) == [node EXCEPT ![Fresh(t)] = NewNode(kind, Fresh(t))]

NewStream(kind, t) == open' = IF kind = "async" THEN open \cup {Fresh(t)} ELSE open

\* Another thread queues a send.
QueuesSend ==
  \E t \in Threads, kind \in Kinds :
    /\ calls[t] < MaxCalls /\ calls' = [calls EXCEPT ![t] = @ + 1]
    /\ node' = WithNode(kind, t) /\ NewStream(kind, t)
    /\ funcs' = Append(funcs, Functor(kind, Fresh(t)))
    /\ UNCHANGED <<list, wire, asyncSent, writeClosed>>

\* What the nodes of each kind send
DataOf(nd, id) == IF nd[id].kind = "mem" THEN UnitsOf(id) ELSE nd[id].data

\* The loop runs a queued send.
RunsSend ==
  /\ funcs # <<>> /\ Head(funcs).call \in Kinds
  /\ Sends(node, Head(funcs).id, DataOf(node, Head(funcs).id))
  /\ funcs' = Tail(funcs)
  /\ UNCHANGED <<calls, open, asyncSent, writeClosed>>

\* The loop thread sends.
SendsNow ==
  \E kind \in Kinds :
    /\ calls[LoopThread] < MaxLoopCalls
    /\ calls' = [calls EXCEPT ![LoopThread] = @ + 1]
    /\ LET nd == WithNode(kind, LoopThread) IN
         Sends(nd, Fresh(LoopThread), DataOf(nd, Fresh(LoopThread)))
    /\ NewStream(kind, LoopThread)
    /\ UNCHANGED <<funcs, asyncSent, writeClosed>>

\* The loop runs sendAsyncDataInLoop().
RunsData ==
  /\ funcs # <<>> /\ Head(funcs).call = "asyncData"
  /\ AddsData(Head(funcs).id, Head(funcs).unit)
  /\ funcs' = Tail(funcs)
  /\ UNCHANGED <<calls, open, asyncSent, writeClosed>>

StreamUnit(id) == Unit(id, asyncSent[id] + 1)

\* AsyncStream::send() in the loop thread and in another one
SendsData ==
  \E id \in open :
    /\ asyncSent[id] < MaxAsync /\ asyncSent' = [asyncSent EXCEPT ![id] = @ + 1]
    /\ id[1] = LoopThread \/ ShareStreams
    /\ AddsData(id, StreamUnit(id))
    /\ UNCHANGED <<funcs, calls, open, writeClosed>>

QueuesData ==
  \E id \in open :
    /\ asyncSent[id] < MaxAsync /\ asyncSent' = [asyncSent EXCEPT ![id] = @ + 1]
    /\ id[1] \in Threads
    /\ funcs' = Append(funcs, [call |-> "asyncData", id |-> id, unit |-> StreamUnit(id)])
    /\ UNCHANGED <<sendVars, calls, open, writeClosed>>

\* writeCallback() is done with the first node, or writes it.
DropsHead ==
  /\ list # <<>> /\ node[Head(list)].data = <<>>
  /\ list' = Tail(list)
  /\ UNCHANGED <<node, wire, funcs, calls, open, asyncSent, writeClosed>>

WritesHead ==
  /\ list # <<>> /\ Writes(Head(list))
  /\ UNCHANGED <<funcs, calls, open, asyncSent, writeClosed>>

Step == \/ Quiet \/ QueuesSend \/ RunsSend \/ SendsNow \/ RunsData \/ SendsData
        \/ QueuesData \/ DropsHead \/ WritesHead

\* The type of the data on its way
ShapesOK ==
  /\ node \in [Ids -> BufferNodes]
  /\ list \in Seq(Ids) /\ IsInjective(list)
  /\ wire \in Seq(Units) /\ funcs \in Seq(Functors)
  /\ calls \in [AllThreads -> 0 .. MaxCalls + MaxLoopCalls]
  /\ open \subseteq Ids /\ asyncSent \in [Ids -> 0 .. MaxAsync]

FlagsOK ==
  /\ status \in {"Connecting", "Connected", "Disconnecting", "Disconnected"}
  /\ events \subseteq {"read", "write"} /\ removed \in BOOLEAN
  /\ closeOnEmpty \in BOOLEAN /\ writeClosed \in BOOLEAN
  /\ lpc \in {"idle", "writeCallback", "closeCallback"}
  /\ shutAt \in [AllThreads -> 0 .. NotShut] /\ forced \subseteq AllThreads
  /\ closes \in 0 .. 2 /\ early \subseteq Ids

-----------------------------------------------------------------------------
(* Sequences, and lists without duplicates                                   *)

\* The elements of a sequence, its length and its domain
LEMMA ElementOfSeq ==
  ASSUME NEW S, NEW s \in Seq(S), NEW n \in 1 .. Len(s)
  PROVE  s[n] \in S
OBVIOUS

\* The empty sequence
LEMMA EmptySeq ==
  ASSUME NEW S
  PROVE  <<>> \in Seq(S) /\ Len(<<>>) = 0 /\ \A s \in Seq(S) : s # <<>> => Len(s) \in Nat \ {0}
OBVIOUS

\* A sequence as a function
LEMMA LenProperties ==
  ASSUME NEW S, NEW s \in Seq(S)
  PROVE  Len(s) \in Nat /\ s \in [1 .. Len(s) -> S] /\ DOMAIN s = 1 .. Len(s)
OBVIOUS

\* The elements of s \o t
LEMMA ConcatProperties ==
  ASSUME NEW S, NEW s \in Seq(S), NEW t \in Seq(S)
  PROVE  /\ s \o t \in Seq(S) /\ Len(s \o t) = Len(s) + Len(t)
         /\ \A i \in 1 .. Len(s) + Len(t) :
              (s \o t)[i] = IF i <= Len(s) THEN s[i] ELSE t[i - Len(s)]
OBVIOUS

\* The first element of a sequence, and the others
LEMMA HeadTailProperties ==
  ASSUME NEW S, NEW s \in Seq(S), s # <<>>
  PROVE  /\ Head(s) \in S /\ Tail(s) \in Seq(S) /\ Len(Tail(s)) = Len(s) - 1
         /\ \A i \in 1 .. Len(Tail(s)) : Tail(s)[i] = s[i + 1]
OBVIOUS

\* A sequence with one more element
LEMMA AppendProperties ==
  ASSUME NEW S, NEW s \in Seq(S), NEW x \in S
  PROVE  /\ Append(s, x) \in Seq(S) /\ Append(s, x) # <<>> /\ Append(s, x) = s \o <<x>>
         /\ Len(Append(s, x)) = Len(s) + 1 /\ Append(s, x)[Len(s) + 1] = x
         /\ \A i \in 1 .. Len(s) : Append(s, x)[i] = s[i]
OBVIOUS

\* Two sequences with the same elements
LEMMA SeqEqual ==
  ASSUME NEW S, NEW s \in Seq(S), NEW t \in Seq(S), Len(s) = Len(t),
         \A i \in 1 .. Len(t) : s[i] = t[i]
  PROVE  s = t
<1>1. s \in [1 .. Len(t) -> S] /\ t \in [1 .. Len(t) -> S]
  BY Zenon, LenProperties
<1> QED BY <1>1

\* A sequence that is cut after n elements
LEMMA Cut ==
  ASSUME NEW S, NEW s \in Seq(S), NEW n \in 0 .. Len(s)
  PROVE  /\ SubSeq(s, 1, n) \in Seq(S) /\ Len(SubSeq(s, 1, n)) = n
         /\ \A i \in 1 .. n : SubSeq(s, 1, n)[i] = s[i]
         /\ Rest(s, n) \in Seq(S) /\ Len(Rest(s, n)) = Len(s) - n
         /\ \A i \in 1 .. Len(s) - n : Rest(s, n)[i] = s[n + i]
BY DEF Rest

\* Two sequences put together
LEMMA Joined ==
  ASSUME NEW S, NEW s \in Seq(S), NEW t \in Seq(S)
  PROVE  /\ s \o t \in Seq(S) /\ Len(s \o t) = Len(s) + Len(t)
         /\ Len(s) \in Nat /\ Len(t) \in Nat
         /\ \A i \in 1 .. Len(s) : (s \o t)[i] = s[i]
         /\ \A i \in 1 .. Len(t) : (s \o t)[Len(s) + i] = t[i]
         /\ \A i \in 1 .. Len(s \o t) :
              i \in 1 .. Len(s) \/ (i - Len(s) \in 1 .. Len(t) /\ i = Len(s) + (i - Len(s)))
BY ConcatProperties, LenProperties

\* The two parts of a sequence make it up.
LEMMA CutIsJoin ==
  ASSUME NEW S, NEW s \in Seq(S), NEW n \in 0 .. Len(s)
  PROVE  s = SubSeq(s, 1, n) \o Rest(s, n)
<1> DEFINE a == SubSeq(s, 1, n)
           b == Rest(s, n)
<1>1. /\ a \in Seq(S) /\ b \in Seq(S) /\ Len(a) = n /\ Len(b) = Len(s) - n /\ Len(s) \in Nat
      /\ \A i \in 1 .. n : a[i] = s[i]
      /\ \A i \in 1 .. Len(s) - n : b[i] = s[n + i]
  BY Cut
<1> HIDE DEF a, b
<1>2. /\ a \o b \in Seq(S) /\ Len(a \o b) = n + (Len(s) - n)
      /\ \A i \in 1 .. n + (Len(s) - n) : (a \o b)[i] = IF i <= n THEN a[i] ELSE b[i - n]
  BY <1>1
<1>3. n + (Len(s) - n) = Len(s) /\ n \in Nat /\ \A i \in 1 .. Len(s) :
        IF i <= n THEN i \in 1 .. n ELSE i - n \in 1 .. Len(s) - n /\ n + (i - n) = i
  BY <1>1
<1>4. \A i \in 1 .. Len(s) : (a \o b)[i] = s[i]
  BY <1>1, <1>2, <1>3
<1>5. a \o b \in Seq(S) /\ Len(a \o b) = Len(s) /\ s \in Seq(S)
  BY Zenon, <1>2, <1>3
<1> HIDE DEF a, b
<1>6. a \o b = s
  BY Zenon, <1>4, <1>5, SeqEqual
<1> QED BY Zenon, <1>6 DEF a, b

\* Nothing of a sequence, and all of it
LEMMA CutNone ==
  ASSUME NEW S, NEW s \in Seq(S)
  PROVE  /\ SubSeq(s, 1, 0) = <<>> /\ SubSeq(s, 1, Len(s)) = s /\ Rest(s, 0) = s
         /\ s \o <<>> = s /\ <<>> \o s = s
<1>1. SubSeq(s, 1, 0) = <<>>
  BY Cut, LenProperties, EmptySeq
<1>2. Rest(s, 0) = s
  BY DEF Rest
<1>3. s \o <<>> = s /\ <<>> \o s = s /\ SubSeq(s, 1, Len(s)) = s
  OBVIOUS
<1> QED BY Zenon, <1>1, <1>2, <1>3

\* The last and the other elements of a longer list, and of a shorter one
LEMMA Longer ==
  ASSUME NEW S, NEW s \in Seq(S), NEW x \in S
  PROVE  /\ Append(s, x) \in Seq(S) /\ Len(Append(s, x)) = Len(s) + 1
         /\ \A i \in 1 .. Len(s) : Append(s, x)[i] = s[i]
         /\ Append(s, x)[Len(s) + 1] = x
         /\ \A i \in 1 .. Len(Append(s, x)) : i \in 1 .. Len(s) \/ i = Len(s) + 1
         /\ Len(s) \in Nat
<1>1. Len(s) \in Nat
  BY Zenon, LenProperties
<1> QED BY <1>1, AppendProperties

\* The last element
LEMMA LastIn ==
  ASSUME NEW S, NEW s \in Seq(S), s # <<>>
  PROVE  Len(s) \in Nat /\ Len(s) \in 1 .. Len(s) /\ s[Len(s)] \in S
<1>1. Len(s) \in Nat /\ Len(s) \in 1 .. Len(s)
  BY LenProperties, EmptySeq
<1> QED BY Zenon, <1>1, ElementOfSeq

\* A sequence without its first element
LEMMA Shorter ==
  ASSUME NEW S, NEW s \in Seq(S), s # <<>>
  PROVE  /\ Head(s) \in S /\ Head(s) = s[1] /\ 1 \in 1 .. Len(s) /\ Tail(s) \in Seq(S)
         /\ \A i \in 1 .. Len(Tail(s)) : i + 1 \in 1 .. Len(s) /\ Tail(s)[i] = s[i + 1]
         /\ \A i \in 1 .. Len(s) : i = 1 \/ (i - 1 \in 1 .. Len(Tail(s)) /\ Tail(s)[i - 1] = s[i])
<1>1. Len(s) \in Nat /\ Len(s) # 0
  BY Zenon, LenProperties, EmptySeq
<1>2. Len(Tail(s)) = Len(s) - 1 /\ \A i \in 1 .. Len(Tail(s)) : Tail(s)[i] = s[i + 1]
  BY Zenon, <1>1, HeadTailProperties
<1>3. \A i \in 1 .. Len(s) : i = 1 \/ (i - 1 \in 1 .. Len(s) - 1 /\ (i - 1) + 1 = i)
  BY <1>1
<1> QED BY <1>1, <1>2, <1>3, HeadTailProperties

\* What a list holds, and when it holds each once, in terms of its places
LEMMA RangeIs ==
  ASSUME NEW S, NEW s \in Seq(S)
  PROVE  /\ \A x : x \in Range(s) <=> \E i \in 1 .. Len(s) : x = s[i]
         /\ IsInjective(s) <=> \A i, j \in 1 .. Len(s) : s[i] = s[j] => i = j
<1>1. DOMAIN s = 1 .. Len(s)
  BY Zenon, LenProperties
<1> QED BY Zenon, <1>1 DEF Range, IsInjective

\* push_back() of a node that is not in the list yet
LEMMA LongerList ==
  ASSUME NEW S, NEW s \in Seq(S), NEW x \in S
  PROVE  /\ Range(Append(s, x)) = Range(s) \cup {x}
         /\ IsInjective(s) /\ x \notin Range(s) => IsInjective(Append(s, x))
<1>1. Append(s, x) \in Seq(S)
  BY Zenon, Longer
<1>2. Range(Append(s, x)) = Range(s) \cup {x}
  <2>1. ASSUME NEW y \in Range(Append(s, x)) PROVE y \in Range(s) \cup {x}
    <3>1. PICK i \in 1 .. Len(Append(s, x)) : y = Append(s, x)[i]
      BY ZenonT(30), <1>1, RangeIs
    <3>2. CASE i \in 1 .. Len(s)
      BY <3>1, <3>2, Longer, RangeIs
    <3>3. CASE i = Len(s) + 1
      BY ZenonT(30), <3>1, <3>3, Longer
    <3> QED BY Zenon, <3>2, <3>3, Longer
  <2>2. ASSUME NEW y \in Range(s) PROVE y \in Range(Append(s, x))
    <3>1. PICK i \in 1 .. Len(s) : y = s[i]
      BY ZenonT(30), RangeIs
    <3>2. i \in 1 .. Len(Append(s, x)) /\ Append(s, x)[i] = y
      BY <3>1, Longer
    <3> QED BY Zenon, <1>1, <3>2, RangeIs
  <2>3. x \in Range(Append(s, x))
    <3>1. Len(s) + 1 \in 1 .. Len(Append(s, x)) /\ Append(s, x)[Len(s) + 1] = x
      BY Longer
    <3> QED BY Zenon, <1>1, <3>1, RangeIs
  <2> QED BY Zenon, <2>1, <2>2, <2>3
<1>3. ASSUME IsInjective(s), x \notin Range(s) PROVE IsInjective(Append(s, x))
  <2> SUFFICES ASSUME NEW i \in 1 .. Len(Append(s, x)), NEW j \in 1 .. Len(Append(s, x)),
                      Append(s, x)[i] = Append(s, x)[j]
               PROVE  i = j
    BY Zenon, <1>1, RangeIs
  <2>1. \A k \in 1 .. Len(s) : Append(s, x)[k] # x
    BY <1>3, Longer, RangeIs
  <2>2. CASE i \in 1 .. Len(s) /\ j \in 1 .. Len(s)
    BY <2>2, <1>3, Longer, RangeIs
  <2> QED BY <2>1, <2>2, Longer
<1> QED BY Zenon, <1>2, <1>3

-----------------------------------------------------------------------------
(* Nodes, functors and the units of a call                                   *)

\* The data of a message, a file or a stream
LEMMA UnitsOfFacts ==
  ASSUME NEW id \in Ids
  PROVE  /\ UnitsOf(id) \in Seq(Units) /\ Len(UnitsOf(id)) = MsgSize
         /\ \A u \in 1 .. MsgSize : UnitsOf(id)[u] = Unit(id, u)
         /\ KeysIn(UnitsOf(id)) = {id} /\ Ordered(UnitsOf(id))
         /\ \A w : Follows(w, UnitsOf(id))
<1>1. id = <<id[1], id[2]>> /\ id[1] \in AllThreads /\ id[2] \in 1 .. MaxCalls + MaxLoopCalls
  BY BoundsAssumption DEF Ids, AllThreads
<1>2. \A u \in 1 .. MsgSize : Unit(id, u) \in Units
  BY <1>1, BoundsAssumption DEF Unit, Units
<1>3. MsgSize \in Nat /\ 1 \in 1 .. MsgSize
  BY BoundsAssumption
<1>4. UnitsOf(id) \in Seq(Units) /\ Len(UnitsOf(id)) = MsgSize
  BY <1>2, <1>3 DEF UnitsOf
<1>5. \A u \in 1 .. MsgSize : UnitsOf(id)[u] = Unit(id, u)
  BY Zenon DEF UnitsOf
<1> HIDE DEF UnitsOf
<1>6. \A u \in 1 .. MsgSize : Key(UnitsOf(id)[u]) = id
  BY <1>1, <1>5 DEF Key, Unit
<1>7. KeysIn(UnitsOf(id)) = {id}
  BY Zenon, <1>3, <1>4, <1>6 DEF KeysIn
<1>8. Ordered(UnitsOf(id))
  BY <1>3, <1>4, <1>5 DEF Ordered, Unit, Before
<1>9. ASSUME NEW w PROVE Follows(w, UnitsOf(id))
  <2> SUFFICES ASSUME NEW p \in 1 .. Len(UnitsOf(id)), UnitsOf(id)[p][3] > 1
               PROVE \E q \in 1 .. p - 1 : UnitsOf(id)[q] = Previous(UnitsOf(id)[p])
    BY Zenon DEF Follows
  <2>1. UnitsOf(id)[p] = Unit(id, p) /\ p \in Nat /\ p > 1
    BY <1>3, <1>4, <1>5 DEF Unit
  <2>2. p - 1 \in 1 .. p - 1 /\ p - 1 \in 1 .. MsgSize
    BY <2>1, <1>3, <1>4
  <2>3. UnitsOf(id)[p - 1] = Previous(UnitsOf(id)[p])
    BY <2>1, <2>2, <1>5 DEF Unit, Previous
  <2> QED BY Zenon, <2>2, <2>3
<1> QED BY Zenon, <1>4, <1>5, <1>7, <1>8, <1>9

\* The type invariant in two parts, one for the data and one for the rest
LEMMA TypeParts == TypeInv <=> ShapesOK /\ FlagsOK
<1>1. funcs \in Seq(Functors) => \A i \in 1 .. Len(funcs) : funcs[i].id \in Ids \cup {NoId}
  <2> SUFFICES ASSUME funcs \in Seq(Functors), NEW i \in 1 .. Len(funcs)
               PROVE  funcs[i].id \in Ids \cup {NoId}
    BY Zenon
  <2>1. funcs[i] \in Functors
    BY Zenon, ElementOfSeq
  <2> QED BY Zenon, <2>1 DEF Functors
<1> QED BY <1>1, Zenon DEF TypeInv, TypeOK, ShapesOK, FlagsOK, BufferNodes

\* The identity of a call, and the heap with its node
LEMMA FreshFacts ==
  ASSUME TypeInv, NEW t \in AllThreads, NEW kind \in Kinds,
         (t \in Threads /\ calls[t] < MaxCalls) \/ (t = LoopThread /\ calls[t] < MaxLoopCalls)
  PROVE  /\ Fresh(t) \in Ids /\ Fresh(t)[1] = t /\ Fresh(t)[2] = calls[t] + 1
         /\ ~Used(calls, Fresh(t)) /\ calls[t] \in Nat
         /\ [calls EXCEPT ![t] = @ + 1] \in [AllThreads -> 0 .. MaxCalls + MaxLoopCalls]
         /\ WithNode(kind, t) \in [Ids -> BufferNodes]
         /\ WithNode(kind, t)[Fresh(t)] = NewNode(kind, Fresh(t))
         /\ \A x \in Ids : x # Fresh(t) => WithNode(kind, t)[x] = node[x]
<1>1. calls \in [AllThreads -> 0 .. MaxCalls + MaxLoopCalls] /\ node \in [Ids -> BufferNodes]
  BY Zenon DEF TypeInv, TypeOK, BufferNodes
<1>2. calls[t] \in Nat /\ MaxCalls \in Nat /\ MaxLoopCalls \in Nat
  BY <1>1, BoundsAssumption
<1>3. Fresh(t)[1] = t /\ Fresh(t)[2] = calls[t] + 1
  BY Zenon DEF Fresh
<1>4. Fresh(t) \in Ids
  BY <1>2 DEF Fresh, Ids
<1>5. ~Used(calls, Fresh(t))
  BY <1>2, <1>3 DEF Used
<1>6. calls[t] + 1 \in 0 .. MaxCalls + MaxLoopCalls
  BY <1>2
<1>7. NewNode(kind, Fresh(t)) \in BufferNodes
  <2>1. UnitsOf(Fresh(t)) \in Seq(Units) /\ <<>> \in Seq(Units)
    BY Zenon, <1>4, UnitsOfFacts, EmptySeq
  <2> QED BY Zenon, <2>1 DEF NewNode, BufferNodes
<1> QED BY Zenon, <1>1, <1>2, <1>3, <1>4, <1>5, <1>6, <1>7 DEF WithNode

\* The functor that runs, and those that wait behind it
LEMMA HeadFunc ==
  ASSUME TypeInv, funcs # <<>>
  PROVE  /\ Head(funcs) \in Functors /\ Head(funcs) = funcs[1] /\ 1 \in 1 .. Len(funcs)
         /\ Tail(funcs) \in Seq(Functors) /\ Len(Tail(funcs)) = Len(funcs) - 1
         /\ \A i \in 1 .. Len(Tail(funcs)) : i + 1 \in 1 .. Len(funcs) /\ Tail(funcs)[i] = funcs[i + 1]
<1>1. funcs \in Seq(Functors) /\ Len(funcs) \in Nat /\ Len(funcs) # 0
  BY Zenon, LenProperties, EmptySeq DEF TypeInv
<1> QED BY <1>1, HeadTailProperties

\* What the calls queue are functors.
LEMMA Functored ==
  /\ \A call \in {"established", "destroy", "shutdown", "forceClose"} :
       Functor(call, NoId) \in Functors /\ Functor(call, NoId).call = call
  /\ \A id \in Ids, call \in Kinds \cup {"asyncClose"} :
       /\ Functor(call, id) \in Functors
       /\ Functor(call, id).call = call /\ Functor(call, id).id = id
  BY Zenon DEF Functors, Functor, Kinds

\* The types after a send
LEMMA SendsShapes ==
  ASSUME TypeInv, NEW nd \in [Ids -> BufferNodes], NEW id \in Ids, NEW D \in Seq(Units),
         id \notin Range(list), Sends(nd, id, D)
  PROVE  /\ node' \in [Ids -> BufferNodes] /\ wire' \in Seq(Units)
         /\ list' \in Seq(Ids) /\ IsInjective(list')
         /\ \A x \in Ids : node'[x].kind = nd[x].kind /\ node'[x].done = nd[x].done
         /\ list' = list \/ list' = Append(list, id)
         /\ events' = events \/ events' = events \cup {"write"}
<1>1. list \in Seq(Ids) /\ IsInjective(list) /\ wire \in Seq(Units)
  BY Zenon DEF TypeInv, TypeOK
<1>2. PICK n \in 0 .. Len(D) :
        /\ wire' = wire \o SubSeq(D, 1, n)
        /\ events' = events \/ events' = events \cup {"write"}
        /\ Lost(nd, id, D, n) \/ Listed(nd, id, D, n) \/ Merged(nd, id, D, n)
  BY Zenon DEF Sends
<1>3. wire' \in Seq(Units)
  BY Zenon, <1>1, <1>2, Cut, ConcatProperties
<1>4. list' = list \/ list' = Append(list, id)
  BY Zenon, <1>2 DEF Lost, Listed, Merged
<1>5. list' \in Seq(Ids) /\ IsInjective(list')
  <2>1. Append(list, id) \in Seq(Ids) /\ IsInjective(Append(list, id))
    BY Zenon, <1>1, Longer, LongerList
  <2> QED BY Zenon, <1>1, <1>4, <2>1
<1>6. /\ node' \in [Ids -> BufferNodes]
      /\ \A x \in Ids : node'[x].kind = nd[x].kind /\ node'[x].done = nd[x].done
  BY Zenon, <1>2 DEF Lost, Listed, Merged, SetData
<1> QED BY Zenon, <1>2, <1>3, <1>4, <1>5, <1>6

\* The new node of a call is in no list, and no functor names it.
LEMMA FreshUnused ==
  ASSUME TypeInv, IdsInv, NEW id \in Ids, ~Used(calls, id)
  PROVE  /\ id \notin Range(list) /\ id \notin open /\ node[id].kind # "async"
         /\ \A i \in 1 .. Len(funcs) :
              funcs[i].call \in Kinds \cup {"asyncData", "asyncClose"} => funcs[i].id # id
<1>1. list \in Seq(Ids)
  BY Zenon DEF TypeInv, TypeOK
<1>2. id \notin Range(list)
  BY <1>1, RangeIs DEF IdsInv
<1>3. node[id].kind # "async" /\ id \notin open
  BY Zenon DEF IdsInv
<1> QED BY Zenon, <1>2, <1>3 DEF IdsInv, FuncOK

\* What a node sends is a sequence of units.
LEMMA DataOfType ==
  ASSUME NEW nd \in [Ids -> BufferNodes], NEW id \in Ids
  PROVE  DataOf(nd, id) \in Seq(Units) /\ nd[id].data \in Seq(Units) /\ nd[id].kind \in Kinds
  BY Zenon, UnitsOfFacts DEF DataOf, BufferNodes

\* The part of IdsInv that is about the queue
QueueOK(nd, l, cl, fs) ==
  /\ \A i \in 1 .. Len(fs) : FuncOK(nd, l, cl, fs[i])
  /\ \A i, j \in 1 .. Len(fs) : i < j => InTurn(fs[i], fs[j])

\* The rest of IdsInv
NodesOK(nd, l, cl, op) ==
  /\ \A x \in Range(l) : Used(cl, x)
  /\ \A x \in Ids : nd[x].kind = "async" => Used(cl, x)
  /\ \A x \in op : nd[x].kind = "async"

\* IdsInv in its two parts
LEMMA IdsParts ==
  ASSUME list \in Seq(Ids)
  PROVE  IdsInv <=> NodesOK(node, list, calls, open) /\ QueueOK(node, list, calls, funcs)
<1>1. (\A i \in 1 .. Len(list) : Used(calls, list[i])) <=> \A x \in Range(list) : Used(calls, x)
  BY Zenon, RangeIs
<1> QED BY Zenon, <1>1 DEF IdsInv, NodesOK, QueueOK

-----------------------------------------------------------------------------
(* The order of the data                                                     *)

CallIds == AllThreads \X Nat

\* Calls by their keys
LEMMA KeysTypes ==
  /\ Ids \subseteq CallIds
  /\ \A s \in Seq(Units) : KeysIn(s) \subseteq CallIds
  /\ \A nd \in [Ids -> BufferNodes], id \in Ids : KeysOf(nd, id) \subseteq CallIds
<1>1. Ids \subseteq CallIds
  BY DEF Ids, CallIds, AllThreads
<1>2. ASSUME NEW s \in Seq(Units) PROVE KeysIn(s) \subseteq CallIds
  <2> SUFFICES ASSUME NEW p \in 1 .. Len(s) PROVE Key(s[p]) \in CallIds
    BY Zenon DEF KeysIn
  <2>1. s[p] \in Units
    BY Zenon, ElementOfSeq
  <2> QED BY <2>1, BoundsAssumption DEF Units, Key, CallIds
<1>3. ASSUME NEW nd \in [Ids -> BufferNodes], NEW id \in Ids PROVE KeysOf(nd, id) \subseteq CallIds
  <2>1. nd[id].data \in Seq(Units)
    BY Zenon DEF BufferNodes
  <2> QED BY Zenon, <1>1, <1>2, <2>1 DEF KeysOf
<1> QED BY Zenon, <1>1, <1>2, <1>3

\* Data of different calls is not compared.
LEMMA UnitsApart ==
  ASSUME NEW s \in Seq(Units), NEW t \in Seq(Units), \A k \in KeysIn(s) : k \notin KeysIn(t)
  PROVE  UnitsLT(s, t)
  BY Zenon DEF UnitsLT, KeysIn

\* No data is in order with any.
LEMMA NoUnits ==
  ASSUME NEW s \in Seq(Units)
  PROVE  /\ KeysIn(<<>>) = {} /\ Ordered(<<>>) /\ UnitsLT(s, <<>>) /\ UnitsLT(<<>>, s)
         /\ \A w : Follows(w, <<>>)
  BY DEF KeysIn, Ordered, UnitsLT, Follows

\* A single unit
LEMMA OneUnit ==
  ASSUME NEW d \in Units
  PROVE  <<d>> \in Seq(Units) /\ Len(<<d>>) = 1 /\ KeysIn(<<d>>) = {Key(d)} /\ Ordered(<<d>>)
<1>1. <<d>> \in Seq(Units) /\ Len(<<d>>) = 1 /\ <<d>>[1] = d
  OBVIOUS
<1>2. 1 .. 1 = {1}
  OBVIOUS
<1>3. KeysIn(<<d>>) = {Key(d)}
  BY Zenon, <1>1, <1>2 DEF KeysIn
<1>4. Ordered(<<d>>)
  BY <1>1, <1>2 DEF Ordered
<1> QED BY Zenon, <1>1, <1>3, <1>4

\* The unit that an async stream sends next
LEMMA NextUnits ==
  ASSUME NEW sent \in [Ids -> 0 .. MaxAsync], NEW id \in Ids
  PROVE  /\ NextUnit(sent, id) = <<Unit(id, sent[id] + 1)>> /\ Unit(id, sent[id] + 1) \in Units
         /\ NextUnit(sent, id) \in Seq(Units) /\ KeysIn(NextUnit(sent, id)) = {id}
<1>1. id \in AllThreads \X (1 .. MaxCalls + MaxLoopCalls) /\ id = <<id[1], id[2]>>
  BY BoundsAssumption DEF Ids, AllThreads
<1>2. sent[id] + 1 \in 1 .. MsgSize + MaxAsync
  BY BoundsAssumption
<1>3. Unit(id, sent[id] + 1) \in Units
  BY Zenon, <1>1, <1>2 DEF Unit, Units
<1>4. Key(Unit(id, sent[id] + 1)) = id
  BY Zenon, <1>1 DEF Key, Unit
<1> QED BY Zenon, <1>3, <1>4, OneUnit DEF NextUnit

\* The heap changes only where no call has been made: what was in order is.
SafeChange(w, nd, nd2, l, cl, cl2, sent) ==
  /\ \A x \in Ids : Used(cl, x) => nd2[x].kind = nd[x].kind /\ nd2[x].data = nd[x].data
  /\ \A i \in 1 .. Len(l) : Used(cl, l[i])
  /\ \A x \in Ids : nd[x].kind = "async" => Used(cl, x)
  /\ \A x \in Ids : nd2[x].kind = "async" => nd[x].kind = "async" \/ StreamInOrder(w, nd2, sent, x)
  /\ \A x \in CallIds : Used(cl, x) => Used(cl2, x)

\* What a new node sends: its own units, newer than all that was sent.
Newest(w, nd, l, id, D) ==
  /\ D \in Seq(Units) /\ Ordered(D) /\ KeysIn(D) \subseteq {id} /\ Ordered(w)
  /\ KeysLT(KeysIn(w), {id}) /\ \A i \in 1 .. Len(l) : KeysLT(KeysOf(nd, l[i]), {id})
  /\ nd[id].kind = "async" => D = nd[id].data

\* The order of the data is kept by every step.
LEMMA OrderStep ==
  StreamsInOrder /\ TypeInv /\ TypeInv' /\ IdsInv /\ OrderInv /\ Step => OrderInv'
\* The keys of a sequence are those of its parts.
<1>JoinedKeys. ASSUME NEW s \in Seq(Units), NEW t \in Seq(Units)
               PROVE  KeysIn(s \o t) = KeysIn(s) \cup KeysIn(t)
  <2>1. ASSUME NEW k \in KeysIn(s \o t) PROVE k \in KeysIn(s) \cup KeysIn(t)
    <3>1. PICK i \in 1 .. Len(s \o t) : k = Key((s \o t)[i])
      BY Zenon, <2>1 DEF KeysIn
    <3> QED BY <3>1, Joined DEF KeysIn
  <2>2. ASSUME NEW k \in KeysIn(s) PROVE k \in KeysIn(s \o t)
    <3>1. \A i \in 1 .. Len(s) : i \in 1 .. Len(s \o t)
      BY Joined
    <3> QED BY <3>1, Joined DEF KeysIn
  <2>3. ASSUME NEW k \in KeysIn(t) PROVE k \in KeysIn(s \o t)
    <3>1. \A i \in 1 .. Len(t) : Len(s) + i \in 1 .. Len(s \o t)
      BY Joined
    <3> QED BY SMTT(60), <3>1, Joined DEF KeysIn
  <2> QED BY Zenon, <2>1, <2>2, <2>3
\* A sequence is ordered if its parts are and one comes before the other.
<1>JoinedOrder. ASSUME NEW s \in Seq(Units), NEW t \in Seq(Units)
                PROVE  Ordered(s \o t) <=> Ordered(s) /\ Ordered(t) /\ AllBefore(s, t)
  <2>1. ASSUME Ordered(s \o t) PROVE Ordered(s) /\ Ordered(t) /\ AllBefore(s, t)
    <3>1. Ordered(s)
      <4> SUFFICES ASSUME NEW p \in 1 .. Len(s), NEW q \in 1 .. Len(s), p < q, s[p][1] = s[q][1]
                   PROVE  Before(s[p], s[q])
        BY Zenon DEF Ordered
      <4>1. /\ p \in 1 .. Len(s \o t) /\ q \in 1 .. Len(s \o t)
            /\ (s \o t)[p] = s[p] /\ (s \o t)[q] = s[q]
        BY Joined
      <4> QED BY Zenon, <4>1, <2>1 DEF Ordered
    <3>2. Ordered(t)
      <4> SUFFICES ASSUME NEW p \in 1 .. Len(t), NEW q \in 1 .. Len(t), p < q, t[p][1] = t[q][1]
                   PROVE  Before(t[p], t[q])
        BY Zenon DEF Ordered
      <4>1. /\ Len(s) + p \in 1 .. Len(s \o t) /\ Len(s) + q \in 1 .. Len(s \o t)
            /\ (s \o t)[Len(s) + p] = t[p] /\ (s \o t)[Len(s) + q] = t[q]
        BY Joined
      <4>2. Len(s) + p < Len(s) + q
        BY LenProperties
      <4> QED BY Zenon, <4>1, <4>2, <2>1 DEF Ordered
    <3>3. AllBefore(s, t)
      <4> SUFFICES ASSUME NEW p \in 1 .. Len(s), NEW q \in 1 .. Len(t), s[p][1] = t[q][1]
                   PROVE  Before(s[p], t[q])
        BY Zenon DEF AllBefore
      <4>1. /\ p \in 1 .. Len(s \o t) /\ Len(s) + q \in 1 .. Len(s \o t)
            /\ (s \o t)[p] = s[p] /\ (s \o t)[Len(s) + q] = t[q]
        BY Joined
      <4>2. p < Len(s) + q
        BY LenProperties
      <4> QED BY Zenon, <4>1, <4>2, <2>1 DEF Ordered
    <3> QED BY Zenon, <3>1, <3>2, <3>3
  <2>2. ASSUME Ordered(s), Ordered(t), AllBefore(s, t) PROVE Ordered(s \o t)
    <3> DEFINE n == Len(s)
    <3> SUFFICES ASSUME NEW p \in 1 .. Len(s \o t), NEW q \in 1 .. Len(s \o t), p < q,
                        (s \o t)[p][1] = (s \o t)[q][1]
                 PROVE  Before((s \o t)[p], (s \o t)[q])
      BY Zenon DEF Ordered
    <3>1. CASE q \in 1 .. n
      <4>1. p \in 1 .. n
        BY <3>1, Joined
      <4> QED BY <3>1, <4>1, <2>2, Joined DEF Ordered
    <3>2. CASE p \in 1 .. n /\ q - n \in 1 .. Len(t) /\ q = n + (q - n)
      BY <3>2, <2>2, Joined DEF AllBefore
    <3>3. CASE p - n \in 1 .. Len(t) /\ p = n + (p - n) /\ q - n \in 1 .. Len(t) /\ q = n + (q - n)
      <4>1. p - n < q - n
        BY Joined
      <4> QED BY SMTT(30), <3>3, <4>1, <2>2, Joined DEF Ordered
    <3> QED BY ZenonT(30), <3>1, <3>2, <3>3, Joined
  <2> QED BY Zenon, <2>1, <2>2
\* One sequence of units comes before another.
<1>BeforeParts. ASSUME NEW s \in Seq(Units), NEW t \in Seq(Units)
                PROVE  AllBefore(s, t) <=> KeysLE(KeysIn(s), KeysIn(t)) /\ UnitsLT(s, t)
  <2>1. /\ \A p \in 1 .. Len(s) : s[p] \in Units
        /\ \A q \in 1 .. Len(t) : t[q] \in Units
    BY Zenon, ElementOfSeq
  <2>2. \A d \in Units : d[2] \in Nat /\ d[3] \in Nat
    BY BoundsAssumption DEF Units
  <2>3. ASSUME NEW d \in Units, NEW e \in Units
        PROVE (d[1] = e[1] => Before(d, e)) <=>
                /\ Key(d)[1] = Key(e)[1] => Key(d)[2] <= Key(e)[2]
                /\ Key(d) = Key(e) => d[3] < e[3]
    BY <2>2 DEF Before, Key
  <2>4. KeysLE(KeysIn(s), KeysIn(t)) <=>
          \A p \in 1 .. Len(s), q \in 1 .. Len(t) :
            Key(s[p])[1] = Key(t[q])[1] => Key(s[p])[2] <= Key(t[q])[2]
    BY Zenon DEF KeysLE, KeysIn
  <2> QED BY Zenon, <2>1, <2>3, <2>4 DEF AllBefore, UnitsLT
\* What comes before or after a sequence does so with its parts.
<1>JoinedUnits. ASSUME NEW s \in Seq(Units), NEW t \in Seq(Units), NEW u \in Seq(Units)
                PROVE  /\ UnitsLT(s \o t, u) <=> UnitsLT(s, u) /\ UnitsLT(t, u)
                       /\ UnitsLT(u, s \o t) <=> UnitsLT(u, s) /\ UnitsLT(u, t)
  <2> DEFINE c == s \o t
             I == 1 .. Len(s)  J == 1 .. Len(t)  K == 1 .. Len(c)  L == 1 .. Len(u)
             LT(d, e) == Key(d) = Key(e) => d[3] < e[3]
  <2>1. \A i \in I : i \in K /\ c[i] = s[i]
    BY Joined
  <2>2. \A j \in J : \E i \in K : c[i] = t[j]
    <3> SUFFICES ASSUME NEW j \in J PROVE \E i \in K : c[i] = t[j]
      BY Zenon
    <3>1. Len(s) + j \in K /\ c[Len(s) + j] = t[j]
      BY Joined
    <3> QED BY Zenon, <3>1
  <2>3. \A i \in K : i \in I \/ \E j \in J : c[i] = t[j]
    BY Joined
  <2>4. /\ UnitsLT(c, u) <=> \A i \in K, l \in L : LT(c[i], u[l])
        /\ UnitsLT(s, u) <=> \A i \in I, l \in L : LT(s[i], u[l])
        /\ UnitsLT(t, u) <=> \A i \in J, l \in L : LT(t[i], u[l])
        /\ UnitsLT(u, c) <=> \A i \in K, l \in L : LT(u[l], c[i])
        /\ UnitsLT(u, s) <=> \A i \in I, l \in L : LT(u[l], s[i])
        /\ UnitsLT(u, t) <=> \A i \in J, l \in L : LT(u[l], t[i])
    BY Zenon DEF UnitsLT
  <2> HIDE DEF c, I, J, K, L, LT
  <2>5. UnitsLT(c, u) <=> UnitsLT(s, u) /\ UnitsLT(t, u)
    BY Zenon, <2>1, <2>2, <2>3, <2>4
  <2>6. UnitsLT(u, c) <=> UnitsLT(u, s) /\ UnitsLT(u, t)
    BY Zenon, <2>1, <2>2, <2>3, <2>4
  <2> QED BY Zenon, <2>5, <2>6 DEF c
\* What both parts of a sequence come before, the sequence does.
<1>JoinBefore. ASSUME NEW s \in Seq(Units), NEW t \in Seq(Units), NEW u \in Seq(Units),
                      UnitsLT(s, u), UnitsLT(t, u)
               PROVE  UnitsLT(s \o t, u)
  BY <1>JoinBefore, Zenon, <1>JoinedUnits
\* The same of a sequence that is known by another name
<1>JoinedBefore. ASSUME NEW s \in Seq(Units), NEW t \in Seq(Units), NEW u \in Seq(Units), NEW c,
                        c = s \o t, UnitsLT(s, u), UnitsLT(t, u)
                 PROVE  UnitsLT(c, u)
  BY <1>JoinedBefore, Zenon, <1>JoinedUnits
\* What a sequence comes before, both its parts do.
<1>PartsBefore. ASSUME NEW s \in Seq(Units), NEW t \in Seq(Units), NEW u \in Seq(Units), NEW c,
                       c = s \o t, UnitsLT(c, u)
                PROVE  UnitsLT(s, u) /\ UnitsLT(t, u)
  BY <1>PartsBefore, Zenon, <1>JoinedUnits
\* What comes before both parts of a sequence comes before the sequence.
<1>JoinedAfter. ASSUME NEW s \in Seq(Units), NEW t \in Seq(Units), NEW u \in Seq(Units), NEW c,
                       c = s \o t, UnitsLT(u, s), UnitsLT(u, t)
                PROVE  UnitsLT(u, c)
  BY <1>JoinedAfter, Zenon, <1>JoinedUnits
\* What comes before a sequence comes before both its parts.
<1>PartsAfter. ASSUME NEW s \in Seq(Units), NEW t \in Seq(Units), NEW u \in Seq(Units), NEW c,
                      c = s \o t, UnitsLT(u, c)
               PROVE  UnitsLT(u, s) /\ UnitsLT(u, t)
  BY <1>PartsAfter, Zenon, <1>JoinedUnits
\* Calls in order are different.
<1>KeysApart. ASSUME NEW X, NEW Y, X \subseteq CallIds, Y \subseteq CallIds, KeysLT(X, Y)
              PROVE  KeysLE(X, Y) /\ \A k \in X : k \notin Y
  <2> USE <1>KeysApart
  <2>1. (\A x \in X : x[2] \in Nat) /\ (\A y \in Y : y[2] \in Nat)
    BY Zenon DEF CallIds
  <2>2. KeysLE(X, Y)
    <3> SUFFICES ASSUME NEW x \in X, NEW y \in Y, x[1] = y[1] PROVE x[2] <= y[2]
      BY Zenon DEF KeysLE
    <3>1. x[2] < y[2]
      BY Zenon DEF KeysLT
    <3> QED BY <3>1, <2>1
  <2> QED BY <2>1, <2>2 DEF KeysLT
\* Parts of sets of calls are in the order of the sets.
<1>KeysParts. ASSUME NEW X, NEW Y, NEW X2, NEW Y2, X2 \subseteq X, Y2 \subseteq Y
              PROVE  /\ KeysLT(X, Y) => KeysLT(X2, Y2)
                     /\ KeysLE(X, Y) => KeysLE(X2, Y2)
  BY Zenon, <1>KeysParts DEF KeysLT, KeysLE
\* Unions of sets of calls are in the order of both.
<1>KeysUnion. ASSUME NEW X, NEW Y, NEW Z
              PROVE  /\ KeysLT(X, Z) /\ KeysLT(Y, Z) => KeysLT(X \cup Y, Z)
                     /\ KeysLE(X, Z) /\ KeysLE(Y, Z) => KeysLE(X \cup Y, Z)
                     /\ KeysLT(Z, X) /\ KeysLT(Z, Y) => KeysLT(Z, X \cup Y)
                     /\ KeysLE(Z, X) /\ KeysLE(Z, Y) => KeysLE(Z, X \cup Y)
  BY Zenon, <1>KeysUnion DEF KeysLT, KeysLE
\* A call does not come before itself.
<1>KeysSelf. ASSUME NEW k \in CallIds, NEW X, X \subseteq {k}, NEW Y, Y \subseteq {k}
             PROVE  KeysLE(X, Y)
  BY <1>KeysSelf DEF KeysLE, CallIds
\* Where the heap changes safely, what was in order stays so.
<1>HeapChange. ASSUME NEW w \in Seq(Units), NEW nd \in [Ids -> BufferNodes], NEW nd2 \in [Ids -> BufferNodes],
                      NEW l \in Seq(Ids), NEW cl, NEW cl2, NEW sent,
                      DataInv(w, nd, l, cl, sent), SafeChange(w, nd, nd2, l, cl, cl2, sent)
               PROVE  /\ DataInv(w, nd2, l, cl2, sent)
                      /\ \A f \in Functors :
                           /\ FuncOK(nd, l, cl, f) => FuncOK(nd2, l, cl2, f)
                           /\ FuncOK(nd, l, cl, f) /\ FuncInOrder(w, nd, l, sent, f) => FuncInOrder(w, nd2, l, sent, f)
  <2> USE <1>HeapChange
  <2> USE DEF SafeChange
  <2>1. \A i \in 1 .. Len(l) : l[i] \in Ids
    BY Zenon, ElementOfSeq
  <2>2. \A i \in 1 .. Len(l) : /\ nd2[l[i]].kind = nd[l[i]].kind /\ nd2[l[i]].data = nd[l[i]].data
                               /\ KeysOf(nd2, l[i]) = KeysOf(nd, l[i])
    BY Zenon, <2>1 DEF KeysOf
  <2>3. \A i \in 1 .. Len(l) : \A k \in KeysIn(nd[l[i]].data) : k \in Ids => nd2[k].kind = nd[k].kind
    BY Zenon, <2>1 DEF DataInv, KeysOf, Made
  <2>4. ListInOrder(w, nd2, l)
    <3>1. ListInOrder(w, nd, l)
      BY Zenon DEF DataInv
    <3> QED BY SMTT(30), <3>1, <2>2, <2>3 DEF ListInOrder
  <2>5. Made(cl2, KeysIn(w)) /\ \A i \in 1 .. Len(l) : Made(cl2, KeysOf(nd2, l[i]))
    <3>1. KeysIn(w) \subseteq CallIds /\ \A i \in 1 .. Len(l) : KeysOf(nd, l[i]) \subseteq CallIds
      BY Zenon, <2>1, KeysTypes
    <3> QED BY Zenon, <3>1, <2>2 DEF DataInv, Made
  <2>6. ASSUME NEW x \in Ids, nd2[x].kind = "async" PROVE StreamInOrder(w, nd2, sent, x)
    BY Zenon, <2>6 DEF DataInv, StreamInOrder
  <2>7. DataInv(w, nd2, l, cl2, sent)
    BY Zenon, <2>4, <2>5, <2>6 DEF DataInv
  <2>8. ASSUME NEW f \in Functors, FuncOK(nd, l, cl, f) PROVE FuncOK(nd2, l, cl2, f)
    BY Zenon, <2>8, KeysTypes DEF FuncOK
  <2>9. ASSUME NEW f \in Functors, FuncOK(nd, l, cl, f), FuncInOrder(w, nd, l, sent, f)
        PROVE  FuncInOrder(w, nd2, l, sent, f)
    <3>1. f.call \in Kinds \cup {"asyncData"} => nd2[f.id].data = nd[f.id].data
      BY Zenon, <2>9 DEF FuncOK
    <3> QED BY Zenon, <3>1, <2>2, <2>9 DEF FuncInOrder
  <2> QED BY Zenon, <2>7, <2>8, <2>9
\* The queue loses its first functor, gets another one, or stays.
<1>OrderTail. ASSUME NEW fs \in Seq(Functors), fs # <<>>, NEW w, NEW nd, NEW l, NEW cl, NEW sent,
                     NEW w2, NEW nd2, NEW l2, NEW sent2,
                     QueueOK(nd, l, cl, fs), QueueInv(w, nd, l, sent, fs),
                     \A f \in Functors : /\ FuncOK(nd, l, cl, f) /\ FuncInOrder(w, nd, l, sent, f)
                                        /\ InTurn(Head(fs), f) /\ DataInTurn(Head(fs), f)
                                        => FuncInOrder(w2, nd2, l2, sent2, f)
              PROVE  QueueInv(w2, nd2, l2, sent2, Tail(fs))
  <2> USE <1>OrderTail
  <2>1. /\ \A i \in 1 .. Len(Tail(fs)) : /\ i + 1 \in 1 .. Len(fs) /\ 1 < i + 1 /\ Tail(fs)[i] = fs[i + 1]
        /\ Head(fs) = fs[1] /\ 1 \in 1 .. Len(fs)
    BY Shorter
  <2>2. ASSUME NEW i \in 1 .. Len(Tail(fs)) PROVE FuncInOrder(w2, nd2, l2, sent2, Tail(fs)[i])
    <3>1. /\ fs[i + 1] \in Functors /\ FuncOK(nd, l, cl, fs[i + 1])
          /\ FuncInOrder(w, nd, l, sent, fs[i + 1])
      BY Zenon, <2>1, ElementOfSeq DEF QueueOK, QueueInv
    <3>2. InTurn(Head(fs), fs[i + 1]) /\ DataInTurn(Head(fs), fs[i + 1])
      BY Zenon, <2>1 DEF QueueOK, QueueInv
    <3> QED BY Zenon, <3>1, <3>2, <2>1
  <2>3. ASSUME NEW i \in 1 .. Len(Tail(fs)), NEW j \in 1 .. Len(Tail(fs)), i < j
        PROVE  DataInTurn(Tail(fs)[i], Tail(fs)[j])
    <3>1. i + 1 < j + 1
      BY <2>3
    <3> QED BY Zenon, <3>1, <2>1 DEF QueueInv
  <2> QED BY Zenon, <2>2, <2>3 DEF QueueInv
\* A functor is queued behind others that are in order with it.
<1>OrderAppend. ASSUME NEW fs \in Seq(Functors), NEW g \in Functors, NEW w, NEW nd, NEW l, NEW cl, NEW sent,
                       NEW w2, NEW nd2, NEW l2, NEW sent2,
                       QueueOK(nd, l, cl, fs), QueueInv(w, nd, l, sent, fs), FuncInOrder(w2, nd2, l2, sent2, g),
                       \A f \in Functors : FuncOK(nd, l, cl, f) /\ FuncInOrder(w, nd, l, sent, f)
                                          => FuncInOrder(w2, nd2, l2, sent2, f) /\ DataInTurn(f, g)
                PROVE  QueueInv(w2, nd2, l2, sent2, Append(fs, g))
  <2> USE <1>OrderAppend
  <2>1. /\ \A i \in 1 .. Len(fs) : Append(fs, g)[i] = fs[i] /\ fs[i] \in Functors
        /\ Append(fs, g)[Len(fs) + 1] = g /\ Len(Append(fs, g)) = Len(fs) + 1 /\ Len(fs) \in Nat
    BY SMTT(30), Longer, ElementOfSeq
  <2>2. \A i \in 1 .. Len(fs) : FuncInOrder(w2, nd2, l2, sent2, fs[i]) /\ DataInTurn(fs[i], g)
    BY Zenon, <2>1 DEF QueueOK, QueueInv
  <2>3. ASSUME NEW i \in 1 .. Len(fs) + 1 PROVE FuncInOrder(w2, nd2, l2, sent2, Append(fs, g)[i])
    <3>1. CASE i \in 1 .. Len(fs)
      BY Zenon, <3>1, <2>1, <2>2
    <3> QED BY <3>1, <2>1
  <2>4. ASSUME NEW i \in 1 .. Len(fs) + 1, NEW j \in 1 .. Len(fs) + 1, i < j
        PROVE  DataInTurn(Append(fs, g)[i], Append(fs, g)[j])
    <3>1. i \in 1 .. Len(fs)
      BY <2>1, <2>4
    <3>2. CASE j \in 1 .. Len(fs)
      BY Zenon, <3>1, <3>2, <2>1, <2>4 DEF QueueInv
    <3>3. CASE j = Len(fs) + 1
      BY Zenon, <3>1, <3>3, <2>1, <2>2
    <3> QED BY SMTT(30), <3>2, <3>3, <2>1
  <2> QED BY Zenon, <2>1, <2>3, <2>4 DEF QueueInv
\* No functor is queued.
<1>OrderSame. ASSUME NEW fs \in Seq(Functors), NEW w, NEW nd, NEW l, NEW cl, NEW sent,
                     NEW w2, NEW nd2, NEW l2, NEW sent2,
                     QueueOK(nd, l, cl, fs), QueueInv(w, nd, l, sent, fs),
                     \A f \in Functors : FuncOK(nd, l, cl, f) /\ FuncInOrder(w, nd, l, sent, f)
                                        => FuncInOrder(w2, nd2, l2, sent2, f)
              PROVE  QueueInv(w2, nd2, l2, sent2, fs)
  BY Zenon, <1>OrderSame, ElementOfSeq DEF QueueOK, QueueInv
\* The data after a send, in two parts: a for the socket, b for the list.
<1>SendParts. ASSUME NEW w \in Seq(Units), NEW id \in Ids, NEW D, NEW a \in Seq(Units), NEW b \in Seq(Units),
                     D = a \o b, Ordered(D), KeysIn(D) \subseteq {id}, Ordered(w), KeysLT(KeysIn(w), {id})
              PROVE  /\ KeysIn(a) \subseteq {id} /\ KeysIn(b) \subseteq {id}
                     /\ Ordered(b) /\ Ordered(w \o a) /\ UnitsLT(w \o a, b)
                     /\ KeysIn(w \o a) \subseteq KeysIn(w) \cup {id} /\ KeysLE(KeysIn(w \o a), {id})
                     /\ id \notin KeysIn(w) /\ UnitsLT(w, D)
  <2> USE <1>SendParts
  <2>1. D \in Seq(Units) /\ w \o a \in Seq(Units)
    BY Zenon, ConcatProperties
  <2>4. KeysIn(a) \subseteq {id} /\ KeysIn(b) \subseteq {id}
    BY Zenon, <1>JoinedKeys
  <2>5. Ordered(a) /\ Ordered(b) /\ UnitsLT(a, b)
    BY Zenon, <1>JoinedOrder, <1>BeforeParts
  <2>6. KeysLE(KeysIn(w), {id}) /\ id \notin KeysIn(w)
    BY KeysTypes, <1>KeysApart
  <2>7. UnitsLT(w, D) /\ UnitsLT(w, a) /\ UnitsLT(w, b)
    <3>1. \A k \in KeysIn(w) : k \notin KeysIn(D)
      BY Zenon, <2>6
    <3>2. UnitsLT(w, D)
      BY Zenon, <3>1, <2>1, UnitsApart
    <3> QED BY Zenon, <3>2, <1>PartsAfter
  <2>8. KeysLE(KeysIn(w), KeysIn(a))
    BY Zenon, <2>4, <2>6, <1>KeysParts
  <2>9. Ordered(w \o a)
    BY Zenon, <2>5, <2>7, <2>8, <1>JoinedOrder, <1>BeforeParts
  <2>10. UnitsLT(w \o a, b)
    BY Zenon, <2>5, <2>7, <1>JoinedBefore
  <2>11. KeysIn(w \o a) = KeysIn(w) \cup KeysIn(a)
    BY Zenon, <1>JoinedKeys
  <2>12. KeysLE(KeysIn(w \o a), {id})
    <3>1. KeysLE(KeysIn(a), {id})
      BY Zenon, <2>4, KeysTypes, <1>KeysSelf
    <3> QED BY Zenon, <3>1, <2>6, <2>11, <1>KeysUnion
  <2> QED BY Zenon, <2>4, <2>5, <2>6, <2>7, <2>9, <2>10, <2>11, <2>12
\* A send keeps the data in order, and what was queued after it.
<1>SendsOrder. ASSUME wire \in Seq(Units), list \in Seq(Ids), IsInjective(list),
                      NEW nd \in [Ids -> BufferNodes], NEW cl, NEW sent \in [Ids -> 0 .. MaxAsync],
                      NEW id \in Ids, NEW D, id \notin Range(list), Used(cl, id),
                      DataInv(wire, nd, list, cl, sent), Newest(wire, nd, list, id, D), Sends(nd, id, D)
               PROVE  /\ DataInv(wire', node', list', cl, sent)
                      /\ \A f \in Functors :
                           /\ FuncOK(nd, list, cl, f) /\ FuncInOrder(wire, nd, list, sent, f)
                           /\ f.call \in Kinds => KeysLT({id}, {f.id}) /\ f.id # id
                           => FuncInOrder(wire', node', list', sent, f)
  <2> USE <1>SendsOrder
  <2>1. PICK n \in 0 .. Len(D) :
          /\ wire' = wire \o SubSeq(D, 1, n)
          /\ n > 0 => list = <<>>
          /\ Lost(nd, id, D, n) \/ Listed(nd, id, D, n) \/ Merged(nd, id, D, n)
    BY Zenon DEF Sends
  <2> DEFINE a == SubSeq(D, 1, n)  b == Rest(D, n)
  <2>a. /\ wire' = wire \o a /\ D \in Seq(Units) /\ KeysIn(D) \subseteq {id} /\ Ordered(D)
        /\ Ordered(wire) /\ KeysLT(KeysIn(wire), {id})
    BY Zenon, <2>1 DEF Newest
  <2>b. /\ a \in Seq(Units) /\ b \in Seq(Units) /\ D = a \o b /\ wire' \in Seq(Units)
        /\ n = 0 => wire' = wire
    BY SMTT(30), <2>1, <2>a, Cut, CutIsJoin, CutNone, ConcatProperties
  <2> HIDE DEF a, b
  <2>2. /\ a \in Seq(Units) /\ b \in Seq(Units) /\ D = a \o b /\ wire' \in Seq(Units)
        /\ KeysIn(a) \subseteq {id} /\ KeysIn(b) \subseteq {id}
        /\ Ordered(b) /\ Ordered(wire') /\ UnitsLT(wire', b)
        /\ KeysIn(wire') \subseteq KeysIn(wire) \cup {id} /\ KeysLE(KeysIn(wire'), {id})
        /\ id \notin KeysIn(wire) /\ UnitsLT(wire, D)
        /\ n = 0 => wire' = wire
    <3>1. Ordered(a \o b) /\ KeysIn(a \o b) \subseteq {id}
      BY Zenon, <2>a, <2>b
    <3>2. /\ KeysIn(a) \subseteq {id} /\ KeysIn(b) \subseteq {id}
          /\ Ordered(b) /\ Ordered(wire \o a) /\ UnitsLT(wire \o a, b)
          /\ KeysIn(wire \o a) \subseteq KeysIn(wire) \cup {id} /\ KeysLE(KeysIn(wire \o a), {id})
          /\ id \notin KeysIn(wire) /\ UnitsLT(wire, a \o b)
      BY <3>1, <2>a, <2>b, <1>SendParts, Zenon
    <3> QED BY Zenon, <3>2, <2>a, <2>b
  <2>3. wire' = wire \o a /\ D \in Seq(Units) /\ KeysIn(D) \subseteq {id} /\ Ordered(D)
    BY Zenon, <2>a
  <2>4. \A i \in 1 .. Len(list) : list[i] \in Ids /\ list[i] # id /\ list[i] \in Range(list)
    BY Zenon, ElementOfSeq, RangeIs
  <2>5. list # <<>> => wire' = wire
    BY <2>1, <2>2
  <2>6. /\ node' \in [Ids -> BufferNodes] /\ \A x \in Ids : node'[x].kind = nd[x].kind
    BY Zenon, <2>1 DEF Lost, Listed, Merged, SetData
  <2>7. \A i \in 1 .. Len(list) : list # <<>>
    BY LenProperties, EmptySeq
  \* An async stream, other than id and id itself
  <2>8. ASSUME NEW x \in Ids, nd[x].kind = "async", x # id, node'[x].data = nd[x].data
        PROVE  StreamInOrder(wire', node', sent, x)
    <3>1. StreamInOrder(wire, nd, sent, x)
      BY Zenon, <2>8 DEF DataInv
    <3>2. /\ nd[x].data \in Seq(Units) /\ KeysIn(nd[x].data) \subseteq {x}
          /\ NextUnit(sent, x) \in Seq(Units) /\ KeysIn(NextUnit(sent, x)) = {x}
      BY Zenon, <3>1, NextUnits DEF StreamInOrder, BufferNodes
    <3>3. UnitsLT(a, nd[x].data) /\ UnitsLT(a, NextUnit(sent, x))
      <4>1. \A k \in KeysIn(a) : k \notin KeysIn(nd[x].data) /\ k \notin KeysIn(NextUnit(sent, x))
        BY Zenon, <3>2, <2>2, <2>8
      <4> QED BY Zenon, <4>1, <3>2, <2>2, UnitsApart
    <3>4. UnitsLT(wire', nd[x].data)
      BY Zenon, <3>1, <3>2, <3>3, <2>2, <2>3, <1>JoinedBefore DEF StreamInOrder
    <3>5. UnitsLT(wire', NextUnit(sent, x))
      BY Zenon, <3>1, <3>2, <3>3, <2>2, <2>3, <1>JoinedBefore DEF StreamInOrder
    <3> QED BY Zenon, <3>1, <3>4, <3>5, <2>8 DEF StreamInOrder
  <2>9. ASSUME nd[id].kind = "async", node'[id].data = b
        PROVE  StreamInOrder(wire', node', sent, id)
    <3>1. StreamInOrder(wire, nd, sent, id) /\ D = nd[id].data
      BY Zenon, <2>9 DEF DataInv, Newest
    <3>2. UnitsLT(a, NextUnit(sent, id)) /\ UnitsLT(b, NextUnit(sent, id))
      <4>1. UnitsLT(D, NextUnit(sent, id))
        BY Zenon, <3>1 DEF StreamInOrder
      <4>2. a \in Seq(Units) /\ b \in Seq(Units) /\ D = a \o b
        BY Zenon, <2>2
      <4>3. NextUnit(sent, id) \in Seq(Units)
        BY Zenon, NextUnits
      <4> QED BY Zenon, <4>1, <4>2, <4>3, <1>PartsBefore
    <3>3. UnitsLT(wire', NextUnit(sent, id))
      <4>1. UnitsLT(wire, NextUnit(sent, id)) /\ NextUnit(sent, id) \in Seq(Units)
        BY Zenon, <3>1, NextUnits DEF StreamInOrder
      <4> QED BY Zenon, <4>1, <3>2, <2>2, <2>3, <1>JoinedBefore
    <3> QED BY Zenon, <3>2, <3>3, <2>2, <2>9 DEF StreamInOrder
  \* The nodes that were in the list
  <2>10. ASSUME NEW i \in 1 .. Len(list), node'[list[i]].data = nd[list[i]].data
         PROVE  /\ Ordered(node'[list[i]].data) /\ UnitsLT(wire', node'[list[i]].data)
                /\ KeysLE(KeysIn(wire'), KeysOf(node', list[i]))
                /\ \A k \in KeysIn(node'[list[i]].data) : k \in Ids /\ node'[k].kind = node'[list[i]].kind
                /\ KeysOf(node', list[i]) = KeysOf(nd, list[i])
    BY Zenon, <2>4, <2>5, <2>6, <2>7, <2>10 DEF DataInv, ListInOrder, KeysOf
  <2> DEFINE Fine == /\ DataInv(wire', node', list', cl, sent)
                     /\ \A i \in 1 .. Len(list') :
                          \/ KeysOf(node', list'[i]) \subseteq {id}
                          \/ i \in 1 .. Len(list) /\ KeysOf(node', list'[i]) \subseteq KeysOf(nd, list[i]) \cup {id}
                     /\ \A x \in Ids : (x \notin Range(list) \/ nd[x].kind = "async") /\ x # id
                                       => node'[x].data = nd[x].data
                     /\ nd[id].kind = "async" => node'[id].data = b
  <2>11. Made(cl, KeysIn(wire'))
    BY Zenon, <2>2 DEF DataInv, Made
  <2>12. ASSUME Lost(nd, id, D, n) PROVE Fine
    <3>1. list' = list /\ (nd[id].kind = "async" => node'[id].data = b)
      BY Zenon, <2>12 DEF Lost, SetData, b
    <3>2. \A x \in Ids : x # id => node'[x].data = nd[x].data
      BY Zenon, <2>12 DEF Lost, SetData
    <3>3. \A i \in 1 .. Len(list) : node'[list[i]].data = nd[list[i]].data
      BY Zenon, <2>4, <3>2
    <3>4. ListInOrder(wire', node', list')
      <4>1. \A i, j \in 1 .. Len(list) : i < j => KeysLT(KeysOf(node', list[i]), KeysOf(node', list[j]))
        BY Zenon, <3>3, <2>10 DEF DataInv, ListInOrder
      <4> QED BY Zenon, <4>1, <3>1, <3>3, <2>2, <2>10 DEF ListInOrder
    <3>5. \A i \in 1 .. Len(list') : Made(cl, KeysOf(node', list'[i]))
      BY Zenon, <3>1, <3>3, <2>10 DEF DataInv
    <3>6. \A x \in Ids : node'[x].kind = "async" => StreamInOrder(wire', node', sent, x)
      BY Zenon, <3>1, <3>2, <2>6, <2>8, <2>9
    <3>7. DataInv(wire', node', list', cl, sent)
      BY Zenon, <3>4, <3>5, <3>6, <2>11 DEF DataInv
    <3> QED BY Zenon, <3>1, <3>2, <3>3, <3>7, <2>10
  <2>13. ASSUME Listed(nd, id, D, n) PROVE Fine
    <3>1. list' = Append(list, id) /\ node'[id].data = b
      BY Zenon, <2>13 DEF Listed, SetData, b
    <3>2. \A x \in Ids : x # id => node'[x].data = nd[x].data
      BY Zenon, <2>13 DEF Listed, SetData
    <3>3. \A i \in 1 .. Len(list) : node'[list[i]].data = nd[list[i]].data /\ list'[i] = list[i]
      <4>1. \A i \in 1 .. Len(list) : list'[i] = list[i]
        BY <3>1, Longer
      <4> QED BY Zenon, <4>1, <2>4, <3>2
    <3>4. /\ \A i \in 1 .. Len(list') : i \in 1 .. Len(list) \/ i = Len(list) + 1
          /\ list'[Len(list) + 1] = id /\ Len(list) \in Nat
      BY ZenonT(30), <3>1, Longer
    <3>5. KeysOf(node', id) \subseteq {id}
      BY Zenon, <3>1, <2>2 DEF KeysOf
    <3>6. /\ Ordered(node'[id].data) /\ UnitsLT(wire', node'[id].data)
          /\ KeysLE(KeysIn(wire'), KeysOf(node', id))
          /\ \A k \in KeysIn(node'[id].data) : k \in Ids /\ node'[k].kind = node'[id].kind
      BY Zenon, <3>1, <3>5, <2>2, <1>KeysParts
    <3>7. ASSUME NEW i \in 1 .. Len(list'), NEW j \in 1 .. Len(list'), i < j
          PROVE  KeysLT(KeysOf(node', list'[i]), KeysOf(node', list'[j]))
      <4>1. i \in 1 .. Len(list)
        BY <3>4, <3>7
      <4>2. CASE j \in 1 .. Len(list)
        BY Zenon, <4>1, <4>2, <3>3, <3>7, <2>10 DEF DataInv, ListInOrder
      <4>3. CASE j = Len(list) + 1
        <5>1. KeysLT(KeysOf(node', list[i]), {id})
          BY Zenon, <4>1, <3>3, <2>10 DEF Newest
        <5> QED BY Zenon, <5>1, <4>1, <4>3, <3>3, <3>4, <3>5, <1>KeysParts
      <4> QED BY Zenon, <4>2, <4>3, <3>4
    <3>8. ListInOrder(wire', node', list')
      BY ZenonT(30), <3>3, <3>4, <3>6, <3>7, <2>2, <2>10 DEF ListInOrder
    <3>9. \A i \in 1 .. Len(list') : Made(cl, KeysOf(node', list'[i]))
      BY ZenonT(30), <3>3, <3>4, <3>5, <2>10 DEF DataInv, Made
    <3>10. \A x \in Ids : node'[x].kind = "async" => StreamInOrder(wire', node', sent, x)
      BY Zenon, <3>1, <3>2, <2>6, <2>8, <2>9
    <3>11. DataInv(wire', node', list', cl, sent)
      BY Zenon, <3>8, <3>9, <3>10, <2>11 DEF DataInv
    <3> QED BY Zenon, <3>1, <3>2, <3>3, <3>4, <3>5, <3>11, <2>10
  <2>14. ASSUME Merged(nd, id, D, n) PROVE Fine
    <3> DEFINE m == Len(list)  z == list[m]
    <3>1. /\ list' = list /\ list # <<>> /\ wire' = wire /\ nd[id].kind = "mem" /\ nd[z].kind = "mem"
          /\ node'[z].data = nd[z].data \o D
      BY Zenon, <2>5, <2>14 DEF Merged, SetData
    <3>2. m \in 1 .. Len(list) /\ z \in Ids /\ z \in Range(list) /\ m \in Nat
      BY Zenon, <3>1, LastIn, RangeIs
    <3>3. \A x \in Ids : x # z => node'[x].data = nd[x].data
      BY Zenon, <2>14 DEF Merged, SetData
    <3>4. \A i \in 1 .. Len(list) : i # m => list[i] # z
      BY Zenon, <3>2, RangeIs
    <3> HIDE DEF m, z
    <3>5. z = list[m] /\ \A i \in 1 .. Len(list) : i = m \/ (i < m /\ node'[list[i]].data = nd[list[i]].data)
      <4>1. \A i \in 1 .. Len(list) : i = m \/ i < m
        BY <3>2 DEF m
      <4>2. \A i \in 1 .. Len(list) : list[i] \in Ids
        BY Zenon, ElementOfSeq
      <4> QED BY Zenon, <4>1, <4>2, <3>3, <3>4 DEF z
    <3>6. /\ nd[z].data \in Seq(Units) /\ Ordered(nd[z].data) /\ UnitsLT(wire, nd[z].data)
          /\ KeysLE(KeysIn(wire), KeysOf(nd, z)) /\ KeysLT(KeysOf(nd, z), {id})
          /\ \A k \in KeysIn(nd[z].data) : k \in Ids /\ nd[k].kind = nd[z].kind
      BY Zenon, <3>2, <3>5 DEF BufferNodes, DataInv, ListInOrder, Newest
    <3>7. KeysOf(nd, z) = KeysIn(nd[z].data) /\ KeysOf(node', z) = KeysIn(nd[z].data) \cup KeysIn(D)
      BY SMTT(30), <3>1, <3>2, <3>6, <2>3, <2>6, <1>JoinedKeys DEF KeysOf
    <3>8. KeysLE(KeysIn(nd[z].data), KeysIn(D)) /\ UnitsLT(nd[z].data, D)
      <4>1. KeysLE(KeysIn(nd[z].data), {id}) /\ \A k \in KeysIn(nd[z].data) : k \notin {id}
        <5>1. KeysIn(nd[z].data) \subseteq CallIds /\ {id} \subseteq CallIds
          BY Zenon, <3>6, KeysTypes
        <5>2. KeysLT(KeysIn(nd[z].data), {id})
          BY Zenon, <3>6, <3>7
        <5> QED BY Zenon, <5>1, <5>2, <1>KeysApart
      <4>2. \A k \in KeysIn(nd[z].data) : k \notin KeysIn(D)
        BY Zenon, <4>1, <2>3
      <4>3. KeysLE(KeysIn(nd[z].data), KeysIn(D))
        BY Zenon, <4>1, <2>3, <1>KeysParts
      <4> QED BY Zenon, <4>2, <4>3, <3>6, <2>3, UnitsApart
    <3>9. Ordered(node'[z].data) /\ UnitsLT(wire', node'[z].data)
      <4>1. Ordered(nd[z].data \o D)
        BY Zenon, <3>6, <3>8, <2>3, <1>JoinedOrder, <1>BeforeParts
      <4>2. UnitsLT(wire, nd[z].data \o D)
        <5>1. nd[z].data \in Seq(Units) /\ D \in Seq(Units) /\ UnitsLT(wire, nd[z].data) /\ UnitsLT(wire, D)
          BY Zenon, <3>6, <2>2, <2>3
        <5> QED BY Zenon, <5>1, <1>JoinedAfter
      <4> QED BY Zenon, <4>1, <4>2, <3>1
    <3>10. KeysLE(KeysIn(wire'), KeysOf(node', z))
      <4>1. KeysLE(KeysIn(wire), KeysIn(D))
        BY Zenon, <3>1, <2>2, <2>3, <1>KeysParts
      <4>2. KeysLE(KeysIn(wire), KeysIn(nd[z].data) \cup KeysIn(D))
        BY Zenon, <4>1, <3>6, <3>7, <1>KeysUnion
      <4> QED BY Zenon, <4>2, <3>1, <3>7
    <3>11. \A k \in KeysIn(node'[z].data) : k \in Ids /\ node'[k].kind = node'[z].kind
      <4>1. KeysIn(node'[z].data) \subseteq KeysIn(nd[z].data) \cup {id}
        BY ZenonT(30), <3>1, <3>6, <2>3, <1>JoinedKeys
      <4> QED BY Zenon, <4>1, <3>1, <3>2, <3>6, <2>6
    <3>12. ASSUME NEW i \in 1 .. Len(list), NEW j \in 1 .. Len(list), i < j
           PROVE  KeysLT(KeysOf(node', list[i]), KeysOf(node', list[j]))
      <4>1. i # m /\ node'[list[i]].data = nd[list[i]].data /\ KeysOf(node', list[i]) = KeysOf(nd, list[i])
        <5>1. m \in Nat /\ i \in Nat /\ j \in Nat /\ i < j
          BY <3>12, <3>2
        <5>2. j = m \/ j < m
          BY Zenon, <3>5
        <5>3. i # m
          BY <5>1, <5>2
        <5>4. node'[list[i]].data = nd[list[i]].data
          BY Zenon, <5>3, <3>5
        <5> QED BY Zenon, <5>3, <5>4, <2>10
      <4>2. KeysLT(KeysOf(nd, list[i]), KeysOf(nd, list[j])) /\ KeysLT(KeysOf(nd, list[i]), {id})
        BY Zenon, <3>12 DEF DataInv, ListInOrder, Newest
      <4>3. CASE j = m
        <5>1. KeysLT(KeysOf(nd, list[i]), KeysIn(D))
          BY Zenon, <4>2, <2>3, <1>KeysParts
        <5>2. KeysLT(KeysOf(nd, list[i]), KeysIn(nd[z].data) \cup KeysIn(D))
          BY Zenon, <5>1, <4>2, <4>3, <3>5, <3>7, <1>KeysUnion
        <5> QED BY Zenon, <5>2, <4>1, <4>3, <3>5, <3>7
      <4>4. CASE j # m
        BY Zenon, <4>1, <4>2, <4>4, <3>5, <2>10
      <4> QED BY Zenon, <4>3, <4>4
    <3>13. ListInOrder(wire', node', list')
      BY ZenonT(30), <3>1, <3>5, <3>9, <3>10, <3>11, <3>12, <2>2, <2>10 DEF ListInOrder
    <3>14. \A i \in 1 .. Len(list) : KeysOf(node', list[i]) \subseteq KeysOf(nd, list[i]) \cup {id}
      BY Zenon, <3>5, <3>7, <2>3, <2>10
    <3>15. \A i \in 1 .. Len(list') : Made(cl, KeysOf(node', list'[i]))
      BY Zenon, <3>1, <3>14 DEF DataInv, Made
    <3>16. \A x \in Ids : node'[x].kind = "async" => StreamInOrder(wire', node', sent, x)
      BY Zenon, <3>1, <3>3, <2>6, <2>8
    <3>17. DataInv(wire', node', list', cl, sent)
      BY Zenon, <3>13, <3>15, <3>16, <2>11 DEF DataInv
    <3> QED BY Zenon, <3>1, <3>2, <3>3, <3>14, <3>17
  <2>15. Fine
    BY Zenon, <2>1, <2>12, <2>13, <2>14
  <2> HIDE DEF Fine
  <2>16. ASSUME NEW f \in Functors, FuncOK(nd, list, cl, f), FuncInOrder(wire, nd, list, sent, f),
                f.call \in Kinds => KeysLT({id}, {f.id}) /\ f.id # id
         PROVE  FuncInOrder(wire', node', list', sent, f)
    <3>1. CASE f.call \in Kinds
      <4>1. KeysLT(KeysIn(wire) \cup {id}, {f.id})
        BY Zenon, <3>1, <2>16, <1>KeysUnion DEF FuncInOrder
      <4>2. KeysLT(KeysIn(wire'), {f.id})
        BY Zenon, <4>1, <2>2, <1>KeysParts
      <4>3. ASSUME NEW i \in 1 .. Len(list') PROVE KeysLT(KeysOf(node', list'[i]), {f.id})
        <5>1. CASE KeysOf(node', list'[i]) \subseteq {id}
          BY Zenon, <5>1, <3>1, <2>16, <1>KeysParts
        <5>2. CASE i \in 1 .. Len(list) /\ KeysOf(node', list'[i]) \subseteq KeysOf(nd, list[i]) \cup {id}
          <6>1. KeysLT(KeysOf(nd, list[i]) \cup {id}, {f.id})
            BY Zenon, <5>2, <3>1, <2>16, <1>KeysUnion DEF FuncInOrder
          <6> QED BY Zenon, <6>1, <5>2, <1>KeysParts
        <5> QED BY Zenon, <5>1, <5>2, <2>15 DEF Fine
      <4>4. f.call \in {"file", "stream"} => node'[f.id].data = UnitsOf(f.id)
        BY Zenon, <3>1, <2>15, <2>16 DEF FuncInOrder, FuncOK, Fine
      <4> QED BY Zenon, <3>1, <4>2, <4>3, <4>4 DEF FuncInOrder, Kinds
    <3>2. CASE f.call = "asyncData"
      <4>1. /\ f.id \in Ids /\ nd[f.id].kind = "async" /\ Key(f.unit) = f.id /\ f.unit \in Units
            /\ UnitsLT(wire, <<f.unit>>) /\ UnitsLT(nd[f.id].data, <<f.unit>>)
        BY Zenon, <3>2, <2>16 DEF FuncOK, FuncInOrder, Functors, Kinds
      <4>2. <<f.unit>> \in Seq(Units) /\ KeysIn(<<f.unit>>) = {f.id}
        BY Zenon, <4>1, OneUnit
      <4>3. UnitsLT(a, <<f.unit>>) /\ UnitsLT(node'[f.id].data, <<f.unit>>)
        <5>1. CASE f.id = id
          <6>1. UnitsLT(D, <<f.unit>>)
            BY Zenon, <5>1, <4>1 DEF Newest
          <6>2. UnitsLT(a, <<f.unit>>) /\ UnitsLT(b, <<f.unit>>)
            BY ZenonT(30), <6>1, <4>2, <2>2, <1>JoinedUnits
          <6> QED BY Zenon, <6>2, <5>1, <4>1, <2>15 DEF Fine
        <5>2. CASE f.id # id
          <6>1. \A k \in KeysIn(a) : k \notin KeysIn(<<f.unit>>)
            BY Zenon, <5>2, <4>2, <2>2
          <6>2. UnitsLT(a, <<f.unit>>)
            BY Zenon, <6>1, <4>2, <2>2, UnitsApart
          <6> QED BY Zenon, <6>2, <5>2, <4>1, <2>15 DEF Fine
        <5> QED BY Zenon, <5>1, <5>2
      <4>4. UnitsLT(wire', <<f.unit>>)
        BY Zenon, <4>1, <4>2, <4>3, <2>2, <2>3, <1>JoinedUnits
      <4> QED BY Zenon, <3>2, <4>3, <4>4, <2>16 DEF FuncInOrder, Kinds
    <3>3. CASE f.call \notin Kinds /\ f.call # "asyncData"
      BY Zenon, <3>3 DEF FuncInOrder
    <3> QED BY Zenon, <3>1, <3>2, <3>3
  <2> QED BY Zenon, <2>15, <2>16 DEF Fine
\* More has been sent through the async streams.
<1>SentMore. ASSUME NEW w \in Seq(Units), NEW nd \in [Ids -> BufferNodes], NEW l \in Seq(Ids), NEW cl,
                    NEW sent \in [Ids -> 0 .. MaxAsync], NEW sent2 \in [Ids -> 0 .. MaxAsync],
                    \A x \in Ids : sent[x] <= sent2[x]
             PROVE  /\ DataInv(w, nd, l, cl, sent) => DataInv(w, nd, l, cl, sent2)
                    /\ \A f \in Functors : /\ FuncOK(nd, l, cl, f) /\ FuncInOrder(w, nd, l, sent, f)
                                          => FuncInOrder(w, nd, l, sent2, f)
  <2> USE <1>SentMore
  <2>1. ASSUME NEW s \in Seq(Units), NEW x \in Ids, UnitsLT(s, NextUnit(sent, x))
        PROVE  UnitsLT(s, NextUnit(sent2, x))
    <3> DEFINE y == NextUnit(sent, x)  z == NextUnit(sent2, x)
    <3>1. 1 .. Len(y) = {1} /\ 1 .. Len(z) = {1} /\ Key(y[1]) = Key(z[1]) /\ y[1][3] = sent[x] + 1 /\ z[1][3] = sent2[x] + 1
      BY DEF NextUnit, Unit, Key
    <3>2. \A p \in 1 .. Len(s) : s[p][3] \in Nat
      <4>1. \A p \in 1 .. Len(s) : s[p] \in Units
        BY Zenon, ElementOfSeq
      <4> QED BY SMTT(60), <4>1, BoundsAssumption DEF Units
    <3> HIDE DEF y, z
    <3>3. UnitsLT(s, y)
      BY Zenon, <2>1 DEF y
    <3>4. sent[x] + 1 <= sent2[x] + 1 /\ sent[x] + 1 \in Nat /\ sent2[x] + 1 \in Nat
      BY BoundsAssumption
    <3>5. UnitsLT(s, z)
      <4> SUFFICES ASSUME NEW p \in 1 .. Len(s), Key(s[p]) = Key(z[1]) PROVE s[p][3] < z[1][3]
        BY Zenon, <3>1 DEF UnitsLT
      <4>1. s[p][3] < y[1][3]
        BY Zenon, <3>1, <3>3 DEF UnitsLT
      <4> QED BY SMTT(30), <4>1, <3>1, <3>2, <3>4
    <3> QED BY Zenon, <3>5 DEF z
  <2>2. ASSUME NEW x \in Ids, StreamInOrder(w, nd, sent, x) PROVE StreamInOrder(w, nd, sent2, x)
    <3>1. nd[x].data \in Seq(Units)
      BY Zenon DEF BufferNodes
    <3> QED BY Zenon, <3>1, <2>1, <2>2 DEF StreamInOrder
  <2>3. ASSUME NEW f \in Functors, FuncOK(nd, l, cl, f), FuncInOrder(w, nd, l, sent, f)
        PROVE  FuncInOrder(w, nd, l, sent2, f)
    <3>1. f.call = "asyncData" => f.id \in Ids /\ f.unit \in Units
      BY Zenon, <2>3 DEF FuncOK, Functors, Kinds
    <3>2. f.call = "asyncData" => <<f.unit>> \in Seq(Units) /\ UnitsLT(<<f.unit>>, NextUnit(sent, f.id))
      BY Zenon, <3>1, <2>3, OneUnit DEF FuncInOrder
    <3> QED BY Zenon, <3>1, <3>2, <2>1, <2>3 DEF FuncInOrder
  <2> QED BY Zenon, <2>2, <2>3 DEF DataInv
\* A unit of data of an async stream keeps the data in order.
<1>DataOrder. ASSUME wire \in Seq(Units), list \in Seq(Ids), IsInjective(list), node \in [Ids -> BufferNodes],
                     NEW cl, NEW sent \in [Ids -> 0 .. MaxAsync],
                     NEW id \in Ids, NEW unit \in Units, Key(unit) = id, node[id].kind = "async",
                     UnitsLT(wire, <<unit>>), UnitsLT(node[id].data, <<unit>>),
                     UnitsLT(<<unit>>, NextUnit(sent, id)),
                     DataInv(wire, node, list, cl, sent), AddsData(id, unit)
              PROVE  /\ DataInv(wire', node', list', cl, sent)
                     /\ \A f \in Functors :
                          /\ FuncOK(node, list, cl, f) /\ FuncInOrder(wire, node, list, sent, f)
                          /\ f.call = "asyncData" /\ f.id = id => UnitsLT(<<unit>>, <<f.unit>>)
                          => FuncInOrder(wire', node', list', sent, f)
  <2> USE <1>DataOrder
  <2>1. /\ <<unit>> \in Seq(Units) /\ KeysIn(<<unit>>) = {id} /\ Ordered(<<unit>>)
        /\ node[id].data \in Seq(Units)
    BY Zenon, OneUnit DEF BufferNodes
  <2> DEFINE u == <<unit>>
  <2> HIDE DEF u
  <2>2. /\ u \in Seq(Units) /\ KeysIn(u) = {id} /\ Ordered(u) /\ node[id].data \in Seq(Units)
        /\ UnitsLT(wire, u) /\ UnitsLT(node[id].data, u) /\ UnitsLT(u, NextUnit(sent, id))
    BY Zenon, <2>1 DEF u
  <2>3. /\ Ordered(wire) /\ StreamInOrder(wire, node, sent, id)
    BY Zenon DEF DataInv, ListInOrder
  <2>4. \A i \in 1 .. Len(list) : list[i] \in Ids /\ node[list[i]].data \in Seq(Units)
    BY Zenon, ElementOfSeq DEF BufferNodes
  \* Nobody else has data of this stream.
  <2>5. ASSUME NEW x \in Ids, node[x].kind = "async", x # id
        PROVE  /\ node[x].data \in Seq(Units) /\ UnitsLT(u, node[x].data)
               /\ NextUnit(sent, x) \in Seq(Units) /\ UnitsLT(u, NextUnit(sent, x))
    <3>1. /\ node[x].data \in Seq(Units) /\ KeysIn(node[x].data) \subseteq {x}
          /\ NextUnit(sent, x) \in Seq(Units) /\ KeysIn(NextUnit(sent, x)) = {x}
      BY Zenon, <2>5, NextUnits DEF BufferNodes, DataInv, StreamInOrder
    <3>2. \A k \in KeysIn(u) : k \notin KeysIn(node[x].data) /\ k \notin KeysIn(NextUnit(sent, x))
      BY Zenon, <3>1, <2>2, <2>5
    <3> QED BY Zenon, <3>1, <3>2, <2>2, UnitsApart
  <2>6. ASSUME NEW f \in Functors, FuncOK(node, list, cl, f), FuncInOrder(wire, node, list, sent, f),
               f.call = "asyncData", f.id = id => UnitsLT(<<unit>>, <<f.unit>>)
        PROVE  UnitsLT(u, <<f.unit>>) /\ <<f.unit>> \in Seq(Units)
    <3>1. f.unit \in Units /\ Key(f.unit) = f.id
      BY Zenon, <2>6 DEF Functors, Kinds, FuncInOrder
    <3>2. <<f.unit>> \in Seq(Units) /\ KeysIn(<<f.unit>>) = {f.id}
      BY Zenon, <3>1, OneUnit
    <3>3. CASE f.id = id
      BY Zenon, <3>2, <3>3, <2>6 DEF u
    <3>4. CASE f.id # id
      <4>1. \A k \in KeysIn(u) : k \notin KeysIn(<<f.unit>>)
        BY Zenon, <3>2, <3>4, <2>2
      <4> QED BY Zenon, <4>1, <3>2, <2>2, UnitsApart
    <3> QED BY Zenon, <3>3, <3>4
  <2>7. CASE UNCHANGED <<wire, node, list>>
    BY <2>7, Zenon
  <2>8. CASE UNCHANGED <<node, list>> /\ wire' = wire \o u /\ list # <<>> /\ Head(list) = id /\ node[id].data = <<>>
    <3>1. 1 \in 1 .. Len(list) /\ list[1] = id
      BY Zenon, <2>8, Shorter
    <3>2. KeysOf(node, id) = {id}
      <4>1. KeysIn(<<>>) = {}
        BY Zenon, <2>1, NoUnits
      <4> QED BY Zenon, <4>1, <2>8 DEF KeysOf
    <3>3. wire' \in Seq(Units) /\ KeysIn(wire') = KeysIn(wire) \cup {id}
      BY ZenonT(30), <2>2, <2>8, <1>JoinedKeys, ConcatProperties
    <3>4. KeysLE(KeysIn(wire), {id})
      BY Zenon, <3>1, <3>2 DEF DataInv, ListInOrder
    <3>5. Ordered(wire')
      BY Zenon, <3>4, <2>2, <2>3, <2>8, <1>JoinedOrder, <1>BeforeParts
    <3>6. ASSUME NEW i \in 1 .. Len(list)
          PROVE  /\ UnitsLT(wire', node[list[i]].data) /\ KeysLE(KeysIn(wire'), KeysOf(node, list[i]))
                 /\ \A k \in KeysOf(node, list[i]) : i # 1 => k # id
      <4>1. UnitsLT(wire, node[list[i]].data) /\ KeysLE(KeysIn(wire), KeysOf(node, list[i]))
        BY Zenon, <3>6 DEF DataInv, ListInOrder
      <4>2. CASE i = 1
        <5>1. KeysLE({id}, {id})
          BY Zenon, KeysTypes, <1>KeysSelf
        <5>2. UnitsLT(u, <<>>)
          BY Zenon, <2>2, NoUnits
        <5>3. UnitsLT(wire', node[list[i]].data)
          <6>1. list[i] = id /\ node[list[i]].data = <<>>
            BY Zenon, <4>2, <3>1, <2>8
          <6>2. node[list[i]].data \in Seq(Units) /\ UnitsLT(u, node[list[i]].data)
            BY Zenon, <6>1, <5>2, <2>2
          <6> QED BY Zenon, <6>2, <4>1, <2>2, <2>8, <1>JoinedBefore
        <5>4. KeysLE(KeysIn(wire) \cup {id}, {id})
          BY Zenon, <5>1, <3>4, <1>KeysUnion
        <5> QED BY Zenon, <5>3, <5>4, <4>2, <3>1, <3>2, <3>3
      <4>3. CASE i # 1
        <5>1. KeysLT({id}, KeysOf(node, list[i]))
          <6>1. 1 < i
            BY SMTT(60), <4>3
          <6>2. KeysLT(KeysOf(node, list[1]), KeysOf(node, list[i]))
            BY Zenon, <6>1, <3>1 DEF DataInv, ListInOrder
          <6> QED BY Zenon, <6>2, <3>1, <3>2
        <5>2. {id} \subseteq CallIds /\ KeysOf(node, list[i]) \subseteq CallIds
          BY Zenon, <2>4, KeysTypes
        <5>3. KeysLE({id}, KeysOf(node, list[i])) /\ id \notin KeysOf(node, list[i])
          BY Zenon, <5>1, <5>2, <1>KeysApart
        <5>4. KeysLE(KeysIn(wire) \cup {id}, KeysOf(node, list[i]))
          BY Zenon, <5>3, <4>1, <1>KeysUnion
        <5>5. \A k \in KeysIn(u) : k \notin KeysIn(node[list[i]].data)
          BY Zenon, <5>3, <2>2 DEF KeysOf
        <5>6. UnitsLT(u, node[list[i]].data)
          BY Zenon, <5>5, <2>2, <2>4, UnitsApart
        <5>7. UnitsLT(wire', node[list[i]].data)
          BY Zenon, <5>6, <4>1, <2>2, <2>4, <2>8, <1>JoinedBefore
        <5> QED BY Zenon, <5>3, <5>4, <5>7, <3>3
      <4> QED BY Zenon, <4>2, <4>3
    <3>7. ListInOrder(wire', node', list')
      <4>1. ListInOrder(wire, node, list)
        BY Zenon DEF DataInv
      <4> QED BY Zenon, <4>1, <3>5, <3>6, <2>8 DEF ListInOrder
    <3>8. Made(cl, KeysIn(wire')) /\ \A i \in 1 .. Len(list') : Made(cl, KeysOf(node', list'[i]))
      BY Zenon, <3>1, <3>2, <3>3, <2>8 DEF DataInv, Made
    <3>9. ASSUME NEW x \in Ids, node[x].kind = "async"
          PROVE  StreamInOrder(wire', node', sent, x)
      <4>1. StreamInOrder(wire, node, sent, x) /\ NextUnit(sent, x) \in Seq(Units) /\ node[x].data \in Seq(Units)
        BY Zenon, <3>9, NextUnits DEF DataInv, BufferNodes
      <4>2. UnitsLT(u, node[x].data) /\ UnitsLT(u, NextUnit(sent, x))
        <5>1. CASE x = id
          BY Zenon, <5>1, <2>2, <2>8, NoUnits
        <5> QED BY Zenon, <5>1, <3>9, <2>5
      <4>3. UnitsLT(wire', node[x].data) /\ UnitsLT(wire', NextUnit(sent, x))
        <5>1. UnitsLT(wire, node[x].data) /\ UnitsLT(wire, NextUnit(sent, x))
          BY Zenon, <4>1 DEF StreamInOrder
        <5>2. UnitsLT(wire', node[x].data)
          BY Zenon, <5>1, <4>1, <4>2, <2>2, <2>8, <1>JoinedBefore
        <5> QED BY Zenon, <5>1, <5>2, <4>1, <4>2, <2>2, <2>8, <1>JoinedBefore
      <4> QED BY Zenon, <4>1, <4>3, <2>8 DEF StreamInOrder
    <3>10. DataInv(wire', node', list', cl, sent)
      BY Zenon, <3>7, <3>8, <3>9, <2>8 DEF DataInv
    <3>11. ASSUME NEW f \in Functors, FuncOK(node, list, cl, f), FuncInOrder(wire, node, list, sent, f),
                  f.call = "asyncData" /\ f.id = id => UnitsLT(<<unit>>, <<f.unit>>)
           PROVE  FuncInOrder(wire', node', list', sent, f)
      <4>1. CASE f.call \in Kinds
        <5>1. KeysLT(KeysIn(wire), {f.id}) /\ KeysLT({id}, {f.id})
          BY Zenon, <4>1, <3>1, <3>2, <3>11 DEF FuncInOrder
        <5>2. KeysLT(KeysIn(wire'), {f.id})
          BY ZenonT(30), <5>1, <3>3, <1>KeysUnion
        <5> QED BY Zenon, <5>2, <4>1, <3>11, <2>8 DEF FuncInOrder, Kinds
      <4>2. CASE f.call = "asyncData"
        <5>1. UnitsLT(wire', <<f.unit>>)
          BY ZenonT(30), <4>2, <3>11, <2>2, <2>6, <2>8, <1>JoinedUnits DEF FuncInOrder
        <5> QED BY Zenon, <5>1, <4>2, <3>11, <2>8 DEF FuncInOrder, Kinds
      <4>3. CASE f.call \notin Kinds /\ f.call # "asyncData"
        BY Zenon, <4>3 DEF FuncInOrder
      <4> QED BY Zenon, <4>1, <4>2, <4>3
    <3> QED BY Zenon, <3>10, <3>11
  <2>9. CASE UNCHANGED <<wire, list>> /\ SetData(node, id, node[id].data \o u)
    <3> DEFINE d == node[id].data \o u
    <3>1. /\ node' \in [Ids -> BufferNodes] /\ \A x \in Ids : node'[x].kind = node[x].kind
          /\ node'[id].data = d /\ \A x \in Ids : x # id => node'[x].data = node[x].data
      BY Zenon, <2>9 DEF SetData
    <3>2. KeysIn(node[id].data) \subseteq {id}
      BY Zenon, <2>3 DEF StreamInOrder
    <3>3. d \in Seq(Units) /\ KeysIn(d) = {id}
      <4>1. KeysIn(d) = KeysIn(node[id].data) \cup KeysIn(u)
        BY Zenon, <2>2, <1>JoinedKeys DEF d
      <4>2. d \in Seq(Units)
        BY Zenon, <2>2, ConcatProperties
      <4> QED BY Zenon, <4>1, <4>2, <3>2, <2>2
    <3>4. Ordered(d)
      <4>1. KeysLE(KeysIn(node[id].data), KeysIn(u))
        BY Zenon, <3>2, <2>2, KeysTypes, <1>KeysSelf
      <4> QED BY Zenon, <4>1, <2>2, <2>3, <1>JoinedOrder, <1>BeforeParts DEF StreamInOrder
    <3>5. UnitsLT(wire, d) /\ UnitsLT(d, NextUnit(sent, id))
      <4>1. UnitsLT(wire, node[id].data) /\ UnitsLT(node[id].data, NextUnit(sent, id))
        BY Zenon, <2>3 DEF StreamInOrder
      <4>2. NextUnit(sent, id) \in Seq(Units)
        BY Zenon, NextUnits
      <4>3. UnitsLT(wire, d)
        BY Zenon, <4>1, <2>2, <1>JoinedAfter
      <4>4. UnitsLT(d, NextUnit(sent, id))
        BY Zenon, <4>1, <4>2, <2>2, <1>JoinBefore
      <4> QED BY Zenon, <4>3, <4>4
    <3> HIDE DEF d
    <3>7. ASSUME NEW x \in Ids PROVE KeysOf(node', x) = KeysOf(node, x)
      BY Zenon, <3>1, <3>2, <3>3 DEF KeysOf
    <3>8. ASSUME NEW i \in 1 .. Len(list)
          PROVE  /\ Ordered(node'[list[i]].data) /\ UnitsLT(wire, node'[list[i]].data)
                 /\ \A k \in KeysIn(node'[list[i]].data) : k \in Ids /\ node'[k].kind = node'[list[i]].kind
      <4>1. CASE list[i] = id
        BY Zenon, <4>1, <3>1, <3>3, <3>4, <3>5
      <4>2. CASE list[i] # id
        BY Zenon, <4>2, <3>1, <2>4 DEF DataInv, ListInOrder
      <4> QED BY Zenon, <4>1, <4>2
    <3>9. ListInOrder(wire', node', list')
      <4>1. ListInOrder(wire, node, list)
        BY Zenon DEF DataInv
      <4>2. \A i \in 1 .. Len(list) : KeysOf(node', list[i]) = KeysOf(node, list[i])
        BY Zenon, <3>7, <2>4
      <4> QED BY Zenon, <4>1, <4>2, <3>8, <2>9 DEF ListInOrder
    <3>10. Made(cl, KeysIn(wire')) /\ \A i \in 1 .. Len(list') : Made(cl, KeysOf(node', list'[i]))
      BY Zenon, <3>7, <2>4, <2>9 DEF DataInv
    <3>11. ASSUME NEW x \in Ids, node[x].kind = "async"
           PROVE  StreamInOrder(wire', node', sent, x)
      <4>1. StreamInOrder(wire, node, sent, x)
        BY Zenon, <3>11 DEF DataInv
      <4> QED BY Zenon, <4>1, <3>1, <3>3, <3>4, <3>5, <2>9 DEF StreamInOrder
    <3>12. DataInv(wire', node', list', cl, sent)
      BY Zenon, <3>1, <3>9, <3>10, <3>11 DEF DataInv
    <3>13. ASSUME NEW f \in Functors, FuncOK(node, list, cl, f), FuncInOrder(wire, node, list, sent, f),
                  f.call = "asyncData" /\ f.id = id => UnitsLT(<<unit>>, <<f.unit>>)
           PROVE  FuncInOrder(wire', node', list', sent, f)
      <4>1. CASE f.call \in Kinds
        <5>1. f.id \in Ids /\ (f.call \in {"file", "stream"} => f.id # id)
          BY Zenon, <4>1, <3>13 DEF FuncOK
        <5> QED BY Zenon, <5>1, <4>1, <3>1, <3>7, <3>13, <2>4, <2>9 DEF FuncInOrder, Kinds
      <4>2. CASE f.call = "asyncData"
        <5>1. UnitsLT(node'[f.id].data, <<f.unit>>)
          <6>1. CASE f.id = id
            <7>1. UnitsLT(d, <<f.unit>>)
              <8>1. UnitsLT(u, <<f.unit>>) /\ <<f.unit>> \in Seq(Units)
                BY Zenon, <4>2, <3>13, <2>6
              <8>2. UnitsLT(node[id].data, <<f.unit>>)
                BY Zenon, <6>1, <4>2, <3>13 DEF FuncInOrder
              <8> DEFINE v == <<f.unit>>
              <8> HIDE DEF v
              <8>3. UnitsLT(u, v) /\ v \in Seq(Units) /\ UnitsLT(node[id].data, v)
                BY Zenon, <8>1, <8>2 DEF v
              <8>4. UnitsLT(node[id].data \o u, v)
                BY Zenon, <8>3, <2>2, <1>JoinBefore
              <8> QED BY Zenon, <8>4 DEF d, v
            <7> QED BY Zenon, <7>1, <6>1, <3>1
          <6>2. CASE f.id # id
            BY Zenon, <6>2, <4>2, <3>1, <3>13 DEF FuncInOrder, FuncOK
          <6> QED BY Zenon, <6>1, <6>2
        <5> QED BY Zenon, <5>1, <4>2, <3>13, <2>9 DEF FuncInOrder, Kinds
      <4>3. CASE f.call \notin Kinds /\ f.call # "asyncData"
        BY Zenon, <4>3 DEF FuncInOrder
      <4> QED BY Zenon, <4>1, <4>2, <4>3
    <3> QED BY Zenon, <3>12, <3>13
  <2> QED BY Zenon, <2>7, <2>8, <2>9 DEF AddsData, u
\* writeCallback() drops the first node, or sends some of it.
<1>DropOrder. ASSUME wire \in Seq(Units), list \in Seq(Ids), list # <<>>, NEW cl, NEW sent,
                     UNCHANGED <<wire, node>>, list' = Tail(list), DataInv(wire, node, list, cl, sent)
              PROVE  /\ DataInv(wire', node', list', cl, sent)
                     /\ \A f \in Functors : FuncInOrder(wire, node, list, sent, f) => FuncInOrder(wire', node', list', sent, f)
  <2> USE <1>DropOrder
  <2>1. \A i \in 1 .. Len(list') : i + 1 \in 1 .. Len(list) /\ list'[i] = list[i + 1]
    BY Zenon, Shorter
  <2>2. \A i, j \in 1 .. Len(list') : i < j => i + 1 < j + 1
    OBVIOUS
  <2>3. ListInOrder(wire', node', list')
    BY SMTT(60), <2>1, <2>2 DEF DataInv, ListInOrder
  <2>4. DataInv(wire', node', list', cl, sent)
    BY Zenon, <2>1, <2>3 DEF DataInv, StreamInOrder
  <2>5. ASSUME NEW f \in Functors, FuncInOrder(wire, node, list, sent, f)
        PROVE  FuncInOrder(wire', node', list', sent, f)
    BY Zenon, <2>1, <2>5 DEF FuncInOrder
  <2> QED BY Zenon, <2>4, <2>5
\* writeCallback() takes the next data of the first node: the order stays.
<1>WriteOrder. ASSUME wire \in Seq(Units), list \in Seq(Ids), list # <<>>, IsInjective(list),
                      node \in [Ids -> BufferNodes], NEW cl, NEW sent \in [Ids -> 0 .. MaxAsync],
                      Writes(Head(list)), DataInv(wire, node, list, cl, sent)
               PROVE  /\ DataInv(wire', node', list', cl, sent)
                      /\ \A f \in Functors : FuncOK(node, list, cl, f) /\ FuncInOrder(wire, node, list, sent, f)
                                            => FuncInOrder(wire', node', list', sent, f)
  <2> USE <1>WriteOrder
  <2> DEFINE id == Head(list)  D == node[id].data
  <2>1. 1 \in 1 .. Len(list) /\ list[1] = id /\ id \in Ids
    BY Zenon, Shorter, ElementOfSeq
  <2>2. \A i \in 1 .. Len(list) : i # 1 => list[i] # id /\ 1 < i
    BY <2>1, RangeIs
  <2> HIDE DEF id
  <2>3. D \in Seq(Units)
    BY Zenon, <2>1 DEF BufferNodes
  <2>4. PICK n \in 0 .. Len(D) :
          wire' = wire \o SubSeq(D, 1, n) /\ list' = list /\ SetData(node, id, Rest(D, n))
    BY Zenon DEF Writes, id
  <2> DEFINE a == SubSeq(D, 1, n)  b == Rest(D, n)
  <2>5. a \in Seq(Units) /\ b \in Seq(Units) /\ D = a \o b
    BY Zenon, <2>3, <2>4, Cut, CutIsJoin
  <2>6. /\ wire' = wire \o a /\ list' = list /\ node' \in [Ids -> BufferNodes]
        /\ node'[id].data = b /\ \A x \in Ids : node'[x].kind = node[x].kind
        /\ \A x \in Ids : x # id => node'[x].data = node[x].data
    BY Zenon, <2>4 DEF SetData
  <2> HIDE DEF a, b
  <2>7. /\ Ordered(wire) /\ Ordered(D) /\ UnitsLT(wire, D) /\ KeysLE(KeysIn(wire), KeysOf(node, id))
        /\ \A k \in KeysIn(D) : k \in Ids /\ node[k].kind = node[id].kind
    BY Zenon, <2>1 DEF DataInv, ListInOrder
  <2>8. KeysIn(D) = KeysIn(a) \cup KeysIn(b) /\ KeysIn(wire') = KeysIn(wire) \cup KeysIn(a)
    <3>1. KeysIn(a \o b) = KeysIn(a) \cup KeysIn(b)
      BY Zenon, <2>5, <1>JoinedKeys
    <3>2. KeysIn(wire \o a) = KeysIn(wire) \cup KeysIn(a)
      BY Zenon, <2>5, <1>JoinedKeys
    <3> QED BY Zenon, <3>1, <3>2, <2>5, <2>6
  <2>9. Ordered(a) /\ Ordered(b) /\ KeysLE(KeysIn(a), KeysIn(b)) /\ UnitsLT(a, b)
    BY ZenonT(30), <2>5, <2>7, <1>JoinedOrder, <1>BeforeParts
  <2>10. UnitsLT(wire, a) /\ UnitsLT(wire, b)
    BY Zenon, <2>5, <2>7, <1>PartsAfter
  <2>11. wire' \in Seq(Units) /\ Ordered(wire') /\ UnitsLT(wire', b)
    <3>1. KeysLE(KeysIn(wire), KeysIn(a))
      BY Zenon, <2>7, <2>8, <1>KeysParts DEF KeysOf
    <3>2. Ordered(wire \o a)
      BY Zenon, <3>1, <2>5, <2>7, <2>9, <2>10, <1>JoinedOrder, <1>BeforeParts
    <3>3. UnitsLT(wire \o a, b)
      BY Zenon, <2>5, <2>9, <2>10, <1>JoinedBefore
    <3> QED BY Zenon, <3>2, <3>3, <2>5, <2>6, ConcatProperties
  <2>12. KeysOf(node', id) \subseteq KeysOf(node, id) /\ KeysIn(a) \subseteq KeysOf(node, id)
    BY Zenon, <2>1, <2>6, <2>8 DEF KeysOf
  <2>13. node[id].kind = "async" => KeysIn(D) \subseteq {id}
    BY Zenon, <2>1 DEF DataInv, StreamInOrder
  <2>14. KeysLE(KeysIn(wire'), KeysOf(node', id))
    <3>1. KeysLE(KeysIn(wire), KeysOf(node', id))
      BY Zenon, <2>7, <2>12, <1>KeysParts
    <3>2. KeysLE(KeysIn(a), KeysOf(node', id))
      <4>1. CASE node[id].kind = "async"
        <5>1. KeysIn(a) \subseteq {id} /\ KeysOf(node', id) \subseteq {id}
          BY Zenon, <4>1, <2>6, <2>8, <2>13 DEF KeysOf
        <5> QED BY Zenon, <5>1, <2>1, KeysTypes, <1>KeysSelf
      <4>2. CASE node[id].kind # "async"
        BY Zenon, <4>2, <2>1, <2>6, <2>9 DEF KeysOf
      <4> QED BY Zenon, <4>1, <4>2
    <3>3. KeysLE(KeysIn(wire) \cup KeysIn(a), KeysOf(node', id))
      BY Zenon, <3>1, <3>2, <1>KeysUnion
    <3> QED BY Zenon, <3>3, <2>8
  \* Nothing of a comes from another node or stream.
  <2>15. ASSUME NEW i \in 1 .. Len(list), i # 1
         PROVE  /\ list[i] \in Ids /\ node[list[i]].data \in Seq(Units) /\ node'[list[i]].data = node[list[i]].data
                /\ KeysOf(node', list[i]) = KeysOf(node, list[i])
                /\ KeysLT(KeysOf(node, id), KeysOf(node, list[i]))
                /\ UnitsLT(wire', node[list[i]].data) /\ KeysLE(KeysIn(wire'), KeysOf(node, list[i]))
    <3>1. list[i] \in Ids /\ list[i] # id /\ 1 < i
      BY Zenon, <2>2, <2>15, ElementOfSeq
    <3>2. /\ node[list[i]].data \in Seq(Units) /\ node'[list[i]].data = node[list[i]].data
          /\ KeysOf(node', list[i]) = KeysOf(node, list[i])
      BY Zenon, <3>1, <2>6 DEF KeysOf, BufferNodes
    <3>3. KeysLT(KeysOf(node, list[1]), KeysOf(node, list[i]))
      BY Zenon, <3>1, <2>1 DEF DataInv, ListInOrder
    <3>4. KeysLT(KeysIn(a), KeysOf(node, list[i]))
      BY Zenon, <3>3, <2>1, <2>12, <1>KeysParts
    <3>5. KeysIn(a) \subseteq CallIds /\ KeysOf(node, list[i]) \subseteq CallIds
      BY Zenon, <3>1, <2>5, KeysTypes
    <3>6. KeysLE(KeysIn(a), KeysOf(node, list[i])) /\ \A k \in KeysIn(a) : k \notin KeysOf(node, list[i])
      BY Zenon, <3>4, <3>5, <1>KeysApart
    <3>7. UnitsLT(a, node[list[i]].data)
      <4>1. \A k \in KeysIn(a) : k \notin KeysIn(node[list[i]].data)
        BY Zenon, <3>6 DEF KeysOf
      <4> QED BY Zenon, <4>1, <3>2, <2>5, UnitsApart
    <3>8. UnitsLT(wire, node[list[i]].data) /\ KeysLE(KeysIn(wire), KeysOf(node, list[i]))
      BY Zenon DEF DataInv, ListInOrder
    <3>9. UnitsLT(wire', node[list[i]].data)
      BY Zenon, <3>2, <3>7, <3>8, <2>5, <2>6, <1>JoinedBefore
    <3>10. KeysLE(KeysIn(wire'), KeysOf(node, list[i]))
      <4>1. KeysLE(KeysIn(wire) \cup KeysIn(a), KeysOf(node, list[i]))
        BY Zenon, <3>6, <3>8, <1>KeysUnion
      <4> QED BY Zenon, <4>1, <2>8
    <3> QED BY Zenon, <3>1, <3>2, <3>3, <3>9, <3>10, <2>1
  <2>16. ASSUME NEW x \in Ids, node[x].kind = "async", x # id, NEW s \in Seq(Units), KeysIn(s) \subseteq {x}
         PROVE  UnitsLT(a, s)
    <3>1. \A k \in KeysIn(a) : k # x
      BY Zenon, <2>7, <2>8, <2>13, <2>16
    <3>2. \A k \in KeysIn(a) : k \notin KeysIn(s)
      BY Zenon, <3>1, <2>16
    <3> QED BY Zenon, <3>2, <2>5, <2>16, UnitsApart
  <2>17. ListInOrder(wire', node', list')
    <3>1. ASSUME NEW i \in 1 .. Len(list)
          PROVE  /\ Ordered(node'[list[i]].data) /\ UnitsLT(wire', node'[list[i]].data)
                 /\ KeysLE(KeysIn(wire'), KeysOf(node', list[i]))
                 /\ \A k \in KeysIn(node'[list[i]].data) : k \in Ids /\ node'[k].kind = node'[list[i]].kind
      <4>1. CASE i = 1
        BY Zenon, <4>1, <2>1, <2>6, <2>7, <2>8, <2>9, <2>11, <2>14
      <4>2. CASE i # 1
        BY ZenonT(30), <4>2, <2>6, <2>15 DEF DataInv, ListInOrder
      <4> QED BY Zenon, <4>1, <4>2
    <3>2. ASSUME NEW i \in 1 .. Len(list), NEW j \in 1 .. Len(list), i < j
          PROVE  KeysLT(KeysOf(node', list[i]), KeysOf(node', list[j]))
      <4>1. j # 1 /\ KeysOf(node', list[j]) = KeysOf(node, list[j]) /\ KeysLT(KeysOf(node, list[i]), KeysOf(node, list[j]))
        <5>1. j # 1
          BY <3>2
        <5> QED BY Zenon, <5>1, <3>2, <2>15 DEF DataInv, ListInOrder
      <4>2. KeysOf(node', list[i]) \subseteq KeysOf(node, list[i])
        BY Zenon, <2>1, <2>12, <2>15
      <4> QED BY Zenon, <4>1, <4>2, <1>KeysParts
    <3> QED BY Zenon, <3>1, <3>2, <2>6, <2>11 DEF ListInOrder
  <2>18. Made(cl, KeysIn(wire')) /\ \A i \in 1 .. Len(list') : Made(cl, KeysOf(node', list'[i]))
    <3>1. \A i \in 1 .. Len(list) : KeysOf(node', list[i]) \subseteq KeysOf(node, list[i])
      BY Zenon, <2>1, <2>12, <2>15
    <3>2. KeysIn(wire') \subseteq KeysIn(wire) \cup KeysOf(node, list[1])
      BY Zenon, <2>1, <2>8, <2>12
    <3> QED BY Zenon, <3>1, <3>2, <2>1, <2>6 DEF DataInv, Made
  <2>19. ASSUME NEW x \in Ids, node'[x].kind = "async" PROVE StreamInOrder(wire', node', sent, x)
    <3>1. /\ StreamInOrder(wire, node, sent, x) /\ node[x].kind = "async" /\ node[x].data \in Seq(Units)
          /\ NextUnit(sent, x) \in Seq(Units) /\ KeysIn(NextUnit(sent, x)) = {x}
      BY Zenon, <2>6, <2>19, NextUnits DEF DataInv, BufferNodes
    <3>2. CASE x = id
      <4>1. UnitsLT(a, NextUnit(sent, x)) /\ UnitsLT(b, NextUnit(sent, x))
        BY ZenonT(30), <3>1, <3>2, <2>5, <1>PartsBefore DEF StreamInOrder
      <4>2. UnitsLT(wire', NextUnit(sent, x))
        BY Zenon, <4>1, <3>1, <2>5, <2>6, <1>JoinedUnits DEF StreamInOrder
      <4> QED BY Zenon, <4>1, <4>2, <3>1, <3>2, <2>6, <2>8, <2>9, <2>11, <2>13 DEF StreamInOrder
    <3>3. CASE x # id
      <4>1. UnitsLT(a, node[x].data) /\ UnitsLT(a, NextUnit(sent, x))
        BY Zenon, <3>1, <3>3, <2>16 DEF StreamInOrder
      <4>2. UnitsLT(wire', node[x].data) /\ UnitsLT(wire', NextUnit(sent, x))
        BY Zenon, <4>1, <3>1, <2>5, <2>6, <1>JoinedBefore DEF StreamInOrder
      <4> QED BY Zenon, <4>2, <3>1, <3>3, <2>6 DEF StreamInOrder
    <3> QED BY Zenon, <3>2, <3>3
  <2>20. DataInv(wire', node', list', cl, sent)
    BY Zenon, <2>17, <2>18, <2>19 DEF DataInv
  <2>21. ASSUME NEW f \in Functors, FuncOK(node, list, cl, f), FuncInOrder(wire, node, list, sent, f)
         PROVE  FuncInOrder(wire', node', list', sent, f)
    <3>1. CASE f.call \in Kinds
      <4>1. KeysLT(KeysIn(wire), {f.id}) /\ KeysLT(KeysOf(node, id), {f.id})
        BY Zenon, <3>1, <2>1, <2>21 DEF FuncInOrder
      <4>2. KeysLT(KeysIn(a), {f.id})
        BY Zenon, <4>1, <2>12, <1>KeysParts
      <4>3. KeysLT(KeysIn(wire'), {f.id})
        <5>1. KeysLT(KeysIn(wire) \cup KeysIn(a), {f.id})
          BY Zenon, <4>1, <4>2, <1>KeysUnion
        <5> QED BY Zenon, <5>1, <2>8
      <4>4. ASSUME NEW i \in 1 .. Len(list) PROVE KeysLT(KeysOf(node', list[i]), {f.id})
        <5>1. KeysOf(node', list[i]) \subseteq KeysOf(node, list[i]) /\ KeysLT(KeysOf(node, list[i]), {f.id})
          BY Zenon, <3>1, <2>1, <2>12, <2>15, <2>21 DEF FuncInOrder
        <5> QED BY Zenon, <5>1, <1>KeysParts
      <4>5. f.id \in Ids /\ f.id # id
        <5>1. id \in Range(list)
          BY Zenon, <2>1, RangeIs
        <5> QED BY Zenon, <5>1, <3>1, <2>21 DEF FuncOK
      <4> QED BY Zenon, <4>3, <4>4, <4>5, <3>1, <2>6, <2>21 DEF FuncInOrder, Kinds
    <3>2. CASE f.call = "asyncData"
      <4>1. /\ f.id \in Ids /\ node[f.id].kind = "async" /\ f.unit \in Units /\ Key(f.unit) = f.id
            /\ UnitsLT(wire, <<f.unit>>) /\ UnitsLT(node[f.id].data, <<f.unit>>)
        BY Zenon, <3>2, <2>21 DEF FuncOK, FuncInOrder, Functors, Kinds
      <4>2. <<f.unit>> \in Seq(Units) /\ KeysIn(<<f.unit>>) = {f.id}
        BY Zenon, <4>1, OneUnit
      <4>3. UnitsLT(a, <<f.unit>>) /\ UnitsLT(node'[f.id].data, <<f.unit>>)
        <5>1. CASE f.id = id
          <6>1. UnitsLT(a, <<f.unit>>) /\ UnitsLT(b, <<f.unit>>)
            <7> DEFINE v == <<f.unit>>
            <7> HIDE DEF v
            <7>1. v \in Seq(Units) /\ UnitsLT(a \o b, v)
              BY Zenon, <5>1, <4>1, <4>2, <2>5 DEF v
            <7>2. UnitsLT(a, v) /\ UnitsLT(b, v)
              BY Zenon, <7>1, <2>5, <1>PartsBefore
            <7> QED BY Zenon, <7>2 DEF v
          <6> QED BY Zenon, <6>1, <5>1, <2>6
        <5>2. CASE f.id # id
          BY Zenon, <5>2, <4>1, <4>2, <2>6, <2>16
        <5> QED BY Zenon, <5>1, <5>2
      <4>4. UnitsLT(wire', <<f.unit>>)
        BY Zenon, <4>1, <4>2, <4>3, <2>5, <2>6, <1>JoinedBefore
      <4> QED BY Zenon, <4>3, <4>4, <3>2, <2>21 DEF FuncInOrder, Kinds
    <3>3. CASE f.call \notin Kinds /\ f.call # "asyncData"
      BY Zenon, <3>3 DEF FuncInOrder
    <3> QED BY Zenon, <3>1, <3>2, <3>3
  <2> QED BY Zenon, <2>20, <2>21
\* The node of a new call in the heap, and what it will send
<1>FreshOrder. ASSUME TypeInv, IdsInv, OrderInv, NEW t \in AllThreads, NEW kind \in Kinds,
                      (t \in Threads /\ calls[t] < MaxCalls) \/ (t = LoopThread /\ calls[t] < MaxLoopCalls),
                      calls' = [calls EXCEPT ![t] = @ + 1]
               PROVE  /\ DataInv(wire, WithNode(kind, t), list, calls', asyncSent)
                      /\ \A f \in Functors :
                           /\ FuncOK(node, list, calls, f) => FuncOK(WithNode(kind, t), list, calls', f)
                           /\ FuncOK(node, list, calls, f) /\ FuncInOrder(wire, node, list, asyncSent, f)
                                => FuncInOrder(wire, WithNode(kind, t), list, asyncSent, f)
                      /\ Newest(wire, WithNode(kind, t), list, Fresh(t), DataOf(WithNode(kind, t), Fresh(t)))
                      /\ Fresh(t) \in Ids /\ Fresh(t)[1] = t /\ Used(calls', Fresh(t)) /\ Fresh(t) \notin Range(list) /\ WithNode(kind, t) \in [Ids -> BufferNodes]
                      /\ WithNode(kind, t)[Fresh(t)] = NewNode(kind, Fresh(t))
  <2> USE <1>FreshOrder
  <2> DEFINE nd == WithNode(kind, t)  id == Fresh(t)
  <2>1. /\ wire \in Seq(Units) /\ node \in [Ids -> BufferNodes] /\ list \in Seq(Ids)
        /\ calls \in [AllThreads -> 0 .. MaxCalls + MaxLoopCalls] /\ asyncSent \in [Ids -> 0 .. MaxAsync]
        /\ DataInv(wire, node, list, calls, asyncSent)
    BY Zenon, TypeParts DEF ShapesOK, OrderInv
  <2>2. /\ id \in Ids /\ id[1] = t /\ id[2] = calls[t] + 1 /\ ~Used(calls, id) /\ nd \in [Ids -> BufferNodes]
        /\ nd[id] = NewNode(kind, id) /\ (\A x \in Ids : x # id => nd[x] = node[x]) /\ calls[t] \in Nat
    BY ZenonT(30), FreshFacts
  <2> HIDE DEF nd, id
  <2>3. id \notin Range(list) /\ node[id].kind # "async"
    BY Zenon, <2>2, FreshUnused
  <2>4. \A r \in AllThreads : calls[r] \in Nat /\ calls'[r] = IF r = t THEN calls[t] + 1 ELSE calls[r]
    BY <2>1, BoundsAssumption
  <2>5. \A x \in CallIds : Used(calls, x) => Used(calls', x)
    BY <2>4 DEF Used, CallIds
  <2>6. Used(calls', id)
    BY <2>2, <2>4 DEF Used
  <2>7. \A x \in CallIds : Used(calls, x) => x # id /\ (x[1] = t => x[2] < id[2])
    BY <2>2, <2>4 DEF Used, CallIds
  <2>8. ASSUME NEW X, X \subseteq CallIds, Made(calls, X)
        PROVE  KeysLT(X, {id}) /\ id \notin X
    BY Zenon, <2>2, <2>7, <2>8 DEF Made, KeysLT
  <2>9. KeysLT(KeysIn(wire), {id}) /\ id \notin KeysIn(wire)
    BY Zenon, <2>1, <2>8, KeysTypes DEF DataInv
  <2>10. nd[id].kind = kind /\ nd[id].data = IF kind \in {"file", "stream"} THEN UnitsOf(id) ELSE <<>>
    BY <2>2 DEF NewNode
  <2>11. /\ UnitsOf(id) \in Seq(Units) /\ Ordered(UnitsOf(id)) /\ KeysIn(UnitsOf(id)) = {id}
         /\ <<>> \in Seq(Units) /\ Ordered(<<>>) /\ KeysIn(<<>>) = {} /\ UnitsLT(wire, <<>>)
         /\ NextUnit(asyncSent, id) \in Seq(Units) /\ KeysIn(NextUnit(asyncSent, id)) = {id}
         /\ UnitsLT(<<>>, NextUnit(asyncSent, id))
    <3>1. UnitsOf(id) \in Seq(Units) /\ Ordered(UnitsOf(id)) /\ KeysIn(UnitsOf(id)) = {id}
      BY Zenon, <2>2, UnitsOfFacts
    <3>2. NextUnit(asyncSent, id) \in Seq(Units) /\ KeysIn(NextUnit(asyncSent, id)) = {id}
      BY Zenon, <2>1, <2>2, NextUnits
    <3>3. /\ <<>> \in Seq(Units) /\ Ordered(<<>>) /\ KeysIn(<<>>) = {} /\ UnitsLT(wire, <<>>)
          /\ UnitsLT(<<>>, NextUnit(asyncSent, id))
      BY <3>2, <2>1, NoUnits
    <3> QED BY Zenon, <3>1, <3>2, <3>3
  <2>12. kind = "async" => StreamInOrder(wire, nd, asyncSent, id)
    <3>1. \A k \in KeysIn(wire) : k \notin KeysIn(NextUnit(asyncSent, id))
      BY Zenon, <2>9, <2>11
    <3>2. UnitsLT(wire, NextUnit(asyncSent, id))
      BY Zenon, <3>1, <2>1, <2>11, UnitsApart
    <3> QED BY Zenon, <3>2, <2>10, <2>11 DEF StreamInOrder
  <2>13. /\ DataInv(wire, nd, list, calls', asyncSent)
         /\ \A f \in Functors :
              /\ FuncOK(node, list, calls, f) => FuncOK(nd, list, calls', f)
              /\ FuncOK(node, list, calls, f) /\ FuncInOrder(wire, node, list, asyncSent, f)
                   => FuncInOrder(wire, nd, list, asyncSent, f)
    <3>1. \A x \in Ids : Used(calls, x) => nd[x].kind = node[x].kind /\ nd[x].data = node[x].data
      BY Zenon, <2>2
    <3>2. /\ \A i \in 1 .. Len(list) : Used(calls, list[i])
          /\ \A x \in Ids : node[x].kind = "async" => Used(calls, x)
      BY Zenon DEF IdsInv
    <3>3. \A x \in Ids : nd[x].kind = "async" => node[x].kind = "async" \/ StreamInOrder(wire, nd, asyncSent, x)
      BY Zenon, <2>2, <2>10, <2>12
    <3>4. /\ wire \in Seq(Units) /\ node \in [Ids -> BufferNodes] /\ list \in Seq(Ids)
          /\ nd \in [Ids -> BufferNodes] /\ DataInv(wire, node, list, calls, asyncSent)
      BY Zenon, <2>1, <2>2
    <3>5. SafeChange(wire, node, nd, list, calls, calls', asyncSent)
      BY Zenon, <3>1, <3>2, <3>3, <2>5 DEF SafeChange
    <3>6. ASSUME NEW c, SafeChange(wire, node, nd, list, calls, c, asyncSent)
          PROVE  /\ DataInv(wire, nd, list, c, asyncSent)
                 /\ \A f \in Functors :
                      /\ FuncOK(node, list, calls, f) => FuncOK(nd, list, c, f)
                      /\ FuncOK(node, list, calls, f) /\ FuncInOrder(wire, node, list, asyncSent, f)
                           => FuncInOrder(wire, nd, list, asyncSent, f)
      BY Zenon, <3>4, <3>6, <1>HeapChange
    <3> QED BY Zenon, <3>5, <3>6
  <2>14. ASSUME NEW i \in 1 .. Len(list) PROVE KeysLT(KeysOf(nd, list[i]), {id})
    <3>1. list[i] \in Ids /\ list[i] # id
      BY Zenon, <2>1, <2>3, RangeIs, ElementOfSeq
    <3>2. KeysOf(nd, list[i]) = KeysOf(node, list[i])
      BY Zenon, <3>1, <2>2 DEF KeysOf
    <3> QED BY Zenon, <3>1, <3>2, <2>1, <2>8, KeysTypes DEF DataInv
  <2>15. Newest(wire, nd, list, id, DataOf(nd, id))
    <3>1. Ordered(wire)
      BY Zenon, <2>1 DEF DataInv, ListInOrder
    <3>2. /\ DataOf(nd, id) \in Seq(Units) /\ Ordered(DataOf(nd, id)) /\ KeysIn(DataOf(nd, id)) \subseteq {id}
          /\ nd[id].kind = "async" => DataOf(nd, id) = nd[id].data
      BY Zenon, <2>10, <2>11 DEF DataOf
    <3> QED BY Zenon, <3>1, <3>2, <2>9, <2>14 DEF Newest
  <2> QED BY Zenon, <2>2, <2>3, <2>6, <2>13, <2>15 DEF nd, id
<1> SUFFICES ASSUME StreamsInOrder, TypeInv, TypeInv', IdsInv, OrderInv, Step
             PROVE  OrderInv'
  BY Zenon
<1>1. /\ node \in [Ids -> BufferNodes] /\ list \in Seq(Ids) /\ IsInjective(list)
      /\ wire \in Seq(Units) /\ funcs \in Seq(Functors)
      /\ calls \in [AllThreads -> 0 .. MaxCalls + MaxLoopCalls] /\ open \subseteq Ids
      /\ asyncSent \in [Ids -> 0 .. MaxAsync]
  BY Zenon, TypeParts DEF ShapesOK
<1>2. /\ asyncSent' \in [Ids -> 0 .. MaxAsync] /\ funcs' \in Seq(Functors)
  BY Zenon DEF TypeInv, TypeOK
<1>3. /\ DataInv(wire, node, list, calls, asyncSent) /\ QueueInv(wire, node, list, asyncSent, funcs)
      /\ QueueOK(node, list, calls, funcs) /\ NodesOK(node, list, calls, open)
  BY Zenon, <1>1, IdsParts DEF OrderInv
<1> SUFFICES /\ DataInv(wire', node', list', calls', asyncSent')
             /\ QueueInv(wire', node', list', asyncSent', funcs')
  BY Zenon DEF OrderInv
<1>4. CASE Quiet
  <2>1. UNCHANGED <<list, wire, calls, asyncSent>> /\ SameData
    BY Zenon, <1>4 DEF Quiet
  <2>2. /\ DataInv(wire, node', list, calls, asyncSent)
        /\ \A f \in Functors : FuncOK(node, list, calls, f) /\ FuncInOrder(wire, node, list, asyncSent, f)
                              => FuncInOrder(wire, node', list, asyncSent, f)
    <3>1. /\ node' \in [Ids -> BufferNodes]
          /\ \A x \in Ids : Used(calls, x) => node'[x].kind = node[x].kind /\ node'[x].data = node[x].data
          /\ \A x \in Ids : node'[x].kind = "async" => node[x].kind = "async"
      BY Zenon, <2>1 DEF SameData
    <3>2. /\ \A i \in 1 .. Len(list) : Used(calls, list[i])
          /\ \A x \in Ids : node[x].kind = "async" => Used(calls, x)
      BY Zenon DEF IdsInv
    <3>3. SafeChange(wire, node, node', list, calls, calls, asyncSent)
      BY Zenon, <3>1, <3>2 DEF SafeChange
    <3> QED BY Zenon, <3>1, <3>3, <1>1, <1>3, <1>HeapChange
  <2>3. CASE UNCHANGED funcs
    BY Zenon, <2>1, <2>2, <2>3, <1>1, <1>3, <1>OrderSame
  <2>4. CASE funcs # <<>> /\ funcs' = Tail(funcs)
    BY Zenon, <2>1, <2>2, <2>4, <1>1, <1>3, <1>OrderTail
  <2>5. ASSUME NEW g \in Functors, g.call \notin Kinds \cup {"asyncData"}, funcs' = Append(funcs, g)
        PROVE  QueueInv(wire', node', list', asyncSent', funcs')
    <3>1. FuncInOrder(wire, node', list, asyncSent, g) /\ \A f : DataInTurn(f, g)
      BY Zenon, <2>5 DEF FuncInOrder, DataInTurn
    <3> QED BY Zenon, <3>1, <2>1, <2>2, <2>5, <1>1, <1>3, <1>OrderAppend
  <2> QED BY Zenon, <2>1, <2>2, <2>3, <2>4, <2>5, <1>4 DEF Quiet
<1>5. CASE QueuesSend
  <2>1. PICK t \in Threads, kind \in Kinds :
          /\ calls[t] < MaxCalls /\ calls' = [calls EXCEPT ![t] = @ + 1]
          /\ node' = WithNode(kind, t)
          /\ funcs' = Append(funcs, Functor(kind, Fresh(t)))
          /\ UNCHANGED <<list, wire, asyncSent>>
    BY Zenon, <1>5 DEF QueuesSend
  <2> DEFINE id == Fresh(t)  g == Functor(kind, id)
  <2>a. /\ DataInv(wire, WithNode(kind, t), list, calls', asyncSent)
        /\ \A f \in Functors :
             FuncOK(node, list, calls, f) /\ FuncInOrder(wire, node, list, asyncSent, f)
               => FuncInOrder(wire, WithNode(kind, t), list, asyncSent, f)
        /\ Newest(wire, WithNode(kind, t), list, id, DataOf(WithNode(kind, t), id))
        /\ id \in Ids /\ WithNode(kind, t)[id] = NewNode(kind, id)
    <3>1. t \in AllThreads
      BY Zenon DEF AllThreads
    <3> QED BY Zenon, <2>1, <3>1, <1>FreshOrder
  <2> HIDE DEF id
  <2>2. /\ DataInv(wire, node', list, calls', asyncSent)
        /\ \A f \in Functors : FuncOK(node, list, calls, f) /\ FuncInOrder(wire, node, list, asyncSent, f)
                              => FuncInOrder(wire, node', list, asyncSent, f)
        /\ Newest(wire, node', list, id, DataOf(node', id))
        /\ id \in Ids /\ node'[id] = NewNode(kind, id)
    BY Zenon, <2>a, <2>1
  <2>3. g \in Functors /\ g.call = kind /\ g.id = id
    <3>1. kind \in Kinds /\ id \in Ids
      BY Zenon, <2>2
    <3> QED BY ZenonT(30), <3>1, Functored DEF g
  <2>4. node'[id].data = IF kind \in {"file", "stream"} THEN UnitsOf(id) ELSE <<>>
    BY SMTT(30), <2>2 DEF NewNode
  <2> HIDE DEF g
  <2>5. FuncInOrder(wire, node', list, asyncSent, g)
    BY Zenon, <2>2, <2>3, <2>4 DEF FuncInOrder, Newest, Kinds
  <2>6. \A f : DataInTurn(f, g)
    BY Zenon, <2>3 DEF DataInTurn, Kinds
  <2>7. funcs' = Append(funcs, g)
    BY Zenon, <2>1 DEF g, id
  <2>8. QueueInv(wire, node', list, asyncSent, Append(funcs, g))
    BY Zenon, <2>2, <2>3, <2>5, <2>6, <1>1, <1>3, <1>OrderAppend
  <2> QED BY Zenon, <2>1, <2>2, <2>7, <2>8
<1>6. CASE RunsSend
  <2> DEFINE f == Head(funcs)  D == DataOf(node, f.id)
  <2>1. /\ funcs # <<>> /\ f.call \in Kinds /\ funcs' = Tail(funcs) /\ UNCHANGED <<calls, asyncSent>>
        /\ Sends(node, f.id, D)
    BY Zenon, <1>6 DEF RunsSend
  <2>2. FuncOK(node, list, calls, f) /\ FuncInOrder(wire, node, list, asyncSent, f)
    BY Zenon, <2>1, <1>3, HeadFunc DEF QueueInv, QueueOK
  <2> HIDE DEF f
  <2>3. f.id \in Ids /\ f.id \notin Range(list) /\ Used(calls, f.id) /\ node[f.id].kind = f.call
    BY Zenon, <2>1, <2>2 DEF FuncOK
  <2>4. D \in Seq(Units) /\ Ordered(D) /\ KeysIn(D) \subseteq {f.id}
    <3>1. UnitsOf(f.id) \in Seq(Units) /\ Ordered(UnitsOf(f.id)) /\ KeysIn(UnitsOf(f.id)) = {f.id}
      BY Zenon, <2>3, UnitsOfFacts
    <3>2. CASE f.call = "async"
      <4>1. StreamInOrder(wire, node, asyncSent, f.id) /\ D = node[f.id].data /\ node[f.id].data \in Seq(Units)
        BY Zenon, <3>2, <2>3, <1>1, <1>3 DEF DataInv, DataOf, BufferNodes
      <4> QED BY Zenon, <4>1 DEF StreamInOrder
    <3>3. CASE f.call # "async"
      <4>1. D = UnitsOf(f.id)
        BY Zenon, <3>3, <2>1, <2>2, <2>3 DEF FuncInOrder, DataOf, Kinds
      <4> QED BY Zenon, <4>1, <3>1
    <3> QED BY Zenon, <3>2, <3>3
  <2>5. Newest(wire, node, list, f.id, D)
    <3>1. Ordered(wire)
      BY Zenon, <1>3 DEF DataInv, ListInOrder
    <3>2. node[f.id].kind = "async" => D = node[f.id].data
      BY Zenon DEF DataOf
    <3> HIDE DEF D
    <3> QED BY Zenon, <3>1, <3>2, <2>1, <2>2, <2>4 DEF Newest, FuncInOrder
  <2> HIDE DEF D
  <2>6. /\ DataInv(wire', node', list', calls, asyncSent)
        /\ \A h \in Functors :
             /\ FuncOK(node, list, calls, h) /\ FuncInOrder(wire, node, list, asyncSent, h)
             /\ h.call \in Kinds => KeysLT({f.id}, {h.id}) /\ h.id # f.id
             => FuncInOrder(wire', node', list', asyncSent, h)
    BY Zenon, <2>1, <2>3, <2>5, <1>1, <1>3, <1>SendsOrder
  <2>7. ASSUME NEW h \in Functors, FuncOK(node, list, calls, h), h.call \in Kinds, InTurn(f, h)
        PROVE  KeysLT({f.id}, {h.id}) /\ h.id # f.id
    <3>1. h.id \in Ids /\ h.id[2] \in Nat
      BY Zenon, <2>7, KeysTypes DEF FuncOK, CallIds
    <3> QED BY SMTT(30), <3>1, <2>1, <2>7 DEF InTurn, KeysLT
  <2>8. \A h \in Functors : /\ FuncOK(node, list, calls, h) /\ FuncInOrder(wire, node, list, asyncSent, h)
                            /\ InTurn(f, h) /\ DataInTurn(f, h)
                            => FuncInOrder(wire', node', list', asyncSent, h)
    BY Zenon, <2>6, <2>7
  <2>9. QueueInv(wire', node', list', asyncSent, Tail(funcs))
    BY Zenon, <2>1, <2>8, <1>1, <1>3, <1>OrderTail DEF f
  <2> QED BY Zenon, <2>1, <2>6, <2>9
<1>7. CASE SendsNow
  <2>1. PICK kind \in Kinds :
          /\ calls[LoopThread] < MaxLoopCalls
          /\ calls' = [calls EXCEPT ![LoopThread] = @ + 1]
          /\ Sends(WithNode(kind, LoopThread), Fresh(LoopThread),
                   DataOf(WithNode(kind, LoopThread), Fresh(LoopThread)))
          /\ UNCHANGED <<funcs, asyncSent>>
    BY Zenon, <1>7 DEF SendsNow
  <2> DEFINE id == Fresh(LoopThread)  nd == WithNode(kind, LoopThread)
  <2>2. Sends(nd, id, DataOf(nd, id))
    BY Zenon, <2>1
  <2>3. /\ DataInv(wire, nd, list, calls', asyncSent)
        /\ \A f \in Functors :
             /\ FuncOK(node, list, calls, f) => FuncOK(nd, list, calls', f)
             /\ FuncOK(node, list, calls, f) /\ FuncInOrder(wire, node, list, asyncSent, f)
                  => FuncInOrder(wire, nd, list, asyncSent, f)
        /\ Newest(wire, nd, list, id, DataOf(nd, id))
        /\ id \in Ids /\ id[1] = LoopThread /\ Used(calls', id) /\ id \notin Range(list)
        /\ nd \in [Ids -> BufferNodes]
    BY Zenon, <2>1, <1>FreshOrder DEF AllThreads
  <2> HIDE DEF id, nd
  <2>4. /\ DataInv(wire', node', list', calls', asyncSent)
        /\ \A f \in Functors :
              /\ FuncOK(nd, list, calls', f) /\ FuncInOrder(wire, nd, list, asyncSent, f)
              /\ f.call \in Kinds => KeysLT({id}, {f.id}) /\ f.id # id
              => FuncInOrder(wire', node', list', asyncSent, f)
    BY Zenon, <2>2, <2>3, <1>1, <1>SendsOrder
  <2>5. ASSUME NEW f \in Functors, FuncOK(node, list, calls, f), f.call \in Kinds
        PROVE  KeysLT({id}, {f.id}) /\ f.id # id
    BY Zenon, <2>3, <2>5, ThreadsAssumption DEF FuncOK, KeysLT
  <2>6. \A f \in Functors : FuncOK(node, list, calls, f) /\ FuncInOrder(wire, node, list, asyncSent, f)
                            => FuncInOrder(wire', node', list', asyncSent, f)
    BY Zenon, <2>3, <2>4, <2>5
  <2>7. QueueInv(wire', node', list', asyncSent, funcs)
    BY Zenon, <2>6, <1>1, <1>3, <1>OrderSame
  <2> QED BY Zenon, <2>1, <2>4, <2>7
<1>8. CASE RunsData
  <2> DEFINE f == Head(funcs)
  <2>1. /\ funcs # <<>> /\ f.call = "asyncData" /\ funcs' = Tail(funcs) /\ UNCHANGED <<calls, asyncSent>>
        /\ AddsData(f.id, f.unit)
    BY Zenon, <1>8 DEF RunsData
  <2>2. f \in Functors /\ FuncOK(node, list, calls, f) /\ FuncInOrder(wire, node, list, asyncSent, f)
    BY Zenon, <2>1, <1>3, HeadFunc DEF QueueInv, QueueOK
  <2> HIDE DEF f
  <2>3. /\ f.id \in Ids /\ f.unit \in Units /\ node[f.id].kind = "async" /\ Key(f.unit) = f.id
        /\ UnitsLT(wire, <<f.unit>>) /\ UnitsLT(node[f.id].data, <<f.unit>>)
        /\ UnitsLT(<<f.unit>>, NextUnit(asyncSent, f.id))
    BY Zenon, <2>1, <2>2 DEF FuncOK, FuncInOrder, Functors, Kinds
  <2>4. /\ DataInv(wire', node', list', calls, asyncSent)
        /\ \A h \in Functors :
              /\ FuncOK(node, list, calls, h) /\ FuncInOrder(wire, node, list, asyncSent, h)
              /\ h.call = "asyncData" /\ h.id = f.id => UnitsLT(<<f.unit>>, <<h.unit>>)
              => FuncInOrder(wire', node', list', asyncSent, h)
    BY Zenon, <2>1, <2>3, <1>1, <1>3, <1>DataOrder
  <2>5. \A h \in Functors : /\ FuncOK(node, list, calls, h) /\ FuncInOrder(wire, node, list, asyncSent, h)
                            /\ InTurn(f, h) /\ DataInTurn(f, h)
                            => FuncInOrder(wire', node', list', asyncSent, h)
    BY Zenon, <2>1, <2>4 DEF DataInTurn
  <2>6. QueueInv(wire', node', list', asyncSent, Tail(funcs))
    BY Zenon, <2>1, <2>5, <1>1, <1>3, <1>OrderTail DEF f
  <2> QED BY Zenon, <2>1, <2>4, <2>6
\* The unit that an async stream sends next, and the one after it
<1>9. ASSUME NEW id \in open, asyncSent[id] < MaxAsync, asyncSent' = [asyncSent EXCEPT ![id] = @ + 1]
      PROVE  /\ id \in Ids /\ node[id].kind = "async" /\ StreamUnit(id) \in Units /\ Key(StreamUnit(id)) = id
             /\ <<StreamUnit(id)>> = NextUnit(asyncSent, id)
             /\ UnitsLT(wire, <<StreamUnit(id)>>) /\ UnitsLT(node[id].data, <<StreamUnit(id)>>)
             /\ UnitsLT(<<StreamUnit(id)>>, NextUnit(asyncSent', id))
             /\ DataInv(wire, node, list, calls, asyncSent')
             /\ \A f \in Functors : FuncOK(node, list, calls, f) /\ FuncInOrder(wire, node, list, asyncSent, f)
                                   => FuncInOrder(wire, node, list, asyncSent', f)
  <2>1. id \in Ids /\ node[id].kind = "async"
    BY Zenon, <1>1, <1>3 DEF NodesOK
  <2>2. <<StreamUnit(id)>> = NextUnit(asyncSent, id) /\ StreamUnit(id) \in Units /\ KeysIn(<<StreamUnit(id)>>) = {id}
    BY Zenon, <2>1, <1>1, NextUnits DEF StreamUnit
  <2>3. Key(StreamUnit(id)) = id
    BY Zenon, <2>2, OneUnit
  <2>4. UnitsLT(wire, <<StreamUnit(id)>>) /\ UnitsLT(node[id].data, <<StreamUnit(id)>>)
    BY Zenon, <2>1, <2>2, <1>3 DEF DataInv, StreamInOrder
  <2>5. UnitsLT(<<StreamUnit(id)>>, NextUnit(asyncSent', id))
    <3>1. asyncSent'[id] = asyncSent[id] + 1 /\ asyncSent[id] \in Nat
      BY <2>1, <1>1, <1>9
    <3>2. 1 .. 1 = {1}
      OBVIOUS
    <3> QED BY <3>1, <3>2 DEF UnitsLT, StreamUnit, NextUnit, Unit
  <2>6. \A x \in Ids : asyncSent[x] <= asyncSent'[x]
    BY <1>1, <1>9
  <2> QED BY Zenon, <2>1, <2>2, <2>3, <2>4, <2>5, <2>6, <1>1, <1>2, <1>3, <1>SentMore
<1>10. CASE SendsData
  <2>1. PICK id \in open :
          /\ asyncSent[id] < MaxAsync /\ asyncSent' = [asyncSent EXCEPT ![id] = @ + 1]
          /\ id[1] = LoopThread \/ ShareStreams
          /\ AddsData(id, StreamUnit(id))
          /\ UNCHANGED <<funcs, calls>>
    BY Zenon, <1>10 DEF SendsData
  <2>2. /\ id \in Ids /\ node[id].kind = "async" /\ StreamUnit(id) \in Units /\ Key(StreamUnit(id)) = id
        /\ <<StreamUnit(id)>> = NextUnit(asyncSent, id)
        /\ UnitsLT(wire, <<StreamUnit(id)>>) /\ UnitsLT(node[id].data, <<StreamUnit(id)>>)
        /\ UnitsLT(<<StreamUnit(id)>>, NextUnit(asyncSent', id))
        /\ DataInv(wire, node, list, calls, asyncSent')
        /\ \A f \in Functors : FuncOK(node, list, calls, f) /\ FuncInOrder(wire, node, list, asyncSent, f)
                              => FuncInOrder(wire, node, list, asyncSent', f)
    BY Zenon, <2>1, <1>9
  \* No data of this stream is queued.
  <2>3. ASSUME NEW f \in Functors, FuncInOrder(wire, node, list, asyncSent, f), f.call = "asyncData"
        PROVE  f.id # id
    <3> SUFFICES ASSUME f.id = id PROVE FALSE
      BY Zenon
    <3>1. f.id[1] \in Threads /\ Key(f.unit) = id /\ UnitsLT(<<f.unit>>, NextUnit(asyncSent, id)) /\ f.unit \in Units
      BY Zenon, <2>3 DEF FuncInOrder, Functors, Kinds
    <3>2. MaxAsync <= 1
      BY Zenon, <3>1, <2>1, ThreadsAssumption DEF StreamsInOrder
    <3>3. asyncSent[id] = 0
      <4>1. asyncSent[id] \in 0 .. MaxAsync /\ MaxAsync \in Nat /\ asyncSent[id] < MaxAsync
        BY Zenon, <2>1, <2>2, <1>1, BoundsAssumption
      <4> QED BY <4>1, <3>2
    <3>4. f.unit[3] < 1
      <4>1. /\ Len(<<f.unit>>) = 1 /\ <<f.unit>>[1] = f.unit /\ Len(NextUnit(asyncSent, id)) = 1
            /\ NextUnit(asyncSent, id)[1] = StreamUnit(id) /\ StreamUnit(id)[3] = asyncSent[id] + 1
        BY Zenon, <2>2 DEF NextUnit, StreamUnit, Unit
      <4>2. 1 \in 1 .. 1 /\ 0 + 1 = 1
        OBVIOUS
      <4> QED BY SMTT(60), <4>1, <4>2, <3>1, <3>3, <2>2 DEF UnitsLT
    <3> QED BY <3>1, <3>4, BoundsAssumption DEF Units
  <2>4. /\ DataInv(wire', node', list', calls, asyncSent')
        /\ \A f \in Functors :
              /\ FuncOK(node, list, calls, f) /\ FuncInOrder(wire, node, list, asyncSent', f)
              /\ f.call = "asyncData" /\ f.id = id => UnitsLT(<<StreamUnit(id)>>, <<f.unit>>)
              => FuncInOrder(wire', node', list', asyncSent', f)
    BY Zenon, <2>1, <2>2, <1>1, <1>2, <1>DataOrder
  <2>5. \A f \in Functors : FuncOK(node, list, calls, f) /\ FuncInOrder(wire, node, list, asyncSent, f)
                            => FuncInOrder(wire', node', list', asyncSent', f)
    BY Zenon, <2>2, <2>3, <2>4
  <2>6. QueueInv(wire', node', list', asyncSent', funcs)
    BY Zenon, <2>5, <1>1, <1>3, <1>OrderSame
  <2> QED BY Zenon, <2>1, <2>4, <2>6
<1>11. CASE QueuesData
  <2>1. PICK id \in open :
          /\ asyncSent[id] < MaxAsync /\ asyncSent' = [asyncSent EXCEPT ![id] = @ + 1]
          /\ id[1] \in Threads
          /\ funcs' = Append(funcs, [call |-> "asyncData", id |-> id, unit |-> StreamUnit(id)])
          /\ UNCHANGED <<node, list, wire, calls>>
    BY Zenon, <1>11 DEF QueuesData, sendVars
  <2> DEFINE g == [call |-> "asyncData", id |-> id, unit |-> StreamUnit(id)]
  <2>2. /\ id \in Ids /\ node[id].kind = "async" /\ StreamUnit(id) \in Units /\ Key(StreamUnit(id)) = id
        /\ <<StreamUnit(id)>> = NextUnit(asyncSent, id)
        /\ UnitsLT(wire, <<StreamUnit(id)>>) /\ UnitsLT(node[id].data, <<StreamUnit(id)>>)
        /\ UnitsLT(<<StreamUnit(id)>>, NextUnit(asyncSent', id))
        /\ DataInv(wire, node, list, calls, asyncSent')
        /\ \A f \in Functors : FuncOK(node, list, calls, f) /\ FuncInOrder(wire, node, list, asyncSent, f)
                              => FuncInOrder(wire, node, list, asyncSent', f)
    BY Zenon, <2>1, <1>9
  <2>3. g \in Functors /\ g.call = "asyncData" /\ g.id = id /\ g.unit = StreamUnit(id)
    BY Zenon, <2>2 DEF Functors
  <2> HIDE DEF g
  <2>4. FuncInOrder(wire, node, list, asyncSent', g)
    BY Zenon, <2>1, <2>2, <2>3 DEF FuncInOrder, Kinds
  <2>5. ASSUME NEW f \in Functors, FuncOK(node, list, calls, f), FuncInOrder(wire, node, list, asyncSent, f)
        PROVE  DataInTurn(f, g)
    <3> SUFFICES ASSUME f.call = "asyncData" PROVE UnitsLT(<<f.unit>>, <<StreamUnit(id)>>)
      BY Zenon, <2>3 DEF DataInTurn
    <3>1. f.unit \in Units /\ Key(f.unit) = f.id /\ UnitsLT(<<f.unit>>, NextUnit(asyncSent, f.id))
      BY Zenon, <2>5 DEF FuncInOrder, Functors, Kinds
    <3>2. CASE f.id = id
      BY Zenon, <3>1, <3>2, <2>2
    <3>3. CASE f.id # id
      <4>1. /\ <<f.unit>> \in Seq(Units) /\ <<StreamUnit(id)>> \in Seq(Units)
            /\ KeysIn(<<f.unit>>) = {f.id} /\ KeysIn(<<StreamUnit(id)>>) = {id}
        BY Zenon, <3>1, <2>2, OneUnit
      <4>2. \A k \in KeysIn(<<f.unit>>) : k \notin KeysIn(<<StreamUnit(id)>>)
        BY Zenon, <4>1, <3>3
      <4> QED BY Zenon, <4>1, <4>2, UnitsApart
    <3> QED BY Zenon, <3>2, <3>3
  <2>6. QueueInv(wire, node, list, asyncSent', Append(funcs, g))
    BY Zenon, <2>2, <2>3, <2>4, <2>5, <1>1, <1>3, <1>OrderAppend
  <2> QED BY Zenon, <2>1, <2>2, <2>6 DEF g
<1>12. CASE DropsHead
  <2>1. list # <<>> /\ list' = Tail(list) /\ UNCHANGED <<node, wire, funcs, calls, asyncSent>>
    BY Zenon, <1>12 DEF DropsHead
  <2>2. /\ DataInv(wire', node', list', calls, asyncSent)
        /\ \A f \in Functors : FuncInOrder(wire, node, list, asyncSent, f) => FuncInOrder(wire', node', list', asyncSent, f)
    BY Zenon, <2>1, <1>1, <1>3, <1>DropOrder
  <2>3. QueueInv(wire', node', list', asyncSent, funcs)
    BY Zenon, <2>2, <1>1, <1>3, <1>OrderSame
  <2> QED BY Zenon, <2>1, <2>2, <2>3
<1>13. CASE WritesHead
  <2>1. list # <<>> /\ Writes(Head(list)) /\ UNCHANGED <<funcs, calls, asyncSent>>
    BY Zenon, <1>13 DEF WritesHead
  <2>2. /\ DataInv(wire', node', list', calls, asyncSent)
        /\ \A f \in Functors : FuncOK(node, list, calls, f) /\ FuncInOrder(wire, node, list, asyncSent, f)
                              => FuncInOrder(wire', node', list', asyncSent, f)
    BY Zenon, <2>1, <1>1, <1>3, <1>WriteOrder
  <2>3. QueueInv(wire', node', list', asyncSent, funcs)
    BY Zenon, <2>2, <1>1, <1>3, <1>OrderSame
  <2> QED BY Zenon, <2>1, <2>2, <2>3
<1> QED BY Zenon, <1>4, <1>5, <1>6, <1>7, <1>8, <1>10, <1>11, <1>12, <1>13 DEF Step

-----------------------------------------------------------------------------
(* Nothing is skipped                                                        *)

\* No step leaves a gap on the wire.
LEMMA GapStep ==
  StreamsInOrder /\ TypeInv /\ TypeInv' /\ IdsInv /\ OrderInv /\ GapInv /\ Step => GapInv'
\* A sequence follows w if its first part does, and the second one both.
<1>JoinedFollows. ASSUME NEW w \in Seq(Units), NEW s \in Seq(Units), NEW t \in Seq(Units)
                  PROVE  /\ Follows(w, s \o t) <=> Follows(w, s) /\ Follows(w \o s, t)
                         /\ Follows(w, t) => Follows(w \o s, t)
  <2>1. ASSUME Follows(w, s \o t) PROVE Follows(w, s) /\ Follows(w \o s, t)
    <3>1. ASSUME NEW p \in 1 .. Len(s), s[p][3] > 1
          PROVE  (\E j \in 1 .. Len(w) : w[j] = Previous(s[p])) \/ (\E q \in 1 .. p - 1 : s[q] = Previous(s[p]))
      <4>1. p \in 1 .. Len(s \o t) /\ (s \o t)[p] = s[p] /\ \A q \in 1 .. p - 1 : (s \o t)[q] = s[q]
        BY Joined
      <4> QED BY Zenon, <4>1, <3>1, <2>1 DEF Follows
    <3>2. ASSUME NEW p \in 1 .. Len(t), t[p][3] > 1
          PROVE  (\E j \in 1 .. Len(w \o s) : (w \o s)[j] = Previous(t[p])) \/ (\E q \in 1 .. p - 1 : t[q] = Previous(t[p]))
      <4>1. Len(s) + p \in 1 .. Len(s \o t) /\ (s \o t)[Len(s) + p] = t[p]
        BY Joined
      <4>2. CASE \E j \in 1 .. Len(w) : w[j] = Previous(t[p])
        <5>1. PICK j \in 1 .. Len(w) : w[j] = Previous(t[p])
          BY Zenon, <4>2
        <5>2. j \in 1 .. Len(w \o s) /\ (w \o s)[j] = w[j]
          BY Joined
        <5> QED BY Zenon, <5>1, <5>2
      <4>3. ASSUME NEW q \in 1 .. (Len(s) + p) - 1, (s \o t)[q] = Previous(t[p])
            PROVE  (\E j \in 1 .. Len(w \o s) : (w \o s)[j] = Previous(t[p])) \/ (\E r \in 1 .. p - 1 : t[r] = Previous(t[p]))
        <5>1. CASE q \in 1 .. Len(s)
          <6>1. Len(w) + q \in 1 .. Len(w \o s) /\ (w \o s)[Len(w) + q] = s[q] /\ (s \o t)[q] = s[q]
            BY <5>1, Joined
          <6> QED BY Zenon, <6>1, <4>3
        <5>2. CASE q \notin 1 .. Len(s)
          <6>1. q - Len(s) \in 1 .. p - 1 /\ (s \o t)[q] = t[q - Len(s)]
            BY <5>2, ConcatProperties, LenProperties
          <6> QED BY Zenon, <6>1, <4>3
        <5> QED BY Zenon, <5>1, <5>2
      <4>4. \/ \E j \in 1 .. Len(w) : w[j] = Previous(t[p])
            \/ \E q \in 1 .. (Len(s) + p) - 1 : (s \o t)[q] = Previous(t[p])
        <5> DEFINE c == s \o t  i == Len(s) + p
        <5>1. i \in 1 .. Len(c) /\ c[i] = t[p]
          BY Zenon, <4>1
        <5>2. Follows(w, c)
          BY Zenon, <2>1
        <5> HIDE DEF c, i
        <5>3. \/ \E j \in 1 .. Len(w) : w[j] = Previous(c[i])
              \/ \E q \in 1 .. i - 1 : c[q] = Previous(c[i])
          BY Zenon, <5>1, <5>2, <3>2 DEF Follows
        <5> QED BY Zenon, <5>1, <5>3 DEF c, i
      <4> QED BY Zenon, <4>2, <4>3, <4>4
    <3> QED BY Zenon, <3>1, <3>2 DEF Follows
  <2>2. ASSUME Follows(w, s), Follows(w \o s, t) PROVE Follows(w, s \o t)
    <3> SUFFICES ASSUME NEW p \in 1 .. Len(s \o t), (s \o t)[p][3] > 1
                 PROVE  \/ \E j \in 1 .. Len(w) : w[j] = Previous((s \o t)[p])
                        \/ \E q \in 1 .. p - 1 : (s \o t)[q] = Previous((s \o t)[p])
      BY Zenon DEF Follows
    <3>1. CASE p \in 1 .. Len(s)
      <4>1. (s \o t)[p] = s[p] /\ \A q \in 1 .. p - 1 : (s \o t)[q] = s[q]
        BY <3>1, Joined
      <4> QED BY Zenon, <4>1, <3>1, <2>2 DEF Follows
    <3>2. CASE p \notin 1 .. Len(s)
      <4> DEFINE r == p - Len(s)
      <4>1. r \in 1 .. Len(t) /\ (s \o t)[p] = t[r]
        BY <3>2, ConcatProperties, LenProperties
      <4>2. CASE \E q \in 1 .. r - 1 : t[q] = Previous(t[r])
        <5>1. PICK q \in 1 .. r - 1 : t[q] = Previous(t[r])
          BY Zenon, <4>2
        <5>2. Len(s) + q \in 1 .. p - 1 /\ (s \o t)[Len(s) + q] = t[q]
          BY <4>1, Joined
        <5> QED BY Zenon, <4>1, <5>1, <5>2
      <4>3. ASSUME NEW j \in 1 .. Len(w \o s), (w \o s)[j] = Previous(t[r])
            PROVE  \/ \E i \in 1 .. Len(w) : w[i] = Previous((s \o t)[p])
                   \/ \E q \in 1 .. p - 1 : (s \o t)[q] = Previous((s \o t)[p])
        <5>1. CASE j \in 1 .. Len(w)
          BY <5>1, <4>1, <4>3, Joined
        <5>2. CASE j \notin 1 .. Len(w)
          <6>1. j - Len(w) \in 1 .. Len(s) /\ (w \o s)[j] = s[j - Len(w)]
            BY <5>2, ConcatProperties, LenProperties
          <6>2. j - Len(w) \in 1 .. p - 1 /\ (s \o t)[j - Len(w)] = s[j - Len(w)]
            BY <6>1, <3>2, Joined
          <6> QED BY Zenon, <6>1, <6>2, <4>1, <4>3
        <5> QED BY Zenon, <5>1, <5>2
      <4> HIDE DEF r
      <4> QED BY Zenon, <4>1, <4>2, <4>3, <2>2 DEF Follows
    <3> QED BY Zenon, <3>1, <3>2
  <2>3. ASSUME Follows(w, t) PROVE Follows(w \o s, t)
    <3>1. \A j \in 1 .. Len(w) : j \in 1 .. Len(w \o s) /\ (w \o s)[j] = w[j]
      BY Joined
    <3> QED BY Zenon, <3>1, <2>3 DEF Follows
  <2> QED BY Zenon, <2>1, <2>2, <2>3
\* What is in a sequence is in one of its parts.
<1>JoinedIn. ASSUME NEW s \in Seq(Units), NEW t \in Seq(Units), NEW d
             PROVE  In(d, s \o t) <=> In(d, s) \/ In(d, t)
  <2>1. ASSUME In(d, s \o t) PROVE In(d, s) \/ In(d, t)
    BY <2>1, Joined DEF In
  <2>2. ASSUME In(d, s) PROVE In(d, s \o t)
    <3>1. \A i \in 1 .. Len(s) : i \in 1 .. Len(s \o t) /\ (s \o t)[i] = s[i]
      BY Joined
    <3> QED BY Zenon, <3>1, <2>2 DEF In
  <2>3. ASSUME In(d, t) PROVE In(d, s \o t)
    <3>1. \A i \in 1 .. Len(t) : Len(s) + i \in 1 .. Len(s \o t) /\ (s \o t)[Len(s) + i] = t[i]
      BY Joined
    <3> QED BY Zenon, <3>1, <2>3 DEF In
  <2> QED BY Zenon, <2>1, <2>2, <2>3
\* The socket takes what follows.
<1>WireFollows. ASSUME NEW w \in Seq(Units), NEW a \in Seq(Units), Follows(<<>>, w), Follows(w, a)
                PROVE  Follows(<<>>, w \o a)
  <2> USE <1>WireFollows
  <2>1. <<>> \in Seq(Units) /\ <<>> \o w = w
    BY Zenon, EmptySeq, CutNone
  <2>2. Follows(<<>>, w \o a) <=> Follows(<<>>, w) /\ Follows(<<>> \o w, a)
    BY Zenon, <2>1, <1>JoinedFollows
  <2> QED BY Zenon, <2>1, <2>2
\* The first unit of an async stream that is not on the wire is the one that the
\* socket takes next.
<1>UnitFollows. ASSUME TypeInv, OrderInv, AllPresent(wire, node, funcs, asyncSent),
                       NEW id \in Ids, node[id].kind = "async", NEW unit \in Units, Key(unit) = id,
                       unit[3] <= asyncSent[id] + 1, unit[3] <= MaxAsync, unit[3] > 1
                PROVE  /\ Previous(unit) = Unit(id, unit[3] - 1) /\ Previous(unit)[3] < unit[3] /\ Key(Previous(unit)) = id
                       /\ \/ In(Previous(unit), wire) \/ In(Previous(unit), node[id].data)
                          \/ \E i \in 1 .. Len(funcs) : /\ funcs[i].call = "asyncData" /\ funcs[i].id = id
                                                       /\ funcs[i].unit = Previous(unit)
  <2> USE <1>UnitFollows
  <2>1. unit[3] \in Nat /\ asyncSent[id] \in Nat /\ MaxAsync \in Nat
    BY BoundsAssumption DEF TypeInv, TypeOK, Units
  <2>2. unit[3] - 1 \in 1 .. asyncSent[id] /\ MaxAsync > 1
    BY <2>1
  <2>3. Previous(unit) = Unit(id, unit[3] - 1)
    BY Zenon DEF Previous, Unit, Key
  <2>4. Previous(unit)[3] < unit[3] /\ Key(Previous(unit)) = id
    BY <2>1 DEF Previous, Key
  <2>5. Present(wire, node, funcs, id, unit[3] - 1)
    BY Zenon, <2>2 DEF AllPresent
  <2>6. ASSUME NEW i \in 1 .. Len(funcs), funcs[i].call = "asyncData", funcs[i].unit = Previous(unit)
        PROVE  funcs[i].id = id
    BY Zenon, <2>4, <2>6 DEF OrderInv, QueueInv, FuncInOrder
  <2> QED BY Zenon, <2>3, <2>4, <2>5, <2>6 DEF Present
\* What an async stream holds follows what the socket took.
<1>AsyncFollows. ASSUME TypeInv, OrderInv, AllPresent(wire, node, funcs, asyncSent),
                        NEW id \in Ids, node[id].kind = "async"
                 PROVE  Follows(wire, node[id].data)
  <2> USE <1>AsyncFollows
  <2> DEFINE D == node[id].data
  <2>1. D \in Seq(Units) /\ asyncSent \in [Ids -> 0 .. MaxAsync] /\ StreamInOrder(wire, node, asyncSent, id)
    BY Zenon DEF TypeInv, TypeOK, OrderInv, DataInv
  <2>2. KeysIn(D) \subseteq {id} /\ Ordered(D) /\ UnitsLT(D, NextUnit(asyncSent, id))
    BY Zenon, <2>1 DEF StreamInOrder
  <2> HIDE DEF D
  <2> SUFFICES ASSUME NEW p \in 1 .. Len(D), D[p][3] > 1
               PROVE  \/ \E j \in 1 .. Len(wire) : wire[j] = Previous(D[p])
                      \/ \E q \in 1 .. p - 1 : D[q] = Previous(D[p])
    BY Zenon DEF Follows, D
  <2>3. D[p] \in Units /\ Key(D[p]) = id /\ Len(D) \in Nat /\ D[p][3] \in Nat
    <3>1. D[p] \in Units
      BY Zenon, <2>1, ElementOfSeq
    <3>2. Key(D[p]) = id
      BY Zenon, <2>2 DEF KeysIn
    <3>3. D[p][3] \in Nat
      BY <3>1, BoundsAssumption DEF Units
    <3> QED BY Zenon, <3>1, <3>2, <3>3, <2>1, LenProperties
  <2>4. D[p][3] < asyncSent[id] + 1
    <3>1. /\ 1 \in 1 .. Len(NextUnit(asyncSent, id)) /\ NextUnit(asyncSent, id)[1] = Unit(id, asyncSent[id] + 1)
          /\ Unit(id, asyncSent[id] + 1)[3] = asyncSent[id] + 1
      BY DEF NextUnit, Unit
    <3>2. Key(Unit(id, asyncSent[id] + 1)) = id
      BY Zenon, <2>3 DEF Key, Unit
    <3> QED BY Zenon, <3>1, <3>2, <2>2, <2>3 DEF UnitsLT
  <2>5. asyncSent[id] \in 0 .. MaxAsync /\ MaxAsync \in Nat
    BY Zenon, <2>1, BoundsAssumption
  <2>6. D[p][3] <= asyncSent[id] + 1 /\ D[p][3] <= MaxAsync
    BY <2>3, <2>4, <2>5
  <2>7. /\ Previous(D[p])[3] < D[p][3] /\ Key(Previous(D[p])) = id
        /\ \/ In(Previous(D[p]), wire) \/ In(Previous(D[p]), D)
           \/ \E i \in 1 .. Len(funcs) : /\ funcs[i].call = "asyncData" /\ funcs[i].id = id
                                        /\ funcs[i].unit = Previous(D[p])
    BY ZenonT(30), <2>3, <2>6, <1>UnitFollows DEF D
  <2>8. ASSUME NEW q \in 1 .. Len(D), D[q] = Previous(D[p]) PROVE q \in 1 .. p - 1
    <3>1. D[q][3] < D[p][3] /\ D[q][2] = D[p][2] /\ D[q][1] = D[p][1] /\ D[q][3] \in Nat
      <4>1. D[q] \in Units
        BY Zenon, <2>1, ElementOfSeq
      <4> QED BY SMTT(60), <4>1, <2>7, <2>8, BoundsAssumption DEF Previous, Units
    <3>2. ~(p < q)
      <4> SUFFICES ASSUME p < q PROVE FALSE
        BY Zenon
      <4>1. Before(D[p], D[q])
        BY Zenon, <3>1, <2>2 DEF Ordered
      <4>2. D[p][2] \in Nat
        BY SMTT(30), <2>3, BoundsAssumption DEF Units
      <4> QED BY <4>1, <4>2, <3>1, <2>3 DEF Before
    <3>3. p # q
      BY <3>1, <2>3
    <3> QED BY <3>2, <3>3, <2>3
  <2>9. ASSUME NEW i \in 1 .. Len(funcs), funcs[i].call = "asyncData", funcs[i].id = id,
               funcs[i].unit = Previous(D[p])
        PROVE  FALSE
    <3>1. UnitsLT(D, <<Previous(D[p])>>)
      BY Zenon, <2>9 DEF OrderInv, QueueInv, FuncInOrder, D
    <3>2. D[p][3] < Previous(D[p])[3]
      <4>1. 1 \in 1 .. Len(<<Previous(D[p])>>) /\ <<Previous(D[p])>>[1] = Previous(D[p])
        OBVIOUS
      <4> QED BY Zenon, <4>1, <3>1, <2>3, <2>7 DEF UnitsLT
    <3>3. Previous(D[p])[3] = D[p][3] - 1
      BY Zenon DEF Previous
    <3> QED BY <3>2, <3>3, <2>3
  <2> QED BY Zenon, <2>7, <2>8, <2>9 DEF In
\* A send leaves no gap, and keeps what is in the async streams.
<1>SendsGap. ASSUME wire \in Seq(Units), list \in Seq(Ids), IsInjective(list), NEW nd \in [Ids -> BufferNodes],
                    NEW id \in Ids, NEW D \in Seq(Units), id \notin Range(list), Sends(nd, id, D),
                    Follows(<<>>, wire), ~writeClosed => ListFollows(wire, nd, list) /\ Follows(wire, D),
                    nd[id].kind = "mem" => \A w : Follows(w, D), nd[id].kind = "async" => D = nd[id].data
             PROVE  /\ Follows(<<>>, wire') /\ (~writeClosed => ListFollows(wire', node', list'))
                    /\ \A x \in Ids : nd[x].kind = "async" =>
                         \A d : In(d, wire) \/ In(d, nd[x].data) => In(d, wire') \/ In(d, node'[x].data)
  <2> USE <1>SendsGap
  <2>1. PICK n \in 0 .. Len(D) :
          /\ wire' = wire \o SubSeq(D, 1, n)
          /\ n > 0 => list = <<>> /\ ~writeClosed
          /\ Lost(nd, id, D, n) \/ Listed(nd, id, D, n) \/ Merged(nd, id, D, n)
    BY Zenon DEF Sends
  <2> DEFINE a == SubSeq(D, 1, n)  b == Rest(D, n)
  <2>2. /\ a \in Seq(Units) /\ b \in Seq(Units) /\ D = a \o b /\ wire' = wire \o a
        /\ n = 0 => wire' = wire
    BY Zenon, <2>1, Cut, CutIsJoin, CutNone
  <2>3. \A i \in 1 .. Len(list) : list[i] \in Ids /\ list[i] # id /\ list # <<>>
    BY ElementOfSeq, RangeIs, LenProperties, EmptySeq
  <2>4. \A i \in 1 .. Len(list) : wire' = wire
    BY SMTT(60), <2>1, <2>2, <2>3
  <2>5. /\ \A x \in Ids : node'[x].kind = nd[x].kind
        /\ nd[id].kind = "async" => node'[id].data = b
        /\ \A x \in Ids : x # id /\ nd[x].kind = "async" => node'[x].data = nd[x].data
    <3>1. CASE Lost(nd, id, D, n) \/ Listed(nd, id, D, n)
      BY Zenon, <3>1 DEF Lost, Listed, SetData
    <3>2. CASE Merged(nd, id, D, n)
      BY Zenon, <3>2 DEF Merged, SetData
    <3> QED BY Zenon, <3>1, <3>2, <2>1
  <2>6. Lost(nd, id, D, n) => list' = list /\ \A x \in Ids : x # id => node'[x].data = nd[x].data
    BY Zenon DEF Lost, SetData
  <2>7. Listed(nd, id, D, n) => /\ list' = Append(list, id) /\ node'[id].data = b
                               /\ \A x \in Ids : x # id => node'[x].data = nd[x].data
    BY Zenon DEF Listed, SetData
  <2> HIDE DEF a, b
  <2>8. ~writeClosed => Follows(wire, a) /\ Follows(wire \o a, b)
    BY Zenon, <2>2, <1>JoinedFollows
  <2>9. Follows(<<>>, wire')
    <3>1. CASE writeClosed
      <4>1. n \in Nat /\ ~(n > 0)
        BY <3>1, <2>1
      <4>2. n = 0
        BY <4>1
      <4>3. wire' = wire
        BY Zenon, <4>2, <2>2
      <4> QED BY Zenon, <4>3
    <3>2. CASE ~writeClosed
      BY Zenon, <3>2, <2>2, <2>8, <1>WireFollows
    <3> QED BY Zenon, <3>1, <3>2
  <2>10. ASSUME ~writeClosed PROVE ListFollows(wire', node', list')
    <3>1. ASSUME NEW i \in 1 .. Len(list), node'[list[i]].data = nd[list[i]].data, nd[list[i]].kind # "async"
          PROVE  Follows(wire', node'[list[i]].data)
      BY Zenon, <3>1, <2>4, <2>10 DEF ListFollows
    <3>2. CASE Lost(nd, id, D, n)
      BY Zenon, <3>1, <3>2, <2>3, <2>5, <2>6 DEF ListFollows
    <3>3. CASE Listed(nd, id, D, n)
      <4>a. list' = Append(list, id)
        BY Zenon, <3>3, <2>7
      <4>b. /\ \A i \in 1 .. Len(Append(list, id)) : i \in 1 .. Len(list) \/ i = Len(list) + 1
            /\ \A i \in 1 .. Len(list) : Append(list, id)[i] = list[i]
            /\ Append(list, id)[Len(list) + 1] = id
        BY Longer
      <4>1. /\ \A i \in 1 .. Len(list') : i \in 1 .. Len(list) \/ i = Len(list) + 1
            /\ \A i \in 1 .. Len(list) : list'[i] = list[i]
            /\ list'[Len(list) + 1] = id
        BY Zenon, <4>a, <4>b
      <4>2. \A i \in 1 .. Len(list) : node'[list[i]].kind # "async" => Follows(wire', node'[list[i]].data)
        BY Zenon, <3>1, <3>3, <2>3, <2>5, <2>7
      <4>3. Follows(wire', node'[id].data)
        BY Zenon, <3>3, <2>2, <2>7, <2>8, <2>10
      <4> QED BY Zenon, <4>1, <4>2, <4>3 DEF ListFollows
    <3>4. CASE Merged(nd, id, D, n)
      <4> DEFINE z == list[Len(list)]
      <4>1. /\ list' = list /\ list # <<>> /\ nd[id].kind = "mem" /\ nd[z].kind = "mem"
            /\ node'[z].data = nd[z].data \o D /\ \A x \in Ids : x # z => node'[x].data = nd[x].data
        BY Zenon, <3>4 DEF Merged, SetData
      <4>2. Len(list) \in 1 .. Len(list) /\ z \in Ids
        BY Zenon, <4>1, <2>3, LastIn
      <4>3. nd[z].data \in Seq(Units) /\ Follows(wire, nd[z].data)
        BY Zenon, <4>1, <4>2, <2>10 DEF ListFollows, BufferNodes
      <4>4. wire' = wire
        BY Zenon, <4>2, <2>4
      <4> HIDE DEF z
      <4>5. Follows(wire, nd[z].data \o D)
        BY Zenon, <4>1, <4>3, <1>JoinedFollows
      <4>6. ASSUME NEW i \in 1 .. Len(list), node'[list[i]].kind # "async" PROVE Follows(wire', node'[list[i]].data)
        <5>1. CASE list[i] = z
          BY Zenon, <5>1, <4>1, <4>4, <4>5
        <5>2. CASE list[i] # z
          BY Zenon, <5>2, <4>1, <4>6, <3>1, <2>3, <2>5
        <5> QED BY Zenon, <5>1, <5>2
      <4> QED BY Zenon, <4>1, <4>6 DEF ListFollows
    <3> QED BY Zenon, <3>2, <3>3, <3>4, <2>1
  <2>11. ASSUME NEW x \in Ids, nd[x].kind = "async", NEW d, In(d, wire) \/ In(d, nd[x].data)
         PROVE  In(d, wire') \/ In(d, node'[x].data)
    <3>1. In(d, wire) => In(d, wire')
      BY Zenon, <2>2, <1>JoinedIn
    <3>2. CASE x = id
      <4>1. In(d, nd[x].data) => In(d, a) \/ In(d, b)
        <5>1. nd[x].data = a \o b
          BY Zenon, <3>2, <2>2, <2>11
        <5> QED BY SMTT(30), <5>1, <2>2, <1>JoinedIn
      <4>2. In(d, a) => In(d, wire')
        BY Zenon, <2>2, <1>JoinedIn
      <4> QED BY Zenon, <3>1, <3>2, <4>1, <4>2, <2>5, <2>11
    <3>3. CASE x # id
      BY Zenon, <3>1, <3>3, <2>5, <2>11
    <3> QED BY Zenon, <3>2, <3>3
  <2> QED BY Zenon, <2>9, <2>10, <2>11
<1> SUFFICES ASSUME StreamsInOrder, TypeInv, TypeInv', IdsInv, OrderInv, GapInv, Step
             PROVE  GapInv'
  BY Zenon
<1>1. /\ node \in [Ids -> BufferNodes] /\ list \in Seq(Ids) /\ IsInjective(list)
      /\ wire \in Seq(Units) /\ funcs \in Seq(Functors)
      /\ calls \in [AllThreads -> 0 .. MaxCalls + MaxLoopCalls] /\ open \subseteq Ids
      /\ asyncSent \in [Ids -> 0 .. MaxAsync]
  BY Zenon, TypeParts DEF ShapesOK
<1>2. /\ Follows(<<>>, wire) /\ \A id \in Ids : ~Used(calls, id) => asyncSent[id] = 0
      /\ ~writeClosed => ListFollows(wire, node, list) /\ AllPresent(wire, node, funcs, asyncSent)
  BY Zenon DEF GapInv
<1>3. writeClosed => writeClosed'
  BY Zenon DEF Step, Quiet, QueuesSend, RunsSend, SendsNow, RunsData, SendsData, QueuesData, DropsHead, WritesHead
<1>4. \A i \in 1 .. Len(list) : list[i] \in Ids
  BY Zenon, <1>1, ElementOfSeq
\* What was sent through a stream is where it was, or on the wire.
<1>5. ASSUME AllPresent(wire, node, funcs, asyncSent),
             MaxAsync > 1 => \A x \in Ids : node'[x].kind = "async" =>
               \/ asyncSent'[x] = 0
               \/ /\ node[x].kind = "async"
                  /\ \A d : In(d, wire) \/ In(d, node[x].data) => In(d, wire') \/ In(d, node'[x].data)
                  /\ \A i \in 1 .. Len(funcs) : funcs[i].call = "asyncData" /\ funcs[i].id = x =>
                       \/ In(funcs[i].unit, wire') \/ In(funcs[i].unit, node'[x].data)
                       \/ In(funcs[i], funcs')
                  /\ \A u \in 1 .. asyncSent'[x] : u \in 1 .. asyncSent[x] \/ Present(wire', node', funcs', x, u)
      PROVE  AllPresent(wire', node', funcs', asyncSent')
  <2> SUFFICES ASSUME MaxAsync > 1, NEW x \in Ids, node'[x].kind = "async", NEW u \in 1 .. asyncSent'[x]
               PROVE  Present(wire', node', funcs', x, u)
    BY Zenon DEF AllPresent
  <2>1. CASE asyncSent'[x] = 0
    BY <2>1
  <2>2. CASE asyncSent'[x] # 0 /\ u \in 1 .. asyncSent[x]
    <3>1. Present(wire, node, funcs, x, u)
      BY Zenon, <2>2, <1>5 DEF AllPresent
    <3>2. ASSUME NEW i \in 1 .. Len(funcs), funcs[i].call = "asyncData", funcs[i].unit = Unit(x, u)
          PROVE  Present(wire', node', funcs', x, u)
      <4>1. funcs[i].id = x
        <5>1. Key(funcs[i].unit) = funcs[i].id
          BY Zenon, <3>2 DEF OrderInv, QueueInv, FuncInOrder
        <5>2. Key(Unit(x, u)) = x
          BY DEF Key, Unit, Ids
        <5> QED BY Zenon, <5>1, <5>2, <3>2
      <4>2. \/ In(Unit(x, u), wire') \/ In(Unit(x, u), node'[x].data) \/ In(funcs[i], funcs')
        BY Zenon, <4>1, <3>2, <2>2, <1>5
      <4> QED BY Zenon, <4>2, <3>2 DEF Present, In
    <3> QED BY Zenon, <3>1, <3>2, <2>2, <1>5 DEF Present
  <2> QED BY Zenon, <2>1, <2>2, <1>5
<1>6. ASSUME NEW g, funcs' = Append(funcs, g), g \in Functors
      PROVE  \A i \in 1 .. Len(funcs) : In(funcs[i], funcs')
  BY <1>1, <1>6, Longer DEF In
<1>7. ASSUME funcs # <<>>, funcs' = Tail(funcs)
      PROVE  \A i \in 1 .. Len(funcs) : funcs[i] = Head(funcs) \/ In(funcs[i], funcs')
  <2>1. \A i \in 1 .. Len(funcs) : i = 1 \/ (i - 1 \in 1 .. Len(funcs') /\ funcs'[i - 1] = funcs[i])
    BY Zenon, <1>1, <1>7, Shorter
  <2>2. Head(funcs) = funcs[1]
    BY Zenon, <1>1, <1>7, Shorter
  <2> QED BY Zenon, <2>1, <2>2 DEF In
<1>8. funcs' = funcs => \A i \in 1 .. Len(funcs) : In(funcs[i], funcs')
  BY Zenon DEF In
<1>9. CASE Quiet
  <2>1. UNCHANGED <<list, wire, calls, asyncSent>> /\ SameData
    BY Zenon, <1>9 DEF Quiet
  <2>2. ListFollows(wire, node, list) => ListFollows(wire', node', list')
    BY Zenon, <2>1, <1>4 DEF ListFollows, SameData
  <2>3. \A i \in 1 .. Len(funcs) : funcs[i].call = "asyncData" => In(funcs[i], funcs')
    BY Zenon, <1>6, <1>7, <1>8, <1>9 DEF Quiet
  <2>4. AllPresent(wire, node, funcs, asyncSent) => AllPresent(wire', node', funcs', asyncSent')
    BY Zenon, <2>1, <2>3, <1>5 DEF SameData
  <2> QED BY Zenon, <2>1, <2>2, <2>4, <1>2, <1>3 DEF GapInv
<1>10. \A c : \A x \in Ids : (\A y \in Ids : Used(calls, y) => Used(c, y)) /\ ~Used(c, x) => asyncSent[x] = 0
  BY Zenon, <1>2
\* What was made before is still there when another call is made.
<1>11. ASSUME NEW t \in AllThreads, calls' = [calls EXCEPT ![t] = @ + 1]
       PROVE  \A y \in Ids : Used(calls, y) => Used(calls', y)
  <2>1. \A r \in AllThreads : calls[r] \in Nat /\ calls'[r] = IF r = t THEN calls[t] + 1 ELSE calls[r]
    BY <1>1, <1>11, BoundsAssumption
  <2> QED BY <2>1, KeysTypes DEF Used, CallIds
<1>12. CASE QueuesSend
  <2>1. PICK t \in Threads, kind \in Kinds :
          /\ calls[t] < MaxCalls /\ calls' = [calls EXCEPT ![t] = @ + 1]
          /\ node' = WithNode(kind, t)
          /\ funcs' = Append(funcs, Functor(kind, Fresh(t)))
          /\ UNCHANGED <<list, wire, asyncSent>>
    BY Zenon, <1>12 DEF QueuesSend
  <2> DEFINE id == Fresh(t)
  <2>2. id \in Ids /\ ~Used(calls, id) /\ \A x \in Ids : x # id => node'[x] = node[x]
    BY <2>1, FreshFacts DEF AllThreads
  <2>3. Functor(kind, id) \in Functors
    BY Zenon, <2>2, Functored
  <2>4. id \notin Range(list) /\ asyncSent[id] = 0
    BY Zenon, <2>2, <1>2, FreshUnused
  <2>5. \A i \in 1 .. Len(funcs) : In(funcs[i], funcs')
    BY Zenon, <2>1, <2>3, <1>6
  <2> HIDE DEF id
  <2>6. \A i \in 1 .. Len(list) : list[i] # id
    BY Zenon, <2>4, <1>1, RangeIs
  <2>7. ListFollows(wire, node, list) => ListFollows(wire', node', list')
    BY Zenon, <2>1, <2>2, <2>6, <1>4 DEF ListFollows
  <2>8. AllPresent(wire, node, funcs, asyncSent) => AllPresent(wire', node', funcs', asyncSent')
    BY Zenon, <2>1, <2>2, <2>4, <2>5, <1>5
  <2>9. \A x \in Ids : ~Used(calls', x) => asyncSent'[x] = 0
    BY Zenon, <2>1, <1>2, <1>11 DEF AllThreads
  <2> QED BY Zenon, <2>1, <2>7, <2>8, <2>9, <1>2, <1>3 DEF GapInv
<1>13. CASE RunsSend
  <2> DEFINE f == Head(funcs)  D == DataOf(node, f.id)
  <2>1. /\ funcs # <<>> /\ f.call \in Kinds /\ funcs' = Tail(funcs) /\ UNCHANGED <<calls, asyncSent, writeClosed>>
        /\ Sends(node, f.id, D)
    BY Zenon, <1>13 DEF RunsSend
  <2>2. FuncOK(node, list, calls, f) /\ FuncInOrder(wire, node, list, asyncSent, f)
    BY Zenon, <2>1, HeadFunc DEF OrderInv, IdsInv, QueueInv
  <2>3. \A i \in 1 .. Len(funcs) : funcs[i] = f \/ In(funcs[i], funcs')
    BY Zenon, <2>1, <1>7
  <2> HIDE DEF f
  <2>4. f.id \in Ids /\ f.id \notin Range(list) /\ node[f.id].kind = f.call
    BY Zenon, <2>1, <2>2 DEF FuncOK
  <2>5. D \in Seq(Units) /\ (f.call = "async" => D = node[f.id].data)
    BY Zenon, <2>4, <1>1, DataOfType DEF DataOf
  <2>6. (\A w : Follows(w, UnitsOf(f.id))) /\ (f.call # "async" => D = UnitsOf(f.id))
    BY Zenon, <2>1, <2>2, <2>4, UnitsOfFacts DEF FuncInOrder, DataOf, Kinds
  <2> HIDE DEF D
  <2>7. ~writeClosed => Follows(wire, D)
    BY Zenon, <2>4, <2>5, <2>6, <1>2, <1>AsyncFollows
  <2>8. f.call = "mem" => \A w : Follows(w, D)
    BY Zenon, <2>6
  <2>9. /\ Follows(<<>>, wire') /\ (~writeClosed => ListFollows(wire', node', list'))
        /\ \A x \in Ids : node[x].kind = "async" =>
             \A d : In(d, wire) \/ In(d, node[x].data) => In(d, wire') \/ In(d, node'[x].data)
    BY Zenon, <2>1, <2>4, <2>5, <2>7, <2>8, <1>1, <1>2, <1>SendsGap
  <2>10. \A x \in Ids : node'[x].kind = node[x].kind
    BY Zenon, <2>1, <2>4, <2>5, <1>1, SendsShapes
  <2>11. \A i \in 1 .. Len(funcs) : funcs[i].call = "asyncData" => In(funcs[i], funcs')
    BY Zenon, <2>1, <2>3 DEF Kinds
  <2>12. AllPresent(wire, node, funcs, asyncSent) => AllPresent(wire', node', funcs', asyncSent')
    BY Zenon, <2>1, <2>9, <2>10, <2>11, <1>5
  <2> QED BY Zenon, <2>1, <2>9, <2>12, <1>2 DEF GapInv
<1>14. CASE SendsNow
  <2>1. PICK kind \in Kinds :
          /\ calls[LoopThread] < MaxLoopCalls
          /\ calls' = [calls EXCEPT ![LoopThread] = @ + 1]
          /\ Sends(WithNode(kind, LoopThread), Fresh(LoopThread),
                   DataOf(WithNode(kind, LoopThread), Fresh(LoopThread)))
          /\ UNCHANGED <<funcs, asyncSent, writeClosed>>
    BY Zenon, <1>14 DEF SendsNow
  <2> DEFINE id == Fresh(LoopThread)  nd == WithNode(kind, LoopThread)  D == DataOf(nd, id)
  <2>2. Sends(nd, id, D)
    BY Zenon, <2>1
  <2>3. /\ id \in Ids /\ ~Used(calls, id) /\ nd \in [Ids -> BufferNodes]
        /\ nd[id] = NewNode(kind, id) /\ \A x \in Ids : x # id => nd[x] = node[x]
    BY Zenon, <2>1, FreshFacts DEF AllThreads
  <2> HIDE DEF id, nd
  <2>4. id \notin Range(list) /\ asyncSent[id] = 0 /\ D \in Seq(Units)
    BY Zenon, <2>3, <1>2, FreshUnused, DataOfType
  <2>5. nd[id].kind = kind /\ nd[id].data = IF kind \in {"file", "stream"} THEN UnitsOf(id) ELSE <<>>
    <3>1. nd[id] = NewNode(kind, id)
      BY Zenon, <2>3
    <3> QED BY <3>1 DEF NewNode
  <2>6. \A w : Follows(w, D)
    <3>1. \A w : Follows(w, UnitsOf(id)) /\ Follows(w, <<>>)
      BY Zenon, <2>3, <1>1, UnitsOfFacts, NoUnits
    <3>2. D = UnitsOf(id) \/ D = <<>>
      BY Zenon, <2>5 DEF DataOf
    <3> QED BY Zenon, <3>1, <3>2
  <2>7. nd[id].kind = "async" => D = nd[id].data
    BY Zenon DEF DataOf
  <2> HIDE DEF D
  <2>8. \A i \in 1 .. Len(list) : list[i] # id
    BY Zenon, <2>4, <1>1, RangeIs
  <2>9. ListFollows(wire, node, list) => ListFollows(wire, nd, list)
    BY Zenon, <2>3, <2>8, <1>4 DEF ListFollows
  <2>10. /\ Follows(<<>>, wire') /\ (~writeClosed => ListFollows(wire', node', list'))
         /\ \A x \in Ids : nd[x].kind = "async" =>
              \A d : In(d, wire) \/ In(d, nd[x].data) => In(d, wire') \/ In(d, node'[x].data)
    BY Zenon, <2>2, <2>3, <2>4, <2>6, <2>7, <2>9, <1>1, <1>2, <1>SendsGap
  <2>11. \A x \in Ids : node'[x].kind = nd[x].kind
    BY Zenon, <2>2, <2>3, <2>4, <1>1, SendsShapes
  <2>12. AllPresent(wire, node, funcs, asyncSent) => AllPresent(wire', node', funcs', asyncSent')
    <3>1. ASSUME NEW x \in Ids, node'[x].kind = "async", x # id
          PROVE  /\ node[x].kind = "async"
                 /\ \A d : In(d, wire) \/ In(d, node[x].data) => In(d, wire') \/ In(d, node'[x].data)
      BY Zenon, <3>1, <2>3, <2>10, <2>11
    <3> QED BY Zenon, <3>1, <2>1, <2>4, <1>5, <1>8
  <2>13. \A x \in Ids : ~Used(calls', x) => asyncSent'[x] = 0
    BY Zenon, <2>1, <1>2, <1>11 DEF AllThreads
  <2> QED BY Zenon, <2>1, <2>10, <2>12, <2>13, <1>2 DEF GapInv
\* A unit of data for the async stream id
<1>15. ASSUME NEW id \in Ids, NEW unit \in Units, Key(unit) = id, node[id].kind = "async", AddsData(id, unit),
              unit[3] <= asyncSent[id] + 1, unit[3] <= MaxAsync,
              \A i \in 1 .. Len(funcs) : funcs[i].call = "asyncData" /\ funcs[i].id = id =>
                                           funcs[i].unit # Previous(unit)
       PROVE  /\ Follows(<<>>, wire') /\ (~writeClosed => ListFollows(wire', node', list'))
              /\ \A x \in Ids : node'[x].kind = node[x].kind
              /\ \A d : \A x \in Ids : In(d, wire) \/ In(d, node[x].data) => In(d, wire') \/ In(d, node'[x].data)
              /\ MaxAsync > 1 /\ ~writeClosed => In(unit, wire') \/ In(unit, node'[id].data)
  <2> DEFINE u == <<unit>>
  <2>1. u \in Seq(Units) /\ In(unit, u) /\ Len(u) = 1 /\ u[1] = unit
    BY DEF In
  <2>2. node[id].data \in Seq(Units)
    BY Zenon, <1>1 DEF BufferNodes
  <2>3. \/ /\ wire' = wire \o u /\ UNCHANGED <<node, list>> /\ ~writeClosed /\ node[id].data = <<>>
        \/ UNCHANGED <<wire, list>> /\ SetData(node, id, node[id].data \o u)
        \/ UNCHANGED <<wire, node, list>> /\ (writeClosed \/ WriteErrors)
    BY Zenon, <1>15 DEF AddsData
  <2> HIDE DEF u
  <2>4. CASE wire' = wire \o u /\ UNCHANGED <<node, list>> /\ ~writeClosed /\ node[id].data = <<>>
    <3>1. Follows(wire, u)
      <4>1. ~In(Previous(unit), node[id].data)
        BY <2>4 DEF In
      <4>2. unit[3] > 1 => In(Previous(unit), wire)
        BY Zenon, <4>1, <2>4, <1>2, <1>15, <1>UnitFollows
      <4>3. 1 .. Len(u) = {1}
        BY <2>1
      <4> QED BY Zenon, <4>2, <4>3, <2>1 DEF Follows, In
    <3>2. Follows(<<>>, wire')
      BY Zenon, <3>1, <2>1, <2>4, <1>1, <1>2, <1>WireFollows
    <3>3. ListFollows(wire', node', list')
      <4>1. ASSUME NEW i \in 1 .. Len(list), node[list[i]].kind # "async" PROVE Follows(wire \o u, node[list[i]].data)
        <5>1. node[list[i]].data \in Seq(Units) /\ Follows(wire, node[list[i]].data)
          BY Zenon, <4>1, <2>4, <1>1, <1>2, <1>4 DEF ListFollows, BufferNodes
        <5> QED BY <5>1, <2>1, <1>1, <1>JoinedFollows
      <4> QED BY Zenon, <4>1, <2>4 DEF ListFollows
    <3>4. \A d : In(d, wire) \/ In(d, u) => In(d, wire')
      BY Zenon, <2>1, <2>4, <1>1, <1>JoinedIn
    <3> QED BY Zenon, <3>2, <3>3, <3>4, <2>1, <2>4
  <2>5. CASE UNCHANGED <<wire, list>> /\ SetData(node, id, node[id].data \o u)
    <3>1. /\ \A x \in Ids : node'[x].kind = node[x].kind
          /\ node'[id].data = node[id].data \o u /\ \A x \in Ids : x # id => node'[x].data = node[x].data
      BY Zenon, <2>5 DEF SetData
    <3>2. \A d : In(d, node[id].data) \/ In(d, u) => In(d, node'[id].data)
      BY <3>1, <2>1, <2>2, <1>JoinedIn
    <3>3. ~writeClosed => ListFollows(wire', node', list')
      BY Zenon, <3>1, <2>5, <1>2, <1>4, <1>15 DEF ListFollows
    <3> QED BY Zenon, <3>1, <3>2, <3>3, <2>1, <2>5, <1>2
  <2>6. CASE UNCHANGED <<wire, node, list>> /\ (writeClosed \/ WriteErrors)
    <3>1. MaxAsync > 1 /\ ~writeClosed => FALSE
      BY <2>6, BoundsAssumption DEF StreamsInOrder
    <3> QED BY Zenon, <3>1, <2>6, <1>2
  <2> QED BY Zenon, <2>3, <2>4, <2>5, <2>6
<1>16. CASE RunsData
  <2> DEFINE f == Head(funcs)
  <2>1. /\ funcs # <<>> /\ f.call = "asyncData" /\ funcs' = Tail(funcs) /\ UNCHANGED <<calls, asyncSent, writeClosed>>
        /\ AddsData(f.id, f.unit)
    BY Zenon, <1>16 DEF RunsData
  <2>2. /\ f \in Functors /\ FuncOK(node, list, calls, f) /\ FuncInOrder(wire, node, list, asyncSent, f)
        /\ f = funcs[1] /\ 1 \in 1 .. Len(funcs)
    BY Zenon, <2>1, HeadFunc DEF OrderInv, IdsInv, QueueInv
  <2>3. \A i \in 1 .. Len(funcs) : funcs[i] = f \/ In(funcs[i], funcs')
    BY Zenon, <2>1, <1>7
  <2> HIDE DEF f
  <2>4. /\ f.id \in Ids /\ f.unit \in Units /\ node[f.id].kind = "async" /\ Key(f.unit) = f.id
        /\ UnitsLT(<<f.unit>>, NextUnit(asyncSent, f.id))
    BY Zenon, <2>1, <2>2 DEF FuncOK, FuncInOrder, Functors, Kinds
  <2>5. f.unit[3] < asyncSent[f.id] + 1
    <3>1. /\ 1 \in 1 .. Len(<<f.unit>>) /\ <<f.unit>>[1] = f.unit /\ 1 \in 1 .. Len(NextUnit(asyncSent, f.id))
          /\ NextUnit(asyncSent, f.id)[1] = Unit(f.id, asyncSent[f.id] + 1)
          /\ Unit(f.id, asyncSent[f.id] + 1)[3] = asyncSent[f.id] + 1
      BY SMTT(60) DEF NextUnit, Unit
    <3>2. Key(Unit(f.id, asyncSent[f.id] + 1)) = f.id
      BY <2>4 DEF Key, Unit, Ids
    <3> QED BY Zenon, <3>1, <3>2, <2>4 DEF UnitsLT
  <2>6. f.unit[3] \in Nat /\ asyncSent[f.id] \in 0 .. MaxAsync /\ MaxAsync \in Nat
    BY SMTT(60), <2>4, <1>1, BoundsAssumption DEF Units
  <2>7. f.unit[3] <= asyncSent[f.id] + 1 /\ f.unit[3] <= MaxAsync
    BY <2>5, <2>6
  <2>8. ASSUME NEW i \in 1 .. Len(funcs), funcs[i].call = "asyncData", funcs[i].id = f.id,
               funcs[i].unit = Previous(f.unit)
        PROVE  FALSE
    <3>1. Previous(f.unit)[3] = f.unit[3] - 1 /\ Key(Previous(f.unit)) = Key(f.unit)
      BY Zenon DEF Previous, Key
    <3>2. CASE i = 1
      BY SMTT(60), <3>1, <3>2, <2>2, <2>6, <2>8
    <3>3. CASE i # 1
      <4>1. 1 < i
        BY <3>3
      <4>2. DataInTurn(f, funcs[i])
        BY Zenon, <4>1, <2>2 DEF OrderInv, QueueInv
      <4>3. UnitsLT(<<f.unit>>, <<Previous(f.unit)>>)
        BY Zenon, <4>2, <2>1, <2>8 DEF DataInTurn
      <4>4. f.unit[3] < Previous(f.unit)[3]
        <5>1. /\ 1 \in 1 .. Len(<<f.unit>>) /\ <<f.unit>>[1] = f.unit
              /\ 1 \in 1 .. Len(<<Previous(f.unit)>>) /\ <<Previous(f.unit)>>[1] = Previous(f.unit)
          OBVIOUS
        <5> QED BY Zenon, <5>1, <4>3, <3>1 DEF UnitsLT
      <4> QED BY <4>4, <3>1, <2>6
    <3> QED BY Zenon, <3>2, <3>3
  <2>9. /\ Follows(<<>>, wire') /\ (~writeClosed => ListFollows(wire', node', list'))
        /\ \A x \in Ids : node'[x].kind = node[x].kind
        /\ \A d : \A x \in Ids : In(d, wire) \/ In(d, node[x].data) => In(d, wire') \/ In(d, node'[x].data)
        /\ MaxAsync > 1 /\ ~writeClosed => In(f.unit, wire') \/ In(f.unit, node'[f.id].data)
    BY Zenon, <2>1, <2>4, <2>7, <2>8, <1>15
  <2>10. ~writeClosed => AllPresent(wire', node', funcs', asyncSent')
    <3> SUFFICES ASSUME ~writeClosed PROVE AllPresent(wire', node', funcs', asyncSent')
      BY Zenon
    <3>1. ASSUME MaxAsync > 1, NEW i \in 1 .. Len(funcs), funcs[i].call = "asyncData"
          PROVE  \/ In(funcs[i].unit, wire') \/ In(funcs[i].unit, node'[funcs[i].id].data)
                 \/ In(funcs[i], funcs')
      BY Zenon, <3>1, <2>3, <2>9
    <3> QED BY Zenon, <3>1, <2>1, <2>9, <1>2, <1>5
  <2> QED BY Zenon, <2>1, <2>9, <2>10, <1>2 DEF GapInv
<1>17. ASSUME NEW id \in open, asyncSent' = [asyncSent EXCEPT ![id] = @ + 1], UNCHANGED calls
       PROVE  /\ id \in Ids /\ node[id].kind = "async" /\ asyncSent[id] \in Nat /\ asyncSent'[id] = asyncSent[id] + 1
              /\ \A x \in Ids : x # id => asyncSent'[x] = asyncSent[x]
              /\ \A x \in Ids : ~Used(calls', x) => asyncSent'[x] = 0
              /\ \A u \in 1 .. asyncSent'[id] : u \in 1 .. asyncSent[id] \/ Unit(id, u) = StreamUnit(id)
  <2>1. id \in Ids /\ node[id].kind = "async" /\ Used(calls, id)
    BY Zenon, <1>1 DEF IdsInv
  <2>2. asyncSent[id] \in Nat /\ asyncSent'[id] = asyncSent[id] + 1
        /\ \A x \in Ids : x # id => asyncSent'[x] = asyncSent[x]
    BY <2>1, <1>1, <1>17
  <2> QED BY SMTT(60), <2>1, <2>2, <1>2, <1>17 DEF StreamUnit
<1>18. CASE SendsData
  <2>1. PICK id \in open :
          /\ asyncSent[id] < MaxAsync /\ asyncSent' = [asyncSent EXCEPT ![id] = @ + 1]
          /\ id[1] = LoopThread \/ ShareStreams
          /\ AddsData(id, StreamUnit(id))
          /\ UNCHANGED <<funcs, calls, writeClosed>>
    BY Zenon, <1>18 DEF SendsData
  <2>2. /\ id \in Ids /\ node[id].kind = "async" /\ asyncSent[id] \in Nat /\ asyncSent'[id] = asyncSent[id] + 1
        /\ \A x \in Ids : x # id => asyncSent'[x] = asyncSent[x]
        /\ \A x \in Ids : ~Used(calls', x) => asyncSent'[x] = 0
        /\ \A u \in 1 .. asyncSent'[id] : u \in 1 .. asyncSent[id] \/ Unit(id, u) = StreamUnit(id)
    BY Zenon, <2>1, <1>17
  <2> DEFINE unit == StreamUnit(id)
  <2>3. unit \in Units /\ Key(unit) = id /\ unit[3] = asyncSent[id] + 1 /\ MaxAsync \in Nat
    <3>1. StreamUnit(id) \in Units
      BY Zenon, <2>2, <1>1, NextUnits DEF StreamUnit
    <3>2. id = <<id[1], id[2]>>
      BY <2>2 DEF Ids
    <3> QED BY Zenon, <3>1, <3>2, <2>2, BoundsAssumption DEF StreamUnit, Unit, Key
  <2> HIDE DEF unit
  <2>4. AddsData(id, unit) /\ unit[3] <= asyncSent[id] + 1 /\ unit[3] <= MaxAsync
    BY SMTT(60), <2>1, <2>2, <2>3 DEF unit
  <2>5. ASSUME NEW i \in 1 .. Len(funcs), funcs[i].call = "asyncData", funcs[i].id = id,
               funcs[i].unit = Previous(unit)
        PROVE  FALSE
    <3>1. FuncInOrder(wire, node, list, asyncSent, funcs[i]) /\ funcs[i] \in Functors
      BY Zenon, <1>1, ElementOfSeq DEF OrderInv, QueueInv
    <3>2. id[1] \in Threads /\ Previous(unit) \in Units
      BY Zenon, <3>1, <2>5 DEF FuncInOrder, Functors, Kinds
    <3>3. MaxAsync <= 1
      BY Zenon, <3>2, <2>1, ThreadsAssumption DEF StreamsInOrder
    <3>4. Previous(unit)[3] = unit[3] - 1
      BY Zenon DEF Previous
    <3>5. asyncSent[id] = 0
      BY SMTT(60), <3>3, <2>1, <2>2, <2>3
    <3>6. Previous(unit)[3] > 0
      BY <3>2, BoundsAssumption DEF Units
    <3> QED BY <3>4, <3>5, <3>6, <2>3
  <2>6. /\ Follows(<<>>, wire') /\ (~writeClosed => ListFollows(wire', node', list'))
        /\ \A x \in Ids : node'[x].kind = node[x].kind
        /\ \A d : \A x \in Ids : In(d, wire) \/ In(d, node[x].data) => In(d, wire') \/ In(d, node'[x].data)
        /\ MaxAsync > 1 /\ ~writeClosed => In(unit, wire') \/ In(unit, node'[id].data)
    BY Zenon, <2>2, <2>3, <2>4, <2>5, <1>15
  <2>7. ~writeClosed => AllPresent(wire', node', funcs', asyncSent')
    <3> SUFFICES ASSUME ~writeClosed PROVE AllPresent(wire', node', funcs', asyncSent')
      BY Zenon
    <3>1. MaxAsync > 1 => \A u \in 1 .. asyncSent'[id] : u \in 1 .. asyncSent[id] \/ Present(wire', node', funcs', id, u)
      BY Zenon, <2>2, <2>6 DEF Present, unit
    <3>2. MaxAsync > 1 => \A x \in Ids : \A u \in 1 .. asyncSent'[x] : u \in 1 .. asyncSent[x] \/ Present(wire', node', funcs', x, u)
      BY Zenon, <3>1, <2>2
    <3> QED BY Zenon, <3>2, <2>1, <2>6, <1>2, <1>5, <1>8
  <2> QED BY Zenon, <2>1, <2>2, <2>6, <2>7 DEF GapInv
<1>19. CASE QueuesData
  <2>1. PICK id \in open :
          /\ asyncSent' = [asyncSent EXCEPT ![id] = @ + 1]
          /\ funcs' = Append(funcs, [call |-> "asyncData", id |-> id, unit |-> StreamUnit(id)])
          /\ UNCHANGED <<node, list, wire, calls, writeClosed>>
    BY Zenon, <1>19 DEF QueuesData, sendVars
  <2>2. /\ id \in Ids /\ node[id].kind = "async" /\ asyncSent[id] \in Nat /\ asyncSent'[id] = asyncSent[id] + 1
        /\ \A x \in Ids : x # id => asyncSent'[x] = asyncSent[x]
        /\ \A x \in Ids : ~Used(calls', x) => asyncSent'[x] = 0
        /\ \A u \in 1 .. asyncSent'[id] : u \in 1 .. asyncSent[id] \/ Unit(id, u) = StreamUnit(id)
    BY Zenon, <2>1, <1>17
  <2> DEFINE g == [call |-> "asyncData", id |-> id, unit |-> StreamUnit(id)]
  <2>3. g \in Functors /\ g.call = "asyncData" /\ g.unit = StreamUnit(id)
    <3>1. StreamUnit(id) \in Units
      BY Zenon, <2>2, <1>1, NextUnits DEF StreamUnit
    <3> QED BY Zenon, <3>1, <2>2 DEF Functors
  <2> HIDE DEF g
  <2>4. funcs' = Append(funcs, g)
    BY Zenon, <2>1 DEF g
  <2>5. Len(funcs) + 1 \in 1 .. Len(funcs') /\ funcs'[Len(funcs) + 1] = g
    <3>1. Len(funcs) + 1 \in 1 .. Len(Append(funcs, g)) /\ Append(funcs, g)[Len(funcs) + 1] = g
      BY <2>3, <1>1, Longer
    <3> QED BY Zenon, <3>1, <2>4
  <2>6. \A i \in 1 .. Len(funcs) : In(funcs[i], funcs')
    BY Zenon, <2>3, <2>4, <1>6
  <2>7. \A u \in 1 .. asyncSent'[id] : u \in 1 .. asyncSent[id] \/ Present(wire', node', funcs', id, u)
    BY Zenon, <2>2, <2>3, <2>5 DEF Present
  <2>8. \A x \in Ids : \A u \in 1 .. asyncSent'[x] : u \in 1 .. asyncSent[x] \/ Present(wire', node', funcs', x, u)
    BY Zenon, <2>2, <2>7
  <2>9. ~writeClosed => AllPresent(wire', node', funcs', asyncSent')
    BY Zenon, <2>1, <2>6, <2>8, <1>2, <1>5
  <2> QED BY Zenon, <2>1, <2>2, <2>9, <1>2 DEF GapInv
<1>20. CASE DropsHead
  <2>1. list # <<>> /\ list' = Tail(list) /\ UNCHANGED <<node, wire, funcs, calls, asyncSent, writeClosed>>
    BY Zenon, <1>20 DEF DropsHead
  <2>2. \A i \in 1 .. Len(list') : i + 1 \in 1 .. Len(list) /\ list'[i] = list[i + 1]
    BY Zenon, <2>1, <1>1, Shorter
  <2>3. ListFollows(wire, node, list) => ListFollows(wire', node', list')
    BY Zenon, <2>1, <2>2 DEF ListFollows
  <2>4. AllPresent(wire, node, funcs, asyncSent) => AllPresent(wire', node', funcs', asyncSent')
    BY Zenon, <2>1, <1>5, <1>8
  <2> QED BY Zenon, <2>1, <2>3, <2>4, <1>2 DEF GapInv
<1>21. CASE WritesHead
  <2> DEFINE id == Head(list)  D == node[id].data
  <2>1. list # <<>> /\ Writes(id) /\ UNCHANGED <<funcs, calls, asyncSent, writeClosed>>
    BY Zenon, <1>21 DEF WritesHead
  <2>2. id \in Ids /\ id = list[1] /\ 1 \in 1 .. Len(list)
    BY Zenon, <2>1, <1>1, Shorter
  <2> HIDE DEF id
  <2>3. D \in Seq(Units)
    BY Zenon, <2>2, <1>1 DEF BufferNodes
  <2>4. PICK n \in 0 .. Len(D) :
          /\ wire' = wire \o SubSeq(D, 1, n) /\ list' = list /\ SetData(node, id, Rest(D, n))
          /\ n > 0 => ~writeClosed
    BY Zenon, <2>1 DEF Writes
  <2> DEFINE a == SubSeq(D, 1, n)  b == Rest(D, n)
  <2>5. a \in Seq(Units) /\ b \in Seq(Units) /\ D = a \o b /\ wire' = wire \o a /\ (n = 0 => wire' = wire)
    BY Zenon, <2>3, <2>4, <1>1, Cut, CutIsJoin, CutNone
  <2>6. /\ \A x \in Ids : node'[x].kind = node[x].kind
        /\ node'[id].data = b /\ \A x \in Ids : x # id => node'[x].data = node[x].data
    BY Zenon, <2>4 DEF SetData
  <2> HIDE DEF a, b
  <2>7. ~writeClosed => Follows(wire, D)
    <3>1. CASE node[id].kind = "async"
      BY Zenon, <3>1, <2>2, <1>2, <1>AsyncFollows
    <3>2. CASE node[id].kind # "async"
      BY Zenon, <3>2, <2>2, <1>2 DEF ListFollows
    <3> QED BY Zenon, <3>1, <3>2
  <2>8. ~writeClosed => Follows(wire, a) /\ Follows(wire', b)
    BY <2>5, <2>7, <1>1, <1>JoinedFollows
  <2>9. Follows(<<>>, wire')
    <3>1. CASE writeClosed
      <4>1. n \in Nat /\ ~(n > 0)
        BY <3>1, <2>4
      <4>2. n = 0
        BY <4>1
      <4>3. wire' = wire
        BY Zenon, <4>2, <2>5
      <4> QED BY Zenon, <4>3, <1>2
    <3>2. CASE ~writeClosed
      BY Zenon, <3>2, <2>5, <2>8, <1>1, <1>2, <1>WireFollows
    <3> QED BY Zenon, <3>1, <3>2
  <2>10. ~writeClosed => ListFollows(wire', node', list')
    <3> SUFFICES ASSUME ~writeClosed, NEW i \in 1 .. Len(list), node[list[i]].kind # "async"
                 PROVE  Follows(wire', node'[list[i]].data)
      BY Zenon, <2>4, <2>6, <1>4 DEF ListFollows
    <3>1. CASE list[i] = id
      BY Zenon, <3>1, <2>6, <2>8
    <3>2. CASE list[i] # id
      <4>1. node[list[i]].data \in Seq(Units) /\ Follows(wire, node[list[i]].data)
        BY Zenon, <1>1, <1>2, <1>4 DEF ListFollows, BufferNodes
      <4>2. Follows(wire', node[list[i]].data)
        BY SMTT(60), <4>1, <2>5, <1>1, <1>JoinedFollows
      <4> QED BY Zenon, <4>2, <3>2, <2>6, <1>4
    <3> QED BY Zenon, <3>1, <3>2
  <2>11. ASSUME NEW x \in Ids, NEW d, In(d, wire) \/ In(d, node[x].data) PROVE In(d, wire') \/ In(d, node'[x].data)
    <3>1. In(d, wire) \/ In(d, a) => In(d, wire')
      BY Zenon, <2>5, <1>1, <1>JoinedIn
    <3>2. In(d, D) => In(d, a) \/ In(d, b)
      <4>1. In(d, a \o b) <=> In(d, a) \/ In(d, b)
        BY Zenon, <2>5, <1>JoinedIn
      <4> QED BY Zenon, <4>1, <2>5
    <3> QED BY Zenon, <3>1, <3>2, <2>6, <2>11
  <2>12. AllPresent(wire, node, funcs, asyncSent) => AllPresent(wire', node', funcs', asyncSent')
    BY Zenon, <2>1, <2>6, <2>11, <1>5, <1>8
  <2> QED BY Zenon, <2>1, <2>9, <2>10, <2>12, <1>2 DEF GapInv
<1> QED BY Zenon, <1>9, <1>12, <1>13, <1>14, <1>16, <1>18, <1>19, <1>20, <1>21 DEF Step

\* What the order and the gaps say of the wire
LEMMA InOrder ==
  ASSUME TypeInv, OrderInv, GapInv
  PROVE  WireOrder
<1>1. wire \in Seq(Units) /\ Ordered(wire) /\ Follows(<<>>, wire)
  BY Zenon DEF TypeInv, TypeOK, OrderInv, DataInv, ListInOrder, GapInv
<1>2. Len(<<>>) = 0 /\ Len(wire) \in Nat
  BY <1>1
<1>3. ASSUME NEW i \in 1 .. Len(wire)
      PROVE  wire[i][3] > 1 => OnWire(<<wire[i][1], wire[i][2], wire[i][3] - 1>>, i - 1)
  <2>1. wire[i][3] > 1 => \/ \E j \in 1 .. Len(<<>>) : <<>>[j] = Previous(wire[i])
                          \/ \E q \in 1 .. i - 1 : wire[q] = Previous(wire[i])
    BY Zenon, <1>1 DEF Follows
  <2> QED BY <2>1, <1>2 DEF OnWire, Previous
<1>4. ASSUME NEW i \in 1 .. Len(wire), NEW j \in 1 .. i - 1, wire[j][1] = wire[i][1]
      PROVE  wire[j][2] < wire[i][2] \/ (wire[j][2] = wire[i][2] /\ wire[j][3] < wire[i][3])
  <2>1. j \in 1 .. Len(wire) /\ j < i
    BY <1>2
  <2> QED BY Zenon, <2>1, <1>1, <1>4 DEF Ordered, Before
<1> QED BY Zenon, <1>3, <1>4 DEF WireOrder
===============================================================================
