------------------------ MODULE TcpConnection_proofs --------------------------
(* CloseOnce, NoStuckData and WireOrder of a TcpConnection, for any number of    *)
(* threads and calls and messages of any size.                                   *)
EXTENDS TcpConnectionOrder_proofs

\* The kinds of nodes in use
UsedKinds == LoopKinds \cup ThreadKinds

\* sendFile(), sendStream() and sendAsyncStream() do not look at the status of the
\* connection: one that may close carries messages only.
MessagesOnly == Closes => UsedKinds \subseteq {"mem"}

-----------------------------------------------------------------------------
(* The inductive invariant, besides the order of the data                    *)

\* connectEstablished() runs before anything else, and once.
LifeInv ==
  /\ status = "Connecting" =>
       /\ funcs = <<Functor("established", NoId)>>
       /\ lpc = "idle" /\ list = <<>> /\ events = {} /\ closes = 0
  /\ status # "Connecting" => \A i \in 1 .. Len(funcs) : funcs[i].call # "established"
  /\ lpc = "writeCallback" => "write" \in events
  /\ lpc = "closeCallback" => status = "Disconnected"

\* What a functor says of a connection that may close
FuncCloses(cs, f) ==
  /\ f.call = "destroy" => cs > 0
  /\ f.call = "forceClose" => Closes
  /\ f.call \in Kinds => f.call \in UsedKinds
  /\ f.call \in {"asyncData", "asyncClose"} => "async" \in UsedKinds

\* handleClose() runs once: what closes a connection finds it open, or watched.
CloseInv ==
  /\ closes <= 1
  /\ lpc = "closeCallback" => closes = 0
  /\ closes > 0 => status = "Disconnected"
  /\ status = "Disconnected" => events = {} /\ Closes
  /\ removed => closes > 0
  /\ open # {} => "async" \in UsedKinds
  /\ \A i \in 1 .. Len(funcs) : FuncCloses(closes, funcs[i])

\* An async stream whose node is not in the list yet was closed early.
ClosedEarly(nd, ea, f) == f.call = "async" /\ nd[f.id].done => f.id \in ea

StuckInv == NoStuckData /\ \A i \in 1 .. Len(funcs) : ClosedEarly(node, early, funcs[i])

-----------------------------------------------------------------------------
(* What the handlers do is one of the kinds of steps                         *)

\* Nothing is sent at once.
LEMMA SendsNone ==
  ASSUME NEW nd, NEW id, NEW D \in Seq(Units), wire \in Seq(Units), wire' = wire, events' = events,
         Lost(nd, id, D, 0) \/ Listed(nd, id, D, 0) \/ Merged(nd, id, D, 0)
  PROVE  Sends(nd, id, D)
<1>1. wire' = wire \o SubSeq(D, 1, 0) /\ 0 \in 0 .. Len(D)
  BY CutNone, LenProperties
<1>2. ~(0 > 0)
  OBVIOUS
<1> DEFINE P(n) == /\ wire' = wire \o SubSeq(D, 1, n)
                   /\ n > 0 => list = <<>> /\ ~writeClosed
                   /\ events' = events \/ events' = events \cup {"write"}
                   /\ Lost(nd, id, D, n) \/ Listed(nd, id, D, n) \/ Merged(nd, id, D, n)
<1>3. P(0)
  BY <1>1, <1>2, Zenon
<1>4. \E n \in 0 .. Len(D) : P(n)
  BY <1>1, <1>3, Zenon
<1> QED BY <1>4, Zenon DEF Sends

\* The two ways in which the model changes the data of a node
LEMMA SetDataIs ==
  ASSUME NEW nd \in [Ids -> BufferNodes], NEW id \in Ids, NEW X \in Seq(Units)
  PROVE  /\ node' = [nd EXCEPT ![id].data = X] => SetData(nd, id, X)
         /\ node' = nd => SetData(nd, id, nd[id].data)
<1>1. ASSUME node' = [nd EXCEPT ![id].data = X] PROVE SetData(nd, id, X)
  <2>1. nd[id] \in BufferNodes
    BY Zenon
  <2>2. [nd[id] EXCEPT !.data = X] \in BufferNodes
    BY Zenon, <2>1 DEF BufferNodes
  <2>3. node' \in [Ids -> BufferNodes]
    BY Zenon, <1>1, <2>2
  <2>4. node'[id] = [nd[id] EXCEPT !.data = X] /\ \A x \in Ids : x # id => node'[x] = nd[x]
    BY Zenon, <1>1
  <2>5. node'[id].data = X /\ node'[id].kind = nd[id].kind /\ node'[id].done = nd[id].done
    BY Zenon, <2>1, <2>4 DEF BufferNodes
  <2> QED BY Zenon, <2>3, <2>4, <2>5 DEF SetData
<1>2. ASSUME node' = nd PROVE SetData(nd, id, nd[id].data)
  BY Zenon, <1>2 DEF SetData
<1> QED BY Zenon, <1>1, <1>2

\* The cases of sendInLoop()
LEMMA MessageSends ==
  ASSUME TypeInv, NEW nd \in [Ids -> BufferNodes], NEW id \in Ids, nd[id].kind = "mem",
         SendInLoop(nd, id)
  PROVE  Sends(nd, id, UnitsOf(id))
<1> DEFINE D == UnitsOf(id)
<1>1. D \in Seq(Units) /\ Len(D) = MsgSize /\ MsgSize \in Nat
  BY Zenon, UnitsOfFacts, BoundsAssumption
<1>2. /\ nd[id].data \in Seq(Units) /\ wire \in Seq(Units) /\ list \in Seq(Ids)
      /\ \A n \in 0 .. Len(D) : Rest(D, n) \in Seq(Units)
  BY Zenon, <1>1, Cut DEF TypeInv, TypeOK, BufferNodes
<1>3. 0 \in 0 .. Len(D) /\ wire = wire \o SubSeq(D, 1, 0) /\ Rest(D, 0) = D
  BY <1>1, <1>2, CutNone
<1>4. node' = nd => SetData(nd, id, nd[id].data)
  BY Zenon, <1>2, SetDataIs
<1>5. ASSUME NEW n \in 0 .. Len(D), Buffer(nd, id, Rest(D, n)), list = <<>> => "write" \in events', list # <<>> => n = 0
      PROVE  Listed(nd, id, D, n) \/ Merged(nd, id, D, n)
  <2>1. CASE list = <<>> \/ nd[list[Len(list)]].kind # "mem"
    <3>1. node' = [nd EXCEPT ![id].data = Rest(D, n)] /\ list' = Append(list, id)
      BY Zenon, <1>5, <2>1 DEF Buffer
    <3>2. SetData(nd, id, Rest(D, n))
      BY Zenon, <3>1, <1>2, SetDataIs
    <3> QED BY Zenon, <3>1, <3>2, <1>5 DEF Listed
  <2>2. CASE list # <<>> /\ nd[list[Len(list)]].kind = "mem"
    <3> DEFINE z == list[Len(list)]
    <3>1. z \in Ids
      BY <1>2, <2>2, LenProperties, EmptySeq, ElementOfSeq
    <3>2. nd[z].data \in Seq(Units)
      BY Zenon, <3>1 DEF BufferNodes
    <3>3. nd[z].data \o D \in Seq(Units) /\ n = 0
      BY Zenon, <3>2, <1>1, <1>5, <2>2, ConcatProperties
    <3>4. node' = [nd EXCEPT ![z].data = nd[z].data \o D] /\ list' = list
      BY Zenon, <1>5, <2>2, <3>3, <1>3, <3>1 DEF Buffer
    <3>5. SetData(nd, z, nd[z].data \o D)
      BY Zenon, <3>1, <3>3, <3>4, SetDataIs
    <3> QED BY Zenon, <3>3, <3>4, <3>5, <2>2 DEF Merged
  <2> QED BY Zenon, <2>1, <2>2
<1>6. CASE node' = nd /\ UNCHANGED <<list, wire, events>>
  <2>1. Lost(nd, id, D, 0)
    BY Zenon, <1>4, <1>6 DEF Lost
  <2> QED BY Zenon, <2>1, <1>1, <1>2, <1>6, SendsNone
<1>7. CASE /\ Direct /\ \E n \in 0 .. MsgSize :
             /\ Takes(D, n) /\ EnableIf(n < MsgSize)
             /\ IF n < MsgSize THEN Buffer(nd, id, Rest(D, n))
                ELSE node' = nd /\ UNCHANGED list
  <2>1. PICK n \in 0 .. Len(D) :
             /\ Takes(D, n) /\ EnableIf(n < MsgSize)
             /\ IF n < MsgSize THEN Buffer(nd, id, Rest(D, n))
                ELSE node' = nd /\ UNCHANGED list
    BY Zenon, <1>7, <1>1
  <2>2. wire' = wire \o SubSeq(D, 1, n) /\ ~writeClosed /\ list = <<>>
    BY Zenon, <2>1, <1>7 DEF Takes, Direct
  <2>3. events' = events \/ events' = events \cup {"write"}
    BY Zenon, <2>1 DEF EnableIf
  <2>4. CASE n < MsgSize
    <3>1. "write" \in events'
      BY Zenon, <2>1, <2>4 DEF EnableIf
    <3>2. Listed(nd, id, D, n) \/ Merged(nd, id, D, n)
      BY Zenon, <3>1, <2>1, <2>2, <2>4, <1>5
    <3> QED BY Zenon, <2>2, <2>3, <3>2 DEF Sends
  <2>5. CASE ~(n < MsgSize)
    <3>1. Lost(nd, id, D, n)
      BY Zenon, <2>1, <2>5, <1>4 DEF Lost
    <3> QED BY Zenon, <2>2, <2>3, <3>1 DEF Sends
  <2> QED BY Zenon, <2>4, <2>5
<1>8. CASE ~Direct /\ Buffer(nd, id, D) /\ UNCHANGED <<wire, events>>
  <2>1. list = <<>> => "write" \in events'
    BY Zenon, <1>8 DEF Direct
  <2>2. Listed(nd, id, D, 0) \/ Merged(nd, id, D, 0)
    BY Zenon, <1>3, <1>5, <1>8, <2>1
  <2> QED BY Zenon, <2>2, <1>1, <1>2, <1>8, SendsNone
<1> QED BY Zenon, <1>6, <1>7, <1>8 DEF SendInLoop, Fails

\* The cases of the nodes that sendNodeInLoop() writes
LEMMA NodeSends ==
  ASSUME TypeInv, NEW nd \in [Ids -> BufferNodes], NEW id \in Ids, nd[id].kind # "mem",
         \/ SendNodeInLoop(nd, id) \/ SendStreamInLoop(nd, id)
         \/ PushAsyncQueued(nd, id) /\ nd[id].kind = "async"
         \/ PushAsync(nd, id) /\ nd[id].kind = "async" /\ nd[id].data = <<>>
  PROVE  Sends(nd, id, nd[id].data)
<1> DEFINE D == nd[id].data
<1>1. D \in Seq(Units) /\ wire \in Seq(Units) /\ list \in Seq(Ids) /\ Len(D) \in Nat
  BY Zenon, LenProperties DEF TypeInv, TypeOK, BufferNodes
<1>2. \A n \in 0 .. Len(D) : Rest(D, n) \in Seq(Units)
  BY Zenon, <1>1, Cut
<1>3. 0 \in 0 .. Len(D) /\ wire = wire \o SubSeq(D, 1, 0) /\ Rest(D, 0) = D
  BY <1>1, CutNone
<1>4. node' = nd => SetData(nd, id, Rest(D, 0))
  BY Zenon, <1>1, <1>3, SetDataIs
<1>5. \A n \in 0 .. Len(D) : node' = [nd EXCEPT ![id].data = Rest(@, n)] => SetData(nd, id, Rest(D, n))
  BY Zenon, <1>2, SetDataIs
<1>6. list = <<>> => Append(list, id) = <<id>>
  OBVIOUS
<1>7. CASE node' = nd /\ UNCHANGED <<list, wire, events>>
  <2>1. Lost(nd, id, D, 0)
    BY Zenon, <1>4, <1>7 DEF Lost
  <2> QED BY Zenon, <2>1, <1>1, <1>7, SendsNone
<1>8. CASE node' = nd /\ list' = Append(list, id) /\ UNCHANGED <<wire, events>>
           /\ (list = <<>> => D = <<>> /\ nd[id].kind = "async")
  <2>1. Listed(nd, id, D, 0)
    BY Zenon, <1>3, <1>4, <1>8 DEF Listed
  <2> QED BY Zenon, <2>1, <1>1, <1>8, SendsNone
<1>9. CASE list = <<>> /\ SendNewNode(nd, id)
  <2>1. CASE NodeFails(nd, id) /\ UNCHANGED <<list, events>>
    <3>1. CASE Fails /\ node' = nd
      BY Zenon, <1>7, <2>1, <3>1 DEF Fails
    <3>2. CASE \E n \in 1 .. Len(D) - 1 : Takes(D, n) /\ node' = [nd EXCEPT ![id].data = Rest(@, n)]
      <4>1. PICK n \in 1 .. Len(D) - 1 : Takes(D, n) /\ node' = [nd EXCEPT ![id].data = Rest(@, n)]
        BY Zenon, <3>2
      <4>2. n \in 0 .. Len(D)
        BY <1>1
      <4> QED BY Zenon, <4>1, <4>2, <1>5, <1>9, <2>1 DEF Takes, Sends, Lost
    <3> QED BY Zenon, <2>1, <3>1, <3>2 DEF NodeFails
  <2>2. CASE \E n \in 0 .. Len(D) :
               /\ Takes(D, n) /\ node' = [nd EXCEPT ![id].data = Rest(@, n)]
               /\ EnableIf(n < Len(D))
               /\ list' = IF n = Len(D) \/ (n = 0 /\ nd[id].kind = "file") THEN <<>> ELSE <<id>>
    <3>1. PICK n \in 0 .. Len(D) :
               /\ Takes(D, n) /\ node' = [nd EXCEPT ![id].data = Rest(@, n)]
               /\ EnableIf(n < Len(D))
               /\ list' = IF n = Len(D) \/ (n = 0 /\ nd[id].kind = "file") THEN <<>> ELSE <<id>>
      BY Zenon, <2>2
    <3>2. wire' = wire \o SubSeq(D, 1, n) /\ ~writeClosed /\ SetData(nd, id, Rest(D, n))
      BY Zenon, <3>1, <1>5 DEF Takes
    <3>3. events' = events \/ events' = events \cup {"write"}
      BY Zenon, <3>1 DEF EnableIf
    <3>4. list' = list \/ (list' = Append(list, id) /\ "write" \in events')
      BY <3>1, <1>1, <1>6, <1>9 DEF EnableIf
    <3> QED BY Zenon, <3>2, <3>3, <3>4, <1>9 DEF Sends, Lost, Listed
  <2> QED BY Zenon, <1>9, <2>1, <2>2 DEF SendNewNode
<1>10. CASE list = <<>> /\ D # <<>> /\ nd[id].kind = "async" /\ PushAsyncQueued(nd, id)
  <2>1. CASE Fails /\ node' = nd /\ UNCHANGED <<list, events>>
    BY Zenon, <1>7, <2>1 DEF Fails
  <2>2. CASE \E n \in 0 .. Len(D) :
               /\ Takes(D, n) /\ node' = [nd EXCEPT ![id].data = Rest(@, n)]
               /\ EnableIf(n < Len(D))
               /\ list' = IF n < Len(D) \/ ~nd[id].done THEN <<id>> ELSE <<>>
    <3>1. PICK n \in 0 .. Len(D) :
               /\ Takes(D, n) /\ node' = [nd EXCEPT ![id].data = Rest(@, n)]
               /\ EnableIf(n < Len(D))
               /\ list' = IF n < Len(D) \/ ~nd[id].done THEN <<id>> ELSE <<>>
      BY Zenon, <2>2
    <3>2. wire' = wire \o SubSeq(D, 1, n) /\ ~writeClosed /\ SetData(nd, id, Rest(D, n))
      BY Zenon, <3>1, <1>5 DEF Takes
    <3>3. events' = events \/ events' = events \cup {"write"}
      BY Zenon, <3>1 DEF EnableIf
    <3>4. "write" \in events' \/ Rest(D, n) = <<>>
      <4>1. CASE n < Len(D)
        BY Zenon, <3>1, <4>1 DEF EnableIf
      <4>2. CASE n = Len(D)
        BY SMTT(30), <4>2, <1>1, <1>2, Cut, EmptySeq
      <4> QED BY <4>1, <4>2, <1>1
    <3>5. list' = list \/ list' = Append(list, id)
      BY Zenon, <3>1, <1>6, <1>10
    <3> QED BY Zenon, <3>2, <3>3, <3>4, <3>5, <1>10 DEF Sends, Lost, Listed
  <2> QED BY Zenon, <1>10, <2>1, <2>2 DEF PushAsyncQueued
<1> QED BY Zenon, <1>7, <1>8, <1>9, <1>10 DEF SendNodeInLoop, SendStreamInLoop, PushAsyncQueued, PushAsync

\* What writeCallback() does with the first node is one of the shapes above.
LEMMA HeadWrites ==
  ASSUME TypeInv, WriteNode
  PROVE  /\ list # <<>> /\ Head(list) \in Ids /\ Writes(Head(list))
         /\ events' = events \/ events' = events \cup {"write"}
<1> DEFINE id == Head(list)  D == node[id].data
<1>1. list # <<>> /\ list \in Seq(Ids) /\ wire \in Seq(Units) /\ node \in [Ids -> BufferNodes]
  BY Zenon DEF WriteNode, TypeInv, TypeOK, BufferNodes
<1>2. id \in Ids
  BY Zenon, <1>1, HeadTailProperties
<1>3. D \in Seq(Units) /\ Len(D) \in Nat
  BY Zenon, <1>1, <1>2, LenProperties DEF BufferNodes
<1>4. \A n \in 0 .. Len(D) : Rest(D, n) \in Seq(Units)
  BY Zenon, <1>3, Cut
<1>5. \A n \in 0 .. Len(D) :
         node' = [node EXCEPT ![id].data = Rest(@, n)] => SetData(node, id, Rest(D, n))
  BY Zenon, <1>1, <1>2, <1>4, SetDataIs
<1>6. events' = events \/ events' = events \cup {"write"}
  BY Zenon DEF WriteNode, EnableIf
<1>7. list' = list
  BY Zenon DEF WriteNode
<1>8. ASSUME NEW n \in 0 .. Len(D), Takes(D, n), node' = [node EXCEPT ![id].data = Rest(@, n)]
      PROVE  Writes(id)
  BY Zenon, <1>5, <1>7, <1>8 DEF Takes, Writes
<1>9. ASSUME node' = node, wire' = wire PROVE Writes(id)
  <2>1. 0 \in 0 .. Len(D) /\ ~(0 > 0) /\ wire' = wire \o SubSeq(D, 1, 0)
    BY <1>1, <1>3, <1>9, CutNone
  <2>2. Rest(D, 0) = D
    BY Zenon, <1>3, CutNone
  <2>3. SetData(node, id, D)
    BY Zenon, <1>1, <1>2, <1>3, <1>9, SetDataIs
  <2> QED BY <2>1, <2>2, <2>3, <1>7, Zenon DEF Writes
<1>10. \/ \E n \in 0 .. Len(D) : Takes(D, n) /\ node' = [node EXCEPT ![id].data = Rest(@, n)]
       \/ NodeFails(node, id)
  BY Zenon DEF WriteNode
<1>11. ASSUME NodeFails(node, id)
       PROVE \/ node' = node /\ wire' = wire
             \/ \E n \in 0 .. Len(D) : Takes(D, n) /\ node' = [node EXCEPT ![id].data = Rest(@, n)]
  <2>1. CASE Fails /\ node' = node
    BY Zenon, <2>1 DEF Fails
  <2>2. CASE \E n \in 1 .. Len(D) - 1 : Takes(D, n) /\ node' = [node EXCEPT ![id].data = Rest(@, n)]
    <3>1. \A n \in 1 .. Len(D) - 1 : n \in 0 .. Len(D)
      BY <1>3
    <3> QED BY Zenon, <2>2, <3>1
  <2> QED BY Zenon, <1>11, <2>1, <2>2 DEF NodeFails
<1> QED BY Zenon, <1>1, <1>2, <1>6, <1>8, <1>9, <1>10, <1>11

\* So is what sendAsyncDataInLoop() does.
LEMMA DataCases ==
  ASSUME TypeInv, NEW id \in Ids, NEW unit \in Units, AsyncData(id, unit)
  PROVE  AddsData(id, unit)
<1>1. node \in [Ids -> BufferNodes] /\ node[id].data \in Seq(Units) /\ wire \in Seq(Units)
  BY Zenon DEF TypeInv, TypeOK, BufferNodes
<1>2. Append(node[id].data, unit) = node[id].data \o <<unit>> /\ node[id].data \o <<unit>> \in Seq(Units)
  BY <1>1, AppendProperties
<1>3. node' = [node EXCEPT ![id].data = Append(@, unit)] => SetData(node, id, node[id].data \o <<unit>>)
  BY Zenon, <1>1, <1>2, SetDataIs
<1>4. <<unit>> \in Seq(Units) /\ SubSeq(<<unit>>, 1, 1) = <<unit>> /\ SubSeq(<<unit>>, 1, 0) = <<>>
  <2>1. <<unit>> \in Seq(Units) /\ Len(<<unit>>) = 1
    OBVIOUS
  <2>2. SubSeq(<<unit>>, 1, 1) = <<unit>>
    BY Zenon, <2>1, CutNone
  <2> QED BY Zenon, <2>1, <2>2, CutNone
<1>5. wire \o <<>> = wire
  BY Zenon, <1>1, CutNone
<1> QED BY Zenon, <1>3, <1>4, <1>5 DEF AsyncData, AddsData, Takes, Fails, EnableIf, Remaining

\* The end of an async stream moves no data and marks its node.
LEMMA AsyncClosed ==
  ASSUME TypeInv, NEW id \in Ids, AsyncClose(id)
  PROVE  /\ UNCHANGED <<list, wire>> /\ SameData /\ early' \subseteq Ids
         /\ events' = events \/ events' = events \cup {"write"}
         /\ node'[id].done = TRUE /\ \A x \in Ids : x # id => node'[x].done = node[x].done
<1>1. node \in [Ids -> BufferNodes] /\ early \subseteq Ids
  BY Zenon DEF TypeInv, TypeOK, BufferNodes
<1>2. node[id] \in BufferNodes
  BY Zenon, <1>1
<1>3. node' = [node EXCEPT ![id].done = TRUE]
  BY Zenon DEF AsyncClose
<1>4. node'[id] = [node[id] EXCEPT !.done = TRUE] /\ \A x \in Ids : x # id => node'[x] = node[x]
  BY Zenon, <1>1, <1>3
<1>5. [node[id] EXCEPT !.done = TRUE] \in BufferNodes
  BY Zenon, <1>2 DEF BufferNodes
<1>6. node' \in [Ids -> BufferNodes]
  BY Zenon, <1>1, <1>3, <1>5
<1>7. node'[id].kind = node[id].kind /\ node'[id].data = node[id].data /\ node'[id].done = TRUE
  BY Zenon, <1>2, <1>4 DEF BufferNodes
<1>8. UNCHANGED <<list, wire>> /\ early' \subseteq Ids
  BY Zenon, <1>1 DEF AsyncClose
<1>9. events' = events \/ events' = events \cup {"write"}
  BY Zenon DEF AsyncClose, EnableIf
<1> QED BY Zenon, <1>4, <1>6, <1>7, <1>8, <1>9 DEF SameData

\* Every step has one of the shapes.
LEMMA Steps ==
  TypeInv /\ IdsInv /\ [Next]_vars => Step
\* Each functor is a step.
<1>RunFuncSteps. ASSUME TypeInv, IdsInv, RunFunc
                 PROVE  Step
  <2> USE <1>RunFuncSteps
  <2> DEFINE f == Head(funcs)
  <2>1. funcs # <<>> /\ funcs' = Tail(funcs) /\ UNCHANGED <<calls, open, asyncSent>>
    BY Zenon DEF RunFunc, userVars
  <2>2. f \in Functors /\ FuncOK(node, list, calls, f)
    BY Zenon, <2>1, HeadFunc DEF IdsInv
  <2>3. node \in [Ids -> BufferNodes] /\ writeClosed \in BOOLEAN
    BY Zenon DEF TypeInv, TypeOK, BufferNodes
  <2>4. ASSUME UNCHANGED sendVars, writeClosed => writeClosed', f.call \notin Kinds \cup {"asyncData"}
        PROVE  Quiet
    BY Zenon, <2>1, <2>3, <2>4 DEF Quiet, SameData, sendVars
  <2>5. CASE f.call = "established" /\ UNCHANGED <<sendVars, writeClosed>>
    BY Zenon, <2>4, <2>5 DEF Step, Kinds
  <2>6. CASE f.call = "destroy" /\ UNCHANGED <<sendVars, writeClosed>>
    BY Zenon, <2>4, <2>6 DEF Step, Kinds
  <2>7. CASE f.call = "mem" /\ SendInLoop(node, f.id) /\ UNCHANGED writeClosed
    <3>1. f.call \in Kinds
      BY Zenon, <2>7 DEF Kinds
    <3>2. f.id \in Ids /\ node[f.id].kind = "mem"
      BY Zenon, <2>2, <2>7, <3>1 DEF FuncOK
    <3>3. Sends(node, f.id, UnitsOf(f.id))
      BY Zenon, <3>2, <2>3, <2>7, MessageSends
    <3> QED BY Zenon, <3>1, <3>2, <3>3, <2>1, <2>7 DEF Step, RunsSend, DataOf
  <2>8. CASE /\ \/ f.call \in {"file", "stream"} /\ SendNodeInLoop(node, f.id)
                \/ f.call = "async" /\ PushAsyncQueued(node, f.id)
             /\ UNCHANGED writeClosed
    <3>1. f.call \in Kinds
      BY Zenon, <2>8 DEF Kinds
    <3>2. f.id \in Ids /\ node[f.id].kind = f.call /\ f.call # "mem"
      BY Zenon, <2>2, <2>8, <3>1 DEF FuncOK
    <3>3. Sends(node, f.id, node[f.id].data)
      BY Zenon, <3>2, <2>3, <2>8, NodeSends
    <3> QED BY Zenon, <3>1, <3>2, <3>3, <2>1, <2>8 DEF Step, RunsSend, DataOf
  <2>9. CASE f.call = "asyncData" /\ AsyncData(f.id, f.unit) /\ UNCHANGED writeClosed
    <3>1. f.id \in Ids /\ f.unit \in Units
      BY Zenon, <2>2, <2>9 DEF Functors, Kinds
    <3>2. AddsData(f.id, f.unit)
      BY Zenon, <3>1, <2>9, DataCases
    <3> QED BY Zenon, <3>2, <2>1, <2>9 DEF Step, RunsData
  <2>10. CASE f.call = "asyncClose" /\ AsyncClose(f.id) /\ UNCHANGED writeClosed
    <3>1. f.id \in Ids
      BY Zenon, <2>2, <2>10 DEF FuncOK
    <3>2. UNCHANGED <<list, wire>> /\ SameData
      BY Zenon, <3>1, <2>10, AsyncClosed
    <3>3. f.call \notin Kinds \cup {"asyncData"}
      BY Zenon, <2>10 DEF Kinds
    <3> QED BY Zenon, <3>2, <3>3, <2>1, <2>3, <2>10 DEF Step, Quiet
  <2>11. CASE f.call = "shutdown" /\ ShutdownInLoop(events) /\ UNCHANGED sendVars
    <3>1. writeClosed => writeClosed'
      BY Zenon, <2>11 DEF ShutdownInLoop
    <3> QED BY Zenon, <3>1, <2>4, <2>11 DEF Step, Kinds
  <2>12. CASE f.call = "forceClose" /\ UNCHANGED <<sendVars, writeClosed>>
    BY Zenon, <2>4, <2>12 DEF Step, Kinds
  <2> QED BY Zenon, <2>5, <2>6, <2>7, <2>8, <2>9, <2>10, <2>11, <2>12 DEF RunFunc
<1> SUFFICES ASSUME TypeInv, IdsInv, [Next]_vars
             PROVE  Step
  BY Zenon
<1>1. node \in [Ids -> BufferNodes] /\ open \subseteq Ids /\ calls \in [AllThreads -> Nat]
  BY DEF TypeInv, TypeOK, BufferNodes
<1>2. ASSUME UNCHANGED sendVars, UNCHANGED <<calls, asyncSent>>, open' \subseteq open, writeClosed => writeClosed',
             \/ UNCHANGED funcs
             \/ \E g \in Functors : /\ g.call \notin Kinds \cup {"asyncData"}
                                    /\ g.call = "asyncClose" => g.id \in open
                                    /\ funcs' = Append(funcs, g)
      PROVE  Step
  BY Zenon, <1>1, <1>2 DEF Step, Quiet, SameData, sendVars
<1>3. CASE UNCHANGED vars
  BY Zenon, <1>2, <1>3 DEF vars, userVars
<1>4. CASE WriteCallback \/ CloseCallback \/ ReadOrHangUp
  BY Zenon, <1>2, <1>4 DEF WriteCallback, CloseCallback, ReadOrHangUp, userVars
<1>5. CASE WriteEnds
  <2>1. writeClosed => writeClosed'
    BY Zenon, <1>5 DEF WriteEnds, ShutdownInLoop
  <2> QED BY Zenon, <2>1, <1>2, <1>5 DEF WriteEnds, userVars
<1>6. CASE OwnerCloses
  <2>1. Functor("destroy", NoId) \in Functors /\ Functor("destroy", NoId).call = "destroy"
    BY Zenon, Functored
  <2> QED BY Zenon, <2>1, <1>2, <1>6 DEF OwnerCloses, userVars, Kinds
<1>7. ASSUME NEW t \in AllThreads, Shutdown(t) PROVE Step
  <2>1. Functor("shutdown", NoId) \in Functors /\ Functor("shutdown", NoId).call = "shutdown"
    BY Zenon, Functored
  <2>2. writeClosed => writeClosed'
    BY Zenon, <1>7 DEF Shutdown, ShutdownInLoop
  <2> QED BY Zenon, <2>1, <2>2, <1>2, <1>7 DEF Shutdown, Kinds
<1>8. ASSUME NEW t \in AllThreads, ForceClose(t) PROVE Step
  <2>1. Functor("forceClose", NoId) \in Functors /\ Functor("forceClose", NoId).call = "forceClose"
    BY Zenon, Functored
  <2> QED BY Zenon, <2>1, <1>2, <1>8 DEF ForceClose, Kinds
<1>9. ASSUME NEW t \in AllThreads, NEW id \in Ids, StreamClose(t, id) PROVE Step
  <2>1. /\ id \in open /\ open' \subseteq open /\ UNCHANGED <<calls, asyncSent, writeClosed>>
    BY Zenon, <1>9 DEF StreamClose, UsesStream
  <2>2. CASE UNCHANGED <<sendVars, funcs>>
    BY Zenon, <2>1, <2>2, <1>2
  <2>3. CASE AsyncClose(id) /\ UNCHANGED funcs
    BY Zenon, <2>1, <2>3, AsyncClosed DEF Step, Quiet
  <2>4. CASE funcs' = Append(funcs, Functor("asyncClose", id)) /\ UNCHANGED sendVars
    <3>1. /\ Functor("asyncClose", id) \in Functors /\ Functor("asyncClose", id).call = "asyncClose"
          /\ Functor("asyncClose", id).id = id
      BY Functored
    <3> QED BY Zenon, <3>1, <2>1, <2>4, <1>2 DEF Kinds
  <2> QED BY Zenon, <2>2, <2>3, <2>4, <1>9 DEF StreamClose
<1>10. ASSUME NEW t \in AllThreads, NEW id \in Ids, StreamSend(t, id) PROVE Step
  <2>1. /\ id \in open /\ asyncSent[id] < MaxAsync /\ UNCHANGED <<calls, open, writeClosed>>
        /\ asyncSent' = [asyncSent EXCEPT ![id] = @ + 1]
        /\ t = id[1] \/ (ShareStreams /\ t = LoopThread)
    BY Zenon, <1>10 DEF StreamSend, UsesStream
  <2>2. StreamUnit(id) \in Units
    <3>1. id[1] \in AllThreads /\ id[2] \in 1 .. MaxCalls + MaxLoopCalls
      BY BoundsAssumption DEF Ids, AllThreads
    <3>2. asyncSent[id] \in Nat
      BY DEF TypeInv, TypeOK
    <3>3. asyncSent[id] + 1 \in 1 .. MsgSize + MaxAsync
      BY <2>1, <3>2, BoundsAssumption
    <3> QED BY Zenon, <3>1, <3>3 DEF StreamUnit, Unit, Units
  <2>3. CASE t = LoopThread /\ AsyncData(id, StreamUnit(id)) /\ UNCHANGED funcs
    BY Zenon, <2>1, <2>2, <2>3, DataCases DEF Step, SendsData
  <2>4. CASE /\ t # LoopThread /\ UNCHANGED sendVars
             /\ funcs' = Append(funcs, [call |-> "asyncData", id |-> id, unit |-> StreamUnit(id)])
    BY Zenon, <2>1, <2>4 DEF Step, QueuesData, AllThreads
  <2> QED BY Zenon, <2>3, <2>4, <1>10 DEF StreamSend, StreamUnit
<1>11. ASSUME NEW t \in Threads, NEW kind \in Kinds, SendQueued(t, kind) PROVE Step
  BY Zenon, <1>11 DEF SendQueued, Step, QueuesSend, Fresh, WithNode, NewStream
<1>12. ASSUME NEW kind \in Kinds, Send(kind) PROVE Step
  <2> DEFINE id == Fresh(LoopThread)  nd == WithNode(kind, LoopThread)
  <2>1. /\ calls[LoopThread] < MaxLoopCalls
        /\ calls' = [calls EXCEPT ![LoopThread] = @ + 1]
        /\ NewStream(kind, LoopThread)
        /\ UNCHANGED <<funcs, asyncSent, writeClosed>>
        /\ \/ kind = "mem" /\ SendInLoop(nd, id)
           \/ kind = "file" /\ SendNodeInLoop(nd, id)
           \/ kind = "stream" /\ SendStreamInLoop(nd, id)
           \/ kind = "async" /\ PushAsync(nd, id)
    BY Zenon, <1>12 DEF Send, Fresh, WithNode, NewStream
  <2>2. id \in Ids /\ nd \in [Ids -> BufferNodes] /\ nd[id] = NewNode(kind, id)
    BY Zenon, <2>1, FreshFacts DEF AllThreads
  <2>3. nd[id].kind = kind /\ (kind = "async" => nd[id].data = <<>>)
    BY <2>2 DEF NewNode
  <2> HIDE DEF id, nd
  <2>4. Sends(nd, id, DataOf(nd, id))
    <3>1. CASE kind = "mem"
      BY Zenon, <3>1, <2>1, <2>2, <2>3, MessageSends DEF DataOf
    <3>2. CASE kind # "mem"
      <4>1. Sends(nd, id, nd[id].data)
        BY Zenon, <3>2, <2>1, <2>2, <2>3, NodeSends
      <4> QED BY Zenon, <3>2, <4>1, <2>3 DEF DataOf
    <3> QED BY Zenon, <3>1, <3>2
  <2> QED BY Zenon, <2>1, <2>4 DEF Step, SendsNow, id, nd
<1>13. CASE WriteNext
  <2>1. CASE list' = Tail(list)
    BY Zenon, <1>13, <2>1 DEF WriteNext, Step, DropsHead, Remaining, userVars
  <2>2. CASE UNCHANGED list
    BY Zenon, <1>2, <1>13, <2>2 DEF WriteNext, sendVars, userVars
  <2> QED BY Zenon, <1>13, <2>1, <2>2 DEF WriteNext
<1>14. CASE WriteNode
  BY Zenon, <1>14, HeadWrites DEF WriteNode, Step, WritesHead, userVars
<1>15. CASE RunFunc
  BY Zenon, <1>15, <1>RunFuncSteps
<1> QED BY Zenon, <1>3, <1>4, <1>5, <1>6, <1>7, <1>8, <1>9, <1>10, <1>11, <1>12, <1>13, <1>14, <1>15
        DEF Next, User, LoopStep

-----------------------------------------------------------------------------
(* Types, and the nodes that calls and functors name                         *)

\* pop_front()
LEMMA ShorterList ==
  ASSUME NEW S, NEW s \in Seq(S), s # <<>>
  PROVE  /\ Range(Tail(s)) \subseteq Range(s)
         /\ IsInjective(s) => IsInjective(Tail(s))
<1>1. Tail(s) \in Seq(S)
  BY Zenon, Shorter
<1>2. Range(Tail(s)) \subseteq Range(s)
  <2> SUFFICES ASSUME NEW y \in Range(Tail(s)) PROVE y \in Range(s)
    BY Zenon
  <2>1. PICK i \in 1 .. Len(Tail(s)) : y = Tail(s)[i]
    BY Zenon, <1>1, RangeIs
  <2>2. i + 1 \in 1 .. Len(s) /\ y = s[i + 1]
    BY Zenon, <2>1, Shorter
  <2> QED BY Zenon, <2>2, RangeIs
<1>3. ASSUME IsInjective(s) PROVE IsInjective(Tail(s))
  <2> SUFFICES ASSUME NEW i \in 1 .. Len(Tail(s)), NEW j \in 1 .. Len(Tail(s)), Tail(s)[i] = Tail(s)[j]
               PROVE  i = j
    BY Zenon, <1>1, RangeIs
  <2>1. i + 1 = j + 1
    BY <1>3, Shorter, RangeIs
  <2> QED BY <2>1
<1> QED BY Zenon, <1>2, <1>3

\* The events of a send
LEMMA SendEvents ==
  ASSUME NEW nd, NEW id, NEW unit,
         \/ SendInLoop(nd, id) \/ SendNodeInLoop(nd, id) \/ SendStreamInLoop(nd, id)
         \/ PushAsyncQueued(nd, id) \/ PushAsync(nd, id) \/ AsyncData(id, unit) \/ AsyncClose(id)
  PROVE  events' = events \/ events' = events \cup {"write"}
<1>1. \A b \in BOOLEAN : EnableIf(b) => events' = events \/ events' = events \cup {"write"}
  BY Zenon DEF EnableIf
<1>2. SendNewNode(nd, id) => events' = events \/ events' = events \cup {"write"}
  BY Zenon, <1>1 DEF SendNewNode, EnableIf
<1>3. CASE SendInLoop(nd, id)
  BY Zenon, <1>3 DEF SendInLoop, EnableIf
<1>4. CASE SendNodeInLoop(nd, id) \/ SendStreamInLoop(nd, id) \/ PushAsync(nd, id)
  BY Zenon, <1>2, <1>4 DEF SendNodeInLoop, SendStreamInLoop, PushAsync
<1>5. CASE PushAsyncQueued(nd, id)
  BY Zenon, <1>5 DEF PushAsyncQueued, PushAsync, EnableIf
<1>6. CASE AsyncData(id, unit) \/ AsyncClose(id)
  BY Zenon, <1>6 DEF AsyncData, AsyncClose, EnableIf
<1> QED BY Zenon, <1>3, <1>4, <1>5, <1>6

\* Every step keeps the types.
LEMMA TypeStep ==
  TypeInv /\ IdsInv /\ [Next]_vars => TypeInv'
\* The data on its way keeps its types.
<1>ShapesStep. ASSUME TypeInv, IdsInv, Step
               PROVE  ShapesOK'
  <2> USE <1>ShapesStep
  <2>1. /\ node \in [Ids -> BufferNodes] /\ list \in Seq(Ids) /\ IsInjective(list)
        /\ wire \in Seq(Units) /\ funcs \in Seq(Functors)
        /\ calls \in [AllThreads -> 0 .. MaxCalls + MaxLoopCalls]
        /\ open \subseteq Ids /\ asyncSent \in [Ids -> 0 .. MaxAsync]
    BY Zenon, TypeParts DEF ShapesOK
  <2>2. CASE Quiet
    <3>1. funcs' \in Seq(Functors)
      <4>1. CASE UNCHANGED funcs
        BY Zenon, <4>1, <2>1
      <4>2. CASE funcs # <<>> /\ funcs' = Tail(funcs)
        BY Zenon, <4>2, <2>1, Shorter
      <4>3. CASE \E g \in Functors : funcs' = Append(funcs, g)
        BY <4>3, <2>1, Longer
      <4> QED BY Zenon, <2>2, <4>1, <4>2, <4>3 DEF Quiet
    <3> QED BY Zenon, <3>1, <2>1, <2>2 DEF Quiet, SameData, ShapesOK
  <2>3. CASE QueuesSend
    <3>1. PICK t \in Threads, kind \in Kinds :
            /\ calls[t] < MaxCalls /\ calls' = [calls EXCEPT ![t] = @ + 1]
            /\ node' = WithNode(kind, t) /\ NewStream(kind, t)
            /\ funcs' = Append(funcs, Functor(kind, Fresh(t)))
            /\ UNCHANGED <<list, wire, asyncSent>>
      BY Zenon, <2>3 DEF QueuesSend
    <3>2. /\ Fresh(t) \in Ids /\ calls' \in [AllThreads -> 0 .. MaxCalls + MaxLoopCalls]
          /\ node' \in [Ids -> BufferNodes]
      BY Zenon, <3>1, FreshFacts DEF AllThreads
    <3>3. Functor(kind, Fresh(t)) \in Functors
      BY Zenon, <3>2, Functored
    <3>4. funcs' \in Seq(Functors)
      BY Zenon, <3>1, <3>3, <2>1, Longer
    <3>5. open' \subseteq Ids
      BY Zenon, <3>1, <3>2, <2>1 DEF NewStream
    <3> QED BY Zenon, <3>1, <3>2, <3>4, <3>5, <2>1 DEF ShapesOK
  <2>4. CASE RunsSend
    <3> DEFINE f == Head(funcs)
    <3>1. funcs # <<>> /\ f.call \in Kinds
      BY Zenon, <2>4 DEF RunsSend
    <3>2. FuncOK(node, list, calls, f)
      BY Zenon, <3>1, HeadFunc DEF IdsInv
    <3>3. f.id \in Ids /\ f.id \notin Range(list)
      BY Zenon, <3>1, <3>2 DEF FuncOK
    <3>4. DataOf(node, f.id) \in Seq(Units)
      BY Zenon, <3>3, <2>1, DataOfType
    <3>5. /\ node' \in [Ids -> BufferNodes] /\ wire' \in Seq(Units)
          /\ list' \in Seq(Ids) /\ IsInjective(list')
      BY Zenon, <3>3, <3>4, <2>1, <2>4, SendsShapes DEF RunsSend
    <3>6. funcs' \in Seq(Functors)
      BY Zenon, <3>1, <2>1, <2>4, Shorter DEF RunsSend
    <3> QED BY Zenon, <3>5, <3>6, <2>1, <2>4 DEF RunsSend, ShapesOK
  <2>5. CASE SendsNow
    <3>1. PICK kind \in Kinds :
            /\ calls[LoopThread] < MaxLoopCalls
            /\ calls' = [calls EXCEPT ![LoopThread] = @ + 1]
            /\ Sends(WithNode(kind, LoopThread), Fresh(LoopThread),
                     DataOf(WithNode(kind, LoopThread), Fresh(LoopThread)))
            /\ NewStream(kind, LoopThread)
            /\ UNCHANGED <<funcs, asyncSent>>
      BY Zenon, <2>5 DEF SendsNow
    <3> DEFINE id == Fresh(LoopThread)  nd == WithNode(kind, LoopThread)
    <3>2. id \in Ids /\ ~Used(calls, id) /\ nd \in [Ids -> BufferNodes]
          /\ calls' \in [AllThreads -> 0 .. MaxCalls + MaxLoopCalls]
      BY Zenon, <3>1, FreshFacts DEF AllThreads
    <3>3. Sends(nd, id, DataOf(nd, id)) /\ open' \subseteq Ids
      BY Zenon, <3>1, <3>2, <2>1 DEF NewStream
    <3> HIDE DEF id, nd
    <3>4. id \notin Range(list) /\ DataOf(nd, id) \in Seq(Units)
      BY Zenon, <3>2, FreshUnused, DataOfType
    <3>5. /\ node' \in [Ids -> BufferNodes] /\ wire' \in Seq(Units)
          /\ list' \in Seq(Ids) /\ IsInjective(list')
      BY Zenon, <3>2, <3>3, <3>4, SendsShapes
    <3> QED BY Zenon, <3>1, <3>2, <3>3, <3>5, <2>1 DEF ShapesOK
  <2>6. ASSUME NEW id \in Ids, NEW unit \in Units, AddsData(id, unit)
        PROVE  node' \in [Ids -> BufferNodes] /\ wire' \in Seq(Units) /\ UNCHANGED list
    <3>1. <<unit>> \in Seq(Units)
      OBVIOUS
    <3>2. wire \o <<unit>> \in Seq(Units)
      BY Zenon, <3>1, <2>1, ConcatProperties
    <3> QED BY Zenon, <3>2, <2>1, <2>6 DEF AddsData, SetData
  <2>7. CASE RunsData
    <3> DEFINE f == Head(funcs)
    <3>1. funcs # <<>> /\ f.call = "asyncData" /\ f \in Functors
      BY Zenon, <2>7, HeadFunc DEF RunsData
    <3>2. f.id \in Ids /\ f.unit \in Units
      BY Zenon, <3>1 DEF Functors, Kinds
    <3>3. node' \in [Ids -> BufferNodes] /\ wire' \in Seq(Units) /\ UNCHANGED list
      BY Zenon, <3>2, <2>6, <2>7 DEF RunsData
    <3>4. funcs' \in Seq(Functors)
      BY Zenon, <3>1, <2>1, <2>7, Shorter DEF RunsData
    <3> QED BY Zenon, <3>3, <3>4, <2>1, <2>7 DEF RunsData, ShapesOK
  <2>8. ASSUME NEW id \in open, asyncSent[id] < MaxAsync, asyncSent' = [asyncSent EXCEPT ![id] = @ + 1]
        PROVE  asyncSent' \in [Ids -> 0 .. MaxAsync] /\ StreamUnit(id) \in Units /\ id \in Ids
    <3>1. id \in Ids /\ asyncSent[id] \in 0 .. MaxAsync
      BY Zenon, <2>1
    <3>2. id[1] \in AllThreads /\ id[2] \in 1 .. MaxCalls + MaxLoopCalls
      BY <3>1, BoundsAssumption DEF Ids, AllThreads
    <3>3. asyncSent[id] + 1 \in 1 .. MsgSize + MaxAsync /\ asyncSent[id] + 1 \in 0 .. MaxAsync
      BY <3>1, <2>8, BoundsAssumption
    <3>4. StreamUnit(id) \in Units
      BY Zenon, <3>2, <3>3 DEF StreamUnit, Unit, Units
    <3> QED BY Zenon, <3>1, <3>3, <3>4, <2>1, <2>8
  <2>9. CASE SendsData
    <3>1. PICK id \in open :
            /\ asyncSent[id] < MaxAsync /\ asyncSent' = [asyncSent EXCEPT ![id] = @ + 1]
            /\ AddsData(id, StreamUnit(id))
            /\ UNCHANGED <<funcs, calls, open>>
      BY Zenon, <2>9 DEF SendsData
    <3> QED BY Zenon, <3>1, <2>1, <2>6, <2>8 DEF ShapesOK
  <2>10. CASE QueuesData
    <3>1. PICK id \in open :
            /\ asyncSent[id] < MaxAsync /\ asyncSent' = [asyncSent EXCEPT ![id] = @ + 1]
            /\ funcs' = Append(funcs, [call |-> "asyncData", id |-> id, unit |-> StreamUnit(id)])
            /\ UNCHANGED <<sendVars, calls, open>>
      BY Zenon, <2>10 DEF QueuesData
    <3>2. [call |-> "asyncData", id |-> id, unit |-> StreamUnit(id)] \in Functors
      BY Zenon, <3>1, <2>8 DEF Functors
    <3>3. funcs' \in Seq(Functors)
      BY <3>1, <3>2, <2>1, Longer
    <3> QED BY Zenon, <3>1, <3>3, <2>1, <2>8 DEF ShapesOK, sendVars
  <2>11. CASE DropsHead
    BY Zenon, <2>1, <2>11, Shorter, ShorterList DEF DropsHead, ShapesOK
  <2>12. CASE WritesHead
    <3> DEFINE id == Head(list)
    <3>1. id \in Ids
      BY Zenon, <2>1, <2>12, Shorter DEF WritesHead
    <3>2. PICK n \in 0 .. Len(node[id].data) :
            wire' = wire \o SubSeq(node[id].data, 1, n) /\ SetData(node, id, Rest(node[id].data, n))
      BY Zenon, <2>12 DEF WritesHead, Writes
    <3>3. node[id].data \in Seq(Units)
      BY Zenon, <3>1, <2>1, DataOfType
    <3>4. wire' \in Seq(Units)
      BY Zenon, <3>2, <3>3, <2>1, Cut, ConcatProperties
    <3>5. node' \in [Ids -> BufferNodes]
      BY Zenon, <3>2 DEF SetData
    <3> QED BY Zenon, <3>4, <3>5, <2>1, <2>12 DEF WritesHead, Writes, ShapesOK
  <2> QED BY Zenon, <2>2, <2>3, <2>4, <2>5, <2>7, <2>9, <2>10, <2>11, <2>12 DEF Step
\* The other variables keep their types.
<1>FlagsStep. ASSUME TypeInv, IdsInv, [Next]_vars
              PROVE  FlagsOK'
  <2> USE <1>FlagsStep
  <2>0. FlagsOK
    BY Zenon, TypeParts
  <2>1. calls \in [AllThreads -> 0 .. MaxCalls + MaxLoopCalls] /\ LoopThread \in AllThreads
    BY Zenon DEF TypeInv, TypeOK, AllThreads
  <2>2. \A e : ShutdownInLoop(e) =>
          /\ status' \in {"Connecting", "Connected", "Disconnecting", "Disconnected"}
          /\ closeOnEmpty' \in BOOLEAN /\ writeClosed' \in BOOLEAN
    BY Zenon, <2>0 DEF ShutdownInLoop, FlagsOK
  <2>3. ForceCloseInLoop =>
          /\ status' \in {"Connecting", "Connected", "Disconnecting", "Disconnected"}
          /\ events' \subseteq {"read", "write"} /\ lpc' \in {"idle", "writeCallback", "closeCallback"}
    BY Zenon, <2>0 DEF ForceCloseInLoop, HandleClose, FlagsOK
  <2>4. events' = events \/ events' = events \cup {"write"} => events' \subseteq {"read", "write"}
    BY Zenon, <2>0 DEF FlagsOK
  <2>5. CASE UNCHANGED vars
    BY Zenon, <2>0, <2>5 DEF vars, userVars, FlagsOK
  <2>6. CASE WriteCallback
    BY Zenon, <2>0, <2>6 DEF WriteCallback, userVars, FlagsOK
  <2>7. CASE CloseCallback
    <3>1. closes' \in 0 .. 2
      BY <2>0, <2>7 DEF CloseCallback, FlagsOK
    <3> QED BY Zenon, <3>1, <2>0, <2>7 DEF CloseCallback, userVars, FlagsOK
  <2>8. CASE ReadOrHangUp
    BY Zenon, <2>0, <2>8 DEF ReadOrHangUp, HandleClose, userVars, FlagsOK
  <2>9. CASE WriteEnds
    <3>1. /\ status' \in {"Connecting", "Connected", "Disconnecting", "Disconnected"}
          /\ closeOnEmpty' \in BOOLEAN /\ writeClosed' \in BOOLEAN
      BY Zenon, <2>0, <2>2, <2>9 DEF WriteEnds, FlagsOK
    <3>2. events' \subseteq {"read", "write"}
      BY Zenon, <2>0, <2>9 DEF WriteEnds, FlagsOK
    <3> QED BY Zenon, <3>1, <3>2, <2>0, <2>9 DEF WriteEnds, userVars, FlagsOK
  <2>10. CASE OwnerCloses
    BY Zenon, <2>0, <2>10 DEF OwnerCloses, userVars, FlagsOK
  <2>11. ASSUME NEW t \in AllThreads, Shutdown(t) PROVE FlagsOK'
    <3>1. /\ status' \in {"Connecting", "Connected", "Disconnecting", "Disconnected"}
          /\ closeOnEmpty' \in BOOLEAN /\ writeClosed' \in BOOLEAN
      BY Zenon, <2>0, <2>2, <2>11 DEF Shutdown, FlagsOK
    <3>2. calls[t] \in 0 .. NotShut
      BY <2>1, BoundsAssumption DEF NotShut
    <3>3. shutAt' \in [AllThreads -> 0 .. NotShut]
      BY Zenon, <3>2, <2>0, <2>11 DEF Shutdown, FlagsOK
    <3> QED BY Zenon, <3>1, <3>3, <2>0, <2>11 DEF Shutdown, FlagsOK
  <2>12. ASSUME NEW t \in AllThreads, ForceClose(t) PROVE FlagsOK'
    <3>1. /\ status' \in {"Connecting", "Connected", "Disconnecting", "Disconnected"}
          /\ events' \subseteq {"read", "write"} /\ lpc' \in {"idle", "writeCallback", "closeCallback"}
      BY Zenon, <2>0, <2>3, <2>12 DEF ForceClose, FlagsOK
    <3>2. forced' \subseteq AllThreads
      BY Zenon, <2>0, <2>12 DEF ForceClose, FlagsOK
    <3> QED BY Zenon, <3>1, <3>2, <2>0, <2>12 DEF ForceClose, FlagsOK
  <2>13. ASSUME NEW t \in AllThreads, NEW id \in Ids, StreamClose(t, id) PROVE FlagsOK'
    <3>1. events' \subseteq {"read", "write"} /\ early' \subseteq Ids
      <4>1. CASE AsyncClose(id)
        BY Zenon, <4>1, <2>4, AsyncClosed
      <4>2. CASE UNCHANGED <<events, early>>
        BY Zenon, <4>2, <2>0 DEF FlagsOK
      <4> QED BY Zenon, <4>1, <4>2, <2>13 DEF StreamClose
    <3> QED BY Zenon, <3>1, <2>0, <2>13 DEF StreamClose, FlagsOK
  <2>14. ASSUME NEW t \in AllThreads, NEW id \in Ids, StreamSend(t, id) PROVE FlagsOK'
    <3>1. events' \subseteq {"read", "write"}
      BY Zenon, <2>0, <2>4, <2>14, SendEvents DEF StreamSend, FlagsOK
    <3> QED BY Zenon, <3>1, <2>0, <2>14 DEF StreamSend, FlagsOK
  <2>15. ASSUME NEW t \in Threads, NEW kind \in Kinds, SendQueued(t, kind) PROVE FlagsOK'
    BY Zenon, <2>0, <2>15 DEF SendQueued, FlagsOK
  <2>16. ASSUME NEW kind \in Kinds, Send(kind) PROVE FlagsOK'
    <3>1. events' \subseteq {"read", "write"}
      BY Zenon, <2>4, <2>16, SendEvents DEF Send
    <3> QED BY Zenon, <3>1, <2>0, <2>16 DEF Send, FlagsOK
  <2>17. CASE WriteNext
    <3>1. events' \subseteq {"read", "write"} /\ lpc' \in {"idle", "writeCallback", "closeCallback"}
      BY Zenon, <2>0, <2>17 DEF WriteNext, FlagsOK
    <3> QED BY Zenon, <3>1, <2>0, <2>17 DEF WriteNext, userVars, FlagsOK
  <2>18. CASE WriteNode
    <3>1. events' \subseteq {"read", "write"}
      BY Zenon, <2>4, <2>18, HeadWrites
    <3>2. lpc' \in {"idle", "writeCallback", "closeCallback"}
      BY Zenon, <2>18 DEF WriteNode
    <3> QED BY Zenon, <3>1, <3>2, <2>0, <2>18 DEF WriteNode, userVars, FlagsOK
  <2>19. CASE RunFunc
    <3> DEFINE f == Head(funcs)
    <3>0. UNCHANGED <<shutAt, forced, closes>> /\ FuncOK(node, list, calls, f)
      BY Zenon, <2>19, HeadFunc DEF RunFunc, userVars, IdsInv
    <3>1. CASE Established /\ UNCHANGED <<removed, closeOnEmpty, writeClosed, lpc, early>>
      BY Zenon, <3>0, <3>1, <2>0 DEF Established, FlagsOK
    <3>2. CASE ConnectDestroyed /\ UNCHANGED <<closeOnEmpty, writeClosed, lpc, early>>
      BY Zenon, <3>0, <3>2, <2>0 DEF ConnectDestroyed, FlagsOK
    <3>3. CASE /\ \/ SendInLoop(node, f.id) \/ SendNodeInLoop(node, f.id)
                  \/ PushAsyncQueued(node, f.id) \/ AsyncData(f.id, f.unit)
               /\ UNCHANGED <<status, removed, closeOnEmpty, writeClosed, lpc, early>>
      <4>1. events' \subseteq {"read", "write"}
        BY Zenon, <3>3, <2>4, SendEvents
      <4> QED BY Zenon, <4>1, <3>0, <3>3, <2>0 DEF FlagsOK
    <3>4. CASE /\ f.call = "asyncClose" /\ AsyncClose(f.id)
               /\ UNCHANGED <<status, removed, closeOnEmpty, writeClosed, lpc>>
      <4>1. f.id \in Ids
        BY Zenon, <3>0, <3>4 DEF FuncOK
      <4>2. events' \subseteq {"read", "write"} /\ early' \subseteq Ids
        BY Zenon, <4>1, <3>4, <2>4, AsyncClosed
      <4> QED BY Zenon, <4>2, <3>0, <3>4, <2>0 DEF FlagsOK
    <3>5. CASE ShutdownInLoop(events) /\ UNCHANGED <<events, removed, lpc, early>>
      BY Zenon, <3>0, <3>5, <2>0, <2>2 DEF FlagsOK
    <3>6. CASE ForceCloseInLoop /\ UNCHANGED <<removed, closeOnEmpty, writeClosed, early>>
      BY Zenon, <3>0, <3>6, <2>0, <2>3 DEF FlagsOK
    <3> QED BY Zenon, <3>1, <3>2, <3>3, <3>4, <3>5, <3>6, <2>19 DEF RunFunc
  <2> QED BY Zenon, <2>5, <2>6, <2>7, <2>8, <2>9, <2>10, <2>11, <2>12, <2>13, <2>14, <2>15, <2>16, <2>17, <2>18, <2>19
          DEF Next, User, LoopStep
<1> SUFFICES ASSUME TypeInv, IdsInv, [Next]_vars
             PROVE  TypeInv'
  BY Zenon
<1>1. ShapesOK' /\ FlagsOK'
  BY Zenon, Steps, <1>ShapesStep, <1>FlagsStep
<1>2. (ShapesOK /\ FlagsOK => TypeInv)'
  BY TypeParts, PTL
<1> QED BY Zenon, <1>1, <1>2

\* Every step keeps the nodes in their places and the queue in the order of calls.
LEMMA IdsStep ==
  TypeInv /\ TypeInv' /\ IdsInv /\ Step => IdsInv'
\* A queue loses its first functor or gets another one.
<1>QueueTail. ASSUME NEW fs \in Seq(Functors), fs # <<>>, NEW nd, NEW l, NEW cl, NEW nd2, NEW l2, NEW cl2,
                     QueueOK(nd, l, cl, fs),
                     \A f \in Functors : FuncOK(nd, l, cl, f) /\ InTurn(Head(fs), f) => FuncOK(nd2, l2, cl2, f)
              PROVE  QueueOK(nd2, l2, cl2, Tail(fs))
  <2> USE <1>QueueTail
  <2>1. /\ \A i \in 1 .. Len(Tail(fs)) : i + 1 \in 1 .. Len(fs) /\ Tail(fs)[i] = fs[i + 1]
        /\ Head(fs) = fs[1] /\ 1 \in 1 .. Len(fs)
    BY Zenon, Shorter
  <2>2. ASSUME NEW i \in 1 .. Len(Tail(fs)) PROVE FuncOK(nd2, l2, cl2, Tail(fs)[i])
    <3>1. fs[i + 1] \in Functors /\ FuncOK(nd, l, cl, fs[i + 1]) /\ InTurn(Head(fs), fs[i + 1])
      BY <2>1, ElementOfSeq DEF QueueOK
    <3> QED BY Zenon, <3>1, <2>1
  <2>3. ASSUME NEW i \in 1 .. Len(Tail(fs)), NEW j \in 1 .. Len(Tail(fs)), i < j
        PROVE  InTurn(Tail(fs)[i], Tail(fs)[j])
    <3>1. i + 1 < j + 1
      BY <2>3
    <3> QED BY Zenon, <3>1, <2>1 DEF QueueOK
  <2> QED BY Zenon, <2>2, <2>3 DEF QueueOK
\* A functor is queued: what the others rely on must stay.
<1>QueueAppend. ASSUME NEW fs \in Seq(Functors), NEW g \in Functors, NEW nd, NEW l, NEW cl, NEW nd2, NEW l2, NEW cl2,
                       QueueOK(nd, l, cl, fs), FuncOK(nd2, l2, cl2, g),
                       \A f \in Functors : FuncOK(nd, l, cl, f) => FuncOK(nd2, l2, cl2, f) /\ InTurn(f, g)
                PROVE  QueueOK(nd2, l2, cl2, Append(fs, g))
  <2> USE <1>QueueAppend
  <2>1. /\ \A i \in 1 .. Len(fs) : Append(fs, g)[i] = fs[i] /\ fs[i] \in Functors
        /\ Append(fs, g)[Len(fs) + 1] = g /\ Len(Append(fs, g)) = Len(fs) + 1 /\ Len(fs) \in Nat
    BY Longer, ElementOfSeq
  <2>2. ASSUME NEW i \in 1 .. Len(fs) + 1 PROVE FuncOK(nd2, l2, cl2, Append(fs, g)[i])
    <3>1. CASE i \in 1 .. Len(fs)
      BY Zenon, <3>1, <2>1 DEF QueueOK
    <3> QED BY <3>1, <2>1
  <2>3. ASSUME NEW i \in 1 .. Len(fs) + 1, NEW j \in 1 .. Len(fs) + 1, i < j
        PROVE  InTurn(Append(fs, g)[i], Append(fs, g)[j])
    <3>1. i \in 1 .. Len(fs)
      BY <2>1, <2>3
    <3>2. CASE j \in 1 .. Len(fs)
      BY Zenon, <3>1, <3>2, <2>1, <2>3 DEF QueueOK
    <3>3. CASE j = Len(fs) + 1
      BY Zenon, <3>1, <3>3, <2>1 DEF QueueOK
    <3> QED BY <3>2, <3>3, <2>1
  <2> QED BY Zenon, <2>1, <2>2, <2>3 DEF QueueOK
\* No functor is queued.
<1>QueueSame. ASSUME NEW fs \in Seq(Functors), NEW nd, NEW l, NEW cl, NEW nd2, NEW l2, NEW cl2,
                     QueueOK(nd, l, cl, fs),
                     \A f \in Functors : FuncOK(nd, l, cl, f) => FuncOK(nd2, l2, cl2, f)
              PROVE  QueueOK(nd2, l2, cl2, fs)
  BY Zenon, <1>QueueSame, ElementOfSeq DEF QueueOK
\* A thread makes a call.
<1>CallMade. ASSUME NEW cl \in [AllThreads -> 0 .. MaxCalls + MaxLoopCalls], NEW t \in AllThreads
             PROVE  \A x \in Ids : Used(cl, x) \/ (x[1] = t /\ x[2] = cl[t] + 1)
                                     => Used([cl EXCEPT ![t] = @ + 1], x)
  <2>1. \A u \in AllThreads : cl[u] \in Nat
    BY BoundsAssumption
  <2>2. \A x \in Ids : x[1] \in AllThreads /\ x[2] \in Nat
    BY DEF Ids, AllThreads
  <2> QED BY <2>1, <2>2 DEF Used
<1> SUFFICES ASSUME TypeInv, TypeInv', IdsInv, Step
             PROVE  IdsInv'
  BY Zenon
<1>1. /\ node \in [Ids -> BufferNodes] /\ list \in Seq(Ids) /\ funcs \in Seq(Functors)
      /\ calls \in [AllThreads -> 0 .. MaxCalls + MaxLoopCalls] /\ open \subseteq Ids
  BY Zenon, TypeParts DEF ShapesOK
<1>2. list' \in Seq(Ids) /\ funcs' \in Seq(Functors)
  BY Zenon DEF TypeInv, TypeOK
<1>3. NodesOK(node, list, calls, open) /\ QueueOK(node, list, calls, funcs)
  BY Zenon, <1>1, IdsParts
<1> SUFFICES NodesOK(node', list', calls', open') /\ QueueOK(node', list', calls', funcs')
  <2>1. (list \in Seq(Ids) => (IdsInv <=> NodesOK(node, list, calls, open) /\ QueueOK(node, list, calls, funcs)))'
    BY IdsParts, PTL
  <2> QED BY Zenon, <2>1, <1>2
<1>4. \A t \in AllThreads : calls[t] \in Nat
  BY <1>1, BoundsAssumption
<1>5. \A x \in Ids : x[1] \in AllThreads /\ x[2] \in Nat
  BY DEF Ids, AllThreads
\* Kinds stay, calls are not forgotten, and the list gets at most z.
<1>6. ASSUME NEW z, \A x \in Ids : Used(calls, x) => node'[x].kind = node[x].kind,
             \A x \in Ids : Used(calls, x) => Used(calls', x),
             Range(list') \subseteq Range(list) \cup {z},
             NEW f \in Functors, FuncOK(node, list, calls, f), f.call \in Kinds => f.id # z
      PROVE  FuncOK(node', list', calls', f)
  BY Zenon, <1>3, <1>6 DEF FuncOK, NodesOK
<1>7. ASSUME UNCHANGED <<list, calls>>, \A x \in Ids : node'[x].kind = node[x].kind, open' \subseteq open
      PROVE  /\ NodesOK(node', list', calls', open')
             /\ \A f \in Functors : FuncOK(node, list, calls, f) => FuncOK(node', list', calls', f)
  BY Zenon, <1>1, <1>3, <1>7 DEF FuncOK, NodesOK
<1>8. CASE Quiet
  <2>1. /\ NodesOK(node', list', calls', open')
        /\ \A f \in Functors : FuncOK(node, list, calls, f) => FuncOK(node', list', calls', f)
    BY Zenon, <1>7, <1>8 DEF Quiet, SameData
  <2>2. CASE UNCHANGED funcs
    BY Zenon, <2>1, <2>2, <1>1, <1>3, <1>QueueSame
  <2>3. CASE funcs # <<>> /\ funcs' = Tail(funcs)
    BY Zenon, <2>1, <2>3, <1>1, <1>3, <1>QueueTail
  <2>4. ASSUME NEW g \in Functors, g.call \notin Kinds \cup {"asyncData"},
               g.call = "asyncClose" => g.id \in open, funcs' = Append(funcs, g)
        PROVE  QueueOK(node', list', calls', funcs')
    <3>1. FuncOK(node', list', calls', g)
      BY Zenon, <2>4, <1>1, <1>3, <1>8 DEF FuncOK, NodesOK, Quiet, SameData
    <3>2. \A f \in Functors : InTurn(f, g)
      BY Zenon, <2>4 DEF InTurn
    <3> QED BY Zenon, <3>1, <3>2, <2>1, <2>4, <1>1, <1>3, <1>QueueAppend
  <2> QED BY Zenon, <2>1, <2>2, <2>3, <2>4, <1>8 DEF Quiet
<1>9. CASE QueuesSend
  <2>1. PICK t \in Threads, kind \in Kinds :
          /\ calls[t] < MaxCalls /\ calls' = [calls EXCEPT ![t] = @ + 1]
          /\ node' = WithNode(kind, t) /\ NewStream(kind, t)
          /\ funcs' = Append(funcs, Functor(kind, Fresh(t)))
          /\ UNCHANGED list
    BY Zenon, <1>9 DEF QueuesSend
  <2> DEFINE id == Fresh(t)  g == Functor(kind, id)
  <2>2. /\ id \in Ids /\ id[1] = t /\ id[2] = calls[t] + 1 /\ ~Used(calls, id)
        /\ node'[id] = NewNode(kind, id) /\ \A x \in Ids : x # id => node'[x] = node[x]
    BY SMTT(60), <2>1, FreshFacts DEF AllThreads
  <2>3. id \notin Range(list) /\ id \notin open
    BY Zenon, <2>2, FreshUnused
  <2>4. \A x \in Ids : Used(calls, x) => Used(calls', x)
    BY Zenon, <2>1, <1>1, <1>CallMade DEF AllThreads
  <2>5. Used(calls', id)
    BY Zenon, <2>1, <2>2, <1>1, <1>CallMade DEF AllThreads
  <2>6. node'[id].kind = kind
    BY <2>2 DEF NewNode
  <2>7. NodesOK(node', list', calls', open')
    <3>1. \A x \in Range(list') : Used(calls', x)
      <4>1. \A x \in Range(list) : x \in Ids
        BY <1>1, RangeIs, ElementOfSeq
      <4> QED BY Zenon, <4>1, <2>1, <2>4, <1>3 DEF NodesOK
    <3>2. \A x \in Ids : node'[x].kind = "async" => Used(calls', x)
      BY Zenon, <2>2, <2>4, <2>5, <1>3 DEF NodesOK
    <3>3. \A x \in open' : node'[x].kind = "async"
      BY Zenon, <2>1, <2>2, <2>3, <2>6, <1>1, <1>3 DEF NodesOK, NewStream
    <3> QED BY Zenon, <3>1, <3>2, <3>3 DEF NodesOK
  <2>8. g \in Functors /\ g.call = kind /\ g.id = id
    BY SMTT(60), <2>2, Functored
  <2>9. FuncOK(node', list', calls', g)
    BY Zenon, <2>1, <2>2, <2>3, <2>5, <2>6, <2>8 DEF FuncOK, Kinds
  <2>10. ASSUME NEW f \in Functors, FuncOK(node, list, calls, f)
         PROVE  FuncOK(node', list', calls', f) /\ InTurn(f, g)
    <3>1. InTurn(f, g)
      <4>1. f.call \in Kinds => f.id \in Ids /\ Used(calls, f.id)
        BY Zenon, <2>10 DEF FuncOK
      <4>2. f.call \in Kinds /\ f.id[1] = t => f.id[2] <= calls[t] /\ f.id[2] \in Nat
        BY Zenon, <4>1, <1>5 DEF Used
      <4>3. f.call \in Kinds /\ f.id[1] = t => f.id[2] < calls[t] + 1
        BY <4>2, <1>4 DEF AllThreads
      <4> QED BY Zenon, <4>3, <2>2, <2>8 DEF InTurn
    <3>2. f.call \in Kinds => f.id # id
      BY Zenon, <2>2, <2>10 DEF FuncOK
    <3>3. \A x \in Ids : Used(calls, x) => node'[x].kind = node[x].kind
      BY Zenon, <2>2
    <3>4. Range(list') \subseteq Range(list) \cup {id}
      BY Zenon, <2>1
    <3> HIDE DEF id
    <3>5. FuncOK(node', list', calls', f)
      BY Zenon, <3>2, <3>3, <3>4, <2>4, <2>10, <1>6
    <3> QED BY Zenon, <3>1, <3>5
  <2> HIDE DEF g
  <2>11. QueueOK(node', list', calls', funcs')
    BY Zenon, <2>1, <2>8, <2>9, <2>10, <1>1, <1>3, <1>QueueAppend DEF g
  <2> QED BY Zenon, <2>7, <2>11
<1>10. CASE RunsSend
  <2> DEFINE f == Head(funcs)
  <2>1. /\ funcs # <<>> /\ f.call \in Kinds /\ funcs' = Tail(funcs) /\ UNCHANGED <<calls, open>>
        /\ Sends(node, f.id, DataOf(node, f.id))
    BY Zenon, <1>10 DEF RunsSend
  <2>2. FuncOK(node, list, calls, f)
    BY Zenon, <2>1, HeadFunc DEF IdsInv
  <2>3. f.id \in Ids /\ f.id \notin Range(list) /\ Used(calls, f.id)
    BY Zenon, <2>1, <2>2 DEF FuncOK
  <2>4. /\ \A x \in Ids : node'[x].kind = node[x].kind
        /\ list' = list \/ list' = Append(list, f.id)
    BY Zenon, <2>1, <2>3, <1>1, DataOfType, SendsShapes
  <2>5. Range(list') \subseteq Range(list) \cup {f.id}
    <3>1. Range(Append(list, f.id)) = Range(list) \cup {f.id}
      BY <2>3, <1>1, LongerList
    <3> QED BY Zenon, <3>1, <2>4
  <2>6. NodesOK(node', list', calls', open')
    BY Zenon, <2>1, <2>3, <2>4, <2>5, <1>1, <1>3 DEF NodesOK
  <2>7. ASSUME NEW h \in Functors, FuncOK(node, list, calls, h), InTurn(f, h)
        PROVE  FuncOK(node', list', calls', h)
    <3>1. h.call \in Kinds => h.id # f.id
      <4>1. h.call \in Kinds => h.id[2] \in Nat
        BY Zenon, <2>7, <1>5 DEF FuncOK
      <4> QED BY SMTT(60), <4>1, <2>1, <2>7 DEF InTurn
    <3>2. /\ \A x \in Ids : Used(calls, x) => node'[x].kind = node[x].kind
          /\ \A x \in Ids : Used(calls, x) => Used(calls', x)
      BY Zenon, <2>1, <2>4
    <3> HIDE DEF f
    <3> QED BY SMTT(60), <3>1, <3>2, <2>5, <2>7, <1>6
  <2>8. QueueOK(node', list', calls', funcs')
    BY Zenon, <2>1, <2>7, <1>1, <1>3, <1>QueueTail
  <2> QED BY Zenon, <2>6, <2>8
<1>11. CASE SendsNow
  <2>1. PICK kind \in Kinds :
          /\ calls[LoopThread] < MaxLoopCalls
          /\ calls' = [calls EXCEPT ![LoopThread] = @ + 1]
          /\ Sends(WithNode(kind, LoopThread), Fresh(LoopThread),
                   DataOf(WithNode(kind, LoopThread), Fresh(LoopThread)))
          /\ NewStream(kind, LoopThread)
          /\ UNCHANGED funcs
    BY Zenon, <1>11 DEF SendsNow
  <2> DEFINE id == Fresh(LoopThread)  nd == WithNode(kind, LoopThread)
  <2>2. /\ id \in Ids /\ id[1] = LoopThread /\ id[2] = calls[LoopThread] + 1 /\ ~Used(calls, id)
        /\ nd \in [Ids -> BufferNodes]
        /\ nd[id] = NewNode(kind, id) /\ \A x \in Ids : x # id => nd[x] = node[x]
    BY ZenonT(30), <2>1, FreshFacts DEF AllThreads
  <2>3. Sends(nd, id, DataOf(nd, id)) /\ open' = IF kind = "async" THEN open \cup {id} ELSE open
    BY Zenon, <2>1 DEF NewStream
  <2> HIDE DEF id, nd
  <2>4. id \notin Range(list) /\ id \notin open /\ DataOf(nd, id) \in Seq(Units)
    BY Zenon, <2>2, FreshUnused, DataOfType
  <2>5. /\ \A x \in Ids : node'[x].kind = nd[x].kind
        /\ list' = list \/ list' = Append(list, id)
    BY Zenon, <2>2, <2>3, <2>4, SendsShapes
  <2>6. Range(list') \subseteq Range(list) \cup {id}
    <3>1. CASE list' = list
      BY Zenon, <3>1
    <3>2. CASE list' = Append(list, id)
      BY SMTT(60), <3>2, <2>2, <1>1, LongerList
    <3> QED BY Zenon, <3>1, <3>2, <2>5
  <2>7. \A x \in Ids : Used(calls, x) => Used(calls', x)
    BY Zenon, <2>1, <1>1, <1>CallMade DEF AllThreads
  <2>8. Used(calls', id)
    <3>1. calls' = [calls EXCEPT ![LoopThread] = @ + 1] /\ LoopThread \in AllThreads
      BY Zenon, <2>1 DEF AllThreads
    <3>2. id \in Ids /\ id[1] = LoopThread /\ id[2] = calls[LoopThread] + 1
      BY Zenon, <2>2
    <3> QED BY Zenon, <3>1, <3>2, <1>1, <1>CallMade
  <2>9. node'[id].kind = kind /\ \A x \in Ids : x # id => node'[x].kind = node[x].kind
    BY SMTT(60), <2>2, <2>5 DEF NewNode
  <2>10. NodesOK(node', list', calls', open')
    <3>1. \A x \in Range(list') : Used(calls', x)
      BY <2>6, <2>7, <2>8, <1>1, <1>3, RangeIs, ElementOfSeq DEF NodesOK
    <3>2. \A x \in Ids : node'[x].kind = "async" => Used(calls', x)
      BY Zenon, <2>7, <2>8, <2>9, <1>3 DEF NodesOK
    <3>3. \A x \in open' : node'[x].kind = "async"
      BY Zenon, <2>3, <2>4, <2>9, <1>1, <1>3 DEF NodesOK
    <3> QED BY Zenon, <3>1, <3>2, <3>3 DEF NodesOK
  <2>11. ASSUME NEW f \in Functors, FuncOK(node, list, calls, f)
         PROVE  FuncOK(node', list', calls', f)
    <3>1. f.call \in Kinds => f.id # id
      BY Zenon, <2>2, <2>11 DEF FuncOK
    <3>2. \A x \in Ids : Used(calls, x) => node'[x].kind = node[x].kind
      BY Zenon, <2>2, <2>9
    <3> QED BY Zenon, <3>1, <3>2, <2>6, <2>7, <2>11, <1>6
  <2>12. QueueOK(node', list', calls', funcs')
    BY Zenon, <2>1, <2>11, <1>1, <1>3, <1>QueueSame
  <2> QED BY Zenon, <2>10, <2>12
<1>12. ASSUME NEW id, NEW unit, AddsData(id, unit)
       PROVE  UNCHANGED list /\ \A x \in Ids : node'[x].kind = node[x].kind
  BY Zenon, <1>12 DEF AddsData, SetData
<1>13. CASE RunsData
  <2>1. /\ NodesOK(node', list', calls', open')
        /\ \A f \in Functors : FuncOK(node, list, calls, f) => FuncOK(node', list', calls', f)
    BY Zenon, <1>7, <1>12, <1>13 DEF RunsData
  <2> QED BY Zenon, <2>1, <1>1, <1>3, <1>13, <1>QueueTail DEF RunsData
<1>14. CASE SendsData
  <2>1. /\ NodesOK(node', list', calls', open')
        /\ \A f \in Functors : FuncOK(node, list, calls, f) => FuncOK(node', list', calls', f)
    BY Zenon, <1>7, <1>12, <1>14 DEF SendsData
  <2> QED BY Zenon, <2>1, <1>1, <1>3, <1>14, <1>QueueSame DEF SendsData
<1>15. CASE QueuesData
  <2>1. PICK id \in open :
          /\ funcs' = Append(funcs, [call |-> "asyncData", id |-> id, unit |-> StreamUnit(id)])
          /\ UNCHANGED <<sendVars, calls, open>>
    BY Zenon, <1>15 DEF QueuesData
  <2> DEFINE g == [call |-> "asyncData", id |-> id, unit |-> StreamUnit(id)]
  <2>2. /\ NodesOK(node', list', calls', open')
        /\ \A f \in Functors : FuncOK(node, list, calls, f) => FuncOK(node', list', calls', f)
    BY Zenon, <2>1, <1>7 DEF sendVars
  <2>3. FuncOK(node', list', calls', g) /\ \A f : InTurn(f, g)
    BY Zenon, <2>1, <1>1, <1>3 DEF sendVars, FuncOK, InTurn, NodesOK, Kinds
  <2>4. g \in Functors
    <3>1. Len(funcs) + 1 \in 1 .. Len(funcs') /\ funcs'[Len(funcs) + 1] = g
      BY <2>1, <1>1, LenProperties, AppendProperties
    <3> QED BY Zenon, <3>1, <1>2, ElementOfSeq
  <2> HIDE DEF g
  <2> QED BY Zenon, <2>1, <2>2, <2>3, <2>4, <1>1, <1>3, <1>QueueAppend DEF g
<1>16. CASE DropsHead
  <2>1. list # <<>> /\ list' = Tail(list) /\ UNCHANGED <<node, funcs, calls, open>>
    BY Zenon, <1>16 DEF DropsHead
  <2>2. Range(list') \subseteq Range(list)
    BY Zenon, <2>1, <1>1, ShorterList
  <2>3. NodesOK(node', list', calls', open')
    BY Zenon, <2>1, <2>2, <1>3 DEF NodesOK
  <2>4. \A f \in Functors : FuncOK(node, list, calls, f) => FuncOK(node', list', calls', f)
    BY Zenon, <2>1, <2>2 DEF FuncOK
  <2> QED BY Zenon, <2>1, <2>3, <2>4, <1>1, <1>3, <1>QueueSame
<1>17. CASE WritesHead
  <2>1. UNCHANGED list /\ \A x \in Ids : node'[x].kind = node[x].kind
    BY Zenon, <1>17 DEF WritesHead, Writes, SetData
  <2>2. /\ NodesOK(node', list', calls', open')
        /\ \A f \in Functors : FuncOK(node, list, calls, f) => FuncOK(node', list', calls', f)
    BY Zenon, <2>1, <1>7, <1>17 DEF WritesHead
  <2> QED BY Zenon, <2>2, <1>1, <1>3, <1>17, <1>QueueSame DEF WritesHead
<1> QED BY Zenon, <1>8, <1>9, <1>10, <1>11, <1>13, <1>14, <1>15, <1>16, <1>17 DEF Step

-----------------------------------------------------------------------------
(* The life of a connection, and its end                                     *)

\* What is in the queue after a step was there before or is new.
LEMMA TailIn ==
  ASSUME NEW s \in Seq(Functors), s # <<>>
  PROVE  \A i \in 1 .. Len(Tail(s)) : \E j \in 1 .. Len(s) : Tail(s)[i] = s[j]
  BY Zenon, Shorter

\* What is in a longer queue was there before, or is the new one.
LEMMA AppendIn ==
  ASSUME NEW s \in Seq(Functors), NEW g \in Functors
  PROVE  \A i \in 1 .. Len(Append(s, g)) :
            Append(s, g)[i] = g \/ \E j \in 1 .. Len(s) : Append(s, g)[i] = s[j]
  BY Longer

\* Who queues a functor, and which
Queueable(g) ==
  /\ g \in Functors /\ g.call # "established"
  /\ g.call = "destroy" => closes > 0
  /\ g.call # "destroy" => status # "Connecting"
  /\ g.call = "forceClose" => Closes
  /\ g.call \in Kinds => g.call \in ThreadKinds /\ ~node'[g.id].done
  /\ g.call \in {"asyncData", "asyncClose"} => g.id \in open

\* The queue changes only where the loop runs its first functor or a call adds one.
LEMMA FuncsChange ==
  ASSUME TypeInv, TypeInv', [Next]_vars
  PROVE  \/ UNCHANGED funcs
         \/ RunFunc /\ funcs # <<>> /\ funcs' = Tail(funcs)
         \/ \E g : Queueable(g) /\ funcs' = Append(funcs, g)
<1>1. CASE UNCHANGED funcs
  BY Zenon, <1>1
<1>2. CASE RunFunc
  BY Zenon, <1>2 DEF RunFunc
<1>3. CASE OwnerCloses
  <2>1. Functor("destroy", NoId) \in Functors /\ Functor("destroy", NoId).call = "destroy"
    BY Zenon, Functored
  <2>2. Queueable(Functor("destroy", NoId))
    BY Zenon, <2>1, <1>3 DEF OwnerCloses, Queueable, Kinds
  <2> QED BY Zenon, <2>2, <1>3 DEF OwnerCloses
<1>4. ASSUME NEW t \in AllThreads, Shutdown(t), ~UNCHANGED funcs
      PROVE  \E g : Queueable(g) /\ funcs' = Append(funcs, g)
  <2>1. Functor("shutdown", NoId) \in Functors /\ Functor("shutdown", NoId).call = "shutdown"
    BY Zenon, Functored
  <2>2. Queueable(Functor("shutdown", NoId))
    BY Zenon, <2>1, <1>4 DEF Shutdown, MayCall, Queueable, Kinds
  <2> QED BY Zenon, <2>2, <1>4 DEF Shutdown
<1>5. ASSUME NEW t \in AllThreads, ForceClose(t), ~UNCHANGED funcs
      PROVE  \E g : Queueable(g) /\ funcs' = Append(funcs, g)
  <2>1. Functor("forceClose", NoId) \in Functors /\ Functor("forceClose", NoId).call = "forceClose"
    BY Zenon, Functored
  <2>2. Queueable(Functor("forceClose", NoId))
    BY Zenon, <2>1, <1>5 DEF ForceClose, MayCall, Queueable, Kinds
  <2> QED BY Zenon, <2>2, <1>5 DEF ForceClose
<1>6. ASSUME NEW t \in AllThreads, NEW id \in Ids, StreamClose(t, id), ~UNCHANGED funcs
      PROVE  \E g : Queueable(g) /\ funcs' = Append(funcs, g)
  <2>1. /\ Functor("asyncClose", id) \in Functors /\ Functor("asyncClose", id).call = "asyncClose"
        /\ Functor("asyncClose", id).id = id
    BY Functored
  <2>2. Queueable(Functor("asyncClose", id))
    BY Zenon, <2>1, <1>6 DEF StreamClose, UsesStream, MayCall, Queueable, Kinds
  <2> QED BY Zenon, <2>2, <1>6 DEF StreamClose
<1>7. ASSUME NEW t \in AllThreads, NEW id \in Ids, StreamSend(t, id), ~UNCHANGED funcs
      PROVE  \E g : Queueable(g) /\ funcs' = Append(funcs, g)
  <2> DEFINE g == [call |-> "asyncData", id |-> id, unit |-> Unit(id, asyncSent[id] + 1)]
  <2>1. funcs' = Append(funcs, g)
    BY Zenon, <1>7 DEF StreamSend
  <2>2. funcs \in Seq(Functors) /\ funcs' \in Seq(Functors)
    BY Zenon DEF TypeInv
  <2>3. Len(funcs) + 1 \in 1 .. Len(funcs') /\ funcs'[Len(funcs) + 1] = g
    BY SMTT(60), <2>1, <2>2, LenProperties, AppendProperties
  <2>4. g \in Functors
    BY Zenon, <2>2, <2>3, ElementOfSeq
  <2>5. Queueable(g)
    BY Zenon, <2>4, <1>7 DEF StreamSend, UsesStream, MayCall, Queueable, Kinds
  <2> QED BY Zenon, <2>1, <2>5
<1>8. ASSUME NEW t \in Threads, NEW kind \in Kinds, SendQueued(t, kind)
      PROVE  \E g : Queueable(g) /\ funcs' = Append(funcs, g)
  <2> DEFINE id == <<t, calls[t] + 1>>  g == Functor(kind, id)
  <2>1. id \in Ids /\ node'[id] = NewNode(kind, id)
    <3>1. calls[t] < MaxCalls /\ node' = WithNode(kind, t)
      BY Zenon, <1>8 DEF SendQueued, WithNode, Fresh
    <3> QED BY Zenon, <3>1, FreshFacts DEF AllThreads, Fresh
  <2>2. g \in Functors /\ g.call = kind /\ g.id = id
    BY ZenonT(30), <2>1, Functored
  <2>3. ~node'[id].done
    BY <2>1 DEF NewNode
  <2>4. Queueable(g)
    BY Zenon, <2>2, <2>3, <1>8 DEF SendQueued, MayCall, Queueable, Kinds
  <2>5. funcs' = Append(funcs, g)
    BY Zenon, <1>8 DEF SendQueued
  <2> QED BY Zenon, <2>4, <2>5
<1>9. CASE UNCHANGED vars
  BY Zenon, <1>9 DEF vars
<1>10. ASSUME NEW kind \in Kinds, Send(kind) PROVE UNCHANGED funcs
  BY Zenon, <1>10 DEF Send
<1>11. CASE WriteCallback \/ CloseCallback \/ ReadOrHangUp \/ WriteNext \/ WriteNode \/ WriteEnds
  BY Zenon, <1>11 DEF WriteCallback, CloseCallback, ReadOrHangUp, WriteNext, WriteNode, WriteEnds
<1> QED BY Zenon, <1>1, <1>2, <1>3, <1>4, <1>5, <1>6, <1>7, <1>8, <1>9, <1>10, <1>11 DEF Next, User, LoopStep

\* What the step does to the status and to the events
LEMMA ShutdownStatus ==
  ASSUME NEW e, ShutdownInLoop(e)
  PROVE  \/ UNCHANGED status
         \/ status = "Connected" /\ status' = "Disconnecting"
  BY Zenon DEF ShutdownInLoop

\* Every step keeps LifeInv.
LEMMA LifeStep ==
  ASSUME TypeInv, TypeInv', LifeInv, [Next]_vars
  PROVE  LifeInv'
<1>1. funcs \in Seq(Functors)
  BY Zenon DEF TypeInv
<1>2. CASE status = "Connecting"
  <2>1. /\ funcs = <<Functor("established", NoId)>> /\ lpc = "idle" /\ list = <<>>
        /\ events = {} /\ closes = 0
    BY Zenon, <1>2 DEF LifeInv
  <2>2. Head(funcs) = Functor("established", NoId) /\ Tail(funcs) = <<>>
    BY <2>1
  <2>3. Head(funcs).call = "established"
    BY Zenon, <2>2, Functored
  <2>4. CASE RunFunc
    <3>1. status' = "Connected" /\ lpc' = lpc /\ funcs' = <<>>
      BY Zenon, <2>2, <2>3, <2>4 DEF RunFunc, Established, Kinds
    <3> QED BY <3>1, <2>1 DEF LifeInv
  <2>5. CASE UNCHANGED vars
    BY Zenon, <2>5, <1>2, <2>1 DEF LifeInv, vars, sendVars
  <2>6. ~(\E t \in AllThreads : MayCall(t))
    BY Zenon, <1>2 DEF MayCall
  <2>7. ~User
    BY ZenonT(30), <2>6, <1>2 DEF User, Send, SendQueued, Shutdown, ForceClose, StreamSend, StreamClose, UsesStream, MayCall
  <2>8. ~WriteCallback /\ ~WriteNext /\ ~WriteNode /\ ~WriteEnds /\ ~CloseCallback /\ ~OwnerCloses /\ ~ReadOrHangUp
    BY <2>1 DEF WriteCallback, WriteNext, WriteNode, WriteEnds, CloseCallback, OwnerCloses, ReadOrHangUp
  <2> QED BY Zenon, <2>4, <2>5, <2>7, <2>8 DEF Next, LoopStep
<1>3. CASE status # "Connecting"
  <2>1. \A i \in 1 .. Len(funcs) : funcs[i].call # "established"
    BY Zenon, <1>3 DEF LifeInv
  <2>2. \A i \in 1 .. Len(funcs') : funcs'[i].call # "established"
    <3>1. CASE funcs # <<>> /\ funcs' = Tail(funcs)
      BY Zenon, <3>1, <2>1, <1>1, TailIn
    <3>2. ASSUME NEW g, Queueable(g), funcs' = Append(funcs, g)
          PROVE  \A i \in 1 .. Len(funcs') : funcs'[i].call # "established"
      <4>1. g \in Functors /\ g.call # "established"
        BY Zenon, <3>2 DEF Queueable
      <4> QED BY Zenon, <4>1, <3>2, <2>1, <1>1, AppendIn
    <3> QED BY Zenon, <3>1, <3>2, <2>1, FuncsChange
  <2>3. funcs # <<>> => Head(funcs).call # "established"
    BY Zenon, <2>1, HeadFunc
  <2> DEFINE P == /\ status' # "Connecting" /\ (lpc' = "writeCallback" => "write" \in events')
                  /\ (lpc' = "closeCallback" => status' = "Disconnected")
  <2> SUFFICES P
    BY Zenon, <2>2 DEF LifeInv
  <2>4. /\ lpc = "writeCallback" => "write" \in events
        /\ lpc = "closeCallback" => status = "Disconnected"
    BY Zenon DEF LifeInv
  <2>5. CASE UNCHANGED <<status, lpc, events>>
    BY Zenon, <2>4, <2>5, <1>3
  <2>6. CASE WriteCallback
    BY Zenon, <2>4, <2>6, <1>3 DEF WriteCallback
  <2>7. CASE CloseCallback
    BY Zenon, <2>7, <1>3 DEF CloseCallback
  <2>8. CASE ReadOrHangUp
    BY Zenon, <2>8 DEF ReadOrHangUp, HandleClose
  <2>9. CASE WriteEnds
    BY Zenon, <2>9, <1>3, ShutdownStatus DEF WriteEnds
  <2>10. CASE WriteNext
    BY Zenon, <2>10, <2>4, <1>3 DEF WriteNext
  <2>11. CASE WriteNode
    <3>1. events' = events \/ events' = events \cup {"write"}
      BY Zenon, <2>11, HeadWrites
    <3> QED BY Zenon, <3>1, <2>4, <2>11, <1>3 DEF WriteNode
  <2>12. ASSUME NEW t \in AllThreads, Shutdown(t) PROVE P
    BY Zenon, <2>4, <2>12, <1>3, ShutdownStatus DEF Shutdown
  <2>13. ASSUME NEW t \in AllThreads, ForceClose(t) PROVE P
    BY Zenon, <2>4, <2>13, <1>3 DEF ForceClose, ForceCloseInLoop, HandleClose
  <2>14. ASSUME events' = events \/ events' = events \cup {"write"}, UNCHANGED <<status, lpc>>
         PROVE  P
    BY Zenon, <2>4, <2>14, <1>3
  <2>15. ASSUME NEW t \in AllThreads, NEW id \in Ids, StreamSend(t, id) \/ StreamClose(t, id) PROVE P
    BY Zenon, <2>14, <2>15, SendEvents DEF StreamSend, StreamClose
  <2>16. ASSUME NEW kind \in Kinds, Send(kind) PROVE P
    BY Zenon, <2>14, <2>16, SendEvents DEF Send
  <2>17. ASSUME NEW t \in Threads, NEW kind \in Kinds, SendQueued(t, kind) PROVE P
    BY Zenon, <2>5, <2>17 DEF SendQueued
  <2>18. CASE OwnerCloses \/ UNCHANGED vars
    BY Zenon, <2>5, <2>18 DEF OwnerCloses, vars
  <2>19. CASE RunFunc
    <3> DEFINE f == Head(funcs)
    <3>0. f.call # "established" /\ lpc = "idle"
      BY Zenon, <2>3, <2>19 DEF RunFunc
    <3>1. CASE ConnectDestroyed /\ UNCHANGED lpc
      BY Zenon, <3>0, <3>1, <1>3 DEF ConnectDestroyed
    <3>2. CASE /\ \/ SendInLoop(node, f.id) \/ SendNodeInLoop(node, f.id)
                  \/ PushAsyncQueued(node, f.id) \/ AsyncData(f.id, f.unit) \/ AsyncClose(f.id)
               /\ UNCHANGED <<status, lpc>>
      BY Zenon, <3>2, <2>14, SendEvents
    <3>3. CASE ShutdownInLoop(events) /\ UNCHANGED <<events, lpc>>
      BY Zenon, <3>0, <3>3, <1>3, ShutdownStatus
    <3>4. CASE ForceCloseInLoop
      BY Zenon, <3>0, <3>4, <1>3 DEF ForceCloseInLoop, HandleClose
    <3> HIDE DEF P
    <3> QED BY Zenon, <3>0, <3>1, <3>2, <3>3, <3>4, <2>19 DEF RunFunc
  <2> HIDE DEF P
  <2> QED BY Zenon, <2>6, <2>7, <2>8, <2>9, <2>10, <2>11, <2>12, <2>13, <2>15, <2>16, <2>17, <2>18, <2>19
          DEF Next, User, LoopStep
<1> QED BY Zenon, <1>2, <1>3

\* A connection that closes and carries messages only has no other functors.
LEMMA CloseStep ==
  MessagesOnly /\ TypeInv /\ TypeInv' /\ IdsInv /\ LifeInv /\ CloseInv /\ [Next]_vars => CloseInv'
\* closes only grows.
<1>ClosesGrows. ASSUME TypeInv, [Next]_vars
                PROVE  UNCHANGED closes \/ CloseCallback
  <2> USE <1>ClosesGrows
  <2>1. ~CloseCallback => UNCHANGED closes
    BY Zenon DEF Next, User, LoopStep, vars, Send, SendQueued, Shutdown, ForceClose, StreamSend, StreamClose,
           RunFunc, WriteCallback, WriteNext, WriteNode, WriteEnds, OwnerCloses, ReadOrHangUp
  <2> QED BY Zenon, <2>1
<1> SUFFICES ASSUME MessagesOnly, TypeInv, TypeInv', IdsInv, LifeInv, CloseInv, [Next]_vars
             PROVE  CloseInv'
  BY Zenon
<1>1. /\ funcs \in Seq(Functors) /\ closes \in 0 .. 2 /\ closes <= 1
      /\ lpc = "closeCallback" => closes = 0
      /\ closes > 0 => status = "Disconnected"
      /\ status = "Disconnected" => events = {} /\ Closes
      /\ removed => closes > 0
      /\ open # {} => "async" \in UsedKinds
      /\ \A i \in 1 .. Len(funcs) : FuncCloses(closes, funcs[i])
  BY Zenon DEF TypeInv, TypeOK, CloseInv
<1>2. /\ lpc = "writeCallback" => "write" \in events
      /\ lpc = "closeCallback" => status = "Disconnected"
      /\ status # "Connecting" => \A i \in 1 .. Len(funcs) : funcs[i].call # "established"
      /\ status = "Connecting" => closes = 0 /\ lpc = "idle"
  BY Zenon DEF LifeInv
<1>3. status = "Disconnected" => UsedKinds \subseteq {"mem"} /\ open = {}
  BY Zenon, <1>1 DEF MessagesOnly
<1>4. closes' = closes \/ closes' = closes + 1
  BY Zenon, <1>1, <1>ClosesGrows DEF CloseCallback
<1>5. \A i \in 1 .. Len(funcs') : FuncCloses(closes', funcs'[i])
  <2>1. \A f : FuncCloses(closes, f) => FuncCloses(closes', f)
    <3>1. closes > 0 => closes' > 0
      BY <1>1, <1>4
    <3> QED BY Zenon, <3>1 DEF FuncCloses
  <2>2. CASE funcs # <<>> /\ funcs' = Tail(funcs)
    BY Zenon, <2>1, <2>2, <1>1, TailIn
  <2>3. ASSUME NEW g, Queueable(g), funcs' = Append(funcs, g)
        PROVE  \A i \in 1 .. Len(funcs') : FuncCloses(closes', funcs'[i])
    <3>1. g \in Functors /\ FuncCloses(closes, g)
      BY Zenon, <2>3, <1>1 DEF Queueable, FuncCloses, UsedKinds
    <3> QED BY ZenonT(30), <3>1, <2>1, <2>3, <1>1, AppendIn
  <2> QED BY Zenon, <2>1, <2>2, <2>3, <1>1, FuncsChange
<1>6. open' # {} => "async" \in UsedKinds
  <2>1. CASE open' \subseteq open
    BY Zenon, <2>1, <1>1
  <2>2. ASSUME NEW t \in Threads, NEW kind \in Kinds, SendQueued(t, kind)
        PROVE  open' # {} => "async" \in UsedKinds
    BY Zenon, <2>2, <1>1 DEF SendQueued, UsedKinds
  <2>3. ASSUME NEW kind \in Kinds, Send(kind)
        PROVE  open' # {} => "async" \in UsedKinds
    BY Zenon, <2>3, <1>1 DEF Send, UsedKinds
  <2>4. \/ open' \subseteq open
        \/ \E kind \in Kinds : Send(kind) \/ \E t \in Threads : SendQueued(t, kind)
    BY Zenon DEF Next, User, LoopStep, vars, userVars, Shutdown, ForceClose, StreamSend, StreamClose,
           RunFunc, WriteCallback, WriteNext, WriteNode, WriteEnds, OwnerCloses, ReadOrHangUp, CloseCallback
  <2> QED BY Zenon, <2>1, <2>2, <2>3, <2>4
<1> DEFINE P == /\ closes' <= 1
                /\ lpc' = "closeCallback" => closes' = 0
                /\ closes' > 0 => status' = "Disconnected"
                /\ status' = "Disconnected" => events' = {} /\ Closes
                /\ removed' => closes' > 0
<1> SUFFICES P
  BY Zenon, <1>5, <1>6 DEF CloseInv
<1>7. CASE CloseCallback
  <2>1. closes' = 1 /\ lpc' = "idle" /\ UNCHANGED <<status, events, removed>> /\ status = "Disconnected"
    BY <1>1, <1>2, <1>7 DEF CloseCallback
  <2> QED BY <2>1, <1>1
<1>8. ASSUME UNCHANGED <<closes, removed>>, HandleClose, closes = 0, Closes PROVE P
  BY Zenon, <1>1, <1>8 DEF HandleClose
<1>9. ASSUME UNCHANGED <<closes, removed, status, lpc, events>> PROVE P
  BY Zenon, <1>1, <1>9
<1>10. ASSUME UNCHANGED <<closes, removed, status, lpc>>, status # "Disconnected" PROVE P
  BY Zenon, <1>1, <1>10
<1>11. ASSUME NEW e, UNCHANGED <<closes, removed>>, ShutdownInLoop(e),
              lpc' = lpc \/ lpc' = "idle", events' \subseteq events
       PROVE  P
  <2>1. CASE UNCHANGED status
    BY Zenon, <2>1, <1>1, <1>11
  <2>2. CASE status = "Connected" /\ status' = "Disconnecting"
    BY Zenon, <2>2, <1>1, <1>2, <1>11
  <2> QED BY Zenon, <2>1, <2>2, <1>11, ShutdownStatus
<1>12. ASSUME UNCHANGED <<closes, removed>>, ForceCloseInLoop, Closes PROVE P
  <2>1. CASE MayForceClose /\ HandleClose
    <3>1. closes = 0
      BY <2>1, <1>1 DEF MayForceClose
    <3> QED BY Zenon, <3>1, <2>1, <1>8, <1>12
  <2>2. CASE UNCHANGED <<status, events, lpc>>
    BY Zenon, <2>2, <1>9, <1>12
  <2> QED BY Zenon, <2>1, <2>2, <1>12 DEF ForceCloseInLoop
<1>13. CASE ReadOrHangUp
  <2>1. closes = 0
    BY <1>1, <1>13 DEF ReadOrHangUp
  <2> QED BY Zenon, <2>1, <1>8, <1>13 DEF ReadOrHangUp
<1>14. CASE WriteCallback
  BY Zenon, <1>1, <1>14 DEF WriteCallback
<1>15. CASE WriteEnds
  <2>1. UNCHANGED <<closes, removed>> /\ lpc' = "idle" /\ events' \subseteq events
    BY Zenon, <1>15 DEF WriteEnds
  <2>2. CASE ShutdownInLoop(events')
    BY Zenon, <2>1, <2>2, <1>11
  <2>3. CASE UNCHANGED status
    BY Zenon, <2>1, <2>3, <1>1
  <2> QED BY Zenon, <2>2, <2>3, <1>15 DEF WriteEnds
<1>16. CASE WriteNext \/ WriteNode
  <2>1. status # "Disconnected" /\ UNCHANGED <<status, removed, closes>> /\ (lpc' = lpc \/ lpc' = "idle")
    BY Zenon, <1>1, <1>2, <1>16 DEF WriteNext, WriteNode
  <2> QED BY Zenon, <2>1, <1>1
<1>17. ASSUME NEW t \in AllThreads, Shutdown(t) PROVE P
  <2>1. UNCHANGED <<closes, removed, lpc, events>>
    BY Zenon, <1>17 DEF Shutdown
  <2>2. CASE ShutdownInLoop(events)
    BY Zenon, <2>1, <2>2, <1>11
  <2>3. CASE UNCHANGED status
    BY Zenon, <2>1, <2>3, <1>9
  <2> QED BY Zenon, <2>2, <2>3, <1>17 DEF Shutdown
<1>18. ASSUME NEW t \in AllThreads, ForceClose(t) PROVE P
  BY Zenon, <1>9, <1>12, <1>18 DEF ForceClose
<1>19. ASSUME NEW t \in AllThreads, NEW id \in Ids, StreamSend(t, id) \/ StreamClose(t, id) PROVE P
  <2>1. UNCHANGED <<closes, removed, status, lpc>> /\ id \in open
    BY Zenon, <1>19 DEF StreamSend, StreamClose, UsesStream
  <2> QED BY Zenon, <2>1, <1>3, <1>10
<1>20. ASSUME NEW t \in Threads, NEW kind \in Kinds, SendQueued(t, kind) PROVE P
  BY Zenon, <1>9, <1>20 DEF SendQueued
<1>21. ASSUME NEW kind \in Kinds, Send(kind) PROVE P
  <2>1. UNCHANGED <<closes, removed, status, lpc>> /\ kind \in UsedKinds
    BY Zenon, <1>21 DEF Send, UsedKinds
  <2>2. CASE status = "Disconnected"
    <3>1. kind = "mem"
      BY Zenon, <2>1, <2>2, <1>3
    <3>2. UNCHANGED events
      BY Zenon, <3>1, <2>2, <1>21 DEF Send, SendInLoop
    <3> QED BY Zenon, <3>2, <2>1, <1>9
  <2> QED BY Zenon, <2>1, <2>2, <1>10
<1>22. CASE OwnerCloses \/ UNCHANGED vars
  BY Zenon, <1>9, <1>22 DEF OwnerCloses, vars
<1>23. CASE RunFunc
  <2> DEFINE f == Head(funcs)
  <2>0. lpc = "idle" /\ funcs # <<>> /\ UNCHANGED closes
    BY Zenon, <1>23 DEF RunFunc
  <2>1. FuncCloses(closes, f) /\ (status # "Connecting" => f.call # "established")
    BY Zenon, <2>0, <1>1, <1>2, HeadFunc
  <2>2. CASE f.call = "established" /\ Established /\ UNCHANGED <<removed, lpc>>
    <3>1. status' = "Connected" /\ closes = 0
      BY Zenon, <2>1, <2>2, <1>2 DEF Established
    <3> QED BY <3>1, <2>0, <2>2, <1>1
  <2>3. CASE f.call = "destroy" /\ ConnectDestroyed /\ UNCHANGED lpc
    <3>1. closes > 0 /\ status = "Disconnected" /\ events = {} /\ Closes
      BY Zenon, <2>1, <2>3, <1>1 DEF FuncCloses
    <3>2. status' = "Disconnected" /\ events' = {}
      BY Zenon, <3>1, <2>3 DEF ConnectDestroyed
    <3> QED BY Zenon, <3>1, <3>2, <2>0, <2>3, <1>1
  <2>4. CASE f.call = "mem" /\ SendInLoop(node, f.id) /\ UNCHANGED <<status, removed, lpc>>
    <3>1. CASE status = "Disconnected"
      <4>1. UNCHANGED events
        BY Zenon, <3>1, <2>4 DEF SendInLoop
      <4> QED BY Zenon, <4>1, <2>0, <2>4, <1>9
    <3> QED BY Zenon, <3>1, <2>0, <2>4, <1>10
  <2>5. CASE /\ f.call \in {"file", "stream", "async", "asyncData", "asyncClose"}
             /\ UNCHANGED <<status, removed, lpc>>
    <3>1. ~(UsedKinds \subseteq {"mem"})
      BY Zenon, <2>1, <2>5 DEF FuncCloses, Kinds
    <3> QED BY Zenon, <3>1, <2>0, <2>5, <1>3, <1>10
  <2>6. CASE ShutdownInLoop(events) /\ UNCHANGED <<events, removed, lpc>>
    BY Zenon, <2>0, <2>6, <1>11
  <2>7. CASE f.call = "forceClose" /\ ForceCloseInLoop /\ UNCHANGED removed
    BY Zenon, <2>0, <2>1, <2>7, <1>12 DEF FuncCloses
  <2> HIDE DEF P
  <2> QED BY Zenon, <2>2, <2>3, <2>4, <2>5, <2>6, <2>7, <1>23 DEF RunFunc
<1> HIDE DEF P
<1> QED BY Zenon, <1>7, <1>13, <1>14, <1>15, <1>16, <1>17, <1>18, <1>19, <1>20, <1>21, <1>22, <1>23
        DEF Next, User, LoopStep

-----------------------------------------------------------------------------
(* Data that waits for the socket                                            *)

\* NoStuckData of a connection that is up, while its loop is idle
NotStuck(nd, l, e, ea) ==
  l # <<>> /\ "write" \notin e =>
    /\ nd[Head(l)].kind = "async" /\ nd[Head(l)].data = <<>>
    /\ nd[Head(l)].done => Head(l) \in ea

\* Every step keeps StuckInv.
LEMMA StuckStep ==
  TypeInv /\ TypeInv' /\ IdsInv /\ LifeInv /\ StuckInv /\ [Next]_vars => StuckInv'
\* NoStuckData in terms of NotStuck
<1>StuckIs. NoStuckData <=> (status = "Connected" /\ lpc = "idle" => NotStuck(node, list, events, early))
  BY Zenon DEF NoStuckData, NotStuck, Remaining
\* A send leaves no data behind that nobody will write.
<1>SendsStuck. ASSUME TypeInv, NEW nd \in [Ids -> BufferNodes], NEW id \in Ids, NEW D \in Seq(Units),
                      id \notin Range(list), NotStuck(nd, list, events, early), Sends(nd, id, D),
                      nd[id].kind = "async" /\ nd[id].done => id \in early
               PROVE  NotStuck(node', list', events', early)
  <2> USE <1>SendsStuck
  <2>1. list \in Seq(Ids)
    BY Zenon DEF TypeInv, TypeOK
  <2>2. PICK n \in 0 .. Len(D) :
          /\ events' = events \/ events' = events \cup {"write"}
          /\ Lost(nd, id, D, n) \/ Listed(nd, id, D, n) \/ Merged(nd, id, D, n)
    BY Zenon DEF Sends
  <2>3. CASE list = <<>>
    <3>1. CASE Lost(nd, id, D, n) \/ Merged(nd, id, D, n)
      BY Zenon, <3>1, <2>3 DEF Lost, Merged, NotStuck
    <3>2. CASE Listed(nd, id, D, n)
      <4>1. list' = <<id>> /\ Head(list') = id
        BY <3>2, <2>3 DEF Listed
      <4>2. /\ node'[id].data = Rest(D, n) /\ node'[id].kind = nd[id].kind /\ node'[id].done = nd[id].done
        BY Zenon, <3>2 DEF Listed, SetData
      <4>3. "write" \in events' \/ (nd[id].kind = "async" /\ Rest(D, n) = <<>>)
        BY Zenon, <3>2, <2>3 DEF Listed
      <4> QED BY Zenon, <4>1, <4>2, <4>3 DEF NotStuck
    <3> QED BY Zenon, <3>1, <3>2, <2>2
  <2>4. CASE list # <<>> /\ "write" \in events
    BY Zenon, <2>2, <2>4 DEF NotStuck
  <2>5. CASE list # <<>> /\ "write" \notin events
    <3> DEFINE h == Head(list)
    <3>1. h \in Ids /\ h # id
      BY <2>1, <2>5, Shorter, RangeIs
    <3>2. nd[h].kind = "async" /\ nd[h].data = <<>> /\ (nd[h].done => h \in early)
      BY Zenon, <2>5 DEF NotStuck
    <3>3. Head(list') = h
      <4>1. Head(Append(list, id)) = h
        BY SMTT(60), <2>1, <2>5, Shorter, Longer
      <4> QED BY Zenon, <4>1, <2>2 DEF Lost, Listed, Merged
    <3>4. node'[h].kind = nd[h].kind /\ node'[h].data = nd[h].data /\ node'[h].done = nd[h].done
      BY Zenon, <3>1, <3>2, <2>2 DEF Lost, Listed, Merged, SetData
    <3> QED BY Zenon, <3>2, <3>3, <3>4 DEF NotStuck
  <2> QED BY Zenon, <2>3, <2>4, <2>5
\* Nor does a unit of an async stream
<1>DataStuck. ASSUME TypeInv, NEW id \in Ids, NEW unit \in Units, AsyncData(id, unit), NotStuck(node, list, events, early)
              PROVE  /\ NotStuck(node', list', events', early)
                     /\ \A x \in Ids : node'[x].kind = node[x].kind /\ node'[x].done = node[x].done
  <2> USE <1>DataStuck
  <2>1. UNCHANGED list /\ (events' = events \/ events' = events \cup {"write"})
    BY Zenon, DataCases DEF AddsData
  <2>2. \A x \in Ids : node'[x].kind = node[x].kind /\ node'[x].done = node[x].done
    BY Zenon, DataCases DEF AddsData, SetData
  <2> SUFFICES NotStuck(node', list', events', early)
    BY Zenon, <2>2
  <2>3. CASE UNCHANGED node
    BY Zenon, <2>1, <2>3 DEF NotStuck
  <2>4. CASE "write" \in events'
    BY Zenon, <2>4 DEF NotStuck
  <2>5. CASE /\ node' = [node EXCEPT ![id].data = Append(@, unit)] /\ UNCHANGED events
             /\ ~(list # <<>> /\ Head(list) = id /\ ~Remaining(id))
    <3>1. CASE list = <<>> \/ "write" \in events
      BY Zenon, <3>1, <2>1 DEF NotStuck
    <3>2. CASE list # <<>> /\ "write" \notin events
      <4>1. node[Head(list)].data = <<>>
        BY Zenon, <3>2 DEF NotStuck
      <4>2. Head(list) # id
        BY Zenon, <4>1, <3>2, <2>5 DEF Remaining
      <4>3. list \in Seq(Ids) /\ node \in [Ids -> BufferNodes]
        BY Zenon DEF TypeInv, TypeOK, BufferNodes
      <4>4. Head(list) \in Ids
        BY Zenon, <4>3, <3>2, Shorter
      <4>5. node'[Head(list)] = node[Head(list)]
        BY Zenon, <4>2, <4>3, <4>4, <2>5
      <4> QED BY Zenon, <4>5, <2>1, <2>5 DEF NotStuck
    <3> QED BY Zenon, <3>1, <3>2
  <2>6. UNCHANGED node \/ "write" \in events'
        \/ (/\ node' = [node EXCEPT ![id].data = Append(@, unit)] /\ UNCHANGED events
            /\ ~(list # <<>> /\ Head(list) = id /\ ~Remaining(id)))
    BY Zenon DEF AsyncData, EnableIf
  <2> QED BY Zenon, <2>3, <2>4, <2>5, <2>6
\* nor the end of one, unless it comes early.
<1>CloseStuck. ASSUME TypeInv, NEW id \in Ids, AsyncClose(id)
               PROVE  /\ NotStuck(node, list, events, early) => NotStuck(node', list', events', early')
                      /\ early \subseteq early' /\ (id \notin Range(list) => id \in early')
  <2> USE <1>CloseStuck
  <2>1. early \subseteq early' /\ (id \notin Range(list) => id \in early')
    BY Zenon DEF AsyncClose
  <2>2. /\ UNCHANGED list /\ SameData /\ \A x \in Ids : x # id => node'[x].done = node[x].done
        /\ events' = events \/ events' = events \cup {"write"}
    BY Zenon, AsyncClosed
  <2> SUFFICES ASSUME NotStuck(node, list, events, early)
               PROVE  NotStuck(node', list', events', early')
    BY Zenon, <2>1
  <2>3. CASE list # <<>> /\ Head(list) = id
    BY Zenon, <2>2, <2>3 DEF NotStuck, AsyncClose, EnableIf
  <2>4. CASE list = <<>>
    BY Zenon, <2>2, <2>4 DEF NotStuck
  <2>5. CASE list # <<>> /\ Head(list) # id
    <3>1. Head(list) \in Ids
      BY Zenon, <2>5, Shorter DEF TypeInv, TypeOK
    <3> QED BY Zenon, <3>1, <2>1, <2>2, <2>5 DEF NotStuck, SameData
  <2> QED BY Zenon, <2>3, <2>4, <2>5
<1> SUFFICES ASSUME TypeInv, TypeInv', IdsInv, LifeInv, StuckInv, [Next]_vars
             PROVE  StuckInv'
  BY Zenon
<1>1. /\ funcs \in Seq(Functors) /\ list \in Seq(Ids) /\ node \in [Ids -> BufferNodes]
      /\ status = "Connected" /\ lpc = "idle" => NotStuck(node, list, events, early)
      /\ \A i \in 1 .. Len(funcs) : ClosedEarly(node, early, funcs[i]) /\ FuncOK(node, list, calls, funcs[i])
  BY Zenon, <1>StuckIs DEF TypeInv, TypeOK, BufferNodes, StuckInv, IdsInv
<1>2. /\ lpc = "writeCallback" => "write" \in events
      /\ lpc = "closeCallback" => status = "Disconnected"
      /\ status # "Connecting" => \A i \in 1 .. Len(funcs) : funcs[i].call # "established"
      /\ status = "Connecting" => list = <<>>
  BY Zenon DEF LifeInv
<1> DEFINE P == status' = "Connected" /\ lpc' = "idle" => NotStuck(node', list', events', early')
           Q == \A f \in Functors : FuncOK(node, list, calls, f) /\ ClosedEarly(node, early, f) =>
                                      ClosedEarly(node', early', f)
<1>3. SUFFICES P /\ Q
  <2>1. (NoStuckData <=> (status = "Connected" /\ lpc = "idle" => NotStuck(node, list, events, early)))'
    BY <1>StuckIs, PTL
  <2>2. NoStuckData'
    BY Zenon, <2>1, <1>3
  <2>3. \A i \in 1 .. Len(funcs) : ClosedEarly(node', early', funcs[i])
    BY Zenon, <1>1, <1>3, ElementOfSeq
  <2>4. \A i \in 1 .. Len(funcs') : ClosedEarly(node', early', funcs'[i])
    <3>1. CASE funcs # <<>> /\ funcs' = Tail(funcs)
      BY Zenon, <3>1, <2>3, <1>1, TailIn
    <3>2. ASSUME NEW g, Queueable(g), funcs' = Append(funcs, g)
          PROVE  \A i \in 1 .. Len(funcs') : ClosedEarly(node', early', funcs'[i])
      <4>1. g \in Functors /\ ClosedEarly(node', early', g)
        BY Zenon, <3>2 DEF Queueable, ClosedEarly, Kinds
      <4>2. \A i \in 1 .. Len(Append(funcs, g)) :
              Append(funcs, g)[i] = g \/ \E j \in 1 .. Len(funcs) : Append(funcs, g)[i] = funcs[j]
        <5>1. funcs \in Seq(Functors)
          BY Zenon, <1>1
        <5> QED BY Zenon, <5>1, <4>1, AppendIn
      <4> QED BY Zenon, <4>1, <4>2, <3>2, <2>3
    <3> QED BY Zenon, <3>1, <3>2, <2>3, FuncsChange
  <2> QED BY Zenon, <2>2, <2>4 DEF StuckInv
<1>4. ASSUME UNCHANGED <<node, early>> PROVE Q
  BY Zenon, <1>4 DEF ClosedEarly
<1>5. ASSUME UNCHANGED early, \A x \in Ids : node'[x].done = node[x].done PROVE Q
  BY Zenon, <1>5 DEF ClosedEarly, FuncOK, Kinds
<1>6. ASSUME UNCHANGED <<node, list, events, early>>,
             status' = "Connected" /\ lpc' = "idle" => status = "Connected" /\ lpc = "idle"
      PROVE  P
  BY Zenon, <1>1, <1>6
<1>7. ASSUME NEW e, ShutdownInLoop(e) PROVE status' = "Connected" => status = "Connected"
  BY Zenon, <1>7, ShutdownStatus
<1>8. CASE WriteCallback \/ CloseCallback \/ ReadOrHangUp
  <2>1. UNCHANGED <<node, list, early>>
    BY Zenon, <1>8 DEF WriteCallback, CloseCallback, ReadOrHangUp, sendVars
  <2>2. ~(status' = "Connected" /\ lpc' = "idle")
    BY Zenon, <1>2, <1>8 DEF WriteCallback, CloseCallback, ReadOrHangUp, HandleClose
  <2> QED BY Zenon, <2>1, <2>2, <1>4
<1>9. CASE WriteEnds
  <2>1. UNCHANGED <<node, list, early>> /\ list = <<>>
    BY Zenon, <1>9 DEF WriteEnds, sendVars
  <2> QED BY Zenon, <2>1, <1>4 DEF NotStuck
<1>10. CASE WriteNext
  <2>1. UNCHANGED <<node, early>>
    BY Zenon, <1>10 DEF WriteNext
  <2>2. CASE UNCHANGED lpc
    BY Zenon, <2>1, <2>2, <1>4, <1>10 DEF WriteNext
  <2>3. CASE /\ UNCHANGED list /\ node[Head(list)].kind = "async" /\ ~node[Head(list)].done
             /\ ~Remaining(Head(list))
    BY Zenon, <2>1, <2>3, <1>4 DEF NotStuck, Remaining
  <2> QED BY Zenon, <2>2, <2>3, <1>10 DEF WriteNext
<1>11. CASE WriteNode
  <2>1. /\ events' = events \/ events' = events \cup {"write"}
        /\ Head(list) \in Ids /\ Writes(Head(list))
    BY Zenon, <1>11, HeadWrites
  <2>2. "write" \in events' /\ UNCHANGED early
    BY Zenon, <2>1, <1>2, <1>11 DEF WriteNode
  <2>3. \A x \in Ids : node'[x].done = node[x].done
    BY Zenon, <2>1 DEF Writes, SetData
  <2> QED BY Zenon, <2>2, <2>3, <1>5 DEF NotStuck
<1>12. ASSUME NEW t \in AllThreads, Shutdown(t) PROVE P /\ Q
  <2>1. UNCHANGED <<node, list, events, early, lpc>> /\ (status' = "Connected" => status = "Connected")
    BY Zenon, <1>7, <1>12 DEF Shutdown, sendVars
  <2> QED BY Zenon, <2>1, <1>4, <1>6
<1>13. ASSUME ForceCloseInLoop, UNCHANGED <<node, list, early>> PROVE P /\ Q
  <2>1. CASE HandleClose
    BY Zenon, <2>1, <1>4, <1>13 DEF HandleClose
  <2>2. CASE UNCHANGED <<status, events, lpc>>
    BY Zenon, <2>2, <1>4, <1>6, <1>13
  <2> QED BY Zenon, <2>1, <2>2, <1>13 DEF ForceCloseInLoop
<1>14. ASSUME NEW t \in AllThreads, ForceClose(t) PROVE P /\ Q
  BY Zenon, <1>4, <1>6, <1>13, <1>14 DEF ForceClose, sendVars
<1>15. ASSUME NEW id \in Ids, AsyncClose(id), UNCHANGED <<status, lpc>> PROVE P /\ Q
  <2>1. P
    BY Zenon, <1>1, <1>15, <1>CloseStuck
  <2>2. ASSUME NEW f \in Functors, FuncOK(node, list, calls, f), ClosedEarly(node, early, f)
        PROVE  ClosedEarly(node', early', f)
    <3>1. f.call = "async" => f.id \in Ids /\ f.id \notin Range(list)
      BY Zenon, <2>2 DEF FuncOK, Kinds
    <3>2. early \subseteq early' /\ (id \notin Range(list) => id \in early')
      BY Zenon, <1>15, <1>CloseStuck
    <3>3. \A x \in Ids : x # id => node'[x].done = node[x].done
      BY Zenon, <1>15, AsyncClosed
    <3> QED BY Zenon, <3>1, <3>2, <3>3, <2>2 DEF ClosedEarly
  <2> QED BY Zenon, <2>1, <2>2
<1>16. ASSUME NEW t \in AllThreads, NEW id \in Ids, StreamClose(t, id) PROVE P /\ Q
  <2>1. UNCHANGED <<status, lpc>>
    BY Zenon, <1>16 DEF StreamClose
  <2> QED BY Zenon, <2>1, <1>4, <1>6, <1>15, <1>16 DEF StreamClose, sendVars
<1>17. ASSUME NEW id \in Ids, NEW unit \in Units, AsyncData(id, unit), UNCHANGED <<status, lpc, early>>
       PROVE  P /\ Q
  <2>1. \A x \in Ids : node'[x].done = node[x].done
    BY Zenon, <1>17, DataCases DEF AddsData, SetData
  <2>2. P
    BY Zenon, <1>1, <1>17, <1>DataStuck
  <2> QED BY Zenon, <2>1, <2>2, <1>5, <1>17
<1>18. ASSUME NEW t \in AllThreads, NEW id \in Ids, StreamSend(t, id) PROVE P /\ Q
  <2>1. UNCHANGED <<status, lpc, early>> /\ asyncSent[id] < MaxAsync
    BY Zenon, <1>18 DEF StreamSend
  <2>2. Unit(id, asyncSent[id] + 1) \in Units
    <3>1. id[1] \in AllThreads /\ id[2] \in 1 .. MaxCalls + MaxLoopCalls
      BY BoundsAssumption DEF Ids, AllThreads
    <3>2. asyncSent[id] \in 0 .. MaxAsync
      BY Zenon DEF TypeInv, TypeOK
    <3>3. asyncSent[id] + 1 \in 1 .. MsgSize + MaxAsync
      BY <2>1, <3>2, BoundsAssumption
    <3> QED BY Zenon, <3>1, <3>3 DEF Unit, Units
  <2>3. AsyncData(id, Unit(id, asyncSent[id] + 1)) \/ UNCHANGED <<sendVars, events>>
    BY Zenon, <1>18 DEF StreamSend
  <2> QED BY Zenon, <2>1, <2>2, <2>3, <1>4, <1>6, <1>17 DEF sendVars
<1>19. ASSUME NEW t \in Threads, NEW kind \in Kinds, SendQueued(t, kind) PROVE P /\ Q
  <2> DEFINE id == Fresh(t)
  <2>1. /\ calls[t] < MaxCalls /\ node' = WithNode(kind, t)
        /\ UNCHANGED <<status, events, list, lpc, early>>
    BY Zenon, <1>19 DEF SendQueued, WithNode, Fresh
  <2>2. id \in Ids /\ ~Used(calls, id) /\ \A x \in Ids : x # id => node'[x] = node[x]
    BY SMTT(60), <2>1, FreshFacts DEF AllThreads
  <2> HIDE DEF id
  <2>3. id \notin Range(list)
    BY Zenon, <2>2, FreshUnused
  <2>4. list # <<>> => Head(list) \in Ids /\ Head(list) # id
    BY <2>3, <1>1, Shorter, RangeIs
  <2>5. P
    BY Zenon, <2>1, <2>2, <2>4, <1>1 DEF NotStuck
  <2>6. Q
    BY Zenon, <2>1, <2>2 DEF ClosedEarly, FuncOK, Kinds
  <2> QED BY Zenon, <2>5, <2>6
<1>20. ASSUME NEW kind \in Kinds, Send(kind) PROVE P /\ Q
  <2> DEFINE id == Fresh(LoopThread)  nd == WithNode(kind, LoopThread)
  <2>1. /\ calls[LoopThread] < MaxLoopCalls /\ UNCHANGED <<status, lpc, early>>
        /\ \/ kind = "mem" /\ SendInLoop(nd, id)
           \/ kind = "file" /\ SendNodeInLoop(nd, id)
           \/ kind = "stream" /\ SendStreamInLoop(nd, id)
           \/ kind = "async" /\ PushAsync(nd, id)
    BY Zenon, <1>20 DEF Send, Fresh, WithNode
  <2>2. /\ id \in Ids /\ ~Used(calls, id) /\ nd \in [Ids -> BufferNodes]
        /\ nd[id] = NewNode(kind, id) /\ \A x \in Ids : x # id => nd[x] = node[x]
    BY ZenonT(30), <2>1, FreshFacts DEF AllThreads
  <2>3. nd[id].kind = kind /\ (kind = "async" => nd[id].data = <<>>) /\ ~nd[id].done
    <3>1. nd[id] = NewNode(kind, id)
      BY Zenon, <2>2
    <3> HIDE DEF id, nd
    <3> QED BY <3>1 DEF NewNode
  <2> HIDE DEF id, nd
  <2>4. id \notin Range(list)
    BY Zenon, <2>2, FreshUnused
  <2>5. list # <<>> => Head(list) \in Ids /\ Head(list) # id
    BY <2>4, <1>1, Shorter, RangeIs
  <2>6. PICK D \in Seq(Units) : Sends(nd, id, D)
    <3>1. CASE kind = "mem"
      BY Zenon, <3>1, <2>1, <2>2, <2>3, MessageSends, UnitsOfFacts
    <3>2. CASE kind # "mem"
      <4>1. Sends(nd, id, nd[id].data)
        BY Zenon, <3>2, <2>1, <2>2, <2>3, NodeSends
      <4> QED BY Zenon, <4>1, <2>2, DataOfType
    <3> QED BY Zenon, <3>1, <3>2
  <2>7. P
    <3>1. NotStuck(node, list, events, early) => NotStuck(nd, list, events, early)
      BY Zenon, <2>2, <2>5 DEF NotStuck
    <3> QED BY Zenon, <3>1, <2>1, <2>2, <2>3, <2>4, <2>6, <1>1, <1>SendsStuck
  <2>8. \A x \in Ids : node'[x].done = nd[x].done
    BY Zenon, <2>2, <2>4, <2>6, SendsShapes
  <2>9. Q
    BY Zenon, <2>1, <2>2, <2>8 DEF ClosedEarly, FuncOK, Kinds
  <2> QED BY Zenon, <2>7, <2>9
<1>21. CASE OwnerCloses \/ UNCHANGED vars
  <2>1. UNCHANGED <<node, list, events, early, status, lpc>>
    BY Zenon, <1>21 DEF OwnerCloses, vars, sendVars
  <2> QED BY Zenon, <2>1, <1>4, <1>6
<1>22. CASE RunFunc
  <2> DEFINE f == Head(funcs)
  <2>0. lpc = "idle" /\ funcs # <<>>
    BY Zenon, <1>22 DEF RunFunc
  <2>1. /\ f \in Functors /\ ClosedEarly(node, early, f) /\ FuncOK(node, list, calls, f)
        /\ status # "Connecting" => f.call # "established"
    BY Zenon, <2>0, <1>1, <1>2, HeadFunc
  <2>2. CASE f.call = "established" /\ UNCHANGED <<sendVars, early>>
    BY Zenon, <2>1, <2>2, <1>2, <1>4 DEF sendVars, NotStuck
  <2>3. CASE ConnectDestroyed /\ UNCHANGED <<sendVars, early>>
    BY Zenon, <2>3, <1>4 DEF ConnectDestroyed, sendVars
  <2>4. ASSUME NEW D \in Seq(Units), f.call \in Kinds, Sends(node, f.id, D), UNCHANGED <<status, lpc, early>>
        PROVE  P /\ Q
    <3>1. f.id \in Ids /\ f.id \notin Range(list) /\ node[f.id].kind = f.call
      BY Zenon, <2>1, <2>4 DEF FuncOK
    <3>2. node[f.id].kind = "async" /\ node[f.id].done => f.id \in early
      BY Zenon, <3>1, <2>1 DEF ClosedEarly
    <3>3. \A x \in Ids : node'[x].done = node[x].done
      BY Zenon, <3>1, <2>4, <1>1, SendsShapes
    <3>4. P
      BY Zenon, <3>1, <3>2, <2>4, <1>1, <1>SendsStuck
    <3> QED BY Zenon, <3>3, <3>4, <2>4, <1>5
  <2>5. CASE f.call = "mem" /\ SendInLoop(node, f.id) /\ UNCHANGED <<status, lpc, early>>
    <3>1. f.call \in Kinds /\ f.id \in Ids /\ node[f.id].kind = "mem"
      BY Zenon, <2>1, <2>5 DEF FuncOK, Kinds
    <3>2. UnitsOf(f.id) \in Seq(Units) /\ Sends(node, f.id, UnitsOf(f.id))
      BY Zenon, <3>1, <2>5, <1>1, MessageSends, UnitsOfFacts
    <3> QED BY Zenon, <3>1, <3>2, <2>4, <2>5
  <2>6. CASE /\ \/ f.call \in {"file", "stream"} /\ SendNodeInLoop(node, f.id)
                \/ f.call = "async" /\ PushAsyncQueued(node, f.id)
             /\ UNCHANGED <<status, lpc, early>>
    <3>1. f.call \in Kinds /\ f.id \in Ids /\ node[f.id].kind = f.call /\ f.call # "mem"
      BY Zenon, <2>1, <2>6 DEF FuncOK, Kinds
    <3>2. node[f.id].data \in Seq(Units) /\ Sends(node, f.id, node[f.id].data)
      BY Zenon, <3>1, <2>6, <1>1, NodeSends, DataOfType
    <3> QED BY Zenon, <3>1, <3>2, <2>4, <2>6
  <2>7. CASE f.call = "asyncData" /\ AsyncData(f.id, f.unit) /\ UNCHANGED <<status, lpc, early>>
    <3>1. f.id \in Ids /\ f.unit \in Units
      BY Zenon, <2>1, <2>7 DEF Functors, Kinds
    <3> QED BY Zenon, <3>1, <2>7, <1>17
  <2>8. CASE f.call = "asyncClose" /\ AsyncClose(f.id) /\ UNCHANGED <<status, lpc>>
    <3>1. f.id \in Ids
      BY Zenon, <2>1, <2>8 DEF FuncOK
    <3> QED BY Zenon, <3>1, <2>8, <1>15
  <2>9. CASE ShutdownInLoop(events) /\ UNCHANGED <<events, sendVars, lpc, early>>
    BY Zenon, <2>9, <1>4, <1>6, <1>7 DEF sendVars
  <2>10. CASE ForceCloseInLoop /\ UNCHANGED <<sendVars, early>>
    BY Zenon, <2>10, <1>13 DEF sendVars
  <2> HIDE DEF P, Q
  <2> QED BY Zenon, <2>2, <2>3, <2>5, <2>6, <2>7, <2>8, <2>9, <2>10, <1>22 DEF RunFunc
<1> HIDE DEF P, Q
<1> QED BY Zenon, <1>8, <1>9, <1>10, <1>11, <1>12, <1>14, <1>16, <1>18, <1>19, <1>20, <1>21, <1>22
        DEF Next, User, LoopStep

-----------------------------------------------------------------------------
\* A new connection: connectEstablished() is queued and nothing was sent.
LEMMA InitFacts ==
  ASSUME Init
  PROVE  /\ TypeInv /\ IdsInv /\ LifeInv /\ CloseInv /\ StuckInv /\ OrderInv /\ GapInv
<1> DEFINE f == Functor("established", NoId)
<1>1. funcs = <<f>> /\ f.call = "established" /\ f.id = NoId /\ f \in Functors
  BY Zenon DEF Init, Functor, Functors
<1> HIDE DEF f
<1>2. funcs \in Seq(Functors) /\ Len(funcs) = 1 /\ 1 .. Len(funcs) = {1} /\ funcs[1] = f
  BY <1>1
<1>3. \A i \in 1 .. Len(funcs) : funcs[i] = f
  BY Zenon, <1>2
<1>4. /\ f.call \notin Kinds /\ f.call \notin {"asyncData", "asyncClose", "destroy", "forceClose"}
  BY Zenon, <1>1 DEF Kinds
<1>5. /\ list = <<>> /\ wire = <<>> /\ Len(list) = 0 /\ Len(wire) = 0 /\ open = {}
      /\ 1 .. Len(list) = {} /\ 1 .. Len(wire) = {}
  BY DEF Init
<1>6. /\ \A id \in Ids : node[id].kind = "mem" /\ asyncSent[id] = 0
      /\ node \in [Ids -> [kind : Kinds, data : Seq(Units), done : BOOLEAN]]
  <2>1. [kind |-> "mem", data |-> <<>>, done |-> FALSE] \in [kind : Kinds, data : Seq(Units), done : BOOLEAN]
    BY Zenon, EmptySeq DEF Kinds
  <2> QED BY Zenon, <2>1 DEF Init
<1>7. TypeInv
  <2>1. list \in Seq(Ids) /\ IsInjective(list) /\ wire \in Seq(Units)
    BY <1>5, EmptySeq DEF IsInjective
  <2>2. \A i \in 1 .. Len(funcs) : funcs[i].id \in Ids \cup {NoId}
    BY Zenon, <1>1, <1>3
  <2>3. /\ calls \in [AllThreads -> 0 .. MaxCalls + MaxLoopCalls] /\ asyncSent \in [Ids -> 0 .. MaxAsync]
        /\ shutAt \in [AllThreads -> 0 .. NotShut] /\ closes \in 0 .. 2
    BY BoundsAssumption DEF Init, NotShut
  <2>4. /\ status \in {"Connecting", "Connected", "Disconnecting", "Disconnected"}
        /\ events \subseteq {"read", "write"} /\ lpc \in {"idle", "writeCallback", "closeCallback"}
        /\ open \subseteq Ids /\ forced \subseteq AllThreads /\ early \subseteq Ids
    BY Zenon DEF Init
  <2>5. removed \in BOOLEAN /\ closeOnEmpty \in BOOLEAN /\ writeClosed \in BOOLEAN
    BY Zenon DEF Init
  <2> QED BY Zenon, <2>1, <2>2, <2>3, <2>4, <2>5, <1>2, <1>6 DEF TypeInv, TypeOK
<1>8. IdsInv
  <2>1. FuncOK(node, list, calls, f)
    BY Zenon, <1>4 DEF FuncOK
  <2>2. \A i, j \in 1 .. Len(funcs) : i < j => InTurn(funcs[i], funcs[j])
    BY Zenon, <1>3, <1>4 DEF InTurn
  <2> QED BY Zenon, <2>1, <2>2, <1>3, <1>5, <1>6 DEF IdsInv
<1>9. LifeInv
  BY Zenon DEF Init, LifeInv
<1>10. CloseInv
  <2>1. FuncCloses(closes, f)
    BY Zenon, <1>4 DEF FuncCloses
  <2>2. closes = 0 /\ lpc = "idle" /\ status = "Connecting" /\ ~removed
    BY Zenon DEF Init
  <2> QED BY <2>1, <2>2, <1>3, <1>5 DEF CloseInv
<1>11. StuckInv
  <2>1. NoStuckData
    BY Zenon, <1>5 DEF NoStuckData
  <2>2. ClosedEarly(node, early, f)
    BY Zenon, <1>4 DEF ClosedEarly, Kinds
  <2> QED BY Zenon, <2>1, <2>2, <1>3 DEF StuckInv
<1>12. OrderInv
  <2>1. KeysIn(wire) = {}
    BY Zenon, <1>5 DEF KeysIn
  <2>2. DataInv(wire, node, list, calls, asyncSent)
    BY Zenon, <2>1, <1>5, <1>6 DEF DataInv, ListInOrder, Ordered, Made
  <2>3. FuncInOrder(wire, node, list, asyncSent, f)
    BY Zenon, <1>4 DEF FuncInOrder
  <2>4. QueueInv(wire, node, list, asyncSent, funcs)
    BY Zenon, <2>3, <1>3, <1>4 DEF QueueInv, DataInTurn
  <2> QED BY Zenon, <2>2, <2>4 DEF OrderInv
<1>13. GapInv
  BY Zenon, <1>5, <1>6 DEF GapInv, Follows, ListFollows, AllPresent
<1> QED BY Zenon, <1>7, <1>8, <1>9, <1>10, <1>11, <1>12, <1>13

\* Every state of the connection has the shapes that the code relies on: a node
\* is in writeBufferList_ at most once, what the queue holds for a node concerns
\* a node of that kind, and connectEstablished() runs first.
THEOREM TypeCorrect == Spec => [](TypeInv /\ IdsInv /\ LifeInv)
<1>1. Init => TypeInv /\ IdsInv /\ LifeInv
  BY Zenon, InitFacts
<1>2. TypeInv /\ IdsInv /\ LifeInv /\ [Next]_vars => (TypeInv /\ IdsInv /\ LifeInv)'
  BY Zenon, Steps, TypeStep, IdsStep, LifeStep
<1> QED BY <1>1, <1>2, PTL DEF Spec

\* Data that waits in writeBufferList_ has the channel watch for a writable
\* socket, whatever threads send and however they mix messages, files, streams
\* and async streams: see NoStuckData.
THEOREM NeverStuck == Spec => []NoStuckData
<1>1. Init => StuckInv
  BY Zenon, InitFacts
<1>2. TypeInv /\ IdsInv /\ LifeInv /\ TypeInv' /\ StuckInv /\ [Next]_vars => StuckInv'
  BY Zenon, StuckStep
<1>3. StuckInv => NoStuckData
  BY Zenon DEF StuckInv
<1> QED BY <1>1, <1>2, <1>3, TypeCorrect, PTL DEF Spec

\* handleClose() calls closeCallback_ once and leaves a channel that watches
\* nothing, if a connection that may close is used to send messages only.
THEOREM ClosesOnce ==
  ASSUME MessagesOnly
  PROVE  Spec => []CloseOnce
<1>1. Init => CloseInv
  BY Zenon, InitFacts
<1>2. TypeInv /\ IdsInv /\ LifeInv /\ TypeInv' /\ CloseInv /\ [Next]_vars => CloseInv'
  BY Zenon, CloseStep
<1>3. TypeInv /\ CloseInv => CloseOnce
  BY Zenon DEF TypeInv, CloseInv, CloseOnce
<1> QED BY <1>1, <1>2, <1>3, TypeCorrect, PTL DEF Spec

\* The socket takes what a thread sends in the order of its calls and without a
\* gap in any of them: see WireOrder.
THEOREM SentInOrder ==
  ASSUME StreamsInOrder
  PROVE  Spec => []WireOrder
<1>1. Init => OrderInv /\ GapInv
  BY Zenon, InitFacts
<1>2. TypeInv /\ IdsInv /\ TypeInv' /\ OrderInv /\ GapInv /\ [Next]_vars => (OrderInv /\ GapInv)'
  BY Zenon, Steps, OrderStep, GapStep
<1>3. TypeInv /\ OrderInv /\ GapInv => WireOrder
  BY Zenon, InOrder
<1> QED BY <1>1, <1>2, <1>3, TypeCorrect, PTL DEF Spec
===============================================================================
