---------------------------- MODULE TcpConnection ----------------------------
(***************************************************************************)
(* trantor::TcpConnectionImpl (net/inner/TcpConnectionImpl.cc, Linux, no   *)
(* TLS): what the loop thread and other threads send through one           *)
(* connection, the list of buffer nodes that waits for the socket, and the *)
(* ways the connection ends.  Calls of other threads are functors queued   *)
(* in the loop.  The peer, and how much each write() or sendfile() takes,  *)
(* are the environment; the owner (TcpServer or TcpClient) answers the     *)
(* close callback by queueing connectDestroyed().                          *)
(***************************************************************************)
EXTENDS Naturals, Sequences, Functions

CONSTANTS Threads,       \* the threads other than the loop's
          LoopThread,    \* the loop's thread
          LoopKinds,     \* what the loop thread sends: a subset of Kinds
          ThreadKinds,   \* what the other threads send
          MsgSize,       \* units of data in a message, file or stream
          MaxCalls,      \* bound: sends of each other thread
          MaxLoopCalls,  \* bound: sends of the loop thread
          MaxAsync,      \* bound: units sent through an async stream
          Closes,        \* the connection may be closed by the peer, an error
                         \* or forceClose()
          WriteErrors,   \* write() and sendfile() may fail
          ShareStreams   \* the loop thread may use the async streams of others

Kinds == {"mem", "file", "stream", "async"}

ASSUME ThreadsAssumption == LoopThread \notin Threads
ASSUME KindsAssumption == LoopKinds \subseteq Kinds /\ ThreadKinds \subseteq Kinds
ASSUME BoundsAssumption ==
  /\ MsgSize \in Nat \ {0} /\ MaxAsync \in Nat
  /\ MaxCalls \in Nat /\ MaxLoopCalls \in Nat
ASSUME EnvironmentAssumption ==
  Closes \in BOOLEAN /\ WriteErrors \in BOOLEAN /\ ShareStreams \in BOOLEAN

AllThreads == Threads \cup {LoopThread}

\* <<t, k>> is the k-th thing thread t sends: a message, and the buffer node
\* made for it.
Ids == (Threads \X (1 .. MaxCalls)) \cup ({LoopThread} \X (1 .. MaxLoopCalls))

VARIABLES
  status,        \* status_
  events,        \* the channel's events_
  removed,       \* connectDestroyed() has removed the channel
  node,          \* the buffer nodes: kind, unsent data, isDone_
  list,          \* writeBufferList_
  closeOnEmpty,  \* closeOnEmpty_
  writeClosed,   \* the socket's write side is shut down
  wire,          \* the units the socket took, in order
  funcs,         \* functors queued in the loop
  lpc,           \* the loop thread: idle, writeCallback, closeCallback
  calls,         \* number of things each thread has sent
  open,          \* async streams that are not closed
  asyncSent,     \* number of units sent through each async stream
  shutAt,        \* calls[t] when t called shutdown(), NotShut if it did not
  forced,        \* the threads that called forceClose()
  closes,        \* history: calls of closeCallback_, 2 for more than one
  early          \* history: async streams closed before they were in the list

sendVars == <<node, list, wire>>
userVars == <<calls, open, asyncSent, shutAt, forced>>
vars == <<status, events, removed, sendVars, closeOnEmpty, writeClosed, funcs,
          lpc, userVars, closes, early>>

Unit(id, u) == <<id[1], id[2], u>>
UnitsOf(id) == [u \in 1 .. MsgSize |-> Unit(id, u)]

Functor(call, id) == [call |-> call, id |-> id]
NoId == <<LoopThread, 0>>
NotShut == MaxCalls + MaxLoopCalls + 1

Init ==
  /\ status = "Connecting"
  /\ events = {}
  /\ removed = FALSE
  /\ node = [id \in Ids |-> [kind |-> "mem", data |-> <<>>, done |-> FALSE]]
  /\ list = <<>>
  /\ closeOnEmpty = FALSE
  /\ writeClosed = FALSE
  /\ wire = <<>>
  /\ funcs = <<Functor("established", NoId)>>
  /\ lpc = "idle"
  /\ calls = [t \in AllThreads |-> 0]
  /\ open = {}
  /\ asyncSent = [id \in Ids |-> 0]
  /\ shutAt = [t \in AllThreads |-> NotShut]
  /\ forced = {}
  /\ closes = 0
  /\ early = {}

-----------------------------------------------------------------------------
(* Writing to the socket                                                   *)

\* The socket takes the first n units of data.  The write side that was shut
\* down takes nothing (EPIPE).
Takes(data, n) ==
  /\ ~writeClosed
  /\ wire' = wire \o SubSeq(data, 1, n)

Rest(data, n) == SubSeq(data, n + 1, Len(data))

Fails == (writeClosed \/ WriteErrors) /\ UNCHANGED wire

\* sendNodeInLoop() fails: a stream may have sent some of its chunks before.
NodeFails(nd, id) ==
  \/ Fails /\ node' = nd
  \/ /\ WriteErrors /\ nd[id].kind = "stream"
     /\ \E n \in 1 .. Len(nd[id].data) - 1 :
          /\ Takes(nd[id].data, n)
          /\ node' = [nd EXCEPT ![id].data = Rest(@, n)]

Remaining(id) == node[id].data # <<>>

\* writeRaw() enables writing when it could not write everything.
EnableIf(partial) == events' = IF partial THEN events \cup {"write"} ELSE events

\* In the operators below nd is the heap of buffer nodes, with the new node id.

\* Mutant: a node is kept only if some of it could be sent.
MutSendNewNode(nd, id) ==
  \/ \E n \in 0 .. Len(nd[id].data) :
       /\ Takes(nd[id].data, n)
       /\ node' = [nd EXCEPT ![id].data = Rest(@, n)]
       /\ EnableIf(n < Len(nd[id].data))
       /\ list' = IF n \in 1 .. Len(nd[id].data) - 1 THEN <<id>> ELSE <<>>
  \/ Fails /\ node' = nd /\ UNCHANGED <<list, events>>

\* sendNodeInLoop() of a node when the list is empty, which then goes into the
\* list if something of it is left and sendNodeInLoop() did not return -1.
\* For a file that is what it returns for EAGAIN too.
SendNewNode(nd, id) ==
  \/ \E n \in 0 .. Len(nd[id].data) :
       /\ Takes(nd[id].data, n)
       /\ node' = [nd EXCEPT ![id].data = Rest(@, n)]
       /\ EnableIf(n < Len(nd[id].data))
       /\ list' = IF n = Len(nd[id].data) \/ (n = 0 /\ nd[id].kind = "file")
                  THEN <<>> ELSE <<id>>
  \/ NodeFails(nd, id) /\ UNCHANGED <<list, events>>

\* sendInLoop(): the message becomes the last node, or a part of it.
Buffer(nd, id, data) ==
  IF list = <<>> \/ nd[list[Len(list)]].kind # "mem"
  THEN /\ node' = [nd EXCEPT ![id].data = data]
       /\ list' = Append(list, id)
  ELSE /\ node' = [nd EXCEPT ![list[Len(list)]].data = @ \o data]
       /\ UNCHANGED list

\* Mutant: sendInLoop() writes directly whenever the channel is not writing.
MutDirect == "write" \notin events

\* sendInLoop(): nothing is waiting.
Direct == "write" \notin events /\ list = <<>>

\* sendInLoop()
SendInLoop(nd, id) ==
  \/ status # "Connected" /\ node' = nd /\ UNCHANGED <<list, wire, events>>
  \/ /\ status = "Connected" /\ Direct
     /\ \/ \E n \in 0 .. MsgSize :
             /\ Takes(UnitsOf(id), n)
             /\ EnableIf(n < MsgSize)
             /\ IF n < MsgSize THEN Buffer(nd, id, Rest(UnitsOf(id), n))
                ELSE node' = nd /\ UNCHANGED list
        \/ Fails /\ node' = nd /\ UNCHANGED <<list, events>>
  \/ /\ status = "Connected" /\ ~Direct
     /\ Buffer(nd, id, UnitsOf(id))
     /\ UNCHANGED <<wire, events>>

\* sendFile() and sendStream() in the loop: the functor that other threads
\* queue, and sendFile() of the loop thread.
SendNodeInLoop(nd, id) ==
  IF list = <<>> THEN SendNewNode(nd, id)
  ELSE list' = Append(list, id) /\ node' = nd /\ UNCHANGED <<wire, events>>

\* sendStream() of the loop thread drops the node if the list is not empty.
SendStreamInLoop(nd, id) ==
  IF list = <<>> THEN SendNewNode(nd, id)
  ELSE node' = nd /\ UNCHANGED <<list, wire, events>>

\* sendAsyncStream() in the loop thread.
PushAsync(nd, id) ==
  /\ list' = Append(list, id)
  /\ node' = nd /\ UNCHANGED <<wire, events>>

\* The functor of sendAsyncStream(): the stream may have data already.
PushAsyncQueued(nd, id) ==
  IF list = <<>> /\ nd[id].data # <<>>
  THEN \/ \E n \in 0 .. Len(nd[id].data) :
            /\ Takes(nd[id].data, n)
            /\ node' = [nd EXCEPT ![id].data = Rest(@, n)]
            /\ EnableIf(n < Len(nd[id].data))
            /\ list' = IF n < Len(nd[id].data) \/ ~nd[id].done
                       THEN <<id>> ELSE <<>>
       \/ Fails /\ node' = nd /\ UNCHANGED <<list, events>>
  ELSE PushAsync(nd, id)

\* sendAsyncDataInLoop() with one unit of data.
AsyncData(id, unit) ==
  IF list # <<>> /\ Head(list) = id /\ ~Remaining(id)
  THEN \/ Takes(<<unit>>, 1) /\ UNCHANGED <<node, list, events>>
       \/ /\ Takes(<<unit>>, 0)
          /\ node' = [node EXCEPT ![id].data = Append(@, unit)]
          /\ EnableIf(TRUE)
          /\ UNCHANGED list
       \/ Fails /\ UNCHANGED <<node, list, events>>
  ELSE /\ node' = [node EXCEPT ![id].data = Append(@, unit)]
       /\ UNCHANGED <<list, wire, events>>

\* Mutant: the end of a stream does not start writing.
MutAsyncClose(id) ==
  /\ node' = [node EXCEPT ![id].done = TRUE]
  /\ UNCHANGED <<list, wire, events, early>>

\* sendAsyncDataInLoop() with no data: the stream is closed.
AsyncClose(id) ==
  /\ node' = [node EXCEPT ![id].done = TRUE]
  /\ EnableIf(list # <<>> /\ Head(list) = id)
  /\ early' = IF id \in Range(list) THEN early ELSE early \cup {id}
  /\ UNCHANGED <<list, wire>>

-----------------------------------------------------------------------------
(* The end of the connection                                               *)

\* shutdown() in the loop, with the channel events e left by the caller.
ShutdownInLoop(e) ==
  IF status = "Connected" /\ list # <<>>
  THEN closeOnEmpty' = TRUE /\ UNCHANGED <<status, writeClosed>>
  ELSE /\ status' = IF status = "Connected" THEN "Disconnecting" ELSE status
       /\ writeClosed' = (writeClosed \/ (status = "Connected" /\ "write" \notin e))
       /\ UNCHANGED closeOnEmpty

\* handleClose() up to connectionCallback_, which is user code.
HandleClose ==
  /\ status' = "Disconnected"
  /\ events' = {}
  /\ lpc' = "closeCallback"

\* Mutant: forceClose() does not look at the status.
MutMayForceClose == TRUE

\* forceClose() in the loop: the connection is not closed yet.
MayForceClose == status \in {"Connected", "Disconnecting"}

ForceCloseInLoop ==
  \/ MayForceClose /\ HandleClose
  \/ ~MayForceClose /\ UNCHANGED <<status, events, lpc>>

\* handleClose() calls closeCallback_: the owner will queue connectDestroyed().
CloseCallback ==
  /\ lpc = "closeCallback"
  /\ lpc' = "idle"
  /\ closes' = IF closes = 2 THEN 2 ELSE closes + 1
  /\ UNCHANGED <<status, events, removed, sendVars, closeOnEmpty, writeClosed,
                 funcs, userVars, early>>

\* TcpServer::handleCloseInLoop(), in this loop or another.
OwnerCloses ==
  /\ closes > 0
  /\ ~removed /\ \A i \in 1 .. Len(funcs) : funcs[i].call # "destroy"
  /\ funcs' = Append(funcs, Functor("destroy", NoId))
  /\ UNCHANGED <<status, events, removed, sendVars, closeOnEmpty, writeClosed,
                 lpc, userVars, closes, early>>

\* The peer closes the connection, or it breaks: the channel's close callback
\* or a readCallback() that reads 0 bytes or fails.
ReadOrHangUp ==
  /\ Closes
  /\ lpc = "idle" /\ events # {}
  /\ HandleClose
  /\ UNCHANGED <<removed, sendVars, closeOnEmpty, writeClosed, funcs,
                 userVars, closes, early>>

-----------------------------------------------------------------------------
(* The loop thread                                                         *)

\* connectEstablished()
Established ==
  /\ status' = "Connected"
  /\ events' = events \cup {"read"}

\* connectDestroyed(): queued by closeCallback_, so that handleClose() has called
\* the connection callback before.
ConnectDestroyed ==
  /\ status' = IF status = "Connected" THEN "Disconnected" ELSE status
  /\ events' = IF status = "Connected" THEN {} ELSE events
  /\ removed' = TRUE

\* doRunInLoopFuncs() runs the first functor.
RunFunc ==
  /\ lpc = "idle" /\ funcs # <<>>
  /\ funcs' = Tail(funcs)
  /\ LET f == Head(funcs) IN
       \/ /\ f.call = "established" /\ Established
          /\ UNCHANGED <<removed, sendVars, closeOnEmpty, writeClosed, lpc, early>>
       \/ /\ f.call = "destroy" /\ ConnectDestroyed
          /\ UNCHANGED <<sendVars, closeOnEmpty, writeClosed, lpc, early>>
       \/ /\ \/ f.call = "mem" /\ SendInLoop(node, f.id)
             \/ f.call \in {"file", "stream"} /\ SendNodeInLoop(node, f.id)
             \/ f.call = "async" /\ PushAsyncQueued(node, f.id)
             \/ f.call = "asyncData" /\ AsyncData(f.id, f.unit)
          /\ UNCHANGED <<status, removed, closeOnEmpty, writeClosed, lpc, early>>
       \/ /\ f.call = "asyncClose" /\ AsyncClose(f.id)
          /\ UNCHANGED <<status, removed, closeOnEmpty, writeClosed, lpc>>
       \/ /\ f.call = "shutdown" /\ ShutdownInLoop(events)
          /\ UNCHANGED <<events, removed, sendVars, lpc, early>>
       \/ /\ f.call = "forceClose" /\ ForceCloseInLoop
          /\ UNCHANGED <<removed, sendVars, closeOnEmpty, writeClosed, early>>
  /\ UNCHANGED <<userVars, closes>>

\* The socket is writable: writeCallback() begins.
WriteCallback ==
  /\ lpc = "idle" /\ "write" \in events
  /\ lpc' = "writeCallback"
  /\ UNCHANGED <<status, events, removed, sendVars, closeOnEmpty, writeClosed,
                 funcs, userVars, closes, early>>

\* writeCallback(): a node that has nothing to send is finished, unless it is
\* an async stream that is still open.
WriteNext ==
  /\ lpc = "writeCallback" /\ list # <<>> /\ ~Remaining(Head(list))
  /\ LET n == node[Head(list)] IN
       \/ /\ n.kind # "async" \/ n.done
          /\ list' = Tail(list)
          /\ UNCHANGED <<events, lpc>>
       \/ /\ n.kind = "async" /\ ~n.done
          /\ events' = events \ {"write"}
          /\ lpc' = "idle"
          /\ UNCHANGED list
  /\ UNCHANGED <<status, removed, node, wire, closeOnEmpty, writeClosed,
                 funcs, userVars, closes, early>>

\* writeCallback(): sendNodeInLoop() of the first node; it goes on with the
\* next one if all of it was sent.
WriteNode ==
  /\ lpc = "writeCallback" /\ list # <<>> /\ Remaining(Head(list))
  /\ LET id == Head(list) IN
       \/ \E n \in 0 .. Len(node[id].data) :
            /\ Takes(node[id].data, n)
            /\ node' = [node EXCEPT ![id].data = Rest(@, n)]
            /\ EnableIf(n < Len(node[id].data))
            /\ lpc' = IF n < Len(node[id].data) THEN "idle" ELSE lpc
       \/ NodeFails(node, id) /\ lpc' = "idle" /\ UNCHANGED events
  /\ UNCHANGED <<status, removed, list, closeOnEmpty, writeClosed, funcs,
                 userVars, closes, early>>

\* writeCallback(): everything is sent.
WriteEnds ==
  /\ lpc = "writeCallback" /\ list = <<>>
  /\ events' = events \ {"write"}
  /\ lpc' = "idle"
  /\ IF closeOnEmpty THEN ShutdownInLoop(events')
     ELSE UNCHANGED <<status, closeOnEmpty, writeClosed>>
  /\ UNCHANGED <<removed, sendVars, funcs, userVars, closes, early>>

-----------------------------------------------------------------------------
(* Calls of user code                                                      *)

\* A thread has the connection once it is established; in the loop thread user
\* code runs in callbacks and functors.
MayCall(t) ==
  /\ status # "Connecting"
  /\ t = LoopThread => lpc \in {"idle", "closeCallback"}

\* The node that sendFile(), sendStream() or sendAsyncStream() makes.
NewNode(kind, id) ==
  [kind |-> kind, done |-> FALSE,
   data |-> IF kind \in {"file", "stream"} THEN UnitsOf(id) ELSE <<>>]

\* send(), sendFile(), sendStream() and sendAsyncStream() of another thread.
SendQueued(t, kind) ==
  /\ t # LoopThread /\ MayCall(t)
  /\ kind \in ThreadKinds /\ calls[t] < MaxCalls
  /\ LET id == <<t, calls[t] + 1>> IN
       /\ calls' = [calls EXCEPT ![t] = @ + 1]
       /\ node' = [node EXCEPT ![id] = NewNode(kind, id)]
       /\ open' = IF kind = "async" THEN open \cup {id} ELSE open
       /\ funcs' = Append(funcs, Functor(kind, id))
  /\ UNCHANGED <<status, events, removed, list, wire, closeOnEmpty,
                 writeClosed, lpc, asyncSent, shutAt, forced, closes, early>>

\* The same in the loop thread: at once.
Send(kind) ==
  /\ MayCall(LoopThread)
  /\ kind \in LoopKinds /\ calls[LoopThread] < MaxLoopCalls
  /\ LET id == <<LoopThread, calls[LoopThread] + 1>>
         nd == [node EXCEPT ![id] = NewNode(kind, id)] IN
       /\ calls' = [calls EXCEPT ![LoopThread] = @ + 1]
       /\ open' = IF kind = "async" THEN open \cup {id} ELSE open
       /\ \/ kind = "mem" /\ SendInLoop(nd, id)
          \/ kind = "file" /\ SendNodeInLoop(nd, id)
          \/ kind = "stream" /\ SendStreamInLoop(nd, id)
          \/ kind = "async" /\ PushAsync(nd, id)
  /\ UNCHANGED <<status, removed, closeOnEmpty, writeClosed, funcs, lpc,
                 asyncSent, shutAt, forced, closes, early>>

\* Thread t uses the async stream id.
UsesStream(t, id) ==
  /\ MayCall(t) /\ id \in open
  /\ t = id[1] \/ (ShareStreams /\ t = LoopThread)

\* AsyncStream::send() of one unit, given up if the connection is closed.
StreamSend(t, id) ==
  /\ UsesStream(t, id) /\ asyncSent[id] < MaxAsync
  /\ status = "Connected"
  /\ asyncSent' = [asyncSent EXCEPT ![id] = @ + 1]
  /\ LET unit == Unit(id, asyncSent[id] + 1) IN
       \/ t = LoopThread /\ AsyncData(id, unit) /\ UNCHANGED funcs
       \/ /\ t # LoopThread
          /\ funcs' = Append(funcs,
                        [call |-> "asyncData", id |-> id, unit |-> unit])
          /\ UNCHANGED <<sendVars, events>>
  /\ UNCHANGED <<status, removed, closeOnEmpty, writeClosed, lpc, calls, open,
                 shutAt, forced, closes, early>>

\* AsyncStream::close()
StreamClose(t, id) ==
  /\ UsesStream(t, id)
  /\ open' = open \ {id}
  /\ \/ status # "Connected" /\ UNCHANGED <<sendVars, events, funcs, early>>
     \/ /\ status = "Connected" /\ t = LoopThread
        /\ AsyncClose(id)
        /\ UNCHANGED funcs
     \/ /\ status = "Connected" /\ t # LoopThread
        /\ funcs' = Append(funcs, Functor("asyncClose", id))
        /\ UNCHANGED <<sendVars, events, early>>
  /\ UNCHANGED <<status, removed, closeOnEmpty, writeClosed, lpc, calls,
                 asyncSent, shutAt, forced, closes>>

\* shutdown().  Bound: once in each thread.
Shutdown(t) ==
  /\ MayCall(t) /\ shutAt[t] = NotShut
  /\ shutAt' = [shutAt EXCEPT ![t] = calls[t]]
  /\ \/ t = LoopThread /\ ShutdownInLoop(events) /\ UNCHANGED funcs
     \/ /\ t # LoopThread
        /\ funcs' = Append(funcs, Functor("shutdown", NoId))
        /\ UNCHANGED <<status, closeOnEmpty, writeClosed>>
  /\ UNCHANGED <<events, removed, sendVars, lpc, calls, open, asyncSent,
                 forced, closes, early>>

\* forceClose().  Bound: once in each thread.
ForceClose(t) ==
  /\ Closes
  /\ MayCall(t) /\ t \notin forced
  /\ t = LoopThread => lpc = "idle"
  /\ forced' = forced \cup {t}
  /\ \/ t = LoopThread /\ ForceCloseInLoop /\ UNCHANGED funcs
     \/ /\ t # LoopThread
        /\ funcs' = Append(funcs, Functor("forceClose", NoId))
        /\ UNCHANGED <<status, events, lpc>>
  /\ UNCHANGED <<removed, sendVars, closeOnEmpty, writeClosed, calls, open,
                 asyncSent, shutAt, closes, early>>

User ==
  \/ \E kind \in Kinds : Send(kind) \/ \E t \in Threads : SendQueued(t, kind)
  \/ \E t \in AllThreads : Shutdown(t) \/ ForceClose(t)
  \/ \E t \in AllThreads, id \in Ids : StreamSend(t, id) \/ StreamClose(t, id)

LoopStep ==
  \/ RunFunc \/ WriteCallback \/ WriteNext \/ WriteNode \/ WriteEnds
  \/ CloseCallback

Next == User \/ LoopStep \/ OwnerCloses \/ ReadOrHangUp

Spec == Init /\ [][Next]_vars

\* The loop thread goes on, and a socket that is written to again and again
\* takes something: the peer reads.
Fairness == WF_vars(LoopStep) /\ SF_vars(LoopStep /\ wire' # wire)

FairSpec == Spec /\ Fairness

-----------------------------------------------------------------------------
Units ==
  AllThreads \X (1 .. MaxCalls + MaxLoopCalls) \X (1 .. MsgSize + MaxAsync)

TypeOK ==
  /\ status \in {"Connecting", "Connected", "Disconnecting", "Disconnected"}
  /\ events \subseteq {"read", "write"} /\ removed \in BOOLEAN
  /\ node \in [Ids -> [kind : Kinds, data : Seq(Units), done : BOOLEAN]]
  /\ list \in Seq(Ids) /\ IsInjective(list)
  /\ closeOnEmpty \in BOOLEAN /\ writeClosed \in BOOLEAN
  /\ wire \in Seq(Units)
  /\ \A i \in 1 .. Len(funcs) : funcs[i].id \in Ids \cup {NoId}
  /\ lpc \in {"idle", "writeCallback", "closeCallback"}
  /\ calls \in [AllThreads -> 0 .. MaxCalls + MaxLoopCalls]
  /\ open \subseteq Ids /\ asyncSent \in [Ids -> 0 .. MaxAsync]
  /\ shutAt \in [AllThreads -> 0 .. NotShut] /\ forced \subseteq AllThreads
  /\ closes \in 0 .. 2 /\ early \subseteq Ids

OnWire(unit, i) == \E j \in 1 .. i : wire[j] = unit

\* What thread t sends reaches the socket in the order of its calls, each
\* message, file and stream from its first unit on, without a gap or a
\* repetition, whatever was written directly, buffered, or queued by the loop in
\* between.  (Units of other threads may come between those of t.)
WireOrder ==
  \A i \in 1 .. Len(wire) :
    LET t == wire[i][1]  k == wire[i][2]  u == wire[i][3] IN
      /\ u > 1 => OnWire(<<t, k, u - 1>>, i - 1)
      /\ \A j \in 1 .. i - 1 :
           wire[j][1] = t => wire[j][2] < k \/ (wire[j][2] = k /\ wire[j][3] < u)

\* While the connection is up, data that waits in the list has the channel
\* watch for a writable socket, unless an open async stream with nothing to
\* send is first: no combination of direct writes, nodes that become first and
\* streams that end leaves the list waiting for nobody.  Only a stream that the
\* loop thread closed while the functor of sendAsyncStream() was queued does.
NoStuckData ==
  status = "Connected" /\ lpc = "idle" /\ list # <<>> /\ "write" \notin events =>
    /\ node[Head(list)].kind = "async" /\ ~Remaining(Head(list))
    /\ node[Head(list)].done => Head(list) \in early

\* All of what call id sends is among the first i units on the wire.
Delivered(id, i) ==
  IF node[id].kind = "async"
  THEN id \notin open /\ \A u \in 1 .. asyncSent[id] : OnWire(Unit(id, u), i)
  ELSE \A u \in 1 .. MsgSize : OnWire(Unit(id, u), i)

NoneSkipped(kinds) ==
  \A i \in 1 .. Len(wire) :
    \A k \in 1 .. wire[i][2] - 1 :
      node[<<wire[i][1], k>>].kind \in kinds => Delivered(<<wire[i][1], k>>, i)

\* Messages, the streams of other threads and async streams are not dropped on
\* the way: when something of a later call of the thread is on the wire, all of
\* the earlier ones is, and an earlier async stream is closed.  And shutdown()
\* closes the write side only after everything that the thread sent before is
\* on the wire, however much was buffered when it was called.
NothingSkipped ==
  /\ NoneSkipped({"mem", "stream", "async"})
  /\ writeClosed => \E t \in AllThreads :
       /\ shutAt[t] # NotShut
       /\ \A k \in 1 .. shutAt[t] : Delivered(<<t, k>>, Len(wire))

\* The owner is told once that the connection closed, because TcpServer asserts
\* that the connection it erases is in its set; and then the channel watches
\* nothing, as Channel::remove() asserts.
CloseOnce ==
  TypeOK /\ closes <= 1 /\ (removed => events = {} /\ status = "Disconnected")

\* Buffered data is eventually sent if the connection stays up and the async
\* streams are closed, and a shutdown() that had to wait for it is carried out.
DataIsSent ==
  /\ status = "Connected" /\ list # <<>> /\ open = {}
       ~> list = <<>> \/ status # "Connected" \/ open # {}
  /\ closeOnEmpty /\ open = {}
       ~> writeClosed \/ status = "Disconnected" \/ open # {}
=============================================================================
