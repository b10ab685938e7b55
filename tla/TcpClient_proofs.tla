--------------------------- MODULE TcpClient_proofs ---------------------------
(***************************************************************************)
(* Proofs about TcpClient and its Connector for any number of attempts and *)
(* of calls of the user, and about the two resolvers for any number of     *)
(* queries.                                                                *)
(***************************************************************************)
EXTENDS MCTcpClient, SequenceTheorems, TLAPS

Functors == ({"keep", "setClose", "forceClose", "destroy"} \X Sockets) \cup ({"start", "remove"} \X {None})

TypeInv == TypeOK /\ funcs \in Seq(Functors)

\* A connection that waits for connectDestroyed() is closed and waits once, and
\* the close callback changes only when the client is gone.
QueueOK(fs, cs, cl) ==
  /\ \A i \in 1 .. Len(fs) :
       /\ fs[i][1] = "destroy" => cs[fs[i][2]] = "closed"
       /\ fs[i][1] = "setClose" => ~cl
  /\ \A i, j \in 1 .. Len(fs) :
       fs[i][1] = "destroy" /\ fs[j][1] = "destroy" /\ fs[i][2] = fs[j][2] => i = j

\* Who is responsible for a socket: nobody yet, the channel, the Connector, the
\* handleWrite() that hands it over, or the connection.
SockInv ==
  /\ \A s \in Sockets : sock[s] = "none" => cst[s] = "none" /\ sockfd # s
  /\ chan # None => sock[chan] \notin {"none", "closed"} /\ cst[chan] = "none"
  /\ fd # None /\ ~handed => sock[fd] # "closed" /\ cst[fd] = "none"
  /\ sockfd # None => lpc = "connected" /\ handed /\ cst[sockfd] = "none" /\ chan = None

\* A client is there while the user has it or a callback has it locked, and
\* until then its connection is up and calls it when it closes.
ClientInv ==
  /\ ref => client
  /\ lpc = "user" => client
  /\ client => \A s \in Sockets : closeCb[s] = "client"
  /\ client /\ connection # None => cst[connection] = "up"

\* While callbacks of an event are still to be called an attempt has its channel.
TodoInv ==
  /\ todo \in {<<>>, <<"write">>, <<"error", "write">>, <<"error", "error", "write">>}
  /\ lpc \in {"idle", "connected"} => todo = <<>>
  /\ todo # <<>> /\ status = "Connecting" => chan # None

IInv == TypeInv /\ QueueOK(funcs, cst, client) /\ SockInv /\ ClientInv /\ TodoInv

-----------------------------------------------------------------------------
\* A function other than connectDestroyed() is queued.
LEMMA QueueAppend ==
  ASSUME NEW fs \in Seq(Functors), NEW f \in Functors, NEW cs, NEW cl, QueueOK(fs, cs, cl),
         f[1] # "destroy", f[1] = "setClose" => ~cl
  PROVE  Append(fs, f) \in Seq(Functors) /\ QueueOK(Append(fs, f), cs, cl)
<1>1. /\ Append(fs, f) \in Seq(Functors) /\ Len(Append(fs, f)) = Len(fs) + 1 /\ Len(fs) \in Nat
      /\ \A i \in 1 .. Len(fs) : Append(fs, f)[i] = fs[i]
      /\ Append(fs, f)[Len(fs) + 1] = f
  BY AppendProperties
<1>2. \A i \in 1 .. Len(Append(fs, f)) : i \in 1 .. Len(fs) \/ i = Len(fs) + 1
  BY <1>1
<1> DEFINE q == Append(fs, f)
<1> HIDE DEF q
<1> QED BY Zenon, <1>1, <1>2 DEF q, QueueOK

\* A connection that is up closes and its connectDestroyed() is queued.
LEMMA QueueDestroy ==
  ASSUME NEW fs \in Seq(Functors), NEW s \in Sockets, NEW cs, NEW cl, QueueOK(fs, cs, cl),
         cs \in [Sockets -> {"none", "up", "closed", "destroyed"}], cs[s] = "up"
  PROVE  /\ Append(fs, <<"destroy", s>>) \in Seq(Functors)
         /\ QueueOK(Append(fs, <<"destroy", s>>), [cs EXCEPT ![s] = "closed"], cl)
<1> DEFINE f == <<"destroy", s>>  c == [cs EXCEPT ![s] = "closed"]  q == Append(fs, f)
<1>1. f \in Functors /\ f[1] = "destroy" /\ f[2] = s
  BY Zenon DEF Functors
<1>2. c[s] = "closed" /\ \A r \in Sockets : cs[r] = "closed" => c[r] = "closed"
  BY Zenon
<1> HIDE DEF f, c
<1>3. /\ q \in Seq(Functors) /\ Len(q) = Len(fs) + 1 /\ Len(fs) \in Nat
      /\ \A i \in 1 .. Len(fs) : q[i] = fs[i]
      /\ q[Len(fs) + 1] = f
  BY <1>1, AppendProperties
<1> HIDE DEF q
<1>4. \A i \in 1 .. Len(q) : i \in 1 .. Len(fs) \/ i = Len(fs) + 1
  BY <1>3
<1>5. \A i \in 1 .. Len(fs) : fs[i][1] = "destroy" => fs[i][2] \in Sockets /\ fs[i][2] # s
  <2>1. \A i \in 1 .. Len(fs) : fs[i] \in Functors
    BY Zenon, ElementOfSeq
  <2> QED BY Zenon, <2>1 DEF Functors, QueueOK
<1>6. QueueOK(q, c, cl)
  <2>1. ASSUME NEW i \in 1 .. Len(q)
        PROVE  (q[i][1] = "destroy" => c[q[i][2]] = "closed") /\ (q[i][1] = "setClose" => ~cl)
    <3>1. CASE i \in 1 .. Len(fs)
      BY <3>1, <1>2, <1>3, <1>5 DEF QueueOK
    <3>2. CASE i = Len(fs) + 1
      BY Zenon, <3>2, <1>1, <1>2, <1>3
    <3> QED BY Zenon, <3>1, <3>2, <1>4
  <2>2. ASSUME NEW i \in 1 .. Len(q), NEW j \in 1 .. Len(q),
               q[i][1] = "destroy", q[j][1] = "destroy", q[i][2] = q[j][2]
        PROVE  i = j
    <3>1. CASE i \in 1 .. Len(fs) /\ j \in 1 .. Len(fs)
      BY Zenon, <3>1, <2>2, <1>3 DEF QueueOK
    <3>2. CASE ~(i \in 1 .. Len(fs) /\ j \in 1 .. Len(fs))
      BY ZenonT(30), <3>2, <2>2, <1>1, <1>3, <1>4, <1>5
    <3> QED BY Zenon, <3>1, <3>2
  <2> QED BY Zenon, <2>1, <2>2 DEF QueueOK
<1> QED BY Zenon, <1>3, <1>6 DEF q, c, f

\* The first function is taken from the queue, and connectDestroyed() is run if
\* it is that.
LEMMA QueueTail ==
  ASSUME NEW fs \in Seq(Functors), fs # <<>>, NEW cs, NEW cl, QueueOK(fs, cs, cl),
         cs \in [Sockets -> {"none", "up", "closed", "destroyed"}]
  PROVE  /\ Head(fs) \in Functors /\ Tail(fs) \in Seq(Functors)
         /\ QueueOK(Tail(fs), cs, cl)
         /\ Head(fs)[1] = "setClose" => ~cl
         /\ Head(fs)[1] = "destroy" =>
              /\ cs[Head(fs)[2]] = "closed"
              /\ QueueOK(Tail(fs), [cs EXCEPT ![Head(fs)[2]] = "destroyed"], cl)
<1> DEFINE q == Tail(fs)  f == Head(fs)
<1>1. /\ q \in Seq(Functors) /\ f \in Functors /\ f = fs[1] /\ Len(fs) \in Nat /\ 1 \in 1 .. Len(fs)
      /\ Len(q) = Len(fs) - 1 /\ \A i \in 1 .. Len(q) : q[i] = fs[i + 1]
  BY HeadTailProperties, EmptySeq, LenProperties
<1> HIDE DEF q, f
<1>2. \A i \in 1 .. Len(q) : i + 1 \in 1 .. Len(fs) /\ i + 1 # 1 /\ q[i] = fs[i + 1] /\ q[i] \in Functors
  BY <1>1, ElementOfSeq
<1>3. QueueOK(q, cs, cl)
  <2>1. \A i \in 1 .. Len(q) :
          /\ q[i][1] = "destroy" => cs[q[i][2]] = "closed"
          /\ q[i][1] = "setClose" => ~cl
    BY <1>2 DEF QueueOK
  <2>2. ASSUME NEW i \in 1 .. Len(q), NEW j \in 1 .. Len(q),
               q[i][1] = "destroy", q[j][1] = "destroy", q[i][2] = q[j][2]
        PROVE  i = j
    <3>1. i + 1 = j + 1
      BY ZenonT(30), <2>2, <1>2 DEF QueueOK
    <3> QED BY <3>1
  <2> QED BY Zenon, <2>1, <2>2 DEF QueueOK
<1>4. f[1] = "setClose" => ~cl
  BY Zenon, <1>1 DEF QueueOK
<1>5. ASSUME f[1] = "destroy" PROVE cs[f[2]] = "closed" /\ QueueOK(q, [cs EXCEPT ![f[2]] = "destroyed"], cl)
  <2> DEFINE c == [cs EXCEPT ![f[2]] = "destroyed"]
  <2>1. \A r \in Sockets : r # f[2] => c[r] = cs[r]
    BY Zenon
  <2> HIDE DEF c
  <2>2. \A i \in 1 .. Len(q) : q[i][1] = "destroy" => q[i][2] \in Sockets /\ q[i][2] # f[2]
    BY <1>1, <1>2, <1>5 DEF QueueOK, Functors
  <2>3. QueueOK(q, c, cl)
    BY Zenon, <2>1, <2>2, <1>3 DEF QueueOK
  <2> QED BY Zenon, <2>3, <1>1, <1>5 DEF c, QueueOK
<1> QED BY Zenon, <1>1, <1>3, <1>4, <1>5 DEF q, f

\* A released client is gone for the functions in the queue, too.
LEMMA QueueReleased ==
  ASSUME NEW fs, NEW cs, NEW cl, QueueOK(fs, cs, cl)
  PROVE  QueueOK(fs, cs, FALSE)
BY Zenon DEF QueueOK

-----------------------------------------------------------------------------
SocketStates == {"none", "pending", "established", "failed", "refused", "closed"}
ConnectionStates == {"none", "up", "closed", "destroyed"}
Assertions == {"no", "start", "freed", "connecting", "remove"}

Flags == handed \in BOOLEAN /\ connect \in BOOLEAN /\ client \in BOOLEAN /\ ref \in BOOLEAN

Shapes ==
  /\ status \in {"Disconnected", "Connecting", "Connected"}
  /\ chan \in Sockets \cup {None} /\ fd \in Sockets \cup {None}
  /\ connection \in Sockets \cup {None} /\ sockfd \in Sockets \cup {None}
  /\ sock \in [Sockets -> SocketStates]
  /\ cst \in [Sockets -> ConnectionStates]
  /\ closeCb \in [Sockets -> {"client", "destroy"}]
  /\ lpc \in {"idle", "event", "connected", "user"}
  /\ upc \in {"idle", "stopping"}
  /\ calls \in 0 .. MaxCalls
  /\ reported \subseteq Sockets
  /\ aborted \in Assertions

\* The two ways to say what the variables are
LEMMA ShapesAre ==
  TypeInv <=> /\ Shapes /\ Flags /\ funcs \in Seq(Functors)
              /\ client /\ connection # None => cst[connection] = "up"
BY Zenon DEF TypeInv, TypeOK, Shapes, Flags, SocketStates, ConnectionStates, Assertions

\* removeAndResetChannel() queues the function that keeps the channel.
LEMMA Removes ==
  ASSUME Shapes, NEW fs \in Seq(Functors), NEW cs, NEW cl, QueueOK(fs, cs, cl), RemoveAndResetChannel(fs)
  PROVE  chan' = None /\ funcs' \in Seq(Functors) /\ QueueOK(funcs', cs, cl)
<1>1. CASE chan = None
  BY Zenon, <1>1 DEF RemoveAndResetChannel
<1>2. CASE chan # None
  <2> DEFINE f == <<"keep", chan>>
  <2>1. f \in Functors /\ f[1] = "keep"
    BY Zenon, <1>2 DEF Shapes, Functors
  <2> HIDE DEF f
  <2>2. funcs' = Append(fs, f) /\ chan' = None
    BY Zenon, <1>2 DEF RemoveAndResetChannel, f
  <2> QED BY Zenon, <2>1, <2>2, QueueAppend
<1> QED BY Zenon, <1>1, <1>2

\* What startInLoop() does: it aborts, or uses a new socket.
LEMMA Starts ==
  ASSUME Shapes, Flags, SockInv, ClientInv, lpc \in {"idle", "user"}, NEW fs \in Seq(Functors),
         QueueOK(fs, cst, client), QueueOK(funcs, cst, client), funcs \in Seq(Functors),
         StartInLoop(fs), UNCHANGED <<sockfd, connection, cst, closeCb, client, ref, todo, upc>>,
         calls' \in 0 .. MaxCalls, connect' \in BOOLEAN
  PROVE  Shapes' /\ Flags' /\ funcs' \in Seq(Functors) /\ QueueOK(funcs', cst', client') /\ SockInv' /\ ClientInv'
<1>1. CASE status # "Disconnected" \/ ~ConnectorAlive
  <2>1. aborted' \in Assertions /\ UNCHANGED <<connVars, funcs, lpc, reported>>
    BY Zenon, <1>1 DEF StartInLoop, Assertions
  <2>2. Shapes'
    BY Zenon, <2>1 DEF Shapes, connVars
  <2>3. Flags'
    BY Zenon, <2>1 DEF Flags, connVars
  <2>4. SockInv'
    BY Zenon, <2>1 DEF SockInv, connVars
  <2>5. ClientInv'
    BY Zenon, <2>1 DEF ClientInv
  <2> QED BY Zenon, <2>1, <2>2, <2>3, <2>4, <2>5
<1>2. CASE ~(status # "Disconnected" \/ ~ConnectorAlive)
  <2>1. PICK s \in Sockets : sock[s] = "none" /\ ConnectSocket(s, fs)
    BY Zenon, <1>2 DEF StartInLoop
  <2>2. /\ fd' = s /\ funcs' = fs /\ handed' \in BOOLEAN
        /\ chan' = chan \/ chan' = s
        /\ status' \in {status, "Connecting"}
        /\ aborted' \in {aborted, "connecting"}
        /\ reported' \subseteq reported \cup {s}
        /\ lpc' = lpc \/ lpc' = "event" \/ (lpc' = "user" /\ client)
    BY Zenon, <2>1 DEF ConnectSocket, Connecting, ErrorCallback
  <2>3. PICK x \in SocketStates \ {"none"} :
          /\ sock' = [sock EXCEPT ![s] = x]
          /\ ~handed' => x # "closed"
          /\ chan' = s => x # "closed" \/ chan = s
    BY Zenon, <2>1 DEF ConnectSocket, Connecting, SocketStates
  <2>4. sock'[s] = x /\ \A r \in Sockets : r # s => sock'[r] = sock[r]
    BY Zenon, <2>3 DEF Shapes
  <2>5. cst[s] = "none" /\ sockfd = None /\ chan # s
    <3>1. s # None
      BY NoneAssumption DEF Sockets
    <3> QED BY Zenon, <3>1, <2>1 DEF SockInv
  <2>6. Shapes'
    BY <2>2, <2>3, <2>4 DEF Shapes, Assertions
  <2>7. Flags'
    BY Zenon, <2>2 DEF Flags
  <2>8. SockInv'
    <3>1. \A r \in Sockets : sock'[r] = "none" => cst'[r] = "none" /\ sockfd' # r
      BY Zenon, <2>3, <2>4 DEF SockInv
    <3>2. chan' # None => sock'[chan'] \notin {"none", "closed"} /\ cst'[chan'] = "none"
      BY <2>2, <2>3, <2>4, <2>5 DEF SockInv, Shapes
    <3>3. fd' # None /\ ~handed' => sock'[fd'] # "closed" /\ cst'[fd'] = "none"
      BY Zenon, <2>2, <2>3, <2>4, <2>5
    <3>4. sockfd' = None
      BY Zenon, <2>5
    <3> QED BY Zenon, <3>1, <3>2, <3>3, <3>4 DEF SockInv
  <2>9. ClientInv'
    BY Zenon, <2>2 DEF ClientInv
  <2> QED BY Zenon, <2>2, <2>6, <2>7, <2>8, <2>9
<1> QED BY Zenon, <1>1, <1>2

\* What ~TcpClient() does in the loop thread
LEMMA Destroys ==
  ASSUME TypeInv, QueueOK(funcs, cst, client), SockInv, client, DtorInLoop,
         lpc # "connected", lpc' \in {"idle", "event"}, ref' = FALSE,
         UNCHANGED <<sockfd, todo, callVars, reported, aborted>>
  PROVE  Shapes' /\ Flags' /\ funcs' \in Seq(Functors) /\ QueueOK(funcs', cst', client') /\ SockInv' /\ ClientInv'
<1>1. Shapes /\ Flags /\ funcs \in Seq(Functors) /\ (connection # None => cst[connection] = "up")
  BY Zenon, ShapesAre
<1>2. QueueOK(funcs, cst, FALSE) /\ client' = FALSE /\ UNCHANGED <<fd, handed, sock, connection, connect>>
  BY Zenon, QueueReleased DEF DtorInLoop
<1>3. ClientInv' /\ Flags'
  BY Zenon, <1>1, <1>2 DEF ClientInv, Flags
<1>4. sockfd = None
  BY Zenon DEF SockInv
<1>5. CASE connection = None
  <2>1. status' = "Disconnected" /\ RemoveAndResetChannel(funcs) /\ UNCHANGED <<cst, closeCb>>
    BY Zenon, <1>5 DEF DtorInLoop
  <2>2. chan' = None /\ funcs' \in Seq(Functors) /\ QueueOK(funcs', cst, FALSE)
    BY Zenon, <2>1, <1>1, <1>2, Removes
  <2>3. Shapes'
    BY Zenon, <2>1, <2>2, <1>1, <1>2 DEF Shapes, callVars
  <2>4. SockInv'
    BY Zenon, <2>1, <2>2, <1>2, <1>4 DEF SockInv
  <2> QED BY Zenon, <2>1, <2>2, <2>3, <2>4, <1>2, <1>3
<1>6. CASE connection # None
  <2>1. /\ closeCb' = [closeCb EXCEPT ![connection] = "destroy"]
        /\ cst' = [cst EXCEPT ![connection] = "closed"]
        /\ funcs' = Append(funcs, <<"destroy", connection>>)
        /\ UNCHANGED <<status, chan>>
    BY Zenon, <1>6 DEF DtorInLoop
  <2>2. connection \in Sockets /\ cst[connection] = "up" /\ cst \in [Sockets -> ConnectionStates]
    BY Zenon, <1>1, <1>6 DEF Shapes
  <2>3. funcs' \in Seq(Functors) /\ QueueOK(funcs', cst', FALSE)
    BY Zenon, <2>1, <2>2, <1>1, <1>2, QueueDestroy DEF ConnectionStates
  <2>4. Shapes'
    BY Zenon, <2>1, <2>2, <1>1, <1>2 DEF Shapes, ConnectionStates, callVars
  <2>5. SockInv'
    BY Zenon, <2>1, <2>2, <1>1, <1>2, <1>4 DEF SockInv, Shapes
  <2> QED BY Zenon, <2>3, <2>4, <2>5, <1>2, <1>3
<1> QED BY Zenon, <1>5, <1>6

\* A connection that is up closes, by its peer or by forceClose().
LEMMA Closes ==
  ASSUME TypeInv, SockInv, ClientInv, NEW s \in Sockets, cst[s] = "up", cst' = [cst EXCEPT ![s] = "closed"],
         NEW fs \in Seq(Functors), QueueOK(fs, cst, client), CloseCallback(s, fs),
         UNCHANGED <<connVars, sockfd, connect, closeCb, client, ref, lpc, todo, callVars, reported>>
  PROVE  Shapes' /\ Flags' /\ funcs' \in Seq(Functors) /\ QueueOK(funcs', cst', client') /\ SockInv' /\ ClientInv'
<1>1. Shapes /\ Flags
  BY Zenon, ShapesAre
<1>2. cst \in [Sockets -> ConnectionStates] /\ cst' \in [Sockets -> ConnectionStates]
      /\ \A r \in Sockets : r # s => cst'[r] = cst[r]
  BY Zenon, <1>1 DEF Shapes, ConnectionStates
<1>3. funcs' \in Seq(Functors) /\ QueueOK(funcs', cst', client)
  BY Zenon, <1>2, QueueDestroy DEF CloseCallback, ConnectionStates
<1>4. client => connection' = None
  BY Zenon DEF CloseCallback, ClientInv
<1>5. connection' \in {connection, None} /\ aborted' \in {aborted, "remove"}
  BY Zenon DEF CloseCallback
<1>6. Shapes'
  BY SMTT(30), <1>1, <1>2, <1>5 DEF Shapes, connVars, callVars, Assertions
<1>7. Flags'
  BY Zenon, <1>1 DEF Flags, connVars
<1>8. SockInv'
  BY Zenon, <1>1, <1>2 DEF SockInv, Shapes, connVars
<1>9. ClientInv'
  BY Zenon, <1>4 DEF ClientInv
<1> QED BY Zenon, <1>3, <1>6, <1>7, <1>8, <1>9

\* The channel of a failed attempt goes and its socket is closed.
LEMMA Fails ==
  ASSUME TypeInv, QueueOK(funcs, cst, client), SockInv, ClientInv, lpc = "event", chan # None, Failed, handed' = TRUE,
         status' \in {"Disconnected", "Connecting", "Connected"},
         UNCHANGED <<sockfd, fd, clientVars, callVars, aborted>>
  PROVE  Shapes' /\ Flags' /\ funcs' \in Seq(Functors) /\ QueueOK(funcs', cst', client') /\ SockInv' /\ ClientInv'
<1>1. Shapes /\ Flags /\ funcs \in Seq(Functors)
  BY Zenon, ShapesAre
<1>2. chan' = None /\ funcs' \in Seq(Functors) /\ QueueOK(funcs', cst, client)
  BY Zenon, <1>1, Removes DEF Failed
<1>3. sockfd = None
  BY Zenon DEF SockInv
<1>4. /\ sock' \in [Sockets -> SocketStates]
      /\ \A s \in Sockets : sock'[s] = "none" => sock[s] = "none"
  BY Zenon, <1>1 DEF Failed, Shut, Shapes, SocketStates
<1>5. lpc' \in {"user", "event"} /\ (lpc' = "user" => client)
  BY Zenon DEF Failed, ErrorCallback
<1>6. reported' \subseteq Sockets
  BY Zenon, <1>1 DEF Failed, ErrorCallback, Shapes
<1>7. Shapes'
  BY Zenon, <1>1, <1>2, <1>4, <1>5, <1>6 DEF Shapes, clientVars, callVars
<1>8. Flags'
  BY Zenon, <1>1 DEF Flags, clientVars
<1>9. SockInv'
  BY Zenon, <1>1, <1>2, <1>3, <1>4 DEF SockInv, Shapes, clientVars
<1>10. ClientInv'
  BY Zenon, <1>5 DEF ClientInv, clientVars
<1> QED BY Zenon, <1>2, <1>7, <1>8, <1>9, <1>10 DEF clientVars

\* Each step preserves what is said of the sockets, the client and the queue, ...
LEMMA SocketStep ==
  ASSUME IInv, [Next]_vars
  PROVE  Shapes' /\ Flags' /\ funcs' \in Seq(Functors) /\ QueueOK(funcs', cst', client') /\ SockInv' /\ ClientInv'
<1> DEFINE Fine == /\ Shapes' /\ Flags' /\ funcs' \in Seq(Functors) /\ QueueOK(funcs', cst', client')
                   /\ SockInv' /\ ClientInv'
<1>1. /\ Shapes /\ Flags /\ funcs \in Seq(Functors) /\ TypeInv /\ QueueOK(funcs, cst, client)
      /\ SockInv /\ ClientInv /\ TodoInv
      /\ client /\ connection # None => cst[connection] = "up"
      /\ None \notin Sockets
  BY ShapesAre, NoneAssumption DEF IInv, Sockets
\* A step that leaves the sockets and the client alone
<1>2. ASSUME UNCHANGED <<chan, fd, handed, sock, connection, cst, closeCb, client, ref, sockfd>>,
             status' \in {"Disconnected", "Connecting", "Connected"}, upc' \in {"idle", "stopping"},
             calls' \in 0 .. MaxCalls, reported' = reported, aborted' = aborted, connect' \in BOOLEAN,
             lpc' \in {"idle", "event", "connected", "user"},
             lpc' # lpc => lpc # "connected" /\ lpc' \notin {"connected", "user"},
             funcs' \in Seq(Functors), QueueOK(funcs', cst, client)
      PROVE  Fine
  <2>1. Shapes'
    BY Zenon, <1>1, <1>2 DEF Shapes
  <2>2. Flags'
    BY Zenon, <1>1, <1>2 DEF Flags
  <2>3. SockInv'
    BY Zenon, <1>1, <1>2 DEF SockInv
  <2>4. ClientInv'
    BY Zenon, <1>1, <1>2 DEF ClientInv
  <2> QED BY Zenon, <2>1, <2>2, <2>3, <2>4, <1>2
<1>3. connect \in BOOLEAN /\ calls \in Nat /\ MaxCalls \in Nat /\ (calls < MaxCalls => calls + 1 \in 0 .. MaxCalls)
  BY <1>1, BoundsAssumption DEF Shapes, Flags
<1>4. CASE UNCHANGED vars
  <2>1. /\ UNCHANGED <<connVars, clientVars, funcs, lpc, sockfd>> /\ UNCHANGED <<callVars, reported, aborted>>
    BY Zenon, <1>4 DEF vars
  <2> QED BY SMTT(30), <2>1, <1>1 DEF connVars, clientVars, callVars, Shapes, Flags, SockInv, ClientInv
<1>5. ASSUME NEW s \in Sockets, AttemptEnds(s) PROVE Fine
  <2>1. PICK r \in {"established", "failed"} : sock' = [sock EXCEPT ![s] = r]
    BY Zenon, <1>5 DEF AttemptEnds
  <2>2. /\ sock[s] = "pending"
        /\ UNCHANGED <<sockfd, status, chan, fd, handed, clientVars, funcs, lpc, callVars, reported, aborted>>
    BY Zenon, <1>5 DEF AttemptEnds
  <2>3. sock' \in [Sockets -> SocketStates] /\ sock'[s] = r /\ \A q \in Sockets : q # s => sock'[q] = sock[q]
    BY Zenon, <2>1, <1>1 DEF Shapes, SocketStates
  <2>4. Shapes'
    BY ZenonT(30), <2>2, <2>3, <1>1 DEF Shapes, clientVars, callVars
  <2>5. Flags' /\ ClientInv'
    BY Zenon, <2>2, <1>1 DEF Flags, ClientInv, clientVars
  <2>6. SockInv'
    BY Zenon, <2>2, <2>3, <1>1 DEF SockInv, Shapes, clientVars
  <2> QED BY Zenon, <2>2, <2>4, <2>5, <2>6, <1>1 DEF clientVars
<1>6. ASSUME NEW s \in Sockets, ChannelEvent(s) PROVE Fine
  BY Zenon, <1>6, <1>1, <1>2, <1>3 DEF ChannelEvent, connVars, clientVars, callVars, Shapes
<1>7. CASE EventDone
  BY Zenon, <1>7, <1>1, <1>2, <1>3 DEF EventDone, connVars, clientVars, callVars, Shapes
<1>8. CASE HandleError
  <2>1. CASE status = "Connecting"
    <3>1. chan # None
      BY Zenon, <2>1, <1>1, <1>8 DEF HandleError, TodoInv
    <3> QED BY Zenon, <3>1, <2>1, <1>1, <1>8, Fails DEF HandleError
  <2>2. CASE status # "Connecting"
    <3>1. /\ handed' = TRUE /\ lpc = "event"
          /\ UNCHANGED <<status, sock, chan, funcs, lpc, reported, sockfd, fd, clientVars, callVars, aborted>>
      BY Zenon, <2>2, <1>8 DEF HandleError
    <3>2. Shapes' /\ Flags'
      BY <3>1, <1>1 DEF Shapes, Flags, clientVars, callVars
    <3>3. SockInv' /\ ClientInv'
      BY Zenon, <3>1, <1>1 DEF SockInv, ClientInv, clientVars
    <3> QED BY Zenon, <3>1, <3>2, <3>3, <1>1 DEF clientVars
  <2> QED BY Zenon, <2>1, <2>2
<1>9. CASE HandleWrite
  <2>1. /\ handed' = TRUE /\ lpc = "event" /\ UNCHANGED <<status, fd, clientVars, callVars, aborted>>
    BY Zenon, <1>9 DEF HandleWrite
  <2>2. CASE status = "Connecting" /\ chan # None /\ Failed /\ UNCHANGED sockfd
    BY Zenon, <2>1, <2>2, <1>1, Fails DEF Shapes
  <2>3. CASE /\ status = "Connecting" /\ chan # None /\ sock[chan] # "failed"
             /\ lpc' = "connected" /\ sockfd' = chan /\ RemoveAndResetChannel(funcs) /\ UNCHANGED <<sock, reported>>
    <3>1. /\ lpc' = "connected" /\ sockfd' = chan /\ RemoveAndResetChannel(funcs) /\ UNCHANGED <<sock, reported>>
      BY Zenon, <2>3
    <3>2. chan' = None /\ funcs' \in Seq(Functors) /\ QueueOK(funcs', cst, client)
      BY Zenon, <3>1, <1>1, Removes
    <3>3. Shapes' /\ Flags'
      BY ZenonT(30), <3>1, <3>2, <2>1, <1>1 DEF Shapes, Flags, clientVars, callVars
    <3>4. SockInv'
      BY Zenon, <3>1, <3>2, <2>1, <2>3, <1>1 DEF SockInv, clientVars
    <3>5. ClientInv'
      BY Zenon, <3>1, <2>1, <1>1 DEF ClientInv, clientVars
    <3> QED BY Zenon, <3>2, <3>3, <3>4, <3>5, <2>1 DEF clientVars
  <2>4. CASE status # "Connecting"
    <3>1. UNCHANGED <<sock, chan, funcs, lpc, reported, sockfd>>
      BY Zenon, <2>4, <1>9 DEF HandleWrite
    <3>2. Shapes' /\ Flags'
      BY ZenonT(30), <3>1, <2>1, <1>1 DEF Shapes, Flags, clientVars, callVars
    <3>3. SockInv' /\ ClientInv'
      BY Zenon, <3>1, <2>1, <1>1 DEF SockInv, ClientInv, clientVars
    <3> QED BY Zenon, <3>1, <3>2, <3>3, <2>1, <1>1 DEF clientVars
  <2> QED BY Zenon, <2>2, <2>3, <2>4, <1>9 DEF HandleWrite
<1>10. ASSUME NEW s \in Sockets, NewConnection(s) PROVE Fine
  <2>1. /\ lpc = "connected" /\ sockfd = s /\ sockfd' = None /\ status' = "Connected"
        /\ UNCHANGED <<chan, fd, handed, sock, connect, closeCb, client, ref, funcs, callVars, reported, aborted>>
    BY Zenon, <1>10 DEF NewConnection
  <2>2. s # None /\ cst[s] = "none" /\ chan = None /\ handed /\ sock[s] # "none"
    BY Zenon, <2>1, <1>1 DEF SockInv
  <2>3. CASE client
    <3>1. connection' = s /\ cst' = [cst EXCEPT ![s] = "up"] /\ lpc' = "user"
      BY Zenon, <2>3, <1>10 DEF NewConnection
    <3>2. /\ cst' \in [Sockets -> ConnectionStates] /\ cst'[s] = "up"
          /\ \A r \in Sockets : r # s => cst'[r] = cst[r]
      BY Zenon, <3>1, <1>1 DEF Shapes, ConnectionStates
    <3>3. QueueOK(funcs', cst', client')
      <4>1. \A i \in 1 .. Len(funcs) : funcs[i][1] = "destroy" => funcs[i][2] \in Sockets
        BY SMTT(30), <1>1, ElementOfSeq DEF Functors
      <4> QED BY Zenon, <4>1, <3>2, <2>1, <2>2, <1>1 DEF QueueOK
    <3>4. Shapes' /\ Flags'
      BY Zenon, <3>1, <3>2, <2>1, <1>1 DEF Shapes, Flags, callVars
    <3>5. SockInv'
      BY Zenon, <3>1, <3>2, <2>1, <2>2, <1>1 DEF SockInv
    <3>6. ClientInv'
      BY Zenon, <3>1, <3>2, <2>1, <2>3, <1>1 DEF ClientInv
    <3> QED BY Zenon, <3>3, <3>4, <3>5, <3>6, <2>1, <1>1
  <2>4. CASE ~client
    <3>1. lpc' = "event" /\ UNCHANGED <<connection, cst>>
      BY Zenon, <2>4, <1>10 DEF NewConnection
    <3>2. Shapes' /\ Flags'
      BY ZenonT(30), <3>1, <2>1, <1>1 DEF Shapes, Flags, callVars
    <3>3. SockInv' /\ ClientInv'
      BY Zenon, <3>1, <2>1, <2>2, <1>1 DEF SockInv, ClientInv
    <3> QED BY Zenon, <3>1, <3>2, <3>3, <2>1, <1>1
  <2> QED BY Zenon, <2>3, <2>4
<1>11. ASSUME NEW s \in Sockets, ConnectionCloses(s) PROVE Fine
  BY Zenon, <1>11, <1>1, Closes DEF ConnectionCloses
<1>12. CASE RunFunc
  <2> DEFINE op == Head(funcs)[1]  s == Head(funcs)[2]  fs == Tail(funcs)
  <2>1. lpc = "idle" /\ funcs # <<>> /\ UNCHANGED <<sockfd, todo, callVars>>
    BY Zenon, <1>12 DEF RunFunc
  <2>2. /\ Head(funcs) \in Functors /\ fs \in Seq(Functors) /\ QueueOK(fs, cst, client)
        /\ op = "setClose" => ~client
        /\ op = "destroy" => cst[s] = "closed" /\ QueueOK(fs, [cst EXCEPT ![s] = "destroyed"], client)
    BY ZenonT(30), <2>1, <1>1, QueueTail DEF Shapes, ConnectionStates
  <2>3. op \in {"keep", "setClose", "forceClose", "destroy"} => s \in Sockets
    BY Zenon, <2>2 DEF Functors
  <2>4. CASE op = "start" /\ StartInLoop(fs) /\ UNCHANGED clientVars
    BY Zenon, <2>1, <2>2, <2>4, <1>1, <1>3, Starts DEF clientVars, callVars, Shapes
  <2>5. CASE op = "remove" /\ RemoveAndResetChannel(fs)
             /\ UNCHANGED <<status, fd, handed, sock, clientVars, lpc, reported, aborted>>
    <3>1. chan' = None /\ funcs' \in Seq(Functors) /\ QueueOK(funcs', cst, client)
      BY Zenon, <2>2, <2>5, <1>1, Removes
    <3>2. Shapes' /\ Flags'
      BY ZenonT(30), <3>1, <2>1, <2>5, <1>1 DEF Shapes, Flags, clientVars, callVars
    <3>3. SockInv' /\ ClientInv'
      BY Zenon, <3>1, <2>1, <2>5, <1>1 DEF SockInv, ClientInv, clientVars
    <3> QED BY Zenon, <3>1, <3>2, <3>3, <2>5 DEF clientVars
  <2>6. CASE op = "keep" /\ funcs' = fs /\ UNCHANGED <<connVars, clientVars, lpc, reported, aborted>>
    BY Zenon, <2>1, <2>2, <2>6, <1>1, <1>2, <1>3 DEF connVars, clientVars, callVars, Shapes
  <2>7. CASE /\ op = "setClose" /\ closeCb' = [closeCb EXCEPT ![s] = "destroy"] /\ funcs' = fs
             /\ UNCHANGED <<connVars, connection, connect, cst, client, ref, lpc, reported, aborted>>
    <3>1. closeCb' \in [Sockets -> {"client", "destroy"}] /\ ~client
      BY Zenon, <2>2, <2>7, <1>1 DEF Shapes
    <3>2. Shapes' /\ Flags'
      BY ZenonT(30), <3>1, <2>1, <2>7, <1>1 DEF Shapes, Flags, connVars, callVars
    <3>3. SockInv' /\ ClientInv'
      BY Zenon, <3>1, <2>1, <2>7, <1>1 DEF SockInv, ClientInv, connVars
    <3> QED BY Zenon, <3>2, <3>3, <2>2, <2>7
  <2>8. CASE /\ op = "forceClose"
             /\ IF cst[s] = "up"
                  THEN cst' = [cst EXCEPT ![s] = "closed"] /\ CloseCallback(s, fs)
                  ELSE funcs' = fs /\ UNCHANGED <<cst, connection, aborted>>
             /\ UNCHANGED <<connVars, connect, closeCb, client, ref, lpc, reported>>
    <3>1. CASE cst[s] = "up"
      BY Zenon, <3>1, <2>1, <2>2, <2>3, <2>8, <1>1, Closes
    <3>2. CASE cst[s] # "up"
      BY Zenon, <3>2, <2>1, <2>2, <2>8, <1>1, <1>2, <1>3 DEF connVars, callVars, Shapes
    <3> QED BY Zenon, <3>1, <3>2
  <2>9. CASE /\ op = "destroy" /\ cst' = [cst EXCEPT ![s] = "destroyed"] /\ sock' = [sock EXCEPT ![s] = "closed"]
             /\ funcs' = fs
             /\ UNCHANGED <<status, chan, fd, handed, connection, connect, closeCb, client, ref, lpc, reported, aborted>>
    <3>1. s \in Sockets /\ cst[s] = "closed"
      BY Zenon, <2>2, <2>3, <2>9
    <3> HIDE DEF op, s, fs
    <3>2. /\ cst' \in [Sockets -> ConnectionStates] /\ sock' \in [Sockets -> SocketStates] /\ sock'[s] = "closed"
          /\ \A r \in Sockets : r # s => cst'[r] = cst[r] /\ sock'[r] = sock[r]
      BY Zenon, <3>1, <2>9, <1>1 DEF Shapes, ConnectionStates, SocketStates
    <3>3. Shapes' /\ Flags'
      BY ZenonT(30), <3>2, <2>1, <2>9, <1>1 DEF Shapes, Flags, callVars
    <3>4. SockInv'
      BY ZenonT(30), <3>1, <3>2, <2>1, <2>9, <1>1 DEF SockInv, Shapes
    <3>5. ClientInv'
      BY Zenon, <3>1, <3>2, <2>1, <2>9, <1>1 DEF ClientInv, Shapes
    <3> QED BY Zenon, <3>3, <3>4, <3>5, <2>2, <2>9
  <2> QED BY Zenon, <2>4, <2>5, <2>6, <2>7, <2>8, <2>9, <1>12 DEF RunFunc
<1>13. CASE Connect
  <2> DEFINE f == <<"start", None>>
  <2>1. f \in Functors /\ f[1] = "start"
    BY Zenon DEF Functors
  <2>2. Append(funcs, f) \in Seq(Functors) /\ QueueOK(Append(funcs, f), cst, client)
    BY Zenon, <2>1, <1>1, QueueAppend
  <2> QED BY Zenon, <2>2, <1>1, <1>2, <1>3, <1>13 DEF Connect, MayConnect, connVars, Shapes, SockInv
<1>14. CASE ConnectInLoop
  BY Zenon, <1>1, <1>3, <1>14, Starts DEF ConnectInLoop, MayConnect
<1>15. CASE Stop
  BY Zenon, <1>1, <1>2, <1>3, <1>15 DEF Stop, Shapes
<1>16. CASE StopQueue
  <2> DEFINE f == <<"remove", None>>
  <2>1. f \in Functors /\ f[1] = "remove"
    BY Zenon DEF Functors
  <2>2. Append(funcs, f) \in Seq(Functors) /\ QueueOK(Append(funcs, f), cst, client)
    BY Zenon, <2>1, <1>1, QueueAppend
  <2> QED BY Zenon, <2>2, <1>1, <1>2, <1>3, <1>16 DEF StopQueue, connVars, clientVars, Shapes
<1>17. CASE StopInLoop
  <2>1. chan' = None /\ funcs' \in Seq(Functors) /\ QueueOK(funcs', cst, client)
    BY Zenon, <1>1, <1>17, Removes DEF StopInLoop
  <2>2. /\ lpc \in {"idle", "user"} /\ connect' = FALSE /\ calls' \in 0 .. MaxCalls /\ status' = "Disconnected"
        /\ UNCHANGED <<sockfd, fd, handed, sock, connection, cst, closeCb, client, ref, lpc, upc, reported, aborted>>
    BY Zenon, <1>3, <1>17 DEF StopInLoop
  <2>3. Shapes' /\ Flags'
    BY ZenonT(30), <2>1, <2>2, <1>1 DEF Shapes, Flags
  <2>4. SockInv' /\ ClientInv'
    BY Zenon, <2>1, <2>2, <1>1 DEF SockInv, ClientInv
  <2> QED BY Zenon, <2>1, <2>2, <2>3, <2>4
<1>18. CASE Disconnect
  BY Zenon, <1>1, <1>2, <1>3, <1>18 DEF Disconnect, connVars, Shapes
<1>19. CASE Release
  <2>1. /\ ref' = FALSE /\ calls' = calls
        /\ UNCHANGED <<sockfd, chan, fd, handed, sock, connection, connect, cst, closeCb, lpc, reported, aborted>>
    BY Zenon, <1>19 DEF Release
  <2>2. CASE lpc = "user"
    <3>1. UNCHANGED <<client, status, upc, funcs>>
      BY Zenon, <2>2, <1>19 DEF Release
    <3>2. Shapes'
      BY Zenon, <3>1, <2>1, <1>1 DEF Shapes
    <3>4. Flags'
      BY Zenon, <3>1, <2>1, <1>1 DEF Flags
    <3>3. SockInv' /\ ClientInv'
      BY Zenon, <3>1, <2>1, <1>1 DEF SockInv, ClientInv
    <3> QED BY Zenon, <3>1, <3>2, <3>3, <3>4, <2>1, <1>1
  <2>3. CASE lpc # "user"
    <3>1. client' = FALSE /\ status' \in {status, "Disconnected"} /\ upc' \in {upc, "stopping"}
      BY Zenon, <2>3, <1>19 DEF Release
    <3>2. Shapes' /\ Flags'
      <4>1. Shapes'
        BY ZenonT(30), <3>1, <2>1, <1>1 DEF Shapes
      <4>2. Flags'
        BY Zenon, <3>1, <2>1, <1>1 DEF Flags
      <4> QED BY Zenon, <4>1, <4>2
    <3>3. SockInv' /\ ClientInv'
      BY Zenon, <3>1, <2>1, <2>3, <1>1 DEF SockInv, ClientInv
    <3>4. QueueOK(funcs, cst, FALSE)
      BY Zenon, <1>1, QueueReleased
    <3>5. funcs' \in Seq(Functors) /\ QueueOK(funcs', cst, FALSE)
      <4>1. CASE connection = None
        BY Zenon, <4>1, <3>4, <2>3, <1>1, <1>19 DEF Release
      <4>2. CASE connection # None
        <5> DEFINE f == <<"setClose", connection>>  g == <<"forceClose", connection>>
        <5>1. f \in Functors /\ g \in Functors /\ f[1] = "setClose" /\ g[1] = "forceClose"
          BY Zenon, <4>2, <1>1 DEF Functors, Shapes
        <5>2. funcs' = funcs \o <<f, g>>
          BY Zenon, <4>2, <2>3, <1>19 DEF Release
        <5> HIDE DEF f, g
        <5>3. funcs \o <<f, g>> = Append(Append(funcs, f), g)
          BY <5>1, <1>1
        <5>4. Append(funcs, f) \in Seq(Functors) /\ QueueOK(Append(funcs, f), cst, FALSE)
          BY Zenon, <5>1, <3>4, <1>1, QueueAppend
        <5>5. Append(Append(funcs, f), g) \in Seq(Functors) /\ QueueOK(Append(Append(funcs, f), g), cst, FALSE)
          BY Zenon, <5>1, <5>4, QueueAppend
        <5> QED BY Zenon, <5>2, <5>3, <5>5
      <4> QED BY Zenon, <4>1, <4>2
    <3> QED BY Zenon, <3>1, <3>2, <3>3, <3>5, <2>1
  <2> QED BY Zenon, <2>2, <2>3
<1>20. CASE ReleaseInLoop
  BY Zenon, <1>1, <1>20, Destroys DEF ReleaseInLoop, ClientInv
<1>21. CASE UserReturns
  <2>1. CASE ref
    BY Zenon, <2>1, <1>1, <1>2, <1>3, <1>21 DEF UserReturns, connVars, callVars, Shapes
  <2>2. CASE ~ref
    <3>1. ref' = FALSE
      BY Zenon, <2>2, <1>1, <1>21 DEF UserReturns, Flags
    <3> QED BY Zenon, <3>1, <2>2, <1>1, <1>21, Destroys DEF UserReturns, ClientInv
  <2> QED BY Zenon, <2>1, <2>2
<1> QED BY Zenon, <1>4, <1>5, <1>6, <1>7, <1>8, <1>9, <1>10, <1>11, <1>12, <1>13, <1>14, <1>15, <1>16, <1>17, <1>18,
           <1>19, <1>20, <1>21 DEF Next, LoopStep

\* ... and what is said of an event and the attempt that it is about.
LEMMA TodoStep ==
  ASSUME IInv, [Next]_vars
  PROVE  TodoInv'
<1>1. /\ Shapes /\ SockInv /\ TodoInv /\ None \notin Sockets
  BY ShapesAre, NoneAssumption DEF IInv, Sockets
<1>2. todo \in {<<>>, <<"write">>, <<"error", "write">>, <<"error", "error", "write">>}
  BY Zenon, <1>1 DEF TodoInv
<1>a. /\ Tail(<<"write">>) = <<>> /\ Tail(<<"error", "write">>) = <<"write">>
      /\ Tail(<<"error", "error", "write">>) = <<"error", "write">>
  OBVIOUS
<1>b. Head(<<"error", "write">>) # "write" /\ Head(<<"error", "error", "write">>) # "write"
  OBVIOUS
<1>3. todo # <<>> => Tail(todo) \in {<<>>, <<"write">>, <<"error", "write">>}
  BY <1>2, <1>a, Zenon
<1>4. todo # <<>> /\ Head(todo) = "write" => Tail(todo) = <<>>
  BY <1>2, <1>a, <1>b, Zenon
\* A step that leaves the event alone
<1>5. ASSUME todo' = todo, lpc' \in {"idle", "connected"} => lpc \in {"idle", "connected"} \/ todo = <<>>,
             status' = status \/ status' # "Connecting" \/ chan' # None,
             chan' = chan \/ chan' # None \/ status' # "Connecting" \/ todo = <<>>
      PROVE  TodoInv'
  BY Zenon, <1>1, <1>5 DEF TodoInv
<1>6. ASSUME NEW fs, StartInLoop(fs)
      PROVE  /\ status' = status \/ chan' # None
             /\ chan' = chan \/ chan' # None
             /\ lpc' \in {lpc, "user", "event"}
  <2>1. CASE status # "Disconnected" \/ ~ConnectorAlive
    BY Zenon, <2>1, <1>6 DEF StartInLoop, connVars
  <2>2. CASE ~(status # "Disconnected" \/ ~ConnectorAlive)
    <3>1. PICK s \in Sockets : ConnectSocket(s, fs)
      BY Zenon, <2>2, <1>6 DEF StartInLoop
    <3> QED BY Zenon, <3>1, <1>1 DEF ConnectSocket, Connecting, ErrorCallback
  <2> QED BY Zenon, <2>1, <2>2
<1>7. DtorInLoop => (status' = status /\ chan' = chan) \/ status' = "Disconnected"
  BY Zenon DEF DtorInLoop
<1>8. CASE UNCHANGED vars
  BY Zenon, <1>5, <1>8 DEF vars, connVars
<1>9. ASSUME NEW s \in Sockets, AttemptEnds(s) PROVE TodoInv'
  BY Zenon, <1>5, <1>9 DEF AttemptEnds
<1>10. ASSUME NEW s \in Sockets, ChannelEvent(s) PROVE TodoInv'
  <2>1. /\ lpc' = "event" /\ todo' \in {<<"write">>, <<"error", "error", "write">>}
        /\ chan' = s
    BY Zenon, <1>10 DEF ChannelEvent, connVars
  <2> QED BY Zenon, <2>1, <1>1 DEF TodoInv
<1>11. CASE EventDone
  BY Zenon, <1>5, <1>11 DEF EventDone, connVars
<1>12. CASE HandleError
  <2>1. todo # <<>> /\ todo' = Tail(todo) /\ lpc = "event" /\ lpc' \in {"event", "user"} /\ status' # "Connecting"
    BY Zenon, <1>12 DEF HandleError, Failed, ErrorCallback
  <2> QED BY Zenon, <2>1, <1>3 DEF TodoInv
<1>13. CASE HandleWrite
  <2>1. todo' = <<>>
    BY Zenon, <1>4, <1>13 DEF HandleWrite
  <2> QED BY Zenon, <2>1 DEF TodoInv
<1>14. ASSUME NEW s \in Sockets, NewConnection(s) PROVE TodoInv'
  BY Zenon, <1>1, <1>14 DEF NewConnection, TodoInv
<1>15. ASSUME NEW s \in Sockets, ConnectionCloses(s) PROVE TodoInv'
  BY Zenon, <1>5, <1>15 DEF ConnectionCloses, connVars
<1>16. CASE RunFunc
  <2>1. todo = <<>> /\ todo' = todo
    BY Zenon, <1>1, <1>16 DEF RunFunc, TodoInv
  <2> QED BY Zenon, <2>1 DEF TodoInv
<1>17. CASE Connect
  BY Zenon, <1>5, <1>17 DEF Connect, connVars
<1>18. CASE ConnectInLoop
  <2>1. StartInLoop(funcs) /\ todo' = todo /\ lpc \in {"idle", "user"}
    BY Zenon, <1>18 DEF ConnectInLoop
  <2> QED BY Zenon, <2>1, <1>5, <1>6
<1>19. CASE Stop \/ StopQueue \/ Disconnect
  BY Zenon, <1>5, <1>19 DEF Stop, StopQueue, Disconnect, connVars
<1>20. CASE StopInLoop
  BY Zenon, <1>5, <1>20 DEF StopInLoop
<1>21. CASE Release
  <2>1. (status' = status \/ status' = "Disconnected") /\ UNCHANGED <<todo, lpc, chan>>
    BY Zenon, <1>21 DEF Release
  <2> QED BY Zenon, <2>1, <1>5
<1>22. CASE ReleaseInLoop
  BY Zenon, <1>5, <1>7, <1>22 DEF ReleaseInLoop
<1>23. CASE UserReturns
  <2>1. /\ todo' = todo /\ lpc' = "event"
        /\ (status' = status /\ chan' = chan) \/ status' = "Disconnected"
    BY Zenon, <1>7, <1>23 DEF UserReturns, connVars
  <2> QED BY Zenon, <2>1, <1>5
<1> QED BY Zenon, <1>8, <1>9, <1>10, <1>11, <1>12, <1>13, <1>14, <1>15, <1>16, <1>17, <1>18, <1>19, <1>20, <1>21, <1>22,
           <1>23 DEF Next, LoopStep

\* The inductive invariant
LEMMA InvStep ==
  ASSUME IInv, [Next]_vars
  PROVE  IInv'
<1>1. Shapes' /\ Flags' /\ funcs' \in Seq(Functors) /\ QueueOK(funcs', cst', client') /\ SockInv' /\ ClientInv'
  BY Zenon, SocketStep
<1>2. TodoInv'
  BY Zenon, TodoStep
<1>3. (client /\ connection # None => cst[connection] = "up")'
  BY Zenon, <1>1 DEF ClientInv
<1>4. (/\ Shapes /\ Flags /\ funcs \in Seq(Functors)
       /\ client /\ connection # None => cst[connection] = "up")' => TypeInv'
  BY ShapesAre, PTL
<1>5. TypeInv'
  BY Zenon, <1>1, <1>3, <1>4
<1> QED BY Zenon, <1>1, <1>2, <1>5 DEF IInv

\* A new client
LEMMA InvInit ==
  ASSUME Init
  PROVE  IInv
<1>1. funcs = <<>> /\ Len(funcs) = 0 /\ funcs \in Seq(Functors)
  BY Zenon, EmptySeq DEF Init
<1>2. Shapes /\ Flags
  <2>1. /\ sock \in [Sockets -> SocketStates] /\ cst \in [Sockets -> ConnectionStates]
        /\ closeCb \in [Sockets -> {"client", "destroy"}]
    BY Zenon DEF Init, SocketStates, ConnectionStates
  <2>2. calls \in 0 .. MaxCalls /\ reported \subseteq Sockets /\ aborted \in Assertions
    BY BoundsAssumption DEF Init, Assertions
  <2>3. Flags
    BY Zenon DEF Init, Flags
  <2> QED BY Zenon, <2>1, <2>2, <2>3 DEF Init, Shapes
<1>3. SockInv
  BY NoneAssumption DEF Init, SockInv, Sockets
<1>4. ClientInv /\ TodoInv
  BY Zenon DEF Init, ClientInv, TodoInv
<1>5. QueueOK(funcs, cst, client)
  BY <1>1 DEF QueueOK
<1>6. TypeInv
  BY Zenon, <1>1, <1>2, <1>4, ShapesAre DEF ClientInv
<1> QED BY Zenon, <1>3, <1>4, <1>5, <1>6 DEF IInv

\* Who closes which socket, from who is responsible for it
LEMMA InvClosesOnce ==
  ASSUME IInv
  PROVE  NoDoubleClose
<1>1. Shapes /\ funcs \in Seq(Functors) /\ TypeOK /\ QueueOK(funcs, cst, client) /\ SockInv
  BY Zenon, ShapesAre DEF IInv, TypeInv
<1>2. chan # None => Open(chan) /\ cst[chan] = "none"
  BY Zenon, <1>1 DEF SockInv, Open, ConnectorAlive
<1>3. ASSUME NEW s \in Sockets, NEW i \in 1 .. Len(funcs), NEW j \in 1 .. Len(funcs),
             funcs[i] = <<"destroy", s>>, funcs[j] = <<"destroy", s>>
      PROVE  i = j
  BY <1>1, <1>3 DEF QueueOK
<1>4. ASSUME NEW s \in Sockets, <<"destroy", s>> \in Range(funcs) PROVE cst[s] = "closed"
  <2>1. PICK i \in 1 .. Len(funcs) : funcs[i] = <<"destroy", s>>
    BY <1>1, <1>4 DEF Range
  <2> QED BY <2>1, <1>1 DEF QueueOK
<1> QED BY Zenon, <1>1, <1>2, <1>3, <1>4 DEF NoDoubleClose, SockInv

\* Whatever the order of errors, stops, releases and closing connections, no
\* socket is closed twice or by someone who does not own it: see NoDoubleClose.
THEOREM ClosesEachOnce == Spec => []NoDoubleClose
<1>1. Init => IInv
  BY Zenon, InvInit
<1>2. IInv /\ [Next]_vars => IInv'
  BY Zenon, InvStep
<1>3. IInv => NoDoubleClose
  BY Zenon, InvClosesOnce
<1> QED BY <1>1, <1>2, <1>3, PTL DEF Spec

-----------------------------------------------------------------------------
(* The resolver with c-ares                                                *)

Places == {"idle", "asking", "callback", "read", "timer"}

\* The stack of the loop thread: only in the loop itself c-ares is given an event,
\* resolve() is called by who has a reference, and the callback of a query that
\* was asked before runs while there is a timer.
StackOK(w, ow, active) ==
  /\ w \in Seq(Places) /\ Len(w) > 0
  /\ \A i \in 1 .. Len(w) : w[i] = "idle" <=> i = Len(w)
  /\ \A i \in 1 .. Len(w) : w[i] \in {"read", "timer"} => i = Len(w) - 1
  /\ \A i \in 1 .. Len(w) : w[i] = "timer" => active
  /\ \A i \in 1 .. Len(w) : w[i] = "asking" => ow \/ i = Len(w) - 1
  /\ \A j \in 1 .. Len(w) : w[j] = "callback" /\ (\A i \in j .. Len(w) : w[i] # "asking") => active

IsAsking(w) == \E i \in 1 .. Len(w) : w[i] = "asking"

\* What a call leaves below it on the stack
LEMMA Pushed ==
  ASSUME NEW w \in Seq(Places), NEW x \in Places
  PROVE  /\ <<x>> \o w \in Seq(Places) /\ Len(<<x>> \o w) = Len(w) + 1 /\ Len(w) \in Nat
         /\ (<<x>> \o w)[1] = x
         /\ \A i \in 1 .. Len(w) : (<<x>> \o w)[i + 1] = w[i]
         /\ \A i \in 1 .. Len(<<x>> \o w) : i = 1 \/ (i - 1 \in 1 .. Len(w) /\ (<<x>> \o w)[i] = w[i - 1])
OBVIOUS

\* The stack when c-ares or a callback is called
LEMMA StackPush ==
  ASSUME NEW w, NEW ow \in BOOLEAN, NEW active \in BOOLEAN, NEW x \in Places \ {"idle"}, StackOK(w, ow, active),
         x \in {"read", "timer"} => w = <<"idle">>, x = "asking" => ow \/ w = <<"idle">>,
         x = "callback" => active \/ IsAsking(w),
         x = "timer" => active
  PROVE  StackOK(<<x>> \o w, ow, active)
<1> DEFINE v == <<x>> \o w
<1>1. w \in Seq(Places) /\ Len(w) > 0 /\ Len(w) \in Nat
  BY DEF StackOK
<1>2. /\ v \in Seq(Places) /\ Len(v) = Len(w) + 1 /\ v[1] = x
      /\ \A i \in 1 .. Len(w) : v[i + 1] = w[i]
      /\ \A i \in 1 .. Len(v) : i = 1 \/ (i - 1 \in 1 .. Len(w) /\ v[i] = w[i - 1])
  BY <1>1, Pushed
<1>3. w = <<"idle">> => Len(w) = 1
  OBVIOUS
<1> HIDE DEF v
<1>4. ASSUME NEW i \in 1 .. Len(v) PROVE v[i] = "idle" <=> i = Len(v)
  <2>1. CASE i = 1
    BY <2>1, <1>1, <1>2
  <2>2. CASE i # 1
    <3>1. i - 1 \in 1 .. Len(w) /\ v[i] = w[i - 1]
      BY Zenon, <2>2, <1>2
    <3>2. w[i - 1] = "idle" <=> i - 1 = Len(w)
      BY Zenon, <3>1 DEF StackOK
    <3> QED BY <3>1, <3>2, <1>1, <1>2
  <2> QED BY Zenon, <2>1, <2>2
<1>5. ASSUME NEW i \in 1 .. Len(v), v[i] \in {"read", "timer"} PROVE i = Len(v) - 1
  <2>1. CASE i = 1
    BY <2>1, <1>1, <1>2, <1>3, <1>5
  <2>2. CASE i # 1
    <3>1. i - 1 \in 1 .. Len(w) /\ v[i] = w[i - 1]
      BY Zenon, <2>2, <1>2
    <3>2. i - 1 = Len(w) - 1
      BY Zenon, <3>1, <1>5 DEF StackOK
    <3> QED BY <3>2, <1>1, <1>2
  <2> QED BY Zenon, <2>1, <2>2
<1>6. \A i \in 1 .. Len(v) : v[i] = "asking" => ow \/ i = Len(v) - 1
  BY <1>1, <1>2, <1>3 DEF StackOK
<1>7. ASSUME NEW j \in 1 .. Len(v), v[j] = "callback", \A i \in j .. Len(v) : v[i] # "asking" PROVE active
  <2>1. CASE j = 1
    <3>1. ASSUME NEW i \in 1 .. Len(w), w[i] = "asking" PROVE FALSE
      <4>1. i + 1 \in j .. Len(v) /\ v[i + 1] = w[i]
        BY <2>1, <1>1, <1>2
      <4> QED BY Zenon, <4>1, <3>1, <1>7
    <3> QED BY Zenon, <3>1, <2>1, <1>2, <1>7 DEF IsAsking
  <2>2. CASE j # 1
    <3>1. j - 1 \in 1 .. Len(w) /\ w[j - 1] = "callback"
      BY Zenon, <2>2, <1>2, <1>7
    <3>2. ASSUME NEW i \in j - 1 .. Len(w) PROVE w[i] # "asking"
      <4>1. i \in 1 .. Len(w) /\ i + 1 \in j .. Len(v) /\ v[i + 1] = w[i]
        BY <3>1, <1>1, <1>2
      <4> QED BY Zenon, <4>1, <1>7
    <3> QED BY Zenon, <3>1, <3>2 DEF StackOK
  <2> QED BY Zenon, <2>1, <2>2
<1>8. \A i \in 1 .. Len(v) : v[i] = "timer" => active
  BY <1>1, <1>2 DEF StackOK
<1>9. StackOK(v, ow, active)
  BY <1>1, <1>2, <1>4, <1>5, <1>6, <1>7, <1>8 DEF StackOK
<1> QED BY Zenon, <1>9 DEF v

\* ... and when it returns
LEMMA StackPop ==
  ASSUME NEW w, NEW ow \in BOOLEAN, NEW active \in BOOLEAN, StackOK(w, ow, active), w[1] # "idle"
  PROVE  /\ StackOK(Tail(w), ow, active) /\ Len(Tail(w)) = Len(w) - 1 /\ Len(w) > 1 /\ Len(w) \in Nat
         /\ \A i \in 1 .. Len(w) : i = 1 \/ (i - 1 \in 1 .. Len(Tail(w)) /\ w[i] = Tail(w)[i - 1])
         /\ w[1] \in {"read", "timer"} \/ (w[1] = "asking" /\ ~ow) => Tail(w) = <<"idle">>
<1> DEFINE v == Tail(w)
<1>1. w \in Seq(Places) /\ Len(w) > 0 /\ Len(w) \in Nat
  BY DEF StackOK
<1>2. Len(w) > 1
  BY <1>1 DEF StackOK
<1>3. /\ v \in Seq(Places) /\ Len(v) = Len(w) - 1
      /\ \A i \in 1 .. Len(v) : i + 1 \in 1 .. Len(w) /\ v[i] = w[i + 1]
      /\ \A i \in 1 .. Len(w) : i = 1 \/ (i - 1 \in 1 .. Len(v) /\ w[i] = v[i - 1])
  BY <1>1, <1>2, HeadTailProperties
<1> HIDE DEF v
<1>4. \A i \in 1 .. Len(v) : v[i] = "idle" <=> i = Len(v)
  BY <1>1, <1>3 DEF StackOK
<1>5. \A i \in 1 .. Len(v) : v[i] \in {"read", "timer"} => i = Len(v) - 1
  BY <1>1, <1>3 DEF StackOK
<1>6. \A i \in 1 .. Len(v) : v[i] = "asking" => ow \/ i = Len(v) - 1
  BY <1>1, <1>3 DEF StackOK
<1>7. ASSUME NEW j \in 1 .. Len(v), v[j] = "callback", \A i \in j .. Len(v) : v[i] # "asking" PROVE active
  <2>1. j + 1 \in 1 .. Len(w) /\ w[j + 1] = "callback"
    BY Zenon, <1>3, <1>7
  <2>2. ASSUME NEW i \in j + 1 .. Len(w) PROVE w[i] # "asking"
    <3>1. i \in 1 .. Len(w) /\ i # 1 /\ i - 1 \in j .. Len(v)
      BY <2>1, <1>1, <1>3
    <3> QED BY Zenon, <3>1, <1>3, <1>7
  <2> QED BY Zenon, <2>1, <2>2 DEF StackOK
<1>10. \A i \in 1 .. Len(v) : v[i] = "timer" => active
  BY <1>1, <1>3 DEF StackOK
<1>8. StackOK(v, ow, active)
  BY <1>1, <1>2, <1>3, <1>4, <1>5, <1>6, <1>7, <1>10 DEF StackOK
<1>9. ASSUME w[1] \in {"read", "timer"} \/ (w[1] = "asking" /\ ~ow) PROVE v = <<"idle">>
  <2>1. 1 = Len(w) - 1
    <3>1. 1 \in 1 .. Len(w)
      BY <1>1, <1>2
    <3> QED BY Zenon, <3>1, <1>9 DEF StackOK
  <2>2. Len(v) = 1 /\ v[1] = "idle"
    BY <2>1, <1>1, <1>3, <1>4
  <2> QED BY <2>2, <1>3
<1> QED BY Zenon, <1>2, <1>1, <1>3, <1>8, <1>9 DEF v

QueryStates == {"none", "queued", "asked", "answered"}

\* Who keeps the resolver: a reference, or the function that the loop thread is in.
ResolverInv ==
  /\ query \in [1 .. MaxQueries -> QueryStates] /\ queueInLoop \in Seq(1 .. MaxQueries) /\ timer \in Nat
  /\ timerActive \in BOOLEAN /\ channel \in BOOLEAN /\ owned \in BOOLEAN /\ alive \in BOOLEAN
  /\ StackOK(where, owned, timerActive)
  /\ timer = (IF timerActive THEN 1 ELSE 0)
  /\ Resolver!Asked # {} => timerActive \/ IsAsking(where)
  /\ Resolver!Asked # {} \/ channel \/ where # <<"idle">> => alive
  /\ owned \/ timerActive \/ queueInLoop # <<>> => alive

\* Each step of the resolver preserves that.
LEMMA ResolverStep ==
  ASSUME ResolverInv, [Resolver!RNext]_resolverVars
  PROVE  ResolverInv'
<1>1. /\ query \in [1 .. MaxQueries -> QueryStates] /\ queueInLoop \in Seq(1 .. MaxQueries) /\ timer \in Nat
      /\ StackOK(where, owned, timerActive) /\ where \in Seq(Places) /\ Len(where) > 0
      /\ timer = (IF timerActive THEN 1 ELSE 0)
  BY Zenon DEF ResolverInv, StackOK
<1>2. /\ timerActive \in BOOLEAN /\ channel \in BOOLEAN /\ owned \in BOOLEAN /\ alive \in BOOLEAN
      /\ Resolver!Asked # {} => timerActive \/ IsAsking(where)
      /\ Resolver!Asked # {} \/ channel \/ where # <<"idle">> => alive
      /\ owned \/ timerActive \/ queueInLoop # <<>> => alive
  BY Zenon DEF ResolverInv
<1>3. ASSUME NEW q \in 1 .. MaxQueries, NEW x \in QueryStates, query' = [query EXCEPT ![q] = x]
      PROVE  /\ query' \in [1 .. MaxQueries -> QueryStates]
             /\ x # "asked" /\ Resolver!Asked' # {} => Resolver!Asked # {}
  BY Zenon, <1>1, <1>3 DEF Resolver!Asked, Resolver!Queries
<1>4. query' = query => (Resolver!Asked' = Resolver!Asked)
  BY Zenon DEF Resolver!Asked, Resolver!Queries
<1>5. where = <<"idle">> <=> where[1] = "idle"
  <2>1. 1 \in 1 .. Len(where)
    BY <1>1
  <2>2. where[1] = "idle" => Len(where) = 1
    BY Zenon, <2>1, <1>1 DEF StackOK
  <2> QED BY <2>2, <1>1
\* A step that leaves the references alone
<1>6. ASSUME UNCHANGED <<queueInLoop, timerActive, timer, owned, alive>>, channel' \in BOOLEAN,
             query' \in [1 .. MaxQueries -> QueryStates], StackOK(where', owned, timerActive),
             Resolver!Asked' # {} => timerActive \/ IsAsking(where'),
             Resolver!Asked' # {} \/ channel' \/ where' # <<"idle">> => alive
      PROVE  ResolverInv'
  BY Zenon, <1>1, <1>2, <1>6 DEF ResolverInv
<1>7. CASE UNCHANGED resolverVars
  BY Zenon, <1>1, <1>2, <1>4, <1>6, <1>7 DEF resolverVars
<1>8. ASSUME NEW q \in 1 .. MaxQueries, NEW n, Resolver!ResolveCached(q, n) PROVE ResolverInv'
  <2>1. /\ query' = [query EXCEPT ![q] = "answered"]
        /\ UNCHANGED <<queueInLoop, timerActive, timer, channel, owned, alive, where>>
    BY Zenon, <1>8 DEF Resolver!ResolveCached
  <2> QED BY Zenon, <2>1, <1>1, <1>2, <1>3, <1>6 DEF QueryStates
<1>9. ASSUME NEW q \in 1 .. MaxQueries, NEW n, Resolver!ResolveInThread(q, n) PROVE ResolverInv'
  <2>1. /\ query' = [query EXCEPT ![q] = "queued"] /\ owned
        /\ queueInLoop' = Append(queueInLoop, q)
        /\ UNCHANGED <<timerActive, timer, channel, owned, alive, where>>
    BY Zenon, <1>9 DEF Resolver!ResolveInThread, Resolver!NextQuery
  <2>2. queueInLoop' \in Seq(1 .. MaxQueries)
    BY <2>1, <1>1
  <2>3. query' \in [1 .. MaxQueries -> QueryStates] /\ (Resolver!Asked' # {} => Resolver!Asked # {})
    BY Zenon, <2>1, <1>3 DEF QueryStates
  <2> QED BY Zenon, <2>1, <2>2, <2>3, <1>1, <1>2 DEF ResolverInv
\* resolveInLoop() begins.
<1>10. ASSUME NEW q \in 1 .. MaxQueries, Resolver!Ask(q), owned \/ where = <<"idle">>, alive,
              queueInLoop' \in Seq(1 .. MaxQueries), UNCHANGED <<timerActive, timer, owned, alive>>
       PROVE  ResolverInv'
  <2>1. query' = [query EXCEPT ![q] = "asked"] /\ channel' = TRUE /\ where' = <<"asking">> \o where
    BY Zenon, <1>10 DEF Resolver!Ask
  <2>2. StackOK(where', owned, timerActive)
    BY Zenon, <2>1, <1>1, <1>2, <1>10, StackPush DEF Places
  <2>3. IsAsking(where')
    <3>1. 1 \in 1 .. Len(<<"asking">> \o where) /\ (<<"asking">> \o where)[1] = "asking"
      BY <1>1, Pushed DEF Places
    <3> QED BY Zenon, <3>1, <2>1 DEF IsAsking
  <2>4. query' \in [1 .. MaxQueries -> QueryStates]
    BY Zenon, <2>1, <1>3 DEF QueryStates
  <2> QED BY Zenon, <2>1, <2>2, <2>3, <2>4, <1>1, <1>2, <1>10 DEF ResolverInv
<1>11. ASSUME NEW q \in 1 .. MaxQueries, NEW n, Resolver!ResolveInLoop(q, n) PROVE ResolverInv'
  BY Zenon, <1>1, <1>2, <1>10, <1>11 DEF Resolver!ResolveInLoop, Resolver!NextQuery
<1>12. CASE Resolver!RunQueued
  <2>1. Head(queueInLoop) \in 1 .. MaxQueries /\ Tail(queueInLoop) \in Seq(1 .. MaxQueries)
    <3>1. queueInLoop # <<>>
      BY Zenon, <1>12 DEF Resolver!RunQueued
    <3> QED BY Zenon, <3>1, <1>1, HeadTailProperties
  <2> QED BY Zenon, <2>1, <1>2, <1>10, <1>12 DEF Resolver!RunQueued
\* A function of the resolver returns and a reference is released.
<1>13. ASSUME where[1] # "idle", where' = Tail(where), Resolver!Release,
              timerActive' \in BOOLEAN, timer' = (IF timerActive' THEN 1 ELSE 0),
              UNCHANGED <<query, queueInLoop, owned>>,
              Resolver!Asked # {} => timerActive' \/ IsAsking(where'),
              StackOK(where', owned, timerActive'), where' # <<"idle">> => owned
       PROVE  ResolverInv'
  <2>1. alive
    BY Zenon, <1>2, <1>5, <1>13
  <2>2. Resolver!References' <=> owned \/ timerActive' \/ queueInLoop # <<>>
    BY <1>13 DEF Resolver!References
  <2>3. timer' \in Nat
    BY Zenon, <1>13
  <2>4. /\ alive' \in BOOLEAN /\ (alive' <=> alive /\ Resolver!References')
        /\ channel' \in BOOLEAN /\ (channel' <=> channel /\ Resolver!References')
    BY Zenon, <1>13 DEF Resolver!Release
  <2>5. alive' \in BOOLEAN /\ channel' \in BOOLEAN /\ (channel' => alive') /\ (owned' \/ timerActive' \/ queueInLoop' # <<>> => alive')
    BY Zenon, <2>1, <2>2, <2>4, <1>2, <1>13
  <2>6. Resolver!Asked' # {} \/ channel' \/ where' # <<"idle">> => alive'
    <3>1. Resolver!Asked # {} /\ where' = <<"idle">> => timerActive'
      <4>1. ~IsAsking(<<"idle">>)
        BY DEF IsAsking
      <4> QED BY Zenon, <4>1, <1>13
    <3> QED BY Zenon, <3>1, <2>5, <1>4, <1>13
  <2> QED BY Zenon, <2>3, <2>5, <2>6, <1>1, <1>2, <1>4, <1>13 DEF ResolverInv
<1>14. CASE Resolver!Resolving
  <2>1. /\ where[1] = "asking" /\ Resolver!Arm /\ where' = Tail(where) /\ UNCHANGED <<query, queueInLoop, owned>>
        /\ Resolver!Release
    BY Zenon, <1>14 DEF Resolver!Resolving
  <2>2. /\ timerActive' \in BOOLEAN /\ (timerActive => timerActive') /\ timer' = (IF timerActive' THEN 1 ELSE 0)
        /\ Resolver!Asked # {} => timerActive'
    <3>1. CASE ~timerActive /\ Resolver!Asked # {}
      BY <3>1, <2>1, <1>1 DEF Resolver!Arm
    <3>2. CASE ~(~timerActive /\ Resolver!Asked # {})
      BY Zenon, <3>2, <2>1, <1>1, <1>2 DEF Resolver!Arm
    <3> QED BY Zenon, <3>1, <3>2
  <2>3. StackOK(Tail(where), owned, timerActive) /\ (~owned => Tail(where) = <<"idle">>)
    BY <2>1, <1>1, <1>2, StackPop
  <2>4. StackOK(where', owned, timerActive')
    BY <2>1, <2>2, <2>3 DEF StackOK
  <2> QED BY Zenon, <2>1, <2>2, <2>3, <2>4, <1>13
<1>15. CASE Resolver!TimerReturns
  <2>1. /\ where[1] = "timer" /\ timerActive' = (Resolver!Asked # {})
        /\ timer' = (IF Resolver!Asked # {} THEN timer ELSE timer - 1)
        /\ where' = Tail(where) /\ UNCHANGED <<query, queueInLoop, owned>> /\ Resolver!Release
    BY Zenon, <1>15 DEF Resolver!TimerReturns
  <2>2. timerActive /\ timer = 1
    <3>1. 1 \in 1 .. Len(where)
      BY <1>1
    <3> QED BY Zenon, <3>1, <2>1, <1>1 DEF StackOK
  <2>3. timerActive' \in BOOLEAN /\ timer' = (IF timerActive' THEN 1 ELSE 0) /\ (Resolver!Asked # {} => timerActive')
    <3>1. CASE Resolver!Asked # {}
      BY Zenon, <3>1, <2>1, <2>2
    <3>2. CASE Resolver!Asked = {}
      <4>1. timer' = 0
        BY <3>2, <2>1, <2>2
      <4>2. timerActive' \in BOOLEAN /\ ~timerActive'
        BY Zenon, <3>2, <2>1
      <4> QED BY Zenon, <4>1, <4>2, <3>2
    <3> QED BY Zenon, <3>1, <3>2
  <2>4. Tail(where) = <<"idle">>
    BY Zenon, <2>1, <1>1, <1>2, StackPop
  <2>5. StackOK(<<"idle">>, owned, timerActive')
    BY DEF StackOK, Places
  <2> QED BY Zenon, <2>1, <2>3, <2>4, <2>5, <1>13
<1>16. ASSUME NEW q \in 1 .. MaxQueries, Resolver!OnQueryResult(q) PROVE ResolverInv'
  <2>1. /\ query[q] = "asked" /\ query' = [query EXCEPT ![q] = "answered"]
        /\ where[1] # "idle" /\ where' = <<"callback">> \o where
        /\ UNCHANGED <<queueInLoop, timerActive, timer, channel, owned, alive>>
    BY Zenon, <1>16 DEF Resolver!OnQueryResult
  <2>2. q \in Resolver!Asked
    BY Zenon, <2>1 DEF Resolver!Asked, Resolver!Queries
  <2>3. timerActive \/ IsAsking(where)
    BY Zenon, <2>2, <1>2
  <2>4. StackOK(where', owned, timerActive)
    BY Zenon, <2>1, <2>3, <1>1, <1>2, StackPush DEF Places
  <2>5. IsAsking(where) => IsAsking(where')
    <3>1. ASSUME NEW i \in 1 .. Len(where) PROVE i + 1 \in 1 .. Len(<<"callback">> \o where) /\ (<<"callback">> \o where)[i + 1] = where[i]
      BY <1>1, Pushed DEF Places
    <3> QED BY Zenon, <3>1, <2>1 DEF IsAsking
  <2>6. query' \in [1 .. MaxQueries -> QueryStates]
    BY Zenon, <2>1, <1>3 DEF QueryStates
  <2>7. alive
    BY Zenon, <2>1, <1>2, <1>5
  <2> QED BY Zenon, <2>1, <2>3, <2>4, <2>5, <2>6, <2>7, <1>2, <1>6
\* A callback returns, or the loop has read from the socket.
<1>17. CASE Resolver!CallbackReturns \/ Resolver!ReadReturns
  <2>1. /\ where[1] \in {"callback", "read"} /\ where' = Tail(where)
        /\ UNCHANGED <<query, queueInLoop, timerActive, timer, channel, owned, alive>>
    BY Zenon, <1>17 DEF Resolver!CallbackReturns, Resolver!ReadReturns
  <2>2. /\ StackOK(Tail(where), owned, timerActive)
        /\ \A i \in 1 .. Len(where) : i = 1 \/ (i - 1 \in 1 .. Len(Tail(where)) /\ where[i] = Tail(where)[i - 1])
    BY <2>1, <1>1, <1>2, StackPop
  <2>3. IsAsking(where) => IsAsking(where')
    BY Zenon, <2>1, <2>2 DEF IsAsking
  <2>4. alive
    BY Zenon, <2>1, <1>2, <1>5
  <2> QED BY Zenon, <2>1, <2>2, <2>3, <2>4, <1>1, <1>2, <1>4, <1>6
<1>18. CASE Resolver!OnSockStateChange \/ Resolver!OnSockCreate
  <2>1. /\ where[1] \in {"read", "timer"} /\ channel' \in BOOLEAN
        /\ UNCHANGED <<query, queueInLoop, timerActive, timer, owned, alive, where>>
    BY Zenon, <1>18 DEF Resolver!OnSockStateChange, Resolver!OnSockCreate
  <2>2. alive
    BY Zenon, <2>1, <1>2, <1>5
  <2> QED BY Zenon, <2>1, <2>2, <1>1, <1>2, <1>4, <1>6
\* The loop calls the function of the channel or of the timer.
<1>19. CASE Resolver!OnRead \/ Resolver!OnTimer
  <2>1. PICK x \in {"read", "timer"} :
          /\ where = <<"idle">> /\ where' = <<x>> \o where
          /\ IF x = "read" THEN channel ELSE timer > 0
          /\ UNCHANGED <<query, queueInLoop, timerActive, timer, channel, owned, alive>>
    BY Zenon, <1>19 DEF Resolver!OnRead, Resolver!OnTimer
  <2>2. x = "timer" => timerActive
    BY <2>1, <1>1
  <2>3. alive
    BY Zenon, <2>1, <2>2, <1>2
  <2>4. StackOK(where', owned, timerActive)
    BY Zenon, <2>1, <2>2, <1>1, <1>2, StackPush DEF Places
  <2>5. ~IsAsking(where)
    BY <2>1 DEF IsAsking
  <2> QED BY Zenon, <2>1, <2>3, <2>4, <2>5, <1>1, <1>2, <1>4, <1>6
<1>20. CASE Resolver!UserReleases
  <2>1. /\ owned /\ where[1] \in {"idle", "callback"} /\ (\A i \in DOMAIN where : where[i] # "asking")
        /\ owned' = FALSE /\ UNCHANGED <<query, queueInLoop, timerActive, timer, where>> /\ Resolver!Release
    BY Zenon, <1>20 DEF Resolver!UserReleases
  <2>2. \A i \in 1 .. Len(where) : where[i] # "asking"
    BY <2>1, <1>1
  <2>3. StackOK(where, FALSE, timerActive)
    BY Zenon, <2>2, <1>1 DEF StackOK
  <2>4. where # <<"idle">> => timerActive
    <3>1. 1 \in 1 .. Len(where)
      BY <1>1
    <3> QED BY Zenon, <3>1, <2>1, <2>2, <1>1, <1>5 DEF StackOK
  <2>5. Resolver!Asked # {} => timerActive
    BY Zenon, <2>2, <1>2 DEF IsAsking
  <2>6. Resolver!References' <=> timerActive \/ queueInLoop # <<>>
    <3>1. timer' > 0 <=> timerActive
      BY <2>1, <1>1
    <3> QED BY Zenon, <3>1, <2>1 DEF Resolver!References
  <2>7. /\ alive' \in BOOLEAN /\ (alive' <=> alive /\ Resolver!References')
        /\ channel' \in BOOLEAN /\ (channel' <=> channel /\ Resolver!References')
    BY Zenon, <2>1 DEF Resolver!Release
  <2>8. /\ Resolver!Asked' # {} \/ channel' \/ where' # <<"idle">> => alive'
        /\ owned' \/ timerActive' \/ queueInLoop' # <<>> => alive'
    BY Zenon, <2>1, <2>4, <2>5, <2>6, <2>7, <1>2, <1>4
  <2> QED BY Zenon, <2>1, <2>3, <2>5, <2>7, <2>8, <1>1, <1>2, <1>4 DEF ResolverInv
<1>21. ASSUME NEW n, Resolver!Age(n) PROVE ResolverInv'
  BY Zenon, <1>1, <1>2, <1>4, <1>6, <1>21 DEF Resolver!Age
<1> QED BY Zenon, <1>7, <1>8, <1>9, <1>11, <1>12, <1>14, <1>15, <1>16, <1>17, <1>18, <1>19, <1>20, <1>21
        DEF Resolver!RNext, Resolver!Return, Resolver!Queries

\* A new resolver
LEMMA ResolverInit ==
  ASSUME Resolver!RInit
  PROVE  ResolverInv
<1>1. /\ query = [q \in 1 .. MaxQueries |-> "none"] /\ queueInLoop = <<>> /\ where = <<"idle">>
      /\ timerActive = FALSE /\ timer = 0 /\ channel = FALSE /\ owned = TRUE /\ alive = TRUE
  BY Zenon DEF Resolver!RInit, Resolver!Queries
<1>2. query \in [1 .. MaxQueries -> QueryStates] /\ queueInLoop \in Seq(1 .. MaxQueries) /\ timer \in Nat
  BY <1>1 DEF QueryStates
<1>3. StackOK(where, owned, timerActive)
  BY <1>1 DEF StackOK, Places
<1>4. Resolver!Asked = {}
  BY Zenon, <1>1 DEF Resolver!Asked, Resolver!Queries
<1> QED BY Zenon, <1>1, <1>2, <1>3, <1>4 DEF ResolverInv

\* The resolver exists when c-ares or the loop calls it.
LEMMA ResolverAlive ==
  ASSUME ResolverInv
  PROVE  Resolver!ResolverIsAlive
<1>1. DOMAIN where = 1 .. Len(where)
  BY DEF ResolverInv, StackOK
<1> QED BY Zenon, <1>1 DEF ResolverInv, Resolver!ResolverIsAlive, Resolver!OneTimer, IsAsking

-----------------------------------------------------------------------------
(* The resolver without c-ares                                             *)

\* The labels of a call of resolve() that was not answered
Unanswered == {"none", "lookup", "queued", "task", "getaddrinfo"}
Hits == {"hit", "taskHit"}
Labels == Unanswered \cup Hits \cup {"callback", "failed", "store", "done"}

\* A call is answered once, the one that holds the mutex runs a callback with an
\* address of the cache, and that address was not too old.
RequestsOf(name) == [at : Labels, name : {name}, parent : Int, answers : Int, age : Int]

RequestOK(q, r, h, limit) ==
  /\ r.answers = (IF r.at \in Unanswered THEN 0 ELSE 1)
  /\ r.at \in Hits => h = q
  /\ limit = 0 \/ r.age < limit

NormalInv ==
  /\ time \in Nat /\ timeout \in Nat /\ entries \in [{"host"} -> Int]
  /\ requests \in [1 .. MaxQueries -> RequestsOf("host")]
  /\ \A q \in 1 .. MaxQueries : RequestOK(q, requests[q], holder, timeout)

\* A step of one call, and what it may change for the others: the holder of the
\* mutex changes when there is none, or when the call was it.
LEMMA RequestStep ==
  ASSUME NormalInv, NEW q \in 1 .. MaxQueries, NEW r \in RequestsOf("host"), requests' = [requests EXCEPT ![q] = r],
         RequestOK(q, r, holder', timeout), holder' = holder \/ holder = 0 \/ requests[q].at \in Hits,
         time' = time, timeout' = timeout, entries' \in [{"host"} -> Int]
  PROVE  NormalInv'
<1>1. /\ requests' \in [1 .. MaxQueries -> RequestsOf("host")] /\ requests'[q] = r
      /\ \A p \in 1 .. MaxQueries : p # q => requests'[p] = requests[p]
  BY Zenon DEF NormalInv
<1>2. ASSUME NEW p \in 1 .. MaxQueries, p # q PROVE RequestOK(p, requests[p], holder', timeout)
  <2>1. RequestOK(p, requests[p], holder, timeout) /\ RequestOK(q, requests[q], holder, timeout)
    BY Zenon DEF NormalInv
  <2>2. requests[p].at \in Hits => holder' = p
    BY <2>1, <1>2 DEF RequestOK
  <2> QED BY Zenon, <2>1, <2>2 DEF RequestOK
<1> QED BY Zenon, <1>1, <1>2 DEF NormalInv

\* Each step of the resolver preserves that.
LEMMA NormalStep ==
  ASSUME NormalInv, [Normal!NNext]_normalVars
  PROVE  NormalInv'
<1>1. /\ time \in Nat /\ timeout \in Nat /\ entries \in [{"host"} -> Int]
      /\ requests \in [1 .. MaxQueries -> RequestsOf("host")]
      /\ \A q \in 1 .. MaxQueries : RequestOK(q, requests[q], holder, timeout)
  BY Zenon DEF NormalInv
\* A call goes on.
<1>2. ASSUME NEW q \in 1 .. MaxQueries, NEW x \in Labels, Normal!Goto(q, x), x \notin Hits,
             x \in Unanswered <=> requests[q].at \in Unanswered,
             holder' = holder \/ holder = 0 \/ requests[q].at \in Hits,
             time' = time, timeout' = timeout, entries' \in [{"host"} -> Int]
      PROVE  NormalInv'
  <2> DEFINE r == [requests[q] EXCEPT !.at = x]
  <2>1. requests[q] \in RequestsOf("host") /\ RequestOK(q, requests[q], holder, timeout)
    BY Zenon, <1>1
  <2>2. /\ r \in RequestsOf("host") /\ r.at = x /\ r.answers = requests[q].answers /\ r.age = requests[q].age
    BY Zenon, <2>1 DEF RequestsOf
  <2>3. requests' = [requests EXCEPT ![q] = r]
    BY Zenon, <1>2 DEF Normal!Goto
  <2> HIDE DEF r
  <2>4. RequestOK(q, r, holder', timeout)
    BY Zenon, <2>1, <2>2, <1>2 DEF RequestOK
  <2> QED BY Zenon, <2>2, <2>3, <2>4, <1>2, RequestStep
\* A call is answered.
<1>3. ASSUME NEW q \in 1 .. MaxQueries, NEW x \in Labels, NEW age \in Int, Normal!Answer(q, x, age), x \notin Unanswered,
             requests[q].at \in Unanswered, x \in Hits => holder' = q, timeout = 0 \/ age < timeout,
             holder' = holder \/ holder = 0, time' = time, timeout' = timeout, entries' \in [{"host"} -> Int]
      PROVE  NormalInv'
  <2> DEFINE r == [requests[q] EXCEPT !.at = x, !.answers = @ + 1, !.age = age]
  <2>1. requests[q] \in RequestsOf("host") /\ RequestOK(q, requests[q], holder, timeout)
    BY Zenon, <1>1
  <2>2. requests[q].answers = 0
    BY Zenon, <2>1, <1>3 DEF RequestOK
  <2>3. r \in RequestsOf("host") /\ r.at = x /\ r.answers = 1 /\ r.age = age
    <3> DEFINE r1 == [requests[q] EXCEPT !.at = x]  r2 == [r1 EXCEPT !.answers = @ + 1]
    <3>1. r1 \in RequestsOf("host") /\ r1.at = x /\ r1.answers = 0
      BY Zenon, <2>1, <2>2 DEF RequestsOf
    <3> HIDE DEF r1
    <3>2. r2 \in RequestsOf("host") /\ r2.at = x /\ r2.answers = 1
      BY <3>1 DEF RequestsOf
    <3> HIDE DEF r2
    <3>3. [r2 EXCEPT !.age = age] \in RequestsOf("host") /\ [r2 EXCEPT !.age = age].at = x
          /\ [r2 EXCEPT !.age = age].answers = 1 /\ [r2 EXCEPT !.age = age].age = age
      BY Zenon, <3>2 DEF RequestsOf
    <3>4. r = [r2 EXCEPT !.age = age]
      BY Zenon, <2>1 DEF r1, r2, RequestsOf
    <3> QED BY Zenon, <3>3, <3>4
  <2>4. requests' = [requests EXCEPT ![q] = r]
    BY Zenon, <2>1, <1>1, <1>3 DEF Normal!Answer, RequestsOf
  <2> HIDE DEF r
  <2>5. RequestOK(q, r, holder', timeout)
    BY Zenon, <2>3, <1>3 DEF RequestOK
  <2> QED BY Zenon, <2>3, <2>4, <2>5, <1>3, RequestStep
<1>4. CASE UNCHANGED normalVars
  BY Zenon, <1>1, <1>4 DEF normalVars, NormalInv
<1>5. ASSUME NEW q \in 1 .. MaxQueries, NEW hit \in Hits, NEW miss \in Unanswered, Normal!Lookup(q, hit, miss),
             requests[q].at \in Unanswered
      PROVE  NormalInv'
  <2>1. /\ holder = 0 /\ UNCHANGED <<time, timeout, entries>> /\ hit \in Labels /\ miss \in Labels
        /\ hit \notin Unanswered /\ miss \notin Hits
    BY Zenon, <1>5 DEF Normal!Lookup, Normal!NoCall, Labels, Hits, Unanswered
  <2>2. CASE Normal!Fresh(requests[q].name)
    <3> DEFINE n == requests[q].name  age == time - entries[n]
    <3>1. n = "host" /\ entries[n] \in Int
      BY Zenon, <1>1 DEF RequestsOf
    <3> HIDE DEF n
    <3>2. Normal!Answer(q, hit, age) /\ holder' = q
      BY Zenon, <2>2, <1>5 DEF Normal!Lookup, n
    <3>3. timeout = 0 \/ entries[n] + timeout > time
      BY Zenon, <2>2 DEF Normal!Fresh, n
    <3>4. age \in Int /\ (timeout = 0 \/ age < timeout)
      BY <3>1, <3>3, <1>1
    <3> HIDE DEF age
    <3> QED BY Zenon, <3>2, <3>4, <2>1, <1>1, <1>3, <1>5
  <2>3. CASE ~Normal!Fresh(requests[q].name)
    BY Zenon, <2>1, <2>3, <1>1, <1>2, <1>5 DEF Normal!Lookup
  <2> QED BY Zenon, <2>2, <2>3
<1>6. ASSUME NEW q \in 1 .. MaxQueries, Normal!RunTask(q) PROVE NormalInv'
  BY Zenon, <1>1, <1>2, <1>6 DEF Normal!RunTask, Labels, Unanswered, Hits
<1>7. ASSUME NEW q \in 1 .. MaxQueries, Normal!HitReturns(q) PROVE NormalInv'
  BY Zenon, <1>1, <1>2, <1>7 DEF Normal!HitReturns, Labels, Unanswered, Hits
<1>8. ASSUME NEW q \in 1 .. MaxQueries, Normal!Fail(q) \/ Normal!Found(q) PROVE NormalInv'
  <2>1. PICK x \in {"failed", "callback"} :
          requests[q].at = "getaddrinfo" /\ Normal!Answer(q, x, 0) /\ UNCHANGED <<time, timeout, entries, holder>>
    BY Zenon, <1>8 DEF Normal!Fail, Normal!Found
  <2>2. timeout = 0 \/ 0 < timeout
    BY <1>1
  <2> QED BY <2>1, <2>2, <1>1, <1>3 DEF Labels, Unanswered, Hits
<1>9. ASSUME NEW q \in 1 .. MaxQueries, Normal!CallbackReturns(q) PROVE NormalInv'
  <2>1. PICK x \in {"store", "done"} :
          /\ requests[q].at \in {"callback", "failed"} /\ Normal!Goto(q, x)
          /\ UNCHANGED <<time, timeout, entries, holder>>
    BY Zenon, <1>9 DEF Normal!CallbackReturns
  <2> QED BY Zenon, <2>1, <1>1, <1>2 DEF Labels, Unanswered, Hits
<1>10. ASSUME NEW q \in 1 .. MaxQueries, Normal!Store(q) PROVE NormalInv'
  <2>1. entries' \in [{"host"} -> Int]
    <3>1. requests[q].name = "host" /\ time \in Int
      BY <1>1 DEF RequestsOf
    <3>2. entries' = [entries EXCEPT !["host"] = time]
      BY Zenon, <3>1, <1>10 DEF Normal!Store
    <3> QED BY Zenon, <3>1, <3>2, <1>1
  <2> QED BY Zenon, <2>1, <1>2, <1>10 DEF Normal!Store, Labels, Unanswered, Hits
<1>11. ASSUME NEW q \in 1 .. MaxQueries, NEW parent \in (1 .. MaxQueries) \cup {0}, Normal!Resolve(q, "host", parent)
       PROVE  NormalInv'
  <2> DEFINE r == [Normal!NoQuery EXCEPT !.at = "lookup", !.name = "host", !.parent = parent]
  <2>1. Normal!NoQuery \in RequestsOf("host") /\ Normal!NoQuery.answers = 0 /\ Normal!NoQuery.age = 0
    <3>1. (CHOOSE n \in {"host"} : TRUE) = "host"
      BY Zenon
    <3> QED BY <3>1 DEF Normal!NoQuery, Normal!NoCall, RequestsOf, Labels, Unanswered
  <2> HIDE DEF Normal!NoQuery
  <2>2. r \in RequestsOf("host") /\ r.at = "lookup" /\ r.answers = 0 /\ r.age = 0
    <3> DEFINE r1 == [Normal!NoQuery EXCEPT !.at = "lookup"]  r2 == [r1 EXCEPT !.name = "host"]
    <3>1. r1 \in RequestsOf("host") /\ r1.at = "lookup" /\ r1.answers = 0 /\ r1.age = 0
      BY Zenon, <2>1 DEF RequestsOf, Labels, Unanswered
    <3> HIDE DEF r1
    <3>2. r2 \in RequestsOf("host") /\ r2.at = "lookup" /\ r2.answers = 0 /\ r2.age = 0
      BY Zenon, <3>1 DEF RequestsOf
    <3> HIDE DEF r2
    <3>3. [r2 EXCEPT !.parent = parent] \in RequestsOf("host") /\ [r2 EXCEPT !.parent = parent].at = "lookup"
          /\ [r2 EXCEPT !.parent = parent].answers = 0 /\ [r2 EXCEPT !.parent = parent].age = 0
      BY <3>2 DEF RequestsOf
    <3>4. r = [r2 EXCEPT !.parent = parent]
      BY Zenon DEF r1, r2
    <3> QED BY Zenon, <3>3, <3>4
  <2>3. requests' = [requests EXCEPT ![q] = r] /\ UNCHANGED <<time, timeout, entries, holder>>
    BY Zenon, <1>11 DEF Normal!Resolve
  <2> HIDE DEF r
  <2>4. RequestOK(q, r, holder', timeout)
    BY <2>2, <1>1 DEF RequestOK, Unanswered, Hits
  <2> QED BY Zenon, <2>2, <2>3, <2>4, <1>1, RequestStep
<1>12. CASE Normal!Tick
  BY <1>1, <1>12 DEF Normal!Tick, NormalInv
<1>13. ASSUME NEW q \in 1 .. MaxQueries, Normal!NStep(q) PROVE NormalInv'
  <2>1. CASE requests[q].at = "lookup" /\ Normal!Lookup(q, "hit", "queued")
    BY Zenon, <2>1, <1>5 DEF Hits, Unanswered
  <2>2. CASE requests[q].at = "task" /\ Normal!Lookup(q, "taskHit", "getaddrinfo")
    BY Zenon, <2>2, <1>5 DEF Hits, Unanswered
  <2> QED BY Zenon, <2>1, <2>2, <1>6, <1>7, <1>8, <1>9, <1>10, <1>13 DEF Normal!NStep
<1> QED BY Zenon, <1>4, <1>11, <1>12, <1>13 DEF Normal!NNext, Normal!Calls, Normal!NoCall

\* A new resolver
LEMMA NormalInit ==
  ASSUME Normal!NInit
  PROVE  NormalInv
<1> DEFINE r == Normal!NoQuery
<1>1. r \in RequestsOf("host") /\ r.at = "none" /\ r.answers = 0 /\ r.age = 0
  <2>1. (CHOOSE n \in {"host"} : TRUE) = "host"
    BY Zenon
  <2> QED BY <2>1 DEF Normal!NoQuery, Normal!NoCall, RequestsOf, Labels, Unanswered
<1> HIDE DEF r
<1>2. /\ time = 0 /\ timeout \in Timeouts /\ entries = [n \in {"host"} |-> -1]
      /\ requests = [q \in 1 .. MaxQueries |-> r]
  BY Zenon DEF Normal!NInit, Normal!Calls, r
<1>3. time \in Nat /\ timeout \in Nat /\ entries \in [{"host"} -> Int]
  BY <1>2, TimeoutsAssumption
<1>4. \A q \in 1 .. MaxQueries : RequestOK(q, r, holder, timeout)
  BY <1>1, <1>3 DEF RequestOK, Unanswered, Hits
<1> QED BY Zenon, <1>1, <1>2, <1>3, <1>4 DEF NormalInv

\* What that says of the answers
LEMMA NormalAnswers ==
  ASSUME NormalInv
  PROVE  Normal!AnsweredFresh
BY DEF NormalInv, RequestOK, Hits, Normal!AnsweredFresh, Normal!Calls

-----------------------------------------------------------------------------
\* The resolver with c-ares exists whenever c-ares or the loop calls it, with one
\* timer while a query is asked; the other one calls a callback at most once, and
\* with an address that is not too old: see ResolversAnswerRight.
THEOREM ResolversAreRight == MCSpec => []ResolversAnswerRight
<1>1. MCInit => ResolverInv /\ NormalInv
  BY Zenon, ResolverInit, NormalInit DEF MCInit
<1>2. [Step(Next, Resolver!RNext, Normal!NNext)]_allVars => [Resolver!RNext]_resolverVars /\ [Normal!NNext]_normalVars
  BY Zenon DEF Step, allVars
<1>3. ResolverInv /\ NormalInv /\ [Step(Next, Resolver!RNext, Normal!NNext)]_allVars => (ResolverInv /\ NormalInv)'
  BY Zenon, <1>2, ResolverStep, NormalStep
<1>4. ResolverInv /\ NormalInv => ResolversAnswerRight
  BY Zenon, ResolverAlive, NormalAnswers DEF ResolversAnswerRight
<1> QED BY <1>1, <1>3, <1>4, PTL DEF MCSpec
=============================================================================
