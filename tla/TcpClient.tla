------------------------------ MODULE TcpClient ------------------------------
(***************************************************************************)
(* trantor::TcpClient (net/TcpClient.cc) and its Connector                 *)
(* (net/inner/Connector.cc): attempts to connect a nonblocking socket, the *)
(* connection they give, connect(), stop(), disconnect() and the release   *)
(* of the client in the loop thread or in another thread.                  *)
(*                                                                         *)
(* The Connector of a TcpClient has retry_ false, so that retry() and the  *)
(* connect_ flag of the Connector (never reset) decide nothing.  A failed  *)
(* assert() ends the program (aborted).  A TcpConnection is abstracted to  *)
(* its life: up, closed, destroyed.                                        *)
(***************************************************************************)
EXTENDS Naturals, Sequences, Functions

CONSTANTS
  None,          \* no socket
  MaxSockets,    \* bound: sockets made
  MaxCalls       \* bound: calls of the user

ASSUME NoneAssumption == None \notin Nat
ASSUME BoundsAssumption == MaxSockets \in Nat /\ MaxCalls \in Nat

Sockets == 1 .. MaxSockets

VARIABLES
  status,      \* Connector::status_
  chan,        \* the socket of Connector::channelPtr_
  fd,          \* Connector::fd_
  handed,      \* Connector::socketHanded_
  sock,        \* the state of each socket
  connection,  \* TcpClient::connection_, by its socket
  connect,     \* TcpClient::connect_
  cst,         \* the state of the TcpConnection of each socket
  closeCb,     \* the close callback of each TcpConnection
  client,      \* the TcpClient exists
  ref,         \* the user holds it
  funcs,       \* functions queued in the loop
  lpc,         \* where the loop thread is
  sockfd,      \* the connected socket that handleWrite() will hand over
  todo,        \* callbacks of the channel event that are still to be called
  upc,         \* where the other thread is
  calls,       \* number of calls of the user
  reported,    \* history: sockets whose failure went to the error callback
  aborted      \* the assertion that failed, or "freed": a destroyed Connector
               \* was used

connVars == <<status, chan, fd, handed, sock>>
clientVars == <<connection, connect, cst, closeCb, client, ref>>
callVars == <<upc, calls>>
vars == <<connVars, clientVars, funcs, lpc, sockfd, todo, callVars, reported,
          aborted>>

Init ==
  /\ status = "Disconnected" /\ chan = None /\ fd = None /\ handed = FALSE
  /\ sock = [s \in Sockets |-> "none"]
  /\ connection = None /\ connect = TRUE
  /\ cst = [s \in Sockets |-> "none"]
  /\ closeCb = [s \in Sockets |-> "client"]
  /\ client = TRUE /\ ref = TRUE
  /\ funcs = <<>> /\ lpc = "idle" /\ sockfd = None /\ todo = <<>>
  /\ upc = "idle" /\ calls = 0
  /\ reported = {}
  /\ aborted = "no"

Running == aborted = "no"

Queued(op) == \E i \in 1 .. Len(funcs) : funcs[i][1] = op

\* Who owns the Connector: the client, the callbacks of its channel (also of
\* one that is kept until the event is over), and the function of stop().
ConnectorAlive ==
  \/ client \/ upc = "stopping"
  \/ chan # None \/ Queued("keep") \/ Queued("remove")

\* ~Connector() closes the socket that was not handed over.
Open(s) ==
  /\ sock[s] \notin {"none", "closed"}
  /\ ConnectorAlive \/ handed \/ fd # s

-----------------------------------------------------------------------------
(* The Connector in the loop thread.  fs is what else is queued.           *)

\* removeAndResetChannel()
RemoveAndResetChannel(fs) ==
  /\ chan' = None
  /\ funcs' = IF chan = None THEN fs ELSE Append(fs, <<"keep", chan>>)

\* The error callback of TcpClient::connect(): the user's code if the client
\* exists, with the client locked.
ErrorCallback(s) ==
  /\ reported' = IF client THEN reported \cup {s} ELSE reported
  /\ lpc' = IF client THEN "user" ELSE "event"

\* connecting()
Connecting(s, fs) ==
  /\ status' = "Connecting"
  /\ IF chan # None THEN aborted' = "connecting" /\ UNCHANGED chan
     ELSE chan' = s /\ UNCHANGED aborted
  /\ funcs' = fs
  /\ UNCHANGED <<lpc, reported>>

\* Mutant: an error other than a refusal does not mark the socket.
MutConnectSocket(s, fs) ==
  /\ fd' = s
  /\ handed' = FALSE
  /\ \/ /\ sock' = [sock EXCEPT ![s] = "pending"]
        /\ Connecting(s, fs)
     \/ /\ sock' = [sock EXCEPT ![s] = "closed"]
        /\ funcs' = fs
        /\ ErrorCallback(s)
        /\ UNCHANGED <<status, chan, aborted>>

\* connect(): in progress, refused at once without retry, or another error.
ConnectSocket(s, fs) ==
  /\ fd' = s
  /\ \/ /\ handed' = FALSE
        /\ sock' = [sock EXCEPT ![s] = "pending"]
        /\ Connecting(s, fs)
     \/ /\ handed' = FALSE
        /\ sock' = [sock EXCEPT ![s] = "refused"]
        /\ funcs' = fs
        /\ UNCHANGED <<status, chan, lpc, reported, aborted>>
     \/ /\ handed' = TRUE
        /\ sock' = [sock EXCEPT ![s] = "closed"]
        /\ funcs' = fs
        /\ ErrorCallback(s)
        /\ UNCHANGED <<status, chan, aborted>>

\* startInLoop()
StartInLoop(fs) ==
  /\ IF status # "Disconnected" \/ ~ConnectorAlive
       THEN /\ aborted' = IF ConnectorAlive THEN "start" ELSE "freed"
            /\ UNCHANGED <<connVars, funcs, lpc, reported>>
       ELSE \E s \in Sockets :
              /\ sock[s] = "none"
              /\ \A r \in Sockets : r < s => sock[r] # "none"
              /\ ConnectSocket(s, fs)

-----------------------------------------------------------------------------
(* Events of the connecting socket                                         *)

\* The kernel ends the attempt.
AttemptEnds(s) ==
  /\ Running /\ sock[s] = "pending"
  /\ \E r \in {"established", "failed"} : sock' = [sock EXCEPT ![s] = r]
  /\ UNCHANGED <<sockfd, status, chan, fd, handed, clientVars, funcs, lpc,
                 todo, callVars, reported, aborted>>

\* Channel::handleEvent(): a connected socket is writable; a failed one has
\* POLLHUP, POLLERR and POLLOUT, each with its callback.
ChannelEvent(s) ==
  /\ Running /\ lpc = "idle" /\ chan = s
  /\ sock[s] \in {"established", "failed"}
  /\ lpc' = "event"
  /\ todo' = IF sock[s] = "established" THEN <<"write">>
             ELSE <<"error", "error", "write">>
  /\ UNCHANGED <<sockfd, connVars, clientVars, funcs, callVars, reported,
                 aborted>>

EventDone ==
  /\ Running /\ lpc = "event" /\ todo = <<>>
  /\ lpc' = "idle"
  /\ UNCHANGED <<sockfd, connVars, clientVars, funcs, todo, callVars,
                 reported, aborted>>

Shut(s) == sock' = IF s = None THEN sock ELSE [sock EXCEPT ![s] = "closed"]

\* Mutant: the error callback is left out.
MutSilent ==
  /\ Shut(chan)
  /\ RemoveAndResetChannel(funcs)
  /\ UNCHANGED <<reported, lpc>>

\* The channel goes, the socket is closed and the error reported.
Failed ==
  /\ Shut(chan)
  /\ RemoveAndResetChannel(funcs)
  /\ ErrorCallback(chan)

\* handleError()
HandleError ==
  /\ Running /\ lpc = "event" /\ todo # <<>> /\ Head(todo) = "error"
  /\ todo' = Tail(todo)
  /\ handed' = TRUE
  /\ \/ /\ status = "Connecting"
        /\ status' = "Disconnected"
        /\ Failed
     \/ /\ status # "Connecting"
        /\ UNCHANGED <<status, sock, chan, funcs, lpc, reported>>
  /\ UNCHANGED <<sockfd, fd, clientVars, callVars, aborted>>

\* handleWrite(): SO_ERROR of the socket of the channel decides, and whether an
\* established one is connected to itself (isSelfConnect()), which is treated as
\* a failure.  When a stop() came before, nothing happens to the socket.
HandleWrite ==
  /\ Running /\ lpc = "event" /\ todo # <<>> /\ Head(todo) = "write"
  /\ todo' = Tail(todo)
  /\ handed' = TRUE
  /\ \/ /\ status = "Connecting" /\ chan # None
        /\ Failed
        /\ UNCHANGED sockfd
     \/ /\ status = "Connecting" /\ chan # None /\ sock[chan] # "failed"
        /\ lpc' = "connected" /\ sockfd' = chan
        /\ RemoveAndResetChannel(funcs)
        /\ UNCHANGED <<sock, reported>>
     \/ /\ status # "Connecting"
        /\ UNCHANGED <<sock, chan, funcs, lpc, reported, sockfd>>
  /\ UNCHANGED <<status, fd, clientVars, callVars, aborted>>

\* status_ = Connected and newConnectionCallback_: TcpClient::newConnection()
\* if the client exists; its connection callback is code of the user.
NewConnection(s) ==
  /\ Running /\ lpc = "connected" /\ sockfd = s
  /\ sockfd' = None
  /\ status' = "Connected"
  /\ IF client
       THEN /\ connection' = s
            /\ cst' = [cst EXCEPT ![s] = "up"]
            /\ lpc' = "user"
       ELSE /\ lpc' = "event"
            /\ UNCHANGED <<connection, cst>>
  /\ UNCHANGED <<chan, fd, handed, sock, connect, closeCb, client, ref, funcs,
                 todo, callVars, reported, aborted>>

-----------------------------------------------------------------------------
(* The connection                                                          *)

\* The close callback: removeConnection() if the client exists (with retry_ set
\* it calls restart(), which does nothing); connectDestroyed() is queued.
CloseCallback(s, fs) ==
  /\ funcs' = Append(fs, <<"destroy", s>>)
  /\ IF closeCb[s] = "client" /\ client
       THEN /\ connection' = None
            /\ aborted' = IF connection = s THEN aborted ELSE "remove"
       ELSE UNCHANGED <<connection, aborted>>

\* The connection closes: by its peer, by an error, or by forceClose().
ConnectionCloses(s) ==
  /\ Running /\ lpc = "idle" /\ cst[s] = "up"
  /\ cst' = [cst EXCEPT ![s] = "closed"]
  /\ CloseCallback(s, funcs)
  /\ UNCHANGED <<sockfd, connVars, connect, closeCb, client, ref, lpc, todo,
                 callVars, reported>>

-----------------------------------------------------------------------------
(* The queued functions                                                    *)

RunFunc ==
  /\ Running /\ lpc = "idle" /\ funcs # <<>>
  /\ LET op == Head(funcs)[1]
         s == Head(funcs)[2]
         fs == Tail(funcs)
     IN \/ /\ op = "start"
           /\ StartInLoop(fs)
           /\ UNCHANGED clientVars
        \/ /\ op = "remove"
           /\ RemoveAndResetChannel(fs)
           /\ UNCHANGED <<status, fd, handed, sock, clientVars, lpc, reported,
                          aborted>>
        \/ /\ op = "keep"
           /\ funcs' = fs
           /\ UNCHANGED <<connVars, clientVars, lpc, reported, aborted>>
        \/ /\ op = "setClose"
           /\ closeCb' = [closeCb EXCEPT ![s] = "destroy"]
           /\ funcs' = fs
           /\ UNCHANGED <<connVars, connection, connect, cst, client, ref,
                          lpc, reported, aborted>>
        \/ /\ op = "forceClose"
           /\ IF cst[s] = "up"
                THEN /\ cst' = [cst EXCEPT ![s] = "closed"]
                     /\ CloseCallback(s, fs)
                ELSE funcs' = fs /\ UNCHANGED <<cst, connection, aborted>>
           /\ UNCHANGED <<connVars, connect, closeCb, client, ref, lpc,
                          reported>>
        \/ /\ op = "destroy"
           /\ cst' = [cst EXCEPT ![s] = "destroyed"]
           /\ sock' = [sock EXCEPT ![s] = "closed"]
           /\ funcs' = fs
           /\ UNCHANGED <<status, chan, fd, handed, connection, connect,
                          closeCb, client, ref, lpc, reported, aborted>>
  /\ UNCHANGED <<sockfd, todo, callVars>>

-----------------------------------------------------------------------------
(* The user                                                                *)

\* The user connects once, or again when the last attempt has failed, its
\* connection is closed, or stop() or disconnect() was called.
MayConnect ==
  /\ ref /\ calls < MaxCalls
  /\ \E s \in Sockets : sock[s] = "none"
  /\ \/ \A s \in Sockets : sock[s] = "none" /\ ~Queued("start")
     \/ ~connect
     \/ /\ ~Queued("start")
        /\ \A s \in Sockets :
             sock[s] # "none" =>
               s \in reported \/ cst[s] \in {"closed", "destroyed"}

\* connect() in another thread
Connect ==
  /\ Running /\ upc = "idle" /\ MayConnect
  /\ calls' = calls + 1
  /\ connect' = TRUE
  /\ funcs' = Append(funcs, <<"start", None>>)
  /\ UNCHANGED <<sockfd, connVars, connection, cst, closeCb, client, ref, lpc,
                 todo, upc, reported, aborted>>

\* connect() in the loop thread, in a callback or elsewhere
ConnectInLoop ==
  /\ Running /\ lpc \in {"idle", "user"} /\ MayConnect
  /\ calls' = calls + 1
  /\ connect' = TRUE
  /\ StartInLoop(funcs)
  /\ UNCHANGED <<sockfd, connection, cst, closeCb, client, ref, todo, upc>>

\* stop(): status_ is set, then removeAndResetChannel() called or queued.
Stop ==
  /\ Running /\ upc = "idle" /\ ref /\ calls < MaxCalls
  /\ calls' = calls + 1
  /\ connect' = FALSE
  /\ status' = "Disconnected"
  /\ upc' = "stopping"
  /\ UNCHANGED <<sockfd, chan, fd, handed, sock, connection, cst, closeCb,
                 client, ref, funcs, lpc, todo, reported, aborted>>

StopQueue ==
  /\ Running /\ upc = "stopping"
  /\ funcs' = Append(funcs, <<"remove", None>>)
  /\ upc' = "idle"
  /\ UNCHANGED <<sockfd, connVars, clientVars, lpc, todo, calls, reported,
                 aborted>>

StopInLoop ==
  /\ Running /\ lpc \in {"idle", "user"} /\ ref /\ calls < MaxCalls
  /\ calls' = calls + 1
  /\ connect' = FALSE
  /\ status' = "Disconnected"
  /\ RemoveAndResetChannel(funcs)
  /\ UNCHANGED <<sockfd, fd, handed, sock, connection, cst, closeCb, client,
                 ref, lpc, todo, upc, reported, aborted>>

\* disconnect(): the shutdown of the connection is the peer's to answer.
Disconnect ==
  /\ Running /\ ref /\ calls < MaxCalls
  /\ calls' = calls + 1
  /\ connect' = FALSE
  /\ UNCHANGED <<sockfd, connVars, connection, cst, closeCb, client, ref,
                 funcs, lpc, todo, upc, reported, aborted>>

\* The user releases the client in another thread: ~TcpClient() runs there,
\* unless a callback has the client locked.
Release ==
  /\ Running /\ upc = "idle" /\ ref
  /\ ref' = FALSE
  /\ IF lpc = "user" THEN UNCHANGED <<client, status, upc, funcs>>
     ELSE /\ client' = FALSE
          /\ IF connection = None
               THEN /\ status' = "Disconnected"
                    /\ upc' = "stopping"
                    /\ UNCHANGED funcs
               ELSE /\ funcs' = funcs \o <<<<"setClose", connection>>,
                                           <<"forceClose", connection>>>>
                    /\ UNCHANGED <<status, upc>>
  /\ UNCHANGED <<sockfd, chan, fd, handed, sock, connection, connect, cst,
                 closeCb, lpc, todo, calls, reported, aborted>>

\* ~TcpClient() in the loop thread
DtorInLoop ==
  /\ client' = FALSE
  /\ IF connection = None
       THEN /\ status' = "Disconnected"
            /\ RemoveAndResetChannel(funcs)
            /\ UNCHANGED <<cst, closeCb>>
       ELSE /\ closeCb' = [closeCb EXCEPT ![connection] = "destroy"]
            /\ cst' = [cst EXCEPT ![connection] = "closed"]
            /\ funcs' = Append(funcs, <<"destroy", connection>>)
            /\ UNCHANGED <<status, chan>>
  /\ UNCHANGED <<fd, handed, sock, connection, connect>>

ReleaseInLoop ==
  /\ Running /\ lpc = "idle" /\ ref
  /\ ref' = FALSE
  /\ DtorInLoop
  /\ UNCHANGED <<sockfd, lpc, todo, callVars, reported, aborted>>

\* A callback of the user returns and its lock of the client is released.
UserReturns ==
  /\ Running /\ lpc = "user"
  /\ lpc' = "event"
  /\ IF ref THEN UNCHANGED <<connVars, connection, connect, cst, closeCb,
                             client, funcs>>
     ELSE DtorInLoop
  /\ UNCHANGED <<sockfd, ref, todo, callVars, reported, aborted>>

LoopStep ==
  \/ EventDone \/ HandleError \/ HandleWrite \/ RunFunc \/ UserReturns
  \/ \E s \in Sockets : ChannelEvent(s) \/ NewConnection(s)

Next ==
  \/ LoopStep \/ StopQueue
  \/ \E s \in Sockets : AttemptEnds(s) \/ ConnectionCloses(s)
  \/ Connect \/ ConnectInLoop \/ Stop \/ StopInLoop \/ Disconnect
  \/ Release \/ ReleaseInLoop

Spec == Init /\ [][Next]_vars

\* The loop runs, and runs the queued functions after the events of each poll;
\* the kernel ends every attempt, and stop() goes on.
FairSpec ==
  /\ Spec
  /\ WF_vars(LoopStep) /\ SF_vars(RunFunc) /\ WF_vars(StopQueue)
  /\ \A s \in Sockets : WF_vars(AttemptEnds(s))

-----------------------------------------------------------------------------
TypeOK ==
  /\ status \in {"Disconnected", "Connecting", "Connected"}
  /\ {chan, fd, connection, sockfd} \subseteq Sockets \cup {None}
  /\ {handed, connect, client, ref} \subseteq BOOLEAN
  /\ sock \in [Sockets -> {"none", "pending", "established", "failed",
                           "refused", "closed"}]
  /\ cst \in [Sockets -> {"none", "up", "closed", "destroyed"}]
  /\ closeCb \in [Sockets -> {"client", "destroy"}]
  /\ lpc \in {"idle", "event", "connected", "user"}
  /\ upc \in {"idle", "stopping"}
  /\ calls \in 0 .. MaxCalls
  /\ reported \subseteq Sockets
  /\ client /\ connection # None => cst[connection] = "up"
  /\ aborted \in {"no", "start", "freed", "connecting", "remove"}

\* ~Connector() closes fd_ unless it was handed over: whatever the order of
\* errors, stops and releases, the socket it would close is neither closed
\* already nor owned by a connection.  The same is true of the socket whose
\* channel the loop polls.  A connection is destroyed exactly once, however the
\* close callback of the client, forceClose() and the peer meet.
NoDoubleClose ==
  /\ TypeOK
  /\ fd # None /\ ~handed => sock[fd] # "closed" /\ cst[fd] = "none"
  /\ chan # None => Open(chan) /\ cst[chan] = "none"
  /\ \A s \in Sockets :
       /\ \A i, j \in 1 .. Len(funcs) :
            funcs[i] = <<"destroy", s>> /\ funcs[j] = <<"destroy", s>> => i = j
       /\ <<"destroy", s>> \in Range(funcs) => cst[s] = "closed"

\* Every attempt that waits for its socket, and every one that connect(2) fails
\* at once with an error that closes the socket, ends with a connection or a call
\* of the error callback, unless the user stops or releases the client first.
\* (The queued half of an earlier stop() of another thread would remove the
\* channel of the attempt.)  The attempts left are those that connect(2) refuses
\* at once with EAGAIN, EADDRINUSE, EADDRNOTAVAIL, ECONNREFUSED or ENETUNREACH:
\* nobody is told of them.  And the connection of a client that was released
\* ends.
AttemptIsAnswered ==
  /\ \A s \in Sockets :
       (chan = s \/ sock[s] = "closed") /\ ~Queued("remove") /\ upc = "idle" ~>
         \/ cst[s] # "none" \/ s \in reported
         \/ ~client \/ ~connect \/ aborted # "no"
  /\ ~client ~>
       connection = None \/ cst[connection] = "destroyed" \/ aborted # "no"
=============================================================================
