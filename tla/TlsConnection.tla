---------------------------- MODULE TlsConnection ----------------------------
(***************************************************************************)
(* A TcpConnectionImpl with a TLS provider: net/inner/TLSProvider.h, the   *)
(* two providers of net/inner/tlsprovider/ (OpenSSLProvider.cc and         *)
(* BotanTLSProvider.cc) and what TcpConnectionImpl.cc does when it has     *)
(* one.  Module TcpConnection is about connections without TLS.            *)
(*                                                                         *)
(* Everything runs in the loop thread; calls from other threads are        *)
(* functions that run when no handler does.  OpenSSL is known by the       *)
(* records that it puts in wbio_: a flight of the handshake, data, a key   *)
(* update or an alert.  A record is two units long, so that the socket may *)
(* take a part of one.  A unit of data is what one SSL_write() is given.   *)
(* Botan makes the same records but has each one written at once, and      *)
(* reports what goes wrong by an exception.                                *)
(*                                                                         *)
(* The handlers call one another and the socket may take more or less each *)
(* time, so they are operators from the state of a connection to the set   *)
(* of states that they may leave.                                          *)
(***************************************************************************)
EXTENDS Integers, Sequences, SequencesExt

CONSTANTS Providers,   \* the builds: "openssl" and "botan"
          MaxData,     \* units of data that are given to send()
          MaxRecords,  \* records that are made
          MaxSend,     \* maxSend of Botan's sendData(), in units
          BotanSizes   \* units of one send() to Botan

VARIABLES
  conn,       \* the connection and its provider: see Init
  lpc,        \* where the loop thread is
  accepted    \* history: units that were given to send() when Connected

vars == <<conn, lpc, accepted>>

Init ==
  /\ \E p \in Providers : conn = [
       provider |-> p, status |-> "Connecting", events |-> {}, removed |-> FALSE,
       list |-> <<>>,           \* writeBufferList_: the units in it
       closeOnEmpty |-> FALSE,
       fin |-> FALSE,           \* closeWrite() was called
       init |-> FALSE,          \* SSL_is_init_finished()
       shut |-> FALSE,          \* SSL_shutdown() was called
       wbio |-> <<>>, buf |-> <<>>,       \* wbio_ and writeBuffer_
       handshakeError |-> FALSE, sslError |-> FALSE,  \* processed...Error_
       n |-> 0,                 \* what the last call returned
       records |-> <<>>,        \* history: the records, in the order made
       wire |-> <<>>,           \* history: what the socket took, while Ordered
       lost |-> FALSE,          \* history: a write failed
       valid |-> FALSE,         \* history: the handshake callback was called
       waited |-> FALSE,        \* history: an alert did not fit in the socket
       errorQueued |-> FALSE,   \* Botan: the error callback is queued
       overtook |-> FALSE]      \* history: Botan wrote past older records in buf
  /\ lpc = "idle" /\ accepted = 0

-----------------------------------------------------------------------------
(* What the provider writes                                                *)

\* No write has failed, and no record has gone before an older one.
Ordered(t) == ~t.lost /\ ~t.overtook

\* writeRaw(): what does not fit is waited for.
WriteRaw(t, data) ==
  {[t EXCEPT !.n = -1, !.lost = TRUE, !.wire = <<>>]} \cup
  {[t EXCEPT !.n = k, !.wire = IF Ordered(t) THEN @ \o SubSeq(data, 1, k) ELSE <<>>,
             !.events = IF k < Len(data) THEN @ \cup {"write"} ELSE @] :
     k \in IF t.fin THEN {} ELSE 0 .. Len(data)}

\* OpenSSL makes a record.
Make(t, what) ==
  LET r == Len(t.records) + 1
  IN [t EXCEPT !.records = Append(@, what),
               !.wbio = @ \o <<<<r, 1>>, <<r, 2>>>>]

SendTLSData(t) ==
  IF t.wbio = <<>> THEN {t}
  ELSE {[r EXCEPT !.wbio = <<>>,
                  !.buf = IF r.n < 0 THEN @
                          ELSE @ \o SubSeq(t.wbio, r.n + 1, Len(t.wbio))] :
          r \in WriteRaw(t, t.wbio)}

Botan(t) == t.provider = "botan"

\* tls_emit_data(): n is lastWriteSize_.
Emit(t, what) ==
  LET u == Make(t, what)
      overtakes(r) == t.buf # <<>> /\ r.n > 0
  IN {[r EXCEPT !.wbio = <<>>, !.overtook = @ \/ overtakes(r),
                !.wire = IF overtakes(r) THEN <<>> ELSE @,
                !.buf = @ \o SubSeq(u.wbio, (IF r.n < 0 THEN 0 ELSE r.n) + 1, Len(u.wbio))] :
        r \in WriteRaw(u, u.wbio)}

\* A record is made and sent.
Put(t, what) == IF Botan(t) THEN Emit(t, what) ELSE SendTLSData(Make(t, what))

\* SSL_shutdown(): an alert, the first time
SslShutdown(t) ==
  IF t.shut THEN t ELSE [Make(t, <<"alert">>) EXCEPT !.shut = TRUE]

\* close() of Botan: an alert, while the channel is active
Active(t) == t.init /\ ~t.shut
BotanClose(t) ==
  IF Active(t) THEN Emit([t EXCEPT !.shut = TRUE], <<"alert">>) ELSE {t}

\* close()
Close(t) ==
  IF Botan(t) THEN {[r EXCEPT !.waited = @ \/ r.buf # t.buf] : r \in BotanClose(t)}
  ELSE IF ~t.init THEN {t}
  ELSE {[r EXCEPT !.waited = @ \/ r.buf # t.buf] :
          r \in SendTLSData(SslShutdown(t))}

-----------------------------------------------------------------------------
(* Closing                                                                 *)

HandleClose(t) == [t EXCEPT !.status = "Disconnected", !.events = {}]

ForceClose(t) ==
  IF t.status \in {"Connected", "Disconnecting"} THEN Close(HandleClose(t))
  ELSE {t}

\* Mutant: data that waits in the provider is not looked at.
MutShutdown(t) ==
  CASE t.status # "Connected" -> {t}
    [] t.status = "Connected" /\ t.list # <<>> ->
         {[t EXCEPT !.closeOnEmpty = TRUE]}
    [] t.status = "Connected" /\ t.list = <<>> ->
         {[r EXCEPT !.status = "Disconnecting", !.fin = TRUE] : r \in Close(t)}

Shutdown(t) ==
  LET waiting == t.buf # <<>> \/ t.list # <<>>
  IN CASE t.status # "Connected" -> {t}
       [] t.status = "Connected" /\ waiting ->
            {[t EXCEPT !.closeOnEmpty = TRUE]}
       [] t.status = "Connected" /\ ~waiting ->
            {[r EXCEPT !.status = "Disconnecting",
                       !.fin = "write" \notin r.events] : r \in Close(t)}

\* handleSSLError() and onSslError()
HandleSSLError(t) ==
  UNION {IF r.sslError THEN {r} ELSE ForceClose([r EXCEPT !.sslError = TRUE]) :
           r \in SendTLSData(t)}

-----------------------------------------------------------------------------
(* Sending                                                                 *)

\* One turn of the loop in sendData(), for one unit
SendUnit(t, unit) ==
  CASE t.n < 0 \/ t.buf # <<>> -> {t}
    [] t.n >= 0 /\ t.buf = <<>> /\ (~t.init \/ t.shut) ->
         {[r EXCEPT !.n = -1] : r \in HandleSSLError(t)}
    [] t.n >= 0 /\ t.buf = <<>> /\ t.init /\ ~t.shut ->
         {[r EXCEPT !.n = IF @ < 0 THEN -1 ELSE t.n + 1] :
            r \in SendTLSData(Make(t, <<"data", unit>>))}

\* channel_->send(): a record for each unit; it throws when the channel is not
\* active.
BotanWrite(t, data) ==
  LET record(S, unit) == UNION {Emit(r, <<"data", unit>>) : r \in S}
  IN IF Active(t) THEN FoldLeft(record, {t}, data) ELSE {[t EXCEPT !.n = -1, !.lost = TRUE]}

\* One turn of the loop in Botan's sendData(): all of the data, not the trunk,
\* is given to Botan.
BotanTurn(t, data) ==
  LET trunkLen == IF Len(data) - t.n > MaxSend THEN MaxSend ELSE Len(data) - t.n
  IN IF t.n < 0 \/ t.n >= Len(data) \/ t.buf # <<>> THEN {t}
     ELSE {[r EXCEPT !.n = IF @ < 0 THEN -1 ELSE t.n + trunkLen] : r \in BotanWrite(t, data)}

SendData(t, data) ==
  LET turn(S, unit) == UNION {IF Botan(t) THEN BotanTurn(r, data) ELSE SendUnit(r, unit) : r \in S}
  IN FoldLeft(turn, {[t EXCEPT !.n = 0]}, data)

\* The units that SendData() did not take
Rest(r, data) == SubSeq(data, r.n + 1, Len(data))

SendInLoop(t, data) ==
  CASE t.status # "Connected" -> {t}
    [] t.status = "Connected" /\ ("write" \in t.events \/ t.list # <<>>) ->
         {[t EXCEPT !.list = @ \o data]}
    [] t.status = "Connected" /\ "write" \notin t.events /\ t.list = <<>> ->
         {IF r.n < 0 \/ r.status # "Connected" THEN r
          ELSE [r EXCEPT !.list = Rest(r, data)] : r \in SendData(t, data)}

\* sendBufferedData(): n is -1 when something is left.
SendBufferedData(t) ==
  IF t.buf = <<>> THEN {[t EXCEPT !.n = 0]}
  ELSE {IF r.n < 0 THEN r
        ELSE [r EXCEPT !.buf = SubSeq(@, r.n + 1, Len(@)),
                       !.n = IF r.n < Len(t.buf) THEN -1 ELSE 0] :
          r \in WriteRaw(t, t.buf)}

\* writeCallback() after sendBufferedData(): the nodes, and then the end
SendNodes(t) ==
  {IF r.n < 0 THEN r ELSE [r EXCEPT !.list = Rest(r, t.list)] :
     r \in SendData(t, t.list)}

\* Mutant: it does not matter what writeBuffer_ holds.
MutAllSent(t) ==
  IF t.n < 0 \/ t.list # <<>> THEN {t}
  ELSE LET r == [t EXCEPT !.events = @ \ {"write"}]
       IN IF r.closeOnEmpty THEN Shutdown(r) ELSE {r}

AllSent(t) ==
  IF t.n < 0 \/ t.list # <<>> \/ t.buf # <<>> THEN {t}
  ELSE LET r == [t EXCEPT !.events = @ \ {"write"}]
       IN IF r.closeOnEmpty THEN Shutdown(r) ELSE {r}

-----------------------------------------------------------------------------
(* The actions                                                             *)

\* The handler, or the call, may leave these states.
Become(S) == \E t \in S : conn' = [t EXCEPT !.n = 0]

\* Room for the records of a flight and an alert
Room == Len(conn.records) + 2 <= MaxRecords
Handler == lpc = "idle" /\ ~conn.removed
Readable == Handler /\ "read" \in conn.events

\* connectEstablished() and startEncryption(): a client has a flight to send,
\* a server has not.
ConnectEstablished ==
  /\ Handler /\ conn.status = "Connecting"
  /\ LET t == [conn EXCEPT !.status = "Connected", !.events = {"read"}]
     IN Become({t} \cup Put(t, <<"flight">>))
  /\ UNCHANGED <<lpc, accepted>>

\* The peer has got all that was made, and can go on with the handshake: then
\* OpenSSL may answer with another flight.
PeerGoesOn(t) == t.buf = <<>> /\ ~t.lost
Flights(t) ==
  {t} \cup IF PeerGoesOn(t) /\ Room THEN {Make(t, <<"flight">>)} ELSE {}

\* Neither side finishes before the other has answered a flight.
PeerHasFlight == PeerGoesOn(conn) /\ Contains(conn.records, <<"flight">>)

OpenSSL == conn.provider = "openssl"

\* recvData() and processHandshake(): the handshake wants to read.
HandshakeWants ==
  /\ Readable /\ ~conn.init /\ OpenSSL
  /\ Become(UNION {SendTLSData(t) : t \in Flights(conn)})
  /\ UNCHANGED <<lpc, accepted>>

\* The handshake is finished and the certificate, if there must be one, is
\* valid: the handshake callback is called before the last flight is sent.
HandshakeFinished ==
  /\ Readable /\ ~conn.init /\ PeerHasFlight /\ OpenSSL
  /\ Become({[t EXCEPT !.init = TRUE, !.valid = TRUE] : t \in Flights(conn)})
  /\ lpc' = "handshake"
  /\ UNCHANGED accepted

HandshakeCallbackReturns ==
  /\ lpc = "handshake"
  /\ Become(IF OpenSSL THEN SendTLSData(conn) ELSE {conn})
  /\ lpc' = "reading"
  /\ UNCHANGED accepted

\* There is no valid certificate.
InvalidCertificate ==
  /\ Readable /\ ~conn.init /\ PeerHasFlight /\ OpenSSL
  /\ Become(UNION {HandleSSLError(SslShutdown([t EXCEPT !.init = TRUE])) :
                     t \in Flights(conn)})
  /\ UNCHANGED <<lpc, accepted>>

\* Any other error, about which OpenSSL may have an alert for the peer
HandshakeFails ==
  /\ Readable /\ ~conn.init /\ ~conn.handshakeError /\ OpenSSL
  /\ LET t == [conn EXCEPT !.handshakeError = TRUE]
     IN Become(UNION {UNION {HandleSSLError(r) : r \in Shutdown(u)} :
                        u \in {t, Make(t, <<"alert">>)}})
  /\ UNCHANGED <<lpc, accepted>>

\* recvData() when the handshake is finished
ReadCallback ==
  /\ Readable /\ conn.init
  /\ lpc' = "reading"
  /\ UNCHANGED <<conn, accepted>>

\* The loop in processApplicationData(): data is given to the message callback.
MessageCallback ==
  /\ lpc = "reading"
  /\ lpc' = "message"
  /\ UNCHANGED <<conn, accepted>>

MessageCallbackReturns ==
  /\ lpc = "message"
  /\ lpc' = "reading"
  /\ UNCHANGED <<conn, accepted>>

\* SSL_read() has answered a key update by a record, which is not sent now.
KeyUpdate ==
  /\ lpc = "reading" /\ Room /\ ~conn.shut /\ OpenSSL
  /\ Become({Make(conn, <<"key">>)})
  /\ UNCHANGED <<lpc, accepted>>

\* There is no more data; or the peer has sent a closing alert; or the data is
\* not TLS.
ReadingEnds ==
  /\ lpc = "reading" /\ OpenSSL
  /\ Become({conn} \cup Shutdown(conn) \cup HandleSSLError(conn))
  /\ lpc' = "idle"
  /\ UNCHANGED accepted

-----------------------------------------------------------------------------
(* What Botan calls in recvData()                                          *)

\* Botan may have a flight for the peer, written before anything else.
BotanFlights == {conn} \cup IF PeerGoesOn(conn) /\ Room THEN Emit(conn, <<"flight">>) ELSE {}

BotanHandshakeWants ==
  /\ Readable /\ ~conn.init /\ ~OpenSSL
  /\ Become(BotanFlights)
  /\ UNCHANGED <<lpc, accepted>>

\* tls_session_activated(), after tls_verify_cert_chain() has not thrown
TlsSessionActivated ==
  /\ Readable /\ ~conn.init /\ PeerHasFlight /\ ~OpenSSL
  /\ Become({[t EXCEPT !.init = TRUE, !.valid = TRUE] : t \in BotanFlights})
  /\ lpc' = "handshake"
  /\ UNCHANGED accepted

\* An exception of Botan, before which it may send an alert and be closed, or
\* of a callback: shutdown(), and the error callback is queued.
BotanException ==
  /\ ~OpenSSL /\ (lpc = "reading" \/ (Readable /\ ~conn.init))
  /\ LET alerts == {[t EXCEPT !.shut = TRUE] : t \in Emit(conn, <<"alert">>)}
     IN Become(UNION {Shutdown([t EXCEPT !.sslError = TRUE, !.errorQueued = TRUE]) :
                        t \in {conn} \cup IF conn.shut THEN {} ELSE alerts})
  /\ lpc' = "idle"
  /\ UNCHANGED accepted

\* handleSSLError(): the queued function calls onSslError().
BotanError ==
  /\ Handler /\ conn.errorQueued
  /\ Become(ForceClose([conn EXCEPT !.errorQueued = FALSE]))
  /\ UNCHANGED <<lpc, accepted>>

\* tls_alert() for a closing alert, which Botan has answered, or another one
TlsAlert ==
  /\ lpc = "reading" /\ ~OpenSSL
  /\ Become(UNION {Shutdown([t EXCEPT !.sslError = TRUE]) : t \in BotanClose(conn)}
             \cup ForceClose([conn EXCEPT !.sslError = TRUE]))
  /\ lpc' = "idle"
  /\ UNCHANGED accepted

BotanReadingEnds ==
  /\ lpc = "reading" /\ ~OpenSSL
  /\ lpc' = "idle"
  /\ UNCHANGED <<conn, accepted>>

-----------------------------------------------------------------------------

\* The peer has closed the connection.
PeerCloses ==
  /\ Readable
  /\ Become({HandleClose(conn)})
  /\ UNCHANGED <<lpc, accepted>>

WriteCallback ==
  /\ Handler /\ "write" \in conn.events
  /\ Room
  /\ LET sent == SendBufferedData(conn)
         nodes == UNION {IF t.n < 0 THEN {t} ELSE SendNodes(t) : t \in sent}
     IN Become(UNION {AllSent(t) : t \in nodes})
  /\ UNCHANGED <<lpc, accepted>>

\* Queued by the close callback, so that the connection is Disconnected.
ConnectDestroyed ==
  /\ Handler /\ conn.status = "Disconnected"
  /\ Become({[conn EXCEPT !.removed = TRUE]})
  /\ UNCHANGED <<lpc, accepted>>

\* Calls of the user, in a callback or in a function
UserCode ==
  lpc \in {"idle", "handshake", "message"} /\ conn.status # "Connecting"

Send ==
  /\ UserCode /\ Room
  /\ OpenSSL \/ Active(conn)
  /\ \E k \in IF OpenSSL THEN 1 .. 2 ELSE BotanSizes :
       /\ accepted + k <= MaxData
       /\ Become(SendInLoop(conn, [i \in 1 .. k |-> accepted + i]))
       /\ accepted' = accepted + IF conn.status = "Connected" THEN k ELSE 0
  /\ UNCHANGED lpc

UserShutdown ==
  /\ UserCode
  /\ Become(Shutdown(conn))
  /\ UNCHANGED <<lpc, accepted>>

UserForceClose ==
  /\ UserCode
  /\ Become(ForceClose(conn))
  /\ UNCHANGED <<lpc, accepted>>

Next ==
  \/ ConnectEstablished \/ HandshakeWants \/ HandshakeFinished
  \/ HandshakeCallbackReturns \/ InvalidCertificate \/ HandshakeFails
  \/ ReadCallback \/ MessageCallback \/ MessageCallbackReturns \/ KeyUpdate
  \/ BotanHandshakeWants \/ TlsSessionActivated \/ BotanException \/ BotanError
  \/ TlsAlert \/ BotanReadingEnds
  \/ ReadingEnds \/ PeerCloses \/ WriteCallback \/ ConnectDestroyed
  \/ Send \/ UserShutdown \/ UserForceClose

Spec == Init /\ [][Next]_vars

-----------------------------------------------------------------------------
\* The units of all records
Units ==
  FoldLeft(LAMBDA s, i : s \o <<<<i, 1>>, <<i, 2>>>>, <<>>,
           [i \in DOMAIN conn.records |-> i])

\* The data in the records
Sent ==
  LET data == SelectSeq(conn.records, LAMBDA r : r[1] = "data")
  IN [i \in DOMAIN data |-> data[i][2]]

\* Until the connection is closed by force or after an error, everything that
\* the library has made is on the wire, in writeBuffer_ or in wbio_, in the
\* order in which it was made: sendTLSData() writes to the socket although
\* writeBuffer_ may hold older records, and what Botan emits goes to the socket
\* first, which keeps the order as long as a full socket stays full until the
\* next record (~overtook).  And the data in the records, and then that in the
\* list, is what was given to send(), in the same order, though sendData()
\* stops in the middle of it.
RecordsInOrder ==
  conn.status # "Disconnected" /\ ~conn.lost /\ ~conn.sslError =>
    /\ ~conn.overtook => conn.wire \o conn.buf \o conn.wbio = Units
    /\ Sent \o conn.list = [i \in 1 .. accepted |-> i]

\* Botan is given in one go no more than maxSend of the data of a send(): no
\* unit of data is in two records, as the comment on maxSend in sendData() and
\* the bytes that it says were sent promise.
SentInTrunks == Botan(conn) => IsInjective(Sent)

\* Data that waits in the list or in writeBuffer_ is waited for; and shutdown()
\* leaves a connection whose write side is closed, unless the alert had to wait
\* for the socket: then status_ is Disconnecting when it is sent and nobody
\* closes the write side.
NoStuckTlsData ==
  /\ conn.status = "Connected" /\ (conn.buf # <<>> \/ conn.list # <<>>)
       /\ ~(Botan(conn) /\ conn.lost) => "write" \in conn.events
  /\ conn.status = "Disconnecting" => conn.fin \/ conn.waited

\* When shutdown() closes the write side after the handshake, all data and the
\* alert that announces the end are on the wire.
FinComesLast ==
  ~conn.fin /\ conn'.fin /\ conn.init /\ Ordered(conn)' =>
    /\ conn'.list = <<>> /\ Contains(conn'.records, <<"alert">>)
    /\ conn'.wire = Units'
FinAfterAlert == [][FinComesLast]_vars

\* No message is delivered on a connection whose handshake failed or that has
\* no valid certificate, although SSL_is_init_finished() is true for the
\* latter.
MessageIsValid == lpc = "message" => conn.valid

=============================================================================
