------------------------------- MODULE Wepoll -------------------------------
(***************************************************************************)
(* An epoll port of third_party/wepoll/Wepoll.c, the epoll of Windows: a   *)
(* completion port, the states of the sockets that it watches, the poll    *)
(* requests that they have in the AFD driver, and the threads that call    *)
(* epoll_ctl(), epoll_wait(), epoll_close() and epoll_post_signal().       *)
(*                                                                         *)
(* A critical section of the port is one step: threads meet at the handle  *)
(* tree, at the reflock, at the lock and in the completion port.  Trees    *)
(* are sets here, see RedBlackTree.                                        *)
(***************************************************************************)
EXTENDS Integers, Sequences, FiniteSets, SequencesExt

CONSTANTS Threads,
          Sockets,       \* the sockets of the user
          Interests,     \* the events that are given to epoll_ctl()
          AfdEvents,     \* bound: the events that happen to sockets
          MaxGroupSize,  \* POLL_GROUP__MAX_GROUP_SIZE
          MaxEvents,     \* maxevents of epoll_wait()
          MaxStates,     \* bound: sock_states that are allocated
          MaxFailures    \* bound: requests that fail

VARIABLES
  port,    \* the port_state: see PInit
  afd,     \* of each sock_state, the request that the driver has: {} for none
  queue,   \* the packets in the completion port
  closed,  \* the sockets that the user has closed
  tpc,     \* where each thread is
  got,     \* the packets that each thread got in epoll_wait()
  reflock  \* the lock of the handle, and whether the handle is in its tree

Ids == 1 .. MaxStates
Groups == 1 .. MaxStates + 1
Free == [alive |-> FALSE]

PInit ==
  /\ port = [alive |-> TRUE, iocp |-> TRUE,
             active |-> 0,                  \* active_poll_count
             socks |-> [i \in Ids |-> Free],   \* the memory of the sock_states
             update |-> <<>>,               \* sock_update_queue
             deleted |-> {},                \* sock_deleted_queue
             groups |-> <<>>,               \* poll_group_queue
             size |-> [g \in Groups |-> 0],    \* group_size of each group
             used |-> 0, failures |-> 0]    \* sock_states and failures so far
  /\ afd = [i \in Ids |-> {}]
  /\ queue = <<>> /\ closed = {}
  /\ tpc = [t \in Threads |-> "idle"]
  /\ got = [t \in Threads |-> <<>>]
  /\ reflock = [inTree |-> TRUE, refs |-> 0, destroy |-> FALSE]

-----------------------------------------------------------------------------
(* Events: IN, OUT, RDHUP, ERR and HUP stand for the known ones.           *)

Known == {"in", "out", "rdhup", "err", "hup"}

ToAfd(events) ==
  {"localClose"}
  \cup (IF "in" \in events THEN {"receive"} ELSE {})
  \cup (IF "out" \in events THEN {"send"} ELSE {})
  \cup (IF events \cap {"in", "rdhup"} # {} THEN {"disconnect"} ELSE {})
  \cup (IF "hup" \in events THEN {"abort"} ELSE {})
  \cup (IF "err" \in events THEN {"connectFail"} ELSE {})

ToEpoll(afdEvent) ==
  CASE afdEvent = "receive" -> {"in"}
    [] afdEvent = "send" -> {"out"}
    [] afdEvent = "disconnect" -> {"in", "rdhup"}
    [] afdEvent = "abort" -> {"hup"}
    [] afdEvent = "connectFail" -> {"in", "out", "err", "rdhup"}

-----------------------------------------------------------------------------
(* Poll groups                                                             *)

Without(q, x) == SelectSeq(q, LAMBDA y : y # x)

\* poll_group_acquire() of the last group in the queue, or of a new one
Acquired(p) ==
  IF p.groups = <<>> \/ p.size[Last(p.groups)] >= MaxGroupSize
  THEN Len(p.groups) + 1 ELSE Last(p.groups)

Acquire(p) ==
  LET g == Acquired(p)
      others == Without(p.groups, g)
  IN [p EXCEPT !.size[g] = @ + 1,
               !.groups = IF p.size[g] + 1 = MaxGroupSize THEN <<g>> \o others
                          ELSE Append(others, g)]

\* poll_group_release()
Release(p, g) ==
  [p EXCEPT !.size[g] = @ - 1, !.groups = Append(Without(@, g), g)]

-----------------------------------------------------------------------------
(* Sockets.  w is [p, afd]: the port and what the driver has.              *)

Enqueued(p, i) == Contains(p.update, i) \/ i \in p.deleted

\* port_request_socket_update()
RequestUpdate(p, i) ==
  IF Enqueued(p, i) THEN p ELSE [p EXCEPT !.update = Append(@, i)]

\* sock__cancel_poll(): the packet is to come.  (It fails in SockUpdate only.)
CancelPoll(w, i) ==
  [w EXCEPT !.p.socks[i].status = "cancelled", !.p.socks[i].pending = {},
            !.afd[i] = IF @ = {} THEN {} ELSE @ \cup {"cancelled"}]

\* Mutant: what the driver still has is not looked at.
MutMayFree(s, force) == TRUE

MayFree(s, force) == force \/ s.status = "idle"

\* sock__delete()
SockDelete(w, i, force) ==
  LET s == w.p.socks[i]
      c == IF ~s.deletePending /\ s.status = "pending" THEN CancelPoll(w, i) ELSE w
      d == [c EXCEPT !.p.update = Without(@, i), !.p.socks[i].deletePending = TRUE]
  IN IF MayFree(d.p.socks[i], force)
     THEN [d EXCEPT !.p = [Release(@, s.group) EXCEPT !.deleted = @ \ {i},
                                                      !.socks[i] = Free]]
     ELSE [d EXCEPT !.p.deleted = @ \cup {i}]

\* The sock_state of a socket in the tree
Registered(p, sock) ==
  {i \in Ids : p.socks[i].alive /\ p.socks[i].socket = sock /\ ~p.socks[i].deletePending}

\* sock_set_event()
SetEvent(p, i, ev) ==
  LET events == ev \cup {"err", "hup"}
      s == [p EXCEPT !.socks[i].user = events]
  IN IF (events \cap Known) \subseteq p.socks[i].pending THEN s ELSE RequestUpdate(s, i)

\* sock_update(): [w, ok] for each outcome.
SockUpdate(w, i) ==
  LET s == w.p.socks[i]
      done(x) == [w |-> [x EXCEPT !.p.update = Without(@, i)], ok |-> TRUE]
      fails == IF w.p.failures < MaxFailures
               THEN {[w |-> [w EXCEPT !.p.failures = @ + 1], ok |-> FALSE]} ELSE {}
      covered == (s.user \cap Known) \subseteq s.pending
  IN CASE s.status = "pending" /\ covered -> {done(w)}
       [] s.status = "pending" /\ ~covered -> {done(CancelPoll(w, i))} \cup fails
       [] s.status = "cancelled" -> {done(w)}
       [] s.status = "idle" /\ s.socket \in closed ->
            {[w |-> SockDelete(w, i, FALSE), ok |-> TRUE]}
       [] s.status = "idle" /\ s.socket \notin closed ->
            {done([w EXCEPT !.afd[i] = ToAfd(s.user), !.p.socks[i].status = "pending",
                            !.p.socks[i].pending = s.user])} \cup fails

\* port__update_events()
RECURSIVE UpdateEvents(_)
UpdateEvents(w) ==
  IF w.p.update = <<>> THEN {[w |-> w, ok |-> TRUE]}
  ELSE UNION {IF r.ok THEN UpdateEvents(r.w) ELSE {r} : r \in SockUpdate(w, Head(w.p.update))}

UpdateIfPolling(w) ==
  IF w.p.active > 0 THEN {r.w : r \in UpdateEvents(w)} ELSE {w}

\* sock_feed_event(): w and the number of events so far
FeedEvent(f, packet) ==
  LET i == packet.id
      back == [f.w EXCEPT !.p.socks[i].status = "idle", !.p.socks[i].pending = {}]
      s == f.w.p.socks[i]
      events == CASE packet.result = "cancelled" -> {}
                  [] packet.result = "failed" -> {"err"}
                  [] OTHER -> ToEpoll(packet.result)
      shown == events \cap s.user
      user == IF shown # {} /\ "oneshot" \in s.user THEN {} ELSE s.user
  IN IF i = 0 THEN [f EXCEPT !.n = @ + 1]   \* a signal
     ELSE IF s.deletePending \/ packet.result = "localClose"
     THEN [f EXCEPT !.w = SockDelete(back, i, FALSE)]
     ELSE [w |-> [back EXCEPT !.p = [RequestUpdate(@, i) EXCEPT !.socks[i].user = user]],
           n |-> f.n + (IF shown # {} THEN 1 ELSE 0)]

-----------------------------------------------------------------------------
(* The threads                                                             *)

Goto(t, at) == tpc' = [tpc EXCEPT ![t] = at]
At(t, at) == tpc[t] = at
Become(w) == port' = w.p /\ afd' = w.afd
World == [p |-> port, afd |-> afd]
Same == UNCHANGED <<port, afd, queue, closed, got>>

\* epoll_wait() and epoll_ctl(): ts_tree_find_and_ref()
FindAndRef(t) ==
  /\ At(t, "idle") /\ reflock.inTree
  /\ reflock' = [reflock EXCEPT !.refs = @ + 1]
  /\ \E call \in {"wait", "ctl"} : Goto(t, call)
  /\ Same

\* port__ctl_add(): sock_new() fails for a socket that is closed, and after it has
\* a poll group for one that is registered, or for want of memory.
CtlAdd(sock, ev) ==
  LET i == port.used + 1
      g == Acquired(port)
      new == [Acquire(port) EXCEPT !.used = i,
                !.socks[i] = [alive |-> TRUE, socket |-> sock, group |-> g, status |-> "idle",
                              user |-> {}, pending |-> {}, deletePending |-> FALSE]]
  IN IF sock \in closed THEN {World}
     ELSE IF Registered(port, sock) # {} \/ i > MaxStates
     THEN {[World EXCEPT !.p = Release(Acquire(port), g)]}
     ELSE UpdateIfPolling([World EXCEPT !.p = SetEvent(new, i, ev)])

\* port__ctl_mod() and port__ctl_del()
CtlMod(sock, ev) ==
  UNION {UpdateIfPolling([World EXCEPT !.p = SetEvent(port, i, ev)]) : i \in Registered(port, sock)}
CtlDel(sock) == {SockDelete(World, i, FALSE) : i \in Registered(port, sock)}

\* port_ctl(), in its critical section
PortCtl(t) ==
  /\ At(t, "ctl")
  /\ \E sock \in Sockets, ev \in Interests :
       \E found \in {CtlAdd(sock, ev), CtlMod(sock, ev), CtlDel(sock)} :
         \E w \in IF found = {} THEN {World} ELSE found : Become(w)
  /\ Goto(t, "unref")
  /\ UNCHANGED <<queue, closed, got, reflock>>

\* port__poll() up to the wait: the thread is in the completion port after it.
Poll(t, w) ==
  \E r \in UpdateEvents(w) :
    IF r.ok THEN Become([r.w EXCEPT !.p.active = @ + 1]) /\ Goto(t, "poll")
    ELSE \E u \in UpdateIfPolling(r.w) : Become(u) /\ Goto(t, "unref")

PortWait(t) ==
  /\ At(t, "wait")
  /\ Poll(t, World)
  /\ UNCHANGED <<queue, closed, got, reflock>>

\* GetQueuedCompletionStatusEx() returns packets, or nothing after the time-out
\* or when the port is closed.
GetCompletions(t) ==
  /\ At(t, "poll")
  /\ LET n == IF ~port.iocp THEN 0 ELSE IF Len(queue) < MaxEvents THEN Len(queue) ELSE MaxEvents
     IN /\ got' = [got EXCEPT ![t] = SubSeq(queue, 1, n)]
        /\ queue' = SubSeq(queue, n + 1, Len(queue))
  /\ Goto(t, "polled")
  /\ UNCHANGED <<port, afd, closed, reflock>>

\* The rest of port__poll() and of the loop in port_wait(): without an event,
\* and before the time is over, it polls again.
FeedEvents(t) ==
  /\ At(t, "polled")
  /\ got' = [got EXCEPT ![t] = <<>>]
  /\ LET f == FoldLeft(FeedEvent, [w |-> [World EXCEPT !.p.active = @ - 1], n |-> 0], got[t])
     IN \/ f.n = 0 /\ got[t] # <<>> /\ Poll(t, f.w)
        \/ /\ \E u \in UpdateIfPolling(f.w) : Become(u)
           /\ Goto(t, "unref")
  /\ UNCHANGED <<queue, closed, reflock>>

\* reflock_unref(): the last one signals the thread that destroys the lock.
Unref(t) ==
  /\ At(t, "unref")
  /\ reflock' = [reflock EXCEPT !.refs = @ - 1]
  /\ Goto(t, IF reflock.refs = 1 /\ reflock.destroy THEN "signal" ELSE "idle")
  /\ Same

\* epoll_close(): ts_tree_del_and_ref()
DelAndRef(t) ==
  /\ At(t, "idle") /\ reflock.inTree
  /\ reflock' = [reflock EXCEPT !.refs = @ + 1, !.inTree = FALSE]
  /\ Goto(t, "close")
  /\ Same

\* port_close(): the packets are lost with the completion port.
PortClose(t) ==
  /\ At(t, "close")
  /\ port' = [port EXCEPT !.iocp = FALSE] /\ queue' = <<>>
  /\ Goto(t, "destroy")
  /\ UNCHANGED <<afd, closed, got, reflock>>

MustAwait(refs) == refs # 0

\* reflock_unref_and_destroy()
UnrefAndDestroy(t) ==
  /\ At(t, "destroy")
  /\ reflock' = [reflock EXCEPT !.refs = @ - 1, !.destroy = TRUE]
  /\ Goto(t, IF MustAwait(reflock.refs - 1) THEN "await" ELSE "delete")
  /\ Same

\* The keyed event: the two threads meet.
KeyedEvent(t, u) ==
  /\ At(t, "signal") /\ At(u, "await")
  /\ tpc' = [tpc EXCEPT ![t] = "idle", ![u] = "delete"]
  /\ UNCHANGED reflock /\ Same

\* port_delete()
PortDelete(t) ==
  /\ At(t, "delete")
  /\ LET force(w, i) == IF w.p.socks[i].alive THEN SockDelete(w, i, TRUE) ELSE w
         w == FoldLeft(force, World, [i \in Ids |-> i])
     IN port' = [w.p EXCEPT !.alive = FALSE, !.groups = <<>>]
  /\ afd' = [i \in Ids |-> {}]
  /\ Goto(t, "idle")
  /\ UNCHANGED <<queue, closed, got, reflock>>

ThreadStep(t) ==
  \/ FindAndRef(t) \/ PortCtl(t) \/ PortWait(t) \/ GetCompletions(t) \/ FeedEvents(t)
  \/ Unref(t) \/ DelAndRef(t) \/ PortClose(t) \/ UnrefAndDestroy(t) \/ PortDelete(t)
  \/ \E u \in Threads : KeyedEvent(t, u)

-----------------------------------------------------------------------------
(* The kernel and the user of the sockets                                  *)

\* A packet for the completion port, if it is open
Post(id, result) ==
  queue' = IF port.iocp THEN Append(queue, [id |-> id, result |-> result]) ELSE queue

\* A request is completed with an event, because it was cancelled, or fails.
Complete(i) ==
  /\ afd[i] # {}
  /\ \/ \E e \in afd[i] \cap (AfdEvents \cup {"cancelled"}) : Post(i, e) /\ UNCHANGED port
     \/ /\ port.failures < MaxFailures /\ Post(i, "failed")
        /\ port' = [port EXCEPT !.failures = @ + 1]
  /\ afd' = [afd EXCEPT ![i] = {}]
  /\ UNCHANGED <<closed, tpc, got, reflock>>

\* closesocket(): the request for it is completed.
CloseSocket(sock) ==
  /\ sock \notin closed /\ closed' = closed \cup {sock}
  /\ LET hit == {i \in Ids : port.socks[i].alive /\ port.socks[i].socket = sock /\ afd[i] # {}}
     IN /\ afd' = [i \in Ids |-> IF i \in hit THEN {} ELSE afd[i]]
        /\ queue' = IF ~port.iocp THEN queue
                    ELSE queue \o [k \in 1 .. Cardinality(hit) |->
                                     [id |-> SetToSeq(hit)[k], result |-> "localClose"]]
  /\ UNCHANGED <<port, tpc, got, reflock>>

\* epoll_post_signal(); bound: when there are no packets
PostSignal ==
  /\ port.iocp /\ queue = <<>>
  /\ Post(0, "signal")
  /\ UNCHANGED <<port, afd, closed, tpc, got, reflock>>

PNext ==
  \/ \E t \in Threads : ThreadStep(t)
  \/ \E i \in Ids : Complete(i)
  \/ \E sock \in Sockets : CloseSocket(sock)
  \/ PostSignal

\* No call is under way but one that waits for events.
Resting == \A t \in Threads : At(t, "idle") \/ (At(t, "poll") /\ port.iocp)

-----------------------------------------------------------------------------
\* The requests of a sock_state in the driver and the packets for it
Packets(i) ==
  LET count(q) == Cardinality({k \in DOMAIN q : q[k].id = i})
  IN (IF afd[i] # {} THEN 1 ELSE 0) + count(queue)
       + FoldLeft(LAMBDA n, t : n + count(got[t]), 0, SetToSeq(Threads))

\* A sock_state that is not idle has one request or packet, one that is idle or
\* freed has none: the driver never writes into freed memory, and a packet finds
\* its sock_state, whoever deletes the socket, closes it or changes its events
\* while the request or the packet is on its way.  Only closing the port loses
\* packets.
OnePacketEach ==
  port.alive => \A i \in Ids :
    LET s == port.socks[i]
        due == IF s.alive /\ s.status # "idle" THEN 1 ELSE 0
    IN Packets(i) = due \/ (~port.iocp /\ Packets(i) < due)

\* No wish of the user is lost: what a socket is watched for is in its request,
\* or the socket is in the queue of updates, or a cancelled request is to come
\* back; a deleted one is freed or in the queue of deleted ones.  And while a
\* thread waits in the completion port, the queue of updates is empty.
WishesAreSubmitted ==
  /\ \A i \in Ids : LET s == port.socks[i] IN s.alive =>
       IF s.deletePending THEN i \in port.deleted /\ s.status # "idle"
       ELSE /\ i \notin port.deleted
            /\ \/ Contains(port.update, i) \/ s.status = "cancelled"
               \/ s.status = "pending" /\ (s.user \cap Known) \subseteq s.pending
  /\ port.active > 0 /\ port.failures = 0 => port.update = <<>>

\* Full groups come first in their queue, so that a new one is made only when all
\* are full; a group has as many members as it counts; and with the port they
\* are all gone.
GroupsAreCounted ==
  /\ \A g \in Groups :
       port.size[g] = Cardinality({i \in Ids : port.socks[i].alive /\ port.socks[i].group = g})
  /\ \A j \in DOMAIN port.groups : \A k \in 1 .. j :
       port.size[port.groups[j]] = MaxGroupSize => port.size[port.groups[k]] = MaxGroupSize
  /\ ~port.alive => port.update = <<>> /\ \A i \in Ids : ~port.socks[i].alive

\* The port is not freed under a thread that found it.
PortOutlivesCalls ==
  ~port.alive => \A t \in Threads : At(t, "idle")
=============================================================================
