------------------------------- MODULE Pollers -------------------------------
(***************************************************************************)
(* trantor::Poller (net/inner/Poller.cc) and its implementations under     *)
(* net/inner/poller/, as operators on the state p of a poller of some kind *)
(* and the kernel table that belongs to it.                                *)
(***************************************************************************)
EXTENDS Integers, Sequences, SequencesExt, TLC

CONSTANTS Chans,  \* the Channel objects
          fd      \* fd_ of each channel

-----------------------------------------------------------------------------
(* EpollPoller: the index_ of each channel and the interest list that the  *)
(* kernel keeps in the epoll instance.                                     *)

EpollNew == [index |-> [c \in Chans |-> "kNew"], kernel |-> [f \in {} |-> {}]]

\* epoll_ctl(); its failures are ignored.
EpollCtl(kernel, operation, c, events) ==
  CASE operation = "add" -> kernel @@ (fd[c] :> [events |-> events, ptr |-> c])
    [] operation = "mod" /\ fd[c] \in DOMAIN kernel ->
         [kernel EXCEPT ![fd[c]] = [events |-> events, ptr |-> c]]
    [] operation = "mod" /\ fd[c] \notin DOMAIN kernel -> kernel
    [] operation = "del" -> [f \in DOMAIN kernel \ {fd[c]} |-> kernel[f]]

EpollSet(p, operation, c, events, index) ==
  [index |-> [p.index EXCEPT ![c] = index],
   kernel |-> EpollCtl(p.kernel, operation, c, events)]

EpollUpdate(p, c, events) ==
  CASE p.index[c] \in {"kNew", "kDeleted"} -> EpollSet(p, "add", c, events, "kAdded")
    [] p.index[c] = "kAdded" /\ events = {} -> EpollSet(p, "del", c, {}, "kDeleted")
    [] p.index[c] = "kAdded" /\ events # {} -> EpollSet(p, "mod", c, events, "kAdded")

EpollRemove(p, c) ==
  IF p.index[c] = "kAdded" THEN EpollSet(p, "del", c, {}, "kNew")
  ELSE [p EXCEPT !.index[c] = "kNew"]

\* The entries of the interest list: hang-ups and errors are reported for all.
EpollRegistered(p) == {p.kernel[f].ptr : f \in DOMAIN p.kernel}
EpollInterest(p) ==
  UNION {{<<f, e, p.kernel[f].ptr>> : e \in p.kernel[f].events} : f \in DOMAIN p.kernel}

-----------------------------------------------------------------------------
(* PollPoller: the index_ of each channel, channels_ and pollfds_.  An fd  *)
(* that poll() is to ignore is stored as -fd - 1.                          *)

PollNew == [index |-> [c \in Chans |-> -1], channels |-> [f \in {} |-> 0], pollfds |-> <<>>]

Pfd(f, events) == [fd |-> f, events |-> events]
Ignored(f) == -f - 1

\* A new channel is not ignored, also when it has no events.
PollUpdate(p, c, events) ==
  IF p.index[c] < 0
    THEN [index |-> [p.index EXCEPT ![c] = Len(p.pollfds)],
          channels |-> (fd[c] :> c) @@ p.channels,
          pollfds |-> Append(p.pollfds, Pfd(fd[c], events))]
    ELSE [p EXCEPT !.pollfds[p.index[c] + 1] =
            Pfd(IF events = {} THEN Ignored(fd[c]) ELSE fd[c], events)]

\* The channel of an entry
ChannelAt(p, pfd) == p.channels[IF pfd.fd < 0 THEN Ignored(pfd.fd) ELSE pfd.fd]

\* Mutant: the entry that takes the place keeps its index.
MutMoved(p, c) == p.index

\* The indexes when the last entry has taken the place of c's
Moved(p, c) == [p.index EXCEPT ![ChannelAt(p, Last(p.pollfds))] = p.index[c]]

\* index_ stays as it was.
PollRemove(p, c) ==
  LET at == p.index[c] + 1
      n == Len(p.pollfds)
  IN [index |-> IF at = n THEN p.index ELSE Moved(p, c),
      channels |-> [f \in DOMAIN p.channels \ {fd[c]} |-> p.channels[f]],
      pollfds |-> Front(IF at = n THEN p.pollfds
                        ELSE [p.pollfds EXCEPT ![at] = Last(p.pollfds)])]

\* The channels that poll() looks at, with their events
PollRegistered(p) ==
  {ChannelAt(p, p.pollfds[i]) : i \in {j \in DOMAIN p.pollfds : p.pollfds[j].fd >= 0}}
PollInterest(p) ==
  UNION {{<<p.pollfds[i].fd, e, ChannelAt(p, p.pollfds[i])>> : e \in p.pollfds[i].events} :
           i \in {j \in DOMAIN p.pollfds : p.pollfds[j].fd >= 0}}

-----------------------------------------------------------------------------
(* KQueue: the index_ of each channel, the events that channels_ has for   *)
(* each fd, and the filters in the kernel queue.                           *)

KQueueNew ==
  [index |-> [c \in Chans |-> "kNew"], channels |-> [f \in {} |-> {}], kernel |-> {}]

\* update(): a filter is added or deleted for each event that differs from the one
\* channels_ has.
KQueueSet(p, c, events) ==
  LET old == IF fd[c] \in DOMAIN p.channels THEN p.channels[fd[c]].events ELSE {}
      filters(es) == {<<fd[c], e, c>> : e \in es}
      deleted(es) == {k \in p.kernel : k[1] = fd[c] /\ k[2] \in es}
  IN [p EXCEPT !.channels = (fd[c] :> [events |-> events, channel |-> c]) @@ @,
               !.kernel = (@ \ deleted(old \ events)) \cup filters(events \ old)]

KQueueUpdate(p, c, events) ==
  [KQueueSet(p, c, events) EXCEPT
     !.index[c] = IF @ = "kAdded" /\ events = {} THEN "kDeleted" ELSE "kAdded"]

\* channels_.erase(fd)
Erased(p, c) ==
  [p EXCEPT !.channels = [f \in DOMAIN p.channels \ {fd[c]} |-> p.channels[f]]]

KQueueRemove(p, c) ==
  [Erased(IF p.index[c] = "kAdded" THEN KQueueSet(p, c, {}) ELSE p, c) EXCEPT
     !.index[c] = "kNew"]

\* ch.second.first = 0
Forgotten(p) == [f \in DOMAIN p.channels |-> [p.channels[f] EXCEPT !.events = {}]]

\* A child process has a new, empty kernel queue; events is that of each channel.
ResetAfterFork(p, events) ==
  LET reset == [p EXCEPT !.kernel = {}, !.channels = Forgotten(p)]
      chans == {p.channels[f].channel : f \in DOMAIN p.channels}
      enabled == {c \in chans : events[c] # {}}
      old(c) == reset.channels[fd[c]].events
  IN [reset EXCEPT
        !.channels = [f \in DOMAIN @ |-> [events |-> events[@[f].channel],
                                          channel |-> @[f].channel]],
        !.kernel = UNION {{<<fd[c], e, c>> : e \in events[c] \ old(c)} : c \in enabled}]

\* Only filters report anything.
KQueueRegistered(p) == {k[3] : k \in p.kernel}
KQueueInterest(p) == p.kernel

-----------------------------------------------------------------------------
(* The virtual functions of Poller                                         *)

New(kind) == CASE kind = "epoll" -> EpollNew [] kind = "poll" -> PollNew
               [] kind = "kqueue" -> KQueueNew

UpdateChannel(kind, p, c, events) ==
  CASE kind = "epoll" -> EpollUpdate(p, c, events)
    [] kind = "poll" -> PollUpdate(p, c, events)
    [] kind = "kqueue" -> KQueueUpdate(p, c, events)

RemoveChannel(kind, p, c) ==
  CASE kind = "epoll" -> EpollRemove(p, c)
    [] kind = "poll" -> PollRemove(p, c)
    [] kind = "kqueue" -> KQueueRemove(p, c)

\* What the poller has told the kernel to watch: the registered channels, whose
\* hang-ups and errors are reported, and fds and events with their channels.
Registered(kind, p) ==
  CASE kind = "epoll" -> EpollRegistered(p) [] kind = "poll" -> PollRegistered(p)
    [] kind = "kqueue" -> KQueueRegistered(p)
Interest(kind, p) ==
  CASE kind = "epoll" -> EpollInterest(p) [] kind = "poll" -> PollInterest(p)
    [] kind = "kqueue" -> KQueueInterest(p)
=============================================================================
