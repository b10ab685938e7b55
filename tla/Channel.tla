------------------------------- MODULE Channel -------------------------------
(***************************************************************************)
(* trantor::Channel (net/Channel.h, net/Channel.cc), the Poller behind it  *)
(* and the part of EventLoop::loop() between them: poll, handle the active *)
(* channels one after the other, run the queued functions.                 *)
(*                                                                         *)
(* All of it runs in the loop thread, and any callback or function may use *)
(* any channel.  A channel that was removed is destroyed in a function,    *)
(* after the dispatch; its fd may be used by a new channel at once, as     *)
(* Connector::handleWrite() does.  poll() may report any enabled event,    *)
(* and hang-ups and errors for whatever it watches.                        *)
(***************************************************************************)
EXTENDS Integers, Sequences, FiniteSets, SequencesExt, TLC

CONSTANTS Chans,              \* the Channel objects
          fd,                 \* fd_ of each channel
          kInitEventListSize  \* events_.size() at the start

VARIABLES
  kind,       \* the poller that newPoller() makes on this platform
  poller,     \* its state
  capacity,   \* its events_.size()
  events,     \* events_ of each channel
  revents,    \* revents_ of each active channel; {} for others
  life,       \* of each channel: unborn, live, removed, freed
  phase,      \* where loop() is: poll, timers, dispatch, callback, funcs
  active,     \* activeChannels_, from currentActiveChannel_ on
  callbacks   \* what handleEventSafely() has yet to call

vars == <<kind, poller, capacity, events, revents, life, phase, active,
          callbacks>>
loopVars == <<phase, active, callbacks, revents, capacity>>

Poller == INSTANCE Pollers

Init ==
  /\ kind \in {"epoll", "poll", "kqueue"}
  /\ poller = Poller!New(kind)
  /\ capacity = kInitEventListSize
  /\ events = [c \in Chans |-> {}] /\ revents = [c \in Chans |-> {}]
  /\ life = [c \in Chans |-> "unborn"]
  /\ phase = "poll" /\ active = <<>> /\ callbacks = <<>>

\* What the poller has told the kernel to watch
Registered == Poller!Registered(kind, poller)
Interest == Poller!Interest(kind, poller)

-----------------------------------------------------------------------------
(* poll()                                                                  *)

\* What a poller may report: for each of some channels a set of events; with
\* kqueue, some events one by one.
Reports ==
  LET of(c) == {k[2] : k \in {x \in Interest : x[3] = c}} \cup {"hup", "error"}
      Sets(R) == {g \in [R -> SUBSET {"read", "write", "hup", "error"} \ {{}}] :
                    \A c \in R : g[c] \subseteq of(c)}
  IN IF kind = "kqueue" THEN SUBSET {<<k[3], {k[2]}>> : k \in Interest}
     ELSE UNION {{{<<c, g[c]>> : c \in R} : g \in Sets(R)} : R \in SUBSET Registered}

\* The orders in which fillActiveChannels() may find the entries: with poll()
\* it is that of pollfds_.
Lists(S) ==
  {list \in SetToSeqs(S) : kind = "poll" =>
     \A i, j \in DOMAIN list : i < j =>
       poller.index[list[i][1]] < poller.index[list[j][1]]}

\* The last entry of a channel sets revents_.
LastOf(list, c) == {i \in DOMAIN list : list[i][1] = c /\
                      \A j \in DOMAIN list : list[j][1] = c => j <= i}

\* At most capacity entries are reported; a list that was full grows.
Poll ==
  /\ phase = "poll"
  /\ \E S \in Reports :
       /\ kind # "poll" => Cardinality(S) <= capacity
       /\ \E list \in Lists(S) :
            /\ active' = [i \in DOMAIN list |-> list[i][1]]
            /\ revents' = [c \in Chans |->
                 IF LastOf(list, c) = {} THEN {}
                 ELSE list[CHOOSE i \in LastOf(list, c) : TRUE][2]]
       /\ capacity' = IF Cardinality(S) = capacity /\ kind # "poll"
                        THEN capacity * 2 ELSE capacity
  /\ phase' = IF kind = "epoll" THEN "dispatch" ELSE "timers"
  /\ UNCHANGED <<kind, poller, events, life, callbacks>>

\* processTimers() returns; with epoll the timers have a channel of their own.
TimersDone ==
  /\ phase = "timers"
  /\ phase' = "dispatch"
  /\ UNCHANGED <<kind, poller, capacity, events, revents, life, active,
                 callbacks>>

-----------------------------------------------------------------------------
(* The loop over activeChannels_                                           *)

\* handleEventSafely(): the callbacks for revents_, in order.  No channel of
\* the library has an eventCallback_.
ToCall(revts) ==
  (IF "hup" \in revts /\ "read" \notin revts THEN <<"close">> ELSE <<>>)
    \o SelectSeq(<<"error", "read", "write">>, LAMBDA e : e \in revts)

\* Mutant: a channel without events is handled, too.
MutHandles(c) == TRUE

\* events_ == kNoneEvent: return
Handles(c) == events[c] # {}

\* handleEvent() of the next channel; a tie_ holds, as its object owns the
\* channel.  A hang-up is handled by the close callback or by the one that reads.
\* revents_ is dropped here when no entry of the batch reads it again.
HandleEvent ==
  /\ phase = "dispatch" /\ active # <<>>
  /\ LET c == Head(active)
     IN IF Handles(c)
          THEN /\ callbacks' = ToCall(revents[c])
               /\ phase' = "callback" /\ UNCHANGED active
          ELSE /\ active' = Tail(active)
               /\ UNCHANGED <<phase, callbacks>>
  /\ revents' = [d \in Chans |-> IF d \in Range(Tail(active)) THEN revents[d] ELSE {}]
  /\ UNCHANGED <<kind, poller, capacity, events, life>>

\* The first callback returns.
CallbackReturns ==
  /\ phase = "callback" /\ callbacks # <<>>
  /\ callbacks' = Tail(callbacks)
  /\ UNCHANGED <<kind, poller, capacity, events, revents, life, phase, active>>

NextChannel ==
  /\ phase = "callback" /\ callbacks = <<>>
  /\ active' = Tail(active) /\ phase' = "dispatch"
  /\ UNCHANGED <<kind, poller, capacity, events, revents, life, callbacks>>

Dispatched ==
  /\ phase = "dispatch" /\ active = <<>>
  /\ phase' = "funcs"
  /\ UNCHANGED <<kind, poller, capacity, events, revents, life, active, callbacks>>

FuncsDone ==
  /\ phase = "funcs"
  /\ phase' = "poll"
  /\ UNCHANGED <<kind, poller, capacity, events, revents, life, active,
                 callbacks>>

-----------------------------------------------------------------------------
(* The channels, in a callback of a channel or of a timer or in a function *)

InUserCode == phase \in {"timers", "funcs"} \/ (phase = "callback" /\ callbacks # <<>>)

\* The constructor: nobody else uses the fd.
Construct(c) ==
  /\ InUserCode /\ life[c] = "unborn"
  /\ \A d \in Chans : life[d] = "live" => fd[d] # fd[c]
  /\ life' = [life EXCEPT ![c] = "live"]
  /\ UNCHANGED <<kind, poller, events, loopVars>>

\* enableReading(), enableWriting(), disableReading(), disableWriting(),
\* disableAll() and updateEvents(): events_ is set, and then the poller is
\* told by EventLoop::updateChannel(), whether or not anything changed.
Update(c, evs) ==
  /\ InUserCode /\ life[c] = "live"
  /\ events' = [events EXCEPT ![c] = evs]
  /\ poller' = Poller!UpdateChannel(kind, poller, c, evs)
  /\ UNCHANGED <<kind, life, loopVars>>

\* remove() and EventLoop::removeChannel(); the users call disableAll() before.
Known(c) ==
  IF kind = "poll" THEN poller.index[c] >= 0 ELSE poller.index[c] # "kNew"

RemoveChannel(c) ==
  /\ InUserCode /\ life[c] = "live" /\ events[c] = {} /\ Known(c)
  /\ life' = [life EXCEPT ![c] = "removed"]
  /\ poller' = Poller!RemoveChannel(kind, poller, c)
  /\ UNCHANGED <<kind, events, loopVars>>

\* The owner destroys the channel, in a function.
Free(c) ==
  /\ phase = "funcs" /\ life[c] = "removed"
  /\ life' = [life EXCEPT ![c] = "freed"]
  /\ UNCHANGED <<kind, poller, events, loopVars>>

\* The process forks and the child calls resetAfterFork(), which does nothing
\* except with kqueue.
ResetAfterFork ==
  /\ phase = "funcs" /\ kind = "kqueue"
  /\ poller' = Poller!ResetAfterFork(poller, events)
  /\ UNCHANGED <<kind, events, life, loopVars>>

ChannelOp ==
  \E c \in Chans :
    \/ Construct(c) \/ RemoveChannel(c) \/ Free(c)
    \/ \E evs \in SUBSET {"read", "write"} : Update(c, evs)

Next ==
  \/ Poll \/ TimersDone \/ HandleEvent \/ CallbackReturns \/ NextChannel \/ Dispatched
  \/ FuncsDone \/ ChannelOp \/ ResetAfterFork

Spec == Init /\ [][Next]_vars

-----------------------------------------------------------------------------
TypeOK ==
  /\ events \in [Chans -> SUBSET {"read", "write"}]
  /\ revents \in [Chans -> SUBSET {"read", "write", "hup", "error"}]
  /\ life \in [Chans -> {"unborn", "live", "removed", "freed"}]
  /\ active \in Seq(Chans)
  /\ \A c \in Chans : events[c] # {} => life[c] = "live"

\* The kernel watches exactly the events that the channels have enabled, with
\* the right channel for each: whatever the order in which callbacks enabled,
\* disabled, removed and made channels, also when an fd is used again and
\* after a fork.
KernelMatchesEvents ==
  Interest = {<<fd[c], e, c>> : <<c, e>> \in
                {x \in Chans \X {"read", "write"} : x[2] \in events[x[1]]}}

\* index_ finds the pollfd of its channel, also after others were removed: the
\* assertions of PollPoller::updateChannel() and removeChannel().
PollfdsMatch ==
  kind = "poll" => \A c \in Chans :
    life[c] = "live" /\ poller.index[c] >= 0 =>
      /\ poller.index[c] < Len(poller.pollfds)
      /\ poller.pollfds[poller.index[c] + 1].fd
           \in {fd[c], Poller!Ignored(fd[c])}

\* The channels, the tables of the poller and the kernel agree; and no channel
\* that was removed is left in the kernel, where fillActiveChannels() would
\* follow the pointer to it.
PollerAgrees ==
  /\ TypeOK /\ KernelMatchesEvents /\ PollfdsMatch
  /\ \A c \in Registered : life[c] = "live"

\* No callback of a channel is called that was removed before its turn,
\* although the channel is still in the list of active channels.
StepHandlesLive ==
  phase = "dispatch" /\ phase' = "callback" => life[Head(active)] = "live"
HandledIsLive == [][StepHandlesLive]_vars
=============================================================================
