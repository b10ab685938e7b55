----------------------------- MODULE MCLoopParts -----------------------------
(* The parts that an EventLoop is made of: its MpscQueue of functions, its    *)
(* channels with their poller, and the epoll port that the poller uses on     *)
(* Windows with its tree of handles.  A behaviour is one of these; the others *)
(* stay in one initial state.                                                 *)
(*                                                                            *)
(* Two producers and a heap small enough to reuse freed nodes; three channels *)
(* of which two have the same fd, one after the other; two threads that use   *)
(* an epoll port for one socket, which is added twice or whose requests fail; *)
(* and trees of up to eight handles.                                          *)
EXTENDS MpscQueue, TLC

CONSTANTS Alone,    \* a channel with an fd of its own
          Reusing,  \* channels that have one fd, one after the other
          kInitEventListSize,
          Threads, Sockets, Interests, AfdEvents, MaxGroupSize, MaxEvents,  \* of Wepoll
          Keys, Null                                                        \* of RedBlackTree

Chans == Alone \cup Reusing
MCfd == [c \in Chans |-> IF c \in Reusing THEN 0 ELSE 1]

VARIABLES
  part,  \* the part that this behaviour is about
  kind, poller, capacity, events, revents, life, phase, active, callbacks,
  port, afd, queue, closed, tpc, got, reflock,
  tree, keys

Ch == INSTANCE Channel WITH fd <- MCfd

\* A socket that is added twice, and one with events, whose requests may fail
Epoll == INSTANCE Wepoll WITH AfdEvents <- {}, MaxStates <- 2, MaxFailures <- 0
Failing == INSTANCE Wepoll WITH MaxStates <- 1, MaxFailures <- 1

Tree == INSTANCE RedBlackTree

channelVars == <<kind, poller, capacity, events, revents, life, phase, active,
                 callbacks>>
epollVars == <<port, afd, queue, closed, tpc, got, reflock>>
treeVars == <<tree, keys>>

MCInit ==
  /\ part \in {"queue", "channels", "wepoll", "failing", "tree"}
  /\ part # "queue" => head = CHOOSE n \in Nodes : TRUE
  /\ part # "channels" => kind = "epoll"
  /\ Init /\ Ch!Init /\ Tree!TInit
  /\ IF part = "failing" THEN Failing!PInit ELSE Epoll!PInit

MCNext ==
  /\ \/ /\ part = "queue" /\ Next
        /\ UNCHANGED <<channelVars, epollVars, treeVars>>
     \/ /\ part = "channels" /\ Ch!Next
        /\ UNCHANGED <<vars, epollVars, treeVars>>
     \/ /\ \/ part = "wepoll" /\ Epoll!PNext
           \/ part = "failing" /\ Failing!PNext
        /\ UNCHANGED <<vars, channelVars, treeVars>>
     \/ /\ part = "tree" /\ Tree!TNext
        /\ UNCHANGED <<vars, channelVars, epollVars>>
     \* All threads have returned, or wait for packets that may come.
     \/ /\ part \in {"wepoll", "failing"} /\ Epoll!Resting
        /\ UNCHANGED <<vars, channelVars, epollVars, treeVars>>
  /\ UNCHANGED part

MCSpec ==
  MCInit /\ [][MCNext]_<<part, vars, channelVars, epollVars, treeVars>>

Symmetry == Permutations(Threads) \cup Permutations(Reusing)

-----------------------------------------------------------------------------
\* Channels, poller and kernel agree: see Channel.
PollerAgrees == part = "channels" => Ch!PollerAgrees

\* No callback of a channel is called that was removed: see Channel.
HandledIsLive == [][Ch!StepHandlesLive]_channelVars

\* The poll requests, the poll groups and the memory of an epoll port agree
\* with what the threads do to it: see Wepoll.
WepollAgrees ==
  /\ part = "wepoll" =>
       /\ Epoll!OnePacketEach /\ Epoll!WishesAreSubmitted
       /\ Epoll!GroupsAreCounted /\ Epoll!PortOutlivesCalls
  /\ part = "failing" =>
       /\ Failing!OnePacketEach /\ Failing!WishesAreSubmitted
       /\ Failing!GroupsAreCounted /\ Failing!PortOutlivesCalls

\* The tree of handles is a red-black tree: see RedBlackTree.
TreeIsBalanced == part = "tree" => Tree!TreeIsBalanced
=============================================================================
