------------------------------ MODULE FuncQueue ------------------------------
(***************************************************************************)
(* What trantor::MpscQueue promises to its users (EventLoop::funcs_ and    *)
(* EventLoop::funcsOnQuit_).                                               *)
(*                                                                         *)
(* An enqueue takes its place in the queue and becomes visible to the      *)
(* consumer in two separate steps, because the exchange of head_ and the   *)
(* store of next_ are two atomic operations.  The order of the items is    *)
(* that of the first step.  The consumer gets the items in that order and  *)
(* sees an empty queue as long as the first item is not visible, also when *)
(* later items are.                                                        *)
(*                                                                         *)
(* Items are functor objects: an item is in the queue at most once.        *)
(***************************************************************************)
EXTENDS Naturals, Sequences

CONSTANTS Items,    \* the objects that can be queued
          NoItem    \* dequeue() returned false

VARIABLES queue,    \* entries [item, ready], oldest first
          output    \* what the last dequeue() returned

Queued == {queue[i].item : i \in DOMAIN queue}

Empty == queue # <<>> => ~Head(queue).ready

FuncQueueInit == queue = <<>> /\ output = NoItem

Reserve(item) ==
  /\ item \notin Queued
  /\ queue' = Append(queue, [item |-> item, ready |-> FALSE])

Publish(item) ==
  queue' = [i \in DOMAIN queue |->
              IF queue[i].item = item
              THEN [item |-> item, ready |-> TRUE]
              ELSE queue[i]]

Take ==
  /\ ~Empty
  /\ output' = Head(queue).item
  /\ queue' = Tail(queue)

TakeFails ==
  /\ Empty
  /\ output' = NoItem
  /\ UNCHANGED queue

FuncQueueNext ==
  \/ \E item \in Items : Reserve(item) /\ UNCHANGED output
  \/ \E item \in Queued : Publish(item) /\ UNCHANGED output
  \/ Take
  \/ TakeFails

FuncQueueSpec == FuncQueueInit /\ [][FuncQueueNext]_<<queue, output>>
=============================================================================
