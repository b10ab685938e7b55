------------------------------ MODULE MpscQueue ------------------------------
(***************************************************************************)
(* trantor::MpscQueue (utils/LockFreeQueue.h), node by node: any number of *)
(* producers, one consumer, one dummy node at the tail.  Nodes live in a   *)
(* heap that hands freed nodes out again, so that a pointer kept across a  *)
(* delete would be seen to reach somebody else's node.                     *)
(*                                                                         *)
(* One action per atomic operation on shared memory.  The memory orders of *)
(* the code (acq_rel exchange, release store and acquire load of next_)    *)
(* publish a node's data before the node, so that sequentially consistent  *)
(* steps lose no behaviour.                                                *)
(***************************************************************************)
EXTENDS Naturals, Sequences

CONSTANTS Producers,  \* threads that call enqueue()
          Nodes,      \* addresses of BufferNode objects
          Items,      \* values of type T
          NULL        \* nullptr; also a dataPtr_ that points to no object

ASSUME NullAssumption == NULL \notin Nodes /\ NULL \notin Items

VARIABLES
  head,      \* head_
  tail,      \* tail_
  next,      \* next_ of every node
  dataPtr,   \* the object behind dataPtr_ of every node
  heap,      \* the allocated nodes
  pc,        \* where each producer is in enqueue()
  node,      \* each producer's local node
  prevhead,  \* each producer's local prevhead
  cpc,       \* where the consumer is in dequeue() or ~MpscQueue()
  cnext,     \* the consumer's local next
  output,    \* what the last dequeue() returned, NULL for false
  chain      \* history: the nodes from tail on, in the order of the exchanges

queueVars == <<head, tail, next, dataPtr, heap>>
producerVars == <<pc, node, prevhead>>
consumerVars == <<cpc, cnext, output>>
vars == <<queueVars, producerVars, consumerVars, chain>>

-----------------------------------------------------------------------------

\* MpscQueue(): head_ and tail_ point to a fresh node with no data.
Constructed(n) ==
  /\ head = n
  /\ tail = n
  /\ next = [m \in Nodes |-> NULL]
  /\ dataPtr = [m \in Nodes |-> NULL]
  /\ heap = {n}
  /\ chain = <<n>>

Init ==
  /\ \E n \in Nodes : Constructed(n)
  /\ pc = [p \in Producers |-> "idle"]
  /\ node = [p \in Producers |-> NULL]
  /\ prevhead = [p \in Producers |-> NULL]
  /\ cpc = "idle"
  /\ cnext = NULL
  /\ output = NULL

\* The objects queued or about to be queued.
LiveItems == {dataPtr[n] : n \in heap} \ {NULL}

\* enqueue(): new BufferNode(input).
EnqueueNew(p, n, item) ==
  /\ pc[p] = "idle"
  /\ cpc \notin {"destroy", "gone"}
  /\ n \notin heap
  /\ item \notin LiveItems
  /\ heap' = heap \cup {n}
  /\ dataPtr' = [dataPtr EXCEPT ![n] = item]
  /\ next' = [next EXCEPT ![n] = NULL]
  /\ node' = [node EXCEPT ![p] = n]
  /\ pc' = [pc EXCEPT ![p] = "exchange"]
  /\ UNCHANGED <<head, tail, prevhead, consumerVars, chain>>

\* Mutant: head_ is loaded by new and only stored here, so that two producers
\* can get the same prevhead.
MutExchangeNotAtomic(p) ==
  /\ pc[p] = "exchange"
  /\ \E h \in {head} \cup {prevhead[q] : q \in {r \in Producers : pc[r] = "link"}} :
       prevhead' = [prevhead EXCEPT ![p] = h]
  /\ head' = node[p]
  /\ chain' = Append(chain, node[p])
  /\ pc' = [pc EXCEPT ![p] = "link"]
  /\ UNCHANGED <<tail, next, dataPtr, heap, node, consumerVars>>

\* enqueue(): head_.exchange(node).
EnqueueExchange(p) ==
  /\ pc[p] = "exchange"
  /\ prevhead' = [prevhead EXCEPT ![p] = head]
  /\ head' = node[p]
  /\ chain' = Append(chain, node[p])
  /\ pc' = [pc EXCEPT ![p] = "link"]
  /\ UNCHANGED <<tail, next, dataPtr, heap, node, consumerVars>>

\* enqueue(): prevhead->next_.store(node).
EnqueueLink(p) ==
  /\ pc[p] = "link"
  /\ next' = [next EXCEPT ![prevhead[p]] = node[p]]
  /\ pc' = [pc EXCEPT ![p] = "idle"]
  /\ node' = [node EXCEPT ![p] = NULL]
  /\ prevhead' = [prevhead EXCEPT ![p] = NULL]
  /\ UNCHANGED <<head, tail, dataPtr, heap, consumerVars, chain>>

\* dequeue(): the loads of tail_ and of tail->next_, and the return of false.
DequeueLoad ==
  /\ cpc = "idle"
  /\ cnext' = next[tail]
  /\ IF next[tail] = NULL
       THEN cpc' = "idle" /\ output' = NULL
       ELSE cpc' = "take" /\ UNCHANGED output
  /\ UNCHANGED <<queueVars, producerVars, chain>>

\* Mutant: dequeue() deletes the node it moves to instead of the old tail.
MutAdvanceDeletesNext(nxt) ==
  /\ output' = dataPtr[nxt]
  /\ dataPtr' = [dataPtr EXCEPT ![nxt] = NULL]
  /\ tail' = nxt
  /\ heap' = heap \ {nxt}
  /\ chain' = Tail(chain)
  /\ UNCHANGED <<head, next>>

\* What dequeue() does with a next that is not null: it moves the data out,
\* deletes dataPtr_, stores tail_ and deletes the old tail.
Advance(nxt) ==
  /\ output' = dataPtr[nxt]
  /\ dataPtr' = [dataPtr EXCEPT ![nxt] = NULL]
  /\ tail' = nxt
  /\ heap' = heap \ {tail}
  /\ chain' = Tail(chain)
  /\ UNCHANGED <<head, next>>

DequeueTake ==
  /\ cpc = "take"
  /\ Advance(cnext)
  /\ cpc' = "idle"
  /\ cnext' = NULL
  /\ UNCHANGED producerVars

\* ~MpscQueue() may start when no thread is inside a call on the queue.
DestroyBegin ==
  /\ cpc = "idle"
  /\ \A p \in Producers : pc[p] = "idle"
  /\ cpc' = "destroy"
  /\ UNCHANGED <<queueVars, producerVars, cnext, output, chain>>

\* ~MpscQueue(): one successful dequeue of the loop.
DestroyDequeue ==
  /\ cpc = "destroy"
  /\ next[tail] # NULL
  /\ Advance(next[tail])
  /\ UNCHANGED <<producerVars, cpc, cnext>>

\* ~MpscQueue(): the failing dequeue, then delete of what head_ points to.
DestroyHead ==
  /\ cpc = "destroy"
  /\ next[tail] = NULL
  /\ heap' = heap \ {head}
  /\ chain' = <<>>
  /\ cpc' = "gone"
  /\ output' = NULL
  /\ UNCHANGED <<head, tail, next, dataPtr, producerVars, cnext>>

\* A new queue is constructed in the place of the old one.
Construct(n) ==
  /\ cpc = "gone"
  /\ n \notin heap
  /\ head' = n
  /\ tail' = n
  /\ next' = [next EXCEPT ![n] = NULL]
  /\ dataPtr' = [dataPtr EXCEPT ![n] = NULL]
  /\ heap' = heap \cup {n}
  /\ chain' = <<n>>
  /\ cpc' = "idle"
  /\ UNCHANGED <<producerVars, cnext, output>>

Enqueue(p) ==
  \/ \E n \in Nodes, item \in Items : EnqueueNew(p, n, item)
  \/ EnqueueExchange(p)
  \/ EnqueueLink(p)

Consume ==
  \/ DequeueLoad
  \/ DequeueTake
  \/ DestroyBegin
  \/ DestroyDequeue
  \/ DestroyHead
  \/ \E n \in Nodes : Construct(n)

Next == Consume \/ \E p \in Producers : Enqueue(p)

Spec == Init /\ [][Next]_vars

-----------------------------------------------------------------------------

NodeOrNull == Nodes \cup {NULL}

TypeOK ==
  /\ head \in Nodes
  /\ tail \in Nodes
  /\ next \in [Nodes -> NodeOrNull]
  /\ dataPtr \in [Nodes -> Items \cup {NULL}]
  /\ heap \subseteq Nodes
  /\ pc \in [Producers -> {"idle", "exchange", "link"}]
  /\ node \in [Producers -> NodeOrNull]
  /\ prevhead \in [Producers -> NodeOrNull]
  /\ cpc \in {"idle", "take", "destroy", "gone"}
  /\ cnext \in NodeOrNull
  /\ output \in Items \cup {NULL}
  /\ chain \in Seq(Nodes)

\* No step of enqueue(), dequeue() or ~MpscQueue() dereferences a node that
\* was deleted: in particular the consumer never deletes the node whose next_
\* a producer between its exchange and its store is about to write.
NoUseAfterFree ==
  /\ cpc # "gone" => head \in heap /\ tail \in heap
  /\ \A p \in Producers :
       /\ pc[p] # "idle" => node[p] \in heap
       /\ pc[p] = "link" => prevhead[p] \in heap
  /\ cpc = "take" => cnext \in heap

\* dequeue() only moves out of a dataPtr_ that points to a live object: never
\* out of the dummy node's uninitialized one, never out of a deleted one.
DataIsLive ==
  /\ cpc = "take" => dataPtr[cnext] # NULL
  /\ cpc = "destroy" /\ next[tail] # NULL => dataPtr[next[tail]] # NULL

\* ~MpscQueue() frees every node and every object that was ever queued.
NothingLeaks ==
  cpc = "gone" => heap = {} /\ \A n \in Nodes : dataPtr[n] = NULL

\* The queue implements FuncQueue: items come out in the order of the
\* exchanges, each exactly once, and false is returned only while the first
\* item is not linked.
VisibleQueue ==
  [i \in 1 .. (IF chain = <<>> THEN 0 ELSE Len(chain) - 1) |->
     [item |-> dataPtr[chain[i + 1]],
      ready |-> next[chain[i]] = chain[i + 1]]]

Abstract == INSTANCE FuncQueue WITH queue <- VisibleQueue, NoItem <- NULL

ImplementsFuncQueue == Abstract!FuncQueueSpec
=============================================================================
