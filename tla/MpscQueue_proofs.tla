--------------------------- MODULE MpscQueue_proofs ---------------------------
(***************************************************************************)
(* Proofs about MpscQueue for any number of producers, nodes and items.    *)
(*                                                                         *)
(* The inductive invariant says what the linked list looks like at every   *)
(* moment: the nodes from tail_ to head_, in the order of the exchanges,   *)
(* are allocated and different; each is linked to its successor, unless    *)
(* the producer that appended the successor has not reached its store yet; *)
(* and there is exactly one such producer for each missing link.           *)
(***************************************************************************)
EXTENDS MpscQueue, SequenceTheorems, TLAPS

InChain(n) == \E i \in 1 .. Len(chain) : chain[i] = n

Linked(i) == next[chain[i]] = chain[i + 1]

\* The store of the link behind chain[i] is still to be done by p.
LinkOwnedBy(p, i) ==
  /\ pc[p] = "link"
  /\ prevhead[p] = chain[i]
  /\ node[p] = chain[i + 1]
  /\ next[chain[i]] = NULL

ChainEnds ==
  /\ cpc = "gone" => chain = <<>>
  /\ cpc # "gone" => /\ Len(chain) > 0
                     /\ tail = chain[1]
                     /\ head = chain[Len(chain)]
                     /\ next[chain[Len(chain)]] = NULL

ChainNodes ==
  /\ \A i \in 1 .. Len(chain) : chain[i] \in heap
  /\ \A i, j \in 1 .. Len(chain) : chain[i] = chain[j] => i = j

ChainLinks ==
  \A i \in 1 .. Len(chain) - 1 :
    Linked(i) \/ \E p \in Producers : LinkOwnedBy(p, i)

ProducerInv ==
  /\ \A p \in Producers :
       /\ pc[p] = "exchange" => /\ node[p] \in heap
                                /\ ~InChain(node[p])
                                /\ next[node[p]] = NULL
       /\ pc[p] = "link" => \E i \in 1 .. Len(chain) - 1 : LinkOwnedBy(p, i)
  /\ \A p, q \in Producers :
       pc[p] # "idle" /\ pc[q] # "idle" /\ node[p] = node[q] => p = q

ConsumerInv ==
  /\ cpc = "take" => /\ Len(chain) > 1
                     /\ cnext = chain[2]
                     /\ Linked(1)
  /\ cpc \in {"destroy", "gone"} => \A p \in Producers : pc[p] = "idle"

\* Where the objects are: none outside the allocated nodes or in the dummy
\* node, one in every other node, never the same one twice.
DataInv ==
  /\ \A n \in Nodes : n \notin heap => dataPtr[n] = NULL
  /\ Len(chain) > 0 => dataPtr[chain[1]] = NULL
  /\ \A i \in 2 .. Len(chain) : dataPtr[chain[i]] # NULL
  /\ \A p \in Producers : pc[p] = "exchange" => dataPtr[node[p]] # NULL
  /\ \A m, n \in heap : dataPtr[m] = dataPtr[n] /\ dataPtr[m] # NULL => m = n

\* No node is lost: each is in the chain or about to be appended.
HeapInv ==
  \A n \in heap :
    InChain(n) \/ \E p \in Producers : pc[p] = "exchange" /\ node[p] = n

Inv ==
  /\ TypeOK
  /\ ChainEnds
  /\ ChainNodes
  /\ ChainLinks
  /\ ProducerInv
  /\ ConsumerInv
  /\ DataInv
  /\ HeapInv

-----------------------------------------------------------------------------
(* The shape of the chain after it grows at the head or shrinks at the     *)
(* tail.                                                                   *)

\* Append() adds one last element.
LEMMA AppendLemma ==
  ASSUME NEW S, NEW s \in Seq(S), NEW e \in S
  PROVE  /\ Append(s, e) \in Seq(S)
         /\ Len(Append(s, e)) = Len(s) + 1
         /\ \A i \in 1 .. Len(s) : Append(s, e)[i] = s[i]
         /\ Append(s, e)[Len(s) + 1] = e
OBVIOUS

\* Tail() moves every element but the first one place down.
LEMMA TailLemma ==
  ASSUME NEW S, NEW s \in Seq(S), Len(s) > 0
  PROVE  /\ Tail(s) \in Seq(S)
         /\ Len(Tail(s)) = Len(s) - 1
         /\ \A i \in 1 .. Len(s) - 1 : Tail(s)[i] = s[i + 1]
OBVIOUS

-----------------------------------------------------------------------------

\* The constructor's queue has one dummy node and satisfies the invariant.
LEMMA InitInv == Init => Inv
<1> SUFFICES ASSUME Init PROVE Inv
  BY Zenon
<1>1. PICK n \in Nodes : Constructed(n)
  BY Zenon DEF Init
<1>2. chain = <<n>> /\ Len(chain) = 1 /\ chain[1] = n
  BY Zenon, <1>1 DEF Constructed
<1>3. TypeOK
  BY <1>1, <1>2, NullAssumption DEF Init, Constructed, TypeOK, NodeOrNull
<1>4. ChainEnds /\ ChainNodes /\ ChainLinks
  BY <1>1, <1>2 DEF Init, Constructed, ChainEnds, ChainNodes, ChainLinks
<1>5. ProducerInv /\ ConsumerInv
  BY Zenon, <1>1, <1>2 DEF Init, ProducerInv, ConsumerInv
<1>6. DataInv /\ HeapInv
  BY <1>1, <1>2 DEF Init, Constructed, DataInv, HeapInv, InChain
<1> QED
  BY Zenon, <1>3, <1>4, <1>5, <1>6 DEF Inv
\* new BufferNode takes a free node: no chain node and no other producer's.
LEMMA EnqueueNewInv ==
  ASSUME Inv, NEW p \in Producers, NEW n \in Nodes, NEW item \in Items,
         EnqueueNew(p, n, item)
  PROVE  Inv'
<1> USE NullAssumption
<1>1. TypeOK'
  BY Zenon DEF Inv, TypeOK, NodeOrNull, EnqueueNew, consumerVars
<1>2. ~InChain(n) /\ \A i \in 1 .. Len(chain) : chain[i] # n
  BY Zenon DEF Inv, ChainNodes, InChain, EnqueueNew
<1>3. (ChainEnds /\ ChainNodes /\ ConsumerInv)'
  BY <1>2 DEF Inv, TypeOK, ChainEnds, ChainNodes, ConsumerInv, Linked,
              EnqueueNew, consumerVars
<1>4. \A q \in Producers, i \in 1 .. Len(chain) - 1 :
        LinkOwnedBy(q, i) => LinkOwnedBy(q, i)'
  BY <1>2 DEF Inv, TypeOK, LinkOwnedBy, EnqueueNew
<1>5. ChainLinks'
  BY <1>2, <1>4 DEF Inv, TypeOK, ChainLinks, Linked, EnqueueNew
<1>6. ProducerInv'
  BY SMTT(30), <1>2, <1>4 DEF Inv, TypeOK, ChainNodes, ProducerInv, InChain, LinkOwnedBy, EnqueueNew
<1>7. DataInv'
  <2>1. /\ dataPtr'[n] = item /\ item # NULL /\ heap' = heap \cup {n}
        /\ \A m \in Nodes : m # n => dataPtr'[m] = dataPtr[m]
        /\ heap \subseteq Nodes /\ n \notin heap
        /\ \A m \in heap : dataPtr[m] # item
    BY Zenon DEF Inv, TypeOK, EnqueueNew, LiveItems
  <2>2. \A i \in 1 .. Len(chain) : chain'[i] \in Nodes /\ chain'[i] # n
    BY Zenon, <1>2, <2>1 DEF Inv, ChainNodes, EnqueueNew
  <2>3. /\ \A m \in Nodes : m \notin heap' => dataPtr'[m] = NULL
        /\ \A m, l \in heap' : dataPtr'[m] = dataPtr'[l] /\ dataPtr'[m] # NULL => m = l
    BY <2>1 DEF Inv, DataInv
  <2>4. /\ Len(chain') > 0 => dataPtr'[chain'[1]] = NULL
        /\ \A i \in 2 .. Len(chain') : dataPtr'[chain'[i]] # NULL
    <3>1. Len(chain) \in Nat /\ chain' = chain
      BY DEF Inv, TypeOK, EnqueueNew
    <3> QED
      BY <2>1, <2>2, <3>1 DEF Inv, DataInv
  <2>5. ASSUME NEW q \in Producers, pc'[q] = "exchange"
        PROVE  dataPtr'[node'[q]] # NULL
    <3>1. CASE q = p
      BY ZenonT(30), <2>1, <3>1 DEF Inv, TypeOK, EnqueueNew
    <3>2. CASE q # p
      <4>1. pc[q] = "exchange" /\ node'[q] = node[q]
        BY Zenon, <2>5, <3>2 DEF Inv, TypeOK, EnqueueNew
      <4> QED
        BY ZenonT(30), <2>1, <4>1 DEF Inv, ProducerInv, DataInv
    <3> QED
      BY Zenon, <3>1, <3>2
  <2> QED
    BY Zenon, <2>3, <2>4, <2>5 DEF DataInv
<1>8. HeapInv'
  BY Zenon DEF Inv, TypeOK, HeapInv, InChain, EnqueueNew
<1> QED
  BY Zenon, <1>1, <1>3, <1>5, <1>6, <1>7, <1>8 DEF Inv

\* The exchange appends the producer's node to the chain and makes the
\* producer the owner of the link to it.
LEMMA EnqueueExchangeInv ==
  ASSUME Inv, NEW p \in Producers, EnqueueExchange(p)
  PROVE  Inv'
<1> USE NullAssumption
<1>0. PICK L \in Nat : L = Len(chain)
  BY DEF Inv, TypeOK
<1>1. /\ cpc \notin {"destroy", "gone"}
      /\ L > 0 /\ head = chain[L] /\ next[head] = NULL
      /\ node[p] \in heap /\ ~InChain(node[p]) /\ next[node[p]] = NULL
  BY Zenon, <1>0 DEF Inv, ConsumerInv, ChainEnds, ProducerInv, EnqueueExchange
<1>2. /\ chain' \in Seq(Nodes)
      /\ Len(chain') = L + 1
      /\ \A i \in 1 .. L : chain'[i] = chain[i]
      /\ chain'[L + 1] = node[p]
  BY <1>0, <1>1, AppendLemma DEF Inv, TypeOK, EnqueueExchange
<1>3. TypeOK'
  BY Zenon, <1>1, <1>2 DEF Inv, TypeOK, NodeOrNull, EnqueueExchange, consumerVars
<1>4. LinkOwnedBy(p, L)'
  BY <1>0, <1>1, <1>2 DEF Inv, TypeOK, LinkOwnedBy, EnqueueExchange
<1>5. \A q \in Producers, i \in 1 .. L - 1 :
        LinkOwnedBy(q, i) => q # p /\ LinkOwnedBy(q, i)'
  BY <1>0, <1>2 DEF Inv, TypeOK, LinkOwnedBy, EnqueueExchange
<1>6. (ChainEnds /\ ChainNodes)'
  BY <1>0, <1>1, <1>2
     DEF Inv, TypeOK, ChainEnds, ChainNodes, InChain, EnqueueExchange, consumerVars
<1>7. ChainLinks'
  <2> SUFFICES ASSUME NEW i \in 1 .. L
               PROVE  Linked(i)' \/ \E q \in Producers : LinkOwnedBy(q, i)'
    BY <1>0, <1>2 DEF ChainLinks
  <2>1. CASE i = L
    BY Zenon, <2>1, <1>4
  <2>2. CASE i # L
    <3>1. i \in 1 .. L - 1
      BY <2>2, <1>0
    <3>2. Linked(i) => Linked(i)'
      BY <3>1, <1>0, <1>2 DEF Linked, EnqueueExchange
    <3> QED
      BY Zenon, <3>1, <3>2, <1>0, <1>5 DEF Inv, ChainLinks
  <2> QED
    BY Zenon, <2>1, <2>2
<1>8. ProducerInv'
  <2>1. ASSUME NEW q \in Producers, pc'[q] = "exchange"
        PROVE  (node[q] \in heap /\ ~InChain(node[q]) /\ next[node[q]] = NULL)'
    <3>1. q # p /\ pc[q] = "exchange"
      BY Zenon, <2>1 DEF Inv, TypeOK, EnqueueExchange
    <3>2. node[q] # node[p]
      BY Zenon, <3>1 DEF Inv, ProducerInv, EnqueueExchange
    <3> QED
      BY <3>1, <3>2, <1>0, <1>2 DEF Inv, ProducerInv, InChain, EnqueueExchange
  <2>2. ASSUME NEW q \in Producers, pc'[q] = "link"
        PROVE  \E i \in 1 .. L : LinkOwnedBy(q, i)'
    <3>1. CASE q = p
      BY <3>1, <1>4, <1>0, <1>1
    <3>2. CASE q # p
      <4>1. pc[q] = "link"
        BY Zenon, <2>2, <3>2 DEF Inv, TypeOK, EnqueueExchange
      <4>2. PICK i \in 1 .. L - 1 : LinkOwnedBy(q, i)
        BY Zenon, <4>1, <1>0 DEF Inv, ProducerInv
      <4> QED
        BY <4>2, <1>5, <1>0
    <3> QED
      BY Zenon, <3>1, <3>2
  <2>3. \A q, r \in Producers :
          pc'[q] # "idle" /\ pc'[r] # "idle" /\ node'[q] = node'[r] => q = r
    BY Zenon DEF Inv, TypeOK, ProducerInv, EnqueueExchange
  <2> QED
    BY <2>1, <2>2, <2>3, <1>2, <1>0 DEF ProducerInv
<1>9. ConsumerInv'
  BY <1>0, <1>1, <1>2 DEF Inv, ConsumerInv, Linked, EnqueueExchange, consumerVars
<1>10. DataInv'
  <2>1. /\ UNCHANGED <<dataPtr, heap, node>> /\ dataPtr[node[p]] # NULL
        /\ \A q \in Producers : pc'[q] = "exchange" => pc[q] = "exchange"
    BY Zenon DEF Inv, TypeOK, DataInv, EnqueueExchange
  <2>2. \A i \in 2 .. L + 1 : dataPtr[chain'[i]] # NULL
    BY <2>1, <1>0, <1>1, <1>2 DEF Inv, DataInv
  <2>3. dataPtr[chain'[1]] = NULL
    BY <1>0, <1>1, <1>2 DEF Inv, DataInv
  <2> QED
    BY ZenonT(30), <2>1, <2>2, <2>3, <1>2 DEF Inv, DataInv
<1>11. HeapInv'
  <2> SUFFICES ASSUME NEW n \in heap
               PROVE  InChain(n)' \/ \E q \in Producers : pc'[q] = "exchange" /\ node'[q] = n
    BY Zenon DEF HeapInv, EnqueueExchange
  <2>1. CASE InChain(n)
    BY <2>1, <1>0, <1>2 DEF InChain
  <2>2. CASE n = node[p]
    BY <2>2, <1>0, <1>2 DEF InChain
  <2>3. CASE ~InChain(n) /\ n # node[p]
    BY Zenon, <2>3 DEF Inv, TypeOK, HeapInv, EnqueueExchange
  <2> QED
    BY Zenon, <2>1, <2>2, <2>3
<1> QED
  BY Zenon, <1>3, <1>6, <1>7, <1>8, <1>9, <1>10, <1>11 DEF Inv
\* The store of next_ closes the only gap that this producer owns.
LEMMA EnqueueLinkInv ==
  ASSUME Inv, NEW p \in Producers, EnqueueLink(p)
  PROVE  Inv'
<1> USE NullAssumption
<1>0. PICK L \in Nat : L = Len(chain)
  BY DEF Inv, TypeOK
<1>1. PICK k \in 1 .. L - 1 : LinkOwnedBy(p, k)
  BY Zenon, <1>0 DEF Inv, ProducerInv, EnqueueLink
<1>2. next' = [next EXCEPT ![chain[k]] = chain[k + 1]]
  BY Zenon, <1>1 DEF LinkOwnedBy, EnqueueLink
<1>3. /\ \A i \in 1 .. L : chain[i] \in Nodes /\ chain[i] \in heap
      /\ \A i, j \in 1 .. L : chain[i] = chain[j] => i = j
  BY Zenon, <1>0 DEF Inv, TypeOK, ChainNodes
<1>4. next'[chain[k]] = chain[k + 1] /\ \A i \in 1 .. L : i # k => next'[chain[i]] = next[chain[i]]
  BY <1>0, <1>2, <1>3 DEF Inv, TypeOK
<1>5. TypeOK'
  BY ZenonT(30), <1>0, <1>2, <1>3 DEF Inv, TypeOK, NodeOrNull, EnqueueLink, consumerVars
<1>6. \A q \in Producers, i \in 1 .. L - 1 :
        q # p /\ LinkOwnedBy(q, i) => i # k /\ LinkOwnedBy(q, i)'
  BY SMTT(30), <1>0, <1>1, <1>3, <1>4
     DEF Inv, TypeOK, ProducerInv, LinkOwnedBy, EnqueueLink
<1>7. ChainEnds' /\ ChainNodes'
  BY <1>0, <1>1, <1>3, <1>4
     DEF Inv, ChainEnds, ChainNodes, EnqueueLink, consumerVars
<1>8. ChainLinks'
  <2> SUFFICES ASSUME NEW i \in 1 .. L - 1
               PROVE  Linked(i)' \/ \E q \in Producers : LinkOwnedBy(q, i)'
    BY Zenon, <1>0 DEF ChainLinks, EnqueueLink
  <2>1. CASE i = k
    BY Zenon, <2>1, <1>4 DEF Linked, EnqueueLink
  <2>2. CASE i # k
    <3>1. Linked(i) => Linked(i)'
      BY <2>2, <1>0, <1>4 DEF Linked, EnqueueLink
    <3>2. \A q \in Producers : LinkOwnedBy(q, i) => q # p
      BY <2>2, <1>0, <1>1, <1>3 DEF LinkOwnedBy
    <3> QED
      BY Zenon, <3>1, <3>2, <1>0, <1>6 DEF Inv, ChainLinks
  <2> QED
    BY Zenon, <2>1, <2>2
<1>9. ProducerInv'
  <2>1. ASSUME NEW q \in Producers, pc'[q] # "idle"
        PROVE  q # p /\ pc[q] = pc'[q] /\ node'[q] = node[q]
    BY Zenon, <2>1 DEF Inv, TypeOK, EnqueueLink
  <2>2. ASSUME NEW q \in Producers, pc'[q] = "exchange"
        PROVE  (node[q] \in heap /\ ~InChain(node[q]) /\ next[node[q]] = NULL)'
    <3>1. /\ q # p /\ pc[q] = "exchange" /\ node'[q] = node[q]
          /\ node[q] \in heap /\ ~InChain(node[q]) /\ next[node[q]] = NULL
      BY Zenon, <2>1, <2>2 DEF Inv, ProducerInv
    <3>2. node[q] # chain[k]
      BY <3>1, <1>0 DEF InChain
    <3> QED
      BY <3>1, <3>2, <1>2 DEF Inv, TypeOK, InChain, EnqueueLink
  <2>3. ASSUME NEW q \in Producers, pc'[q] = "link"
        PROVE  \E i \in 1 .. L - 1 : LinkOwnedBy(q, i)'
    BY Zenon, <2>1, <2>3, <1>0, <1>6 DEF Inv, ProducerInv
  <2>4. \A q, r \in Producers :
          pc'[q] # "idle" /\ pc'[r] # "idle" /\ node'[q] = node'[r] => q = r
    BY ZenonT(30), <2>1 DEF Inv, ProducerInv
  <2> QED
    BY Zenon, <2>2, <2>3, <2>4, <1>0 DEF ProducerInv, EnqueueLink
<1>10. ConsumerInv'
  <2>1. cpc = "take" => k # 1
    BY <1>0, <1>1, <1>3 DEF Inv, TypeOK, ConsumerInv, Linked, LinkOwnedBy
  <2> QED
    BY <2>1, <1>0, <1>4
       DEF Inv, TypeOK, ConsumerInv, Linked, EnqueueLink, consumerVars
<1>11. DataInv' /\ HeapInv'
  BY ZenonT(30) DEF Inv, TypeOK, DataInv, HeapInv, InChain, EnqueueLink
<1> QED
  BY Zenon, <1>5, <1>7, <1>8, <1>9, <1>10, <1>11 DEF Inv
\* A linked first node can be taken: no producer still has to write the next_
\* of the node that dequeue() deletes.
LEMMA AdvanceInv ==
  ASSUME Inv, Len(chain) > 1, Linked(1), Advance(chain[2]),
         UNCHANGED producerVars, cpc \in {"take", "destroy"},
         cpc' \in {"idle", cpc} \ {"take"}, cnext' \in NodeOrNull
  PROVE  Inv'
<1> USE NullAssumption
<1>0. PICK L \in Nat : L = Len(chain) /\ L > 1
  BY DEF Inv, TypeOK
<1>1. /\ \A i \in 1 .. L : chain[i] \in Nodes /\ chain[i] \in heap
      /\ \A i, j \in 1 .. L : chain[i] = chain[j] => i = j
      /\ tail = chain[1] /\ head = chain[L] /\ next[chain[L]] = NULL
      /\ next[chain[1]] = chain[2]
  BY <1>0 DEF Inv, TypeOK, ChainNodes, ChainEnds, Linked
<1>2. /\ chain' \in Seq(Nodes)
      /\ Len(chain') = L - 1
      /\ \A i \in 1 .. L - 1 : chain'[i] = chain[i + 1]
  BY <1>0, TailLemma DEF Inv, TypeOK, Advance
<1>3. dataPtr'[chain[2]] = NULL /\ \A n \in Nodes : n # chain[2] => dataPtr'[n] = dataPtr[n]
  BY <1>0, <1>1 DEF Inv, TypeOK, Advance
<1>4. TypeOK'
  BY <1>0, <1>1, <1>2 DEF Inv, TypeOK, NodeOrNull, Advance, producerVars
<1>5. (ChainEnds /\ ChainNodes)'
  BY <1>0, <1>1, <1>2 DEF ChainEnds, ChainNodes, Advance
<1>6. \A q \in Producers, i \in 1 .. L - 1 :
        LinkOwnedBy(q, i) => i > 1 /\ LinkOwnedBy(q, i - 1)'
  BY <1>0, <1>1, <1>2 DEF LinkOwnedBy, Advance, producerVars
<1>7. ChainLinks'
  <2> SUFFICES ASSUME NEW i \in 1 .. L - 2
               PROVE  Linked(i)' \/ \E q \in Producers : LinkOwnedBy(q, i)'
    BY <1>0, <1>2 DEF ChainLinks
  <2>1. i + 1 \in 1 .. L - 1 /\ (i + 1) - 1 = i
    BY <1>0
  <2>2. Linked(i + 1) => Linked(i)'
    BY <1>0, <1>2 DEF Linked, Advance
  <2>3. \A q \in Producers : LinkOwnedBy(q, i + 1) => LinkOwnedBy(q, i)'
    BY Zenon, <2>1, <1>6
  <2> QED
    BY Zenon, <2>1, <2>2, <2>3, <1>0 DEF Inv, ChainLinks
<1>8. ProducerInv'
  <2>1. ASSUME NEW q \in Producers, pc'[q] = "exchange"
        PROVE  (node[q] \in heap /\ ~InChain(node[q]) /\ next[node[q]] = NULL)'
    <3>1. node[q] \in heap /\ ~InChain(node[q]) /\ next[node[q]] = NULL
      BY Zenon, <2>1 DEF Inv, ProducerInv, producerVars
    <3>2. node[q] # tail
      BY <3>1, <1>0, <1>1 DEF InChain
    <3>3. \A i \in 1 .. L - 1 : chain'[i] # node[q]
      BY <3>1, <1>0, <1>2 DEF InChain
    <3> QED
      BY Zenon, <3>1, <3>2, <3>3, <1>2 DEF InChain, Advance, producerVars
  <2>2. ASSUME NEW q \in Producers, pc'[q] = "link"
        PROVE  \E i \in 1 .. L - 2 : LinkOwnedBy(q, i)'
    <3>1. PICK i \in 1 .. L - 1 : LinkOwnedBy(q, i)
      BY Zenon, <2>2, <1>0 DEF Inv, ProducerInv, producerVars
    <3>2. i - 1 \in 1 .. L - 2 /\ LinkOwnedBy(q, i - 1)'
      BY <3>1, <1>0, <1>6
    <3> QED
      BY Zenon, <3>2
  <2> QED
    BY <2>1, <2>2, <1>0, <1>2 DEF Inv, ProducerInv, producerVars
<1>9. ConsumerInv'
  BY Zenon DEF Inv, TypeOK, ConsumerInv, producerVars
<1>10. DataInv'
  <2>1. \A q \in Producers : pc[q] = "exchange" => node[q] \in Nodes /\ node[q] # chain[2]
    BY <1>0, <1>1 DEF Inv, TypeOK, ProducerInv, InChain
  <2>2. \A n \in Nodes : n \notin heap' => dataPtr'[n] = NULL
    BY <1>0, <1>1, <1>3 DEF Inv, DataInv, Advance
  <2>3. ASSUME NEW i \in 2 .. L - 1
        PROVE  dataPtr'[chain'[i]] # NULL
    <3>1. PICK j \in 2 .. L : j = i + 1 /\ j # 2 /\ j \in 1 .. L /\ i \in 1 .. L - 1
      BY <1>0
    <3>2. 2 \in 1 .. L
      BY <1>0
    <3>3. chain'[i] = chain[j]
      BY Zenon, <3>1, <1>2
    <3>4. chain[j] \in Nodes /\ chain[j] # chain[2]
      BY Zenon, <3>1, <3>2, <1>1
    <3>5. dataPtr[chain[j]] # NULL
      BY Zenon, <3>1, <1>0 DEF Inv, DataInv
    <3> QED
      BY Zenon, <3>3, <3>4, <3>5, <1>3
  <2>4. \A m, n \in heap' :
          dataPtr'[m] = dataPtr'[n] /\ dataPtr'[m] # NULL => m = n
    BY <1>3 DEF Inv, TypeOK, DataInv, Advance
  <2>5. \A q \in Producers : pc'[q] = "exchange" => dataPtr'[node'[q]] # NULL
    BY <2>1, <1>3 DEF Inv, DataInv, producerVars
  <2>6. dataPtr'[chain'[1]] = NULL
    BY <1>0, <1>2, <1>3
  <2> QED
    BY Zenon, <2>2, <2>3, <2>4, <2>5, <2>6, <1>0, <1>2 DEF DataInv
<1>11. HeapInv'
  <2> SUFFICES ASSUME NEW n \in heap, n # tail, InChain(n)
               PROVE  InChain(n)'
    BY Zenon DEF Inv, HeapInv, Advance, producerVars
  <2>1. PICK i \in 1 .. L : chain[i] = n
    BY Zenon, <1>0 DEF InChain
  <2>2. i - 1 \in 1 .. L - 1 /\ chain'[i - 1] = n
    BY <2>1, <1>0, <1>1, <1>2
  <2> QED
    BY Zenon, <2>2, <1>2 DEF InChain
<1> QED
  BY Zenon, <1>4, <1>5, <1>7, <1>8, <1>9, <1>10, <1>11 DEF Inv

\* If next_ of the dummy node is set, it points to the second node.
LEMMA FirstLink ==
  ASSUME Inv, cpc # "gone", next[tail] # NULL
  PROVE  Len(chain) > 1 /\ Linked(1) /\ next[tail] = chain[2]
<1>1. PICK L \in Nat : L = Len(chain) /\ L > 0 /\ tail = chain[1]
  BY DEF Inv, TypeOK, ChainEnds
<1>2. L # 1
  BY Zenon, <1>1 DEF Inv, ChainEnds
<1>3. Linked(1)
  BY <1>1, <1>2 DEF Inv, ChainLinks, LinkOwnedBy
<1> QED
  BY <1>1, <1>2, <1>3 DEF Linked

\* Every step of the consumer keeps the invariant.
LEMMA ConsumeInv ==
  ASSUME Inv, Consume
  PROVE  Inv'
<1> USE NullAssumption
<1>1. CASE DequeueLoad
  <2>1. TypeOK'
    BY Zenon, <1>1 DEF Inv, TypeOK, NodeOrNull, DequeueLoad, queueVars, producerVars
  <2>2. (ChainEnds /\ ChainNodes /\ ChainLinks /\ ProducerInv /\ DataInv /\ HeapInv)'
    BY <1>1 DEF Inv, ChainEnds, ChainNodes, ChainLinks, ProducerInv, DataInv,
                HeapInv, InChain, Linked, LinkOwnedBy, DequeueLoad, queueVars,
                producerVars
  <2>3. ConsumerInv'
    BY Zenon, <1>1, FirstLink DEF Inv, ConsumerInv, Linked, DequeueLoad, queueVars, producerVars
  <2> QED
    BY Zenon, <2>1, <2>2, <2>3 DEF Inv
<1>2. CASE DequeueTake
  BY Zenon, <1>2, AdvanceInv DEF Inv, TypeOK, NodeOrNull, ConsumerInv, DequeueTake
<1>3. CASE DestroyBegin
  BY <1>3 DEF Inv, TypeOK, ChainEnds, ChainNodes, ChainLinks, ProducerInv,
              ConsumerInv, DataInv, HeapInv, InChain, Linked, LinkOwnedBy,
              DestroyBegin, queueVars, producerVars
<1>4. CASE DestroyDequeue
  BY Zenon, <1>4, FirstLink, AdvanceInv DEF Inv, TypeOK, DestroyDequeue
<1>5. CASE DestroyHead
  <2>1. PICK L \in Nat : L = Len(chain) /\ L > 0 /\ tail = chain[1] /\ head = chain[L]
    BY <1>5 DEF Inv, TypeOK, ChainEnds, DestroyHead
  <2>2. \A p \in Producers : pc[p] = "idle"
    BY Zenon, <1>5 DEF Inv, ConsumerInv, DestroyHead
  <2>3. L = 1
    <3>1. L > 1 => chain[2] \in Nodes
      BY <2>1 DEF Inv, TypeOK
    <3>2. L > 1 => next[chain[1]] = chain[2]
      BY <2>1, <2>2 DEF Inv, ChainLinks, Linked, LinkOwnedBy
    <3> QED
      BY <3>1, <3>2, <2>1, <1>5 DEF DestroyHead
  <2>4. heap = {head}
    BY <2>1, <2>2, <2>3 DEF Inv, HeapInv, ChainNodes, InChain
  <2>5. heap' = {} /\ chain' = <<>> /\ Len(chain') = 0
    BY Zenon, <2>4, <1>5 DEF DestroyHead
  <2>6. \A n \in Nodes : dataPtr[n] = NULL
    BY Zenon, <2>1, <2>3, <2>4 DEF Inv, DataInv
  <2>7. TypeOK'
    BY <2>5, <1>5 DEF Inv, TypeOK, DestroyHead, producerVars
  <2>8. (ChainEnds /\ ChainNodes /\ ChainLinks /\ ConsumerInv /\ HeapInv)'
    BY <2>2, <2>5, <1>5
       DEF ChainEnds, ChainNodes, ChainLinks, ConsumerInv, HeapInv, DestroyHead, producerVars
  <2>9. (ProducerInv /\ DataInv)'
    BY <2>2, <2>5, <2>6, <1>5 DEF ProducerInv, DataInv, DestroyHead, producerVars
  <2> QED
    BY Zenon, <2>7, <2>8, <2>9 DEF Inv
<1>6. ASSUME NEW n \in Nodes, Construct(n)
      PROVE  Inv'
  <2>1. chain = <<>> /\ Len(chain) = 0 /\ \A p \in Producers : pc[p] = "idle"
    BY Zenon, <1>6 DEF Inv, ChainEnds, ConsumerInv, Construct
  <2>2. heap = {}
    BY <2>1 DEF Inv, HeapInv, InChain
  <2>3. heap' = {n} /\ chain' = <<n>> /\ Len(chain') = 1 /\ chain'[1] = n
    BY Zenon, <2>2, <1>6 DEF Construct
  <2>4. TypeOK'
    BY <2>3, <1>6 DEF Inv, TypeOK, NodeOrNull, Construct, producerVars
  <2>5. (ChainEnds /\ ChainNodes /\ ChainLinks /\ ConsumerInv)'
    BY <2>3, <1>6
       DEF Inv, TypeOK, ChainEnds, ChainNodes, ChainLinks, ConsumerInv, Construct
  <2>6. (ProducerInv /\ DataInv /\ HeapInv)'
    BY <2>1, <2>2, <2>3, <1>6
       DEF Inv, TypeOK, ProducerInv, DataInv, HeapInv, InChain, Construct, producerVars
  <2> QED
    BY Zenon, <2>4, <2>5, <2>6 DEF Inv
<1> QED
  BY Zenon, <1>1, <1>2, <1>3, <1>4, <1>5, <1>6 DEF Consume

\* Inv is an inductive invariant.
LEMMA StepInv == Inv /\ [Next]_vars => Inv'
<1> SUFFICES ASSUME Inv, [Next]_vars PROVE Inv'
  BY Zenon
<1>1. CASE Consume
  BY Zenon, <1>1, ConsumeInv
<1>2. ASSUME NEW p \in Producers, Enqueue(p)
      PROVE  Inv'
  BY Zenon, <1>2, EnqueueNewInv, EnqueueExchangeInv, EnqueueLinkInv DEF Enqueue
<1>3. CASE UNCHANGED vars
  BY <1>3, SMTT(30) DEF Inv, TypeOK, ChainEnds, ChainNodes, ChainLinks, ProducerInv,
              ConsumerInv, DataInv, HeapInv, InChain, Linked, LinkOwnedBy,
              vars, queueVars, producerVars, consumerVars
<1> QED
  BY Zenon, <1>1, <1>2, <1>3 DEF Next

LEMMA SpecInv == Spec => []Inv
BY InitInv, StepInv, PTL DEF Spec

\* The variables of the queue, its producers and its consumer keep their types.
THEOREM TypeCorrect == Spec => []TypeOK
<1>1. Inv => TypeOK
  BY Zenon DEF Inv
<1> QED
  BY <1>1, SpecInv, PTL

\* With any number of producers, no call dereferences a deleted node.
THEOREM NoUseAfterFreeHolds == Spec => []NoUseAfterFree
<1>1. Inv => NoUseAfterFree
  <2> SUFFICES ASSUME Inv PROVE NoUseAfterFree
    BY Zenon
  <2>0. PICK L \in Nat : L = Len(chain)
    BY DEF Inv, TypeOK
  <2>1. cpc # "gone" => head \in heap /\ tail \in heap
    BY <2>0 DEF Inv, ChainEnds, ChainNodes
  <2>2. ASSUME NEW p \in Producers, pc[p] = "link"
        PROVE  node[p] \in heap /\ prevhead[p] \in heap
    BY <2>0, <2>2 DEF Inv, ProducerInv, LinkOwnedBy, ChainNodes
  <2>3. \A p \in Producers : pc[p] = "exchange" => node[p] \in heap
    BY Zenon DEF Inv, ProducerInv
  <2>4. cpc = "take" => cnext \in heap
    BY <2>0 DEF Inv, ConsumerInv, ChainNodes
  <2> QED
    BY Zenon, <2>1, <2>2, <2>3, <2>4 DEF Inv, TypeOK, NoUseAfterFree
<1> QED
  BY <1>1, SpecInv, PTL

\* dequeue() never moves out of an object that does not exist.
THEOREM DataIsLiveHolds == Spec => []DataIsLive
<1>1. Inv => DataIsLive
  <2> SUFFICES ASSUME Inv PROVE DataIsLive
    BY Zenon
  <2>0. PICK L \in Nat : L = Len(chain)
    BY DEF Inv, TypeOK
  <2>1. L > 1 => dataPtr[chain[2]] # NULL
    BY <2>0 DEF Inv, DataInv
  <2>2. cpc = "take" => dataPtr[cnext] # NULL
    BY Zenon, <2>0, <2>1 DEF Inv, ConsumerInv
  <2>3. cpc = "destroy" /\ next[tail] # NULL => dataPtr[next[tail]] # NULL
    BY Zenon, <2>0, <2>1, FirstLink
  <2> QED
    BY Zenon, <2>2, <2>3 DEF DataIsLive
<1> QED
  BY <1>1, SpecInv, PTL

\* A destroyed queue has freed all of its nodes and objects.
THEOREM NothingLeaksHolds == Spec => []NothingLeaks
<1>1. Inv => NothingLeaks
  BY DEF Inv, TypeOK, ChainEnds, ConsumerInv, HeapInv, InChain, DataInv, NothingLeaks
<1> QED
  BY <1>1, SpecInv, PTL
-----------------------------------------------------------------------------
(* Refinement of FuncQueue.                                                *)

Entry == [item : Items, ready : BOOLEAN]

\* VisibleQueue has one entry for every node but the dummy.
VisibleShape ==
  /\ VisibleQueue \in Seq(Entry)
  /\ Len(VisibleQueue) = IF chain = <<>> THEN 0 ELSE Len(chain) - 1
  /\ \A i \in 1 .. Len(chain) - 1 :
       /\ VisibleQueue[i].item = dataPtr[chain[i + 1]]
       /\ VisibleQueue[i].ready <=> Linked(i)

\* Entries are compared field by field.
LEMMA EntryEqual ==
  ASSUME NEW a \in Entry, NEW b \in Entry, a.item = b.item, a.ready <=> b.ready
  PROVE  a = b
BY DEF Entry

LEMMA VisibleShapeLemma == Inv => VisibleShape
<1> SUFFICES ASSUME Inv PROVE VisibleShape
  BY Zenon
<1>1. PICK L \in Nat : L = Len(chain) /\ (L = 0 <=> chain = <<>>)
  BY DEF Inv, TypeOK
<1>2. PICK Q \in Nat : Q = IF chain = <<>> THEN 0 ELSE L - 1
  BY <1>1
<1>3. \A i \in 1 .. Q : [item |-> dataPtr[chain[i + 1]],
                         ready |-> next[chain[i]] = chain[i + 1]] \in Entry
  BY <1>1, <1>2 DEF Inv, TypeOK, DataInv, Entry
<1>4. VisibleQueue = [i \in 1 .. Q |-> [item |-> dataPtr[chain[i + 1]],
                                        ready |-> next[chain[i]] = chain[i + 1]]]
  BY Zenon, <1>1, <1>2 DEF VisibleQueue
<1>5. VisibleQueue \in [1 .. Q -> Entry]
  BY Zenon, <1>3, <1>4
<1>6. VisibleQueue \in Seq(Entry) /\ Len(VisibleQueue) = Q
  BY <1>5
<1>7. ASSUME NEW i \in 1 .. L - 1
      PROVE  /\ VisibleQueue[i].item = dataPtr[chain[i + 1]]
             /\ VisibleQueue[i].ready <=> Linked(i)
  <2>1. i \in 1 .. Q
    BY <1>1, <1>2
  <2>2. VisibleQueue[i] = [item |-> dataPtr[chain[i + 1]],
                           ready |-> next[chain[i]] = chain[i + 1]]
    BY Zenon, <2>1, <1>4
  <2>3. VisibleQueue[i].ready = (next[chain[i]] = chain[i + 1])
    BY <2>2
  <2>4. VisibleQueue[i].item = dataPtr[chain[i + 1]]
    BY <2>2
  <2> QED
    BY <2>3, <2>4, Zenon DEF Linked
<1> QED
  BY Zenon, <1>1, <1>2, <1>6, <1>7 DEF VisibleShape

LEMMA VisibleShapeNext == Inv' => VisibleShape'
BY VisibleShapeLemma, PTL

LEMMA InitRefines == Init => Abstract!FuncQueueInit
<1> SUFFICES ASSUME Init PROVE Abstract!FuncQueueInit
  BY Zenon
<1>1. VisibleShape
  BY Zenon, InitInv, VisibleShapeLemma
<1>2. Len(chain) = 1 /\ chain # <<>>
  BY DEF Init, Constructed
<1>3. VisibleQueue = <<>>
  BY <1>1, <1>2 DEF VisibleShape
<1> QED
  BY Zenon, <1>3 DEF Init, Abstract!FuncQueueInit
\* A step that keeps the chain's length, items and links is invisible.
LEMMA SameQueue ==
  ASSUME Inv, Inv', Len(chain') = Len(chain), chain # <<>>, chain' # <<>>,
         \A i \in 1 .. Len(chain) - 1 :
           /\ dataPtr'[chain'[i + 1]] = dataPtr[chain[i + 1]]
           /\ Linked(i)' <=> Linked(i)
  PROVE  VisibleQueue' = VisibleQueue
<1>0. PICK L \in Nat : L = Len(chain)
  BY DEF Inv, TypeOK
<1>1. VisibleShape /\ VisibleShape'
  BY Zenon, VisibleShapeLemma, VisibleShapeNext
<1>2. Len(VisibleQueue') = Len(VisibleQueue) /\ Len(VisibleQueue) = L - 1
  BY Zenon, <1>0, <1>1 DEF VisibleShape
<1>3. \A i \in 1 .. L - 1 : VisibleQueue'[i] = VisibleQueue[i]
  <2> SUFFICES ASSUME NEW i \in 1 .. L - 1
               PROVE  VisibleQueue'[i] = VisibleQueue[i]
    BY Zenon
  <2>1. VisibleQueue'[i] \in Entry /\ VisibleQueue[i] \in Entry
    BY <1>1, <1>2 DEF VisibleShape
  <2>2. VisibleQueue'[i].item = VisibleQueue[i].item
    BY Zenon, <1>0, <1>1 DEF VisibleShape
  <2>3. VisibleQueue'[i].ready <=> VisibleQueue[i].ready
    BY Zenon, <1>0, <1>1 DEF VisibleShape
  <2> QED
    BY Zenon, <2>1, <2>2, <2>3, EntryEqual
<1> QED
  BY ZenonT(30), <1>1, <1>2, <1>3, SeqEqual DEF VisibleShape

\* dequeue() returns false only when the abstract queue is Empty.
LEMMA NoLinkIsEmpty ==
  ASSUME Inv, cpc # "gone", next[tail] = NULL
  PROVE  Abstract!Empty
<1> USE NullAssumption
<1>0. PICK L \in Nat : L = Len(chain) /\ L > 0 /\ tail = chain[1]
  BY DEF Inv, TypeOK, ChainEnds
<1>1. VisibleShape
  BY Zenon, VisibleShapeLemma
<1>2. Len(VisibleQueue) = L - 1
  BY <1>0, <1>1 DEF VisibleShape
<1>3. CASE L = 1
  BY <1>1, <1>2, <1>3 DEF VisibleShape, Abstract!Empty
<1>4. CASE L > 1
  <2>1. chain[2] \in Nodes
    BY <1>0, <1>4 DEF Inv, TypeOK
  <2>2. ~Linked(1)
    BY <2>1, <1>0 DEF Linked
  <2>3. ~VisibleQueue[1].ready
    BY <2>2, <1>0, <1>1, <1>4 DEF VisibleShape, Linked
  <2> QED
    BY <2>3 DEF Abstract!Empty
<1> QED
  BY <1>0, <1>3, <1>4

LEMMA AdvanceRefines ==
  ASSUME Inv, Inv', Len(chain) > 1, Linked(1), Advance(chain[2])
  PROVE  Abstract!Take
<1>0. PICK L \in Nat : L = Len(chain) /\ L > 1 /\ chain # <<>>
  BY DEF Inv, TypeOK
<1>1. VisibleShape /\ VisibleShape'
  BY Zenon, VisibleShapeLemma, VisibleShapeNext
<1>2. /\ Len(chain') = L - 1 /\ chain' # <<>>
      /\ \A i \in 1 .. L - 1 : chain'[i] = chain[i + 1] /\ chain[i + 1] \in Nodes
      /\ \A i, j \in 1 .. L : chain[i] = chain[j] => i = j
  <2>1. chain \in Seq(Nodes) /\ chain' = Tail(chain)
    BY Zenon DEF Inv, TypeOK, Advance
  <2>2. Len(chain') = L - 1 /\ \A i \in 1 .. L - 1 : chain'[i] = chain[i + 1]
    BY <2>1, <1>0, TailLemma
  <2>3. chain' # <<>>
    BY <2>2, <1>0
  <2>4. \A i \in 1 .. L - 1 : i + 1 \in 1 .. Len(chain)
    BY <1>0
  <2>5. \A i \in 1 .. L - 1 : chain[i + 1] \in Nodes
    BY Zenon, <2>1, <2>4, ElementOfSeq
  <2> QED
    BY Zenon, <2>2, <2>3, <2>5, <1>0 DEF Inv, ChainNodes
<1>3. Len(VisibleQueue) = L - 1 /\ Len(VisibleQueue') = L - 2
  BY <1>0, <1>1, <1>2 DEF VisibleShape
<1>4. VisibleQueue[1].item = dataPtr[chain[2]] /\ VisibleQueue[1].ready
  BY <1>0, <1>1 DEF VisibleShape, Linked
<1>5. Head(VisibleQueue) = VisibleQueue[1] /\ VisibleQueue # <<>>
  BY <1>0, <1>1, <1>3 DEF VisibleShape
<1>6. ASSUME NEW i \in 1 .. L - 2
      PROVE  VisibleQueue'[i] = VisibleQueue[i + 1]
  <2>1. i \in 1 .. Len(chain') - 1 /\ i + 1 \in 1 .. L - 1 /\ i + 1 # 1 /\ (i + 1) + 1 # 2
    BY <1>0, <1>2
  <2>2. chain'[i] = chain[i + 1] /\ chain'[i + 1] = chain[(i + 1) + 1]
    BY <2>1, <1>2
  <2>3. dataPtr'[chain'[i + 1]] = dataPtr[chain[(i + 1) + 1]]
    BY <2>1, <2>2, <1>0, <1>2 DEF Inv, TypeOK, Advance
  <2>4. Linked(i)' <=> Linked(i + 1)
    BY Zenon, <2>2 DEF Linked, Advance
  <2> QED
    <3>1. VisibleQueue'[i] \in Entry /\ VisibleQueue[i + 1] \in Entry
      BY <2>1, <1>1, <1>3 DEF VisibleShape
    <3>2. VisibleQueue'[i].item = VisibleQueue[i + 1].item
      BY Zenon, <2>1, <2>3, <1>0, <1>1 DEF VisibleShape
    <3>3. VisibleQueue'[i].ready <=> VisibleQueue[i + 1].ready
      BY Zenon, <2>1, <2>4, <1>0, <1>1 DEF VisibleShape
    <3> QED
      BY Zenon, <3>1, <3>2, <3>3, EntryEqual
<1>7. /\ Tail(VisibleQueue) \in Seq(Entry)
      /\ Len(Tail(VisibleQueue)) = L - 2
      /\ \A i \in 1 .. L - 2 : Tail(VisibleQueue)[i] = VisibleQueue[i + 1]
  BY <1>0, <1>1, <1>3, TailLemma DEF VisibleShape
<1>8. VisibleQueue' = Tail(VisibleQueue)
  BY Zenon, <1>1, <1>3, <1>6, <1>7, SeqEqual DEF VisibleShape
<1> QED
  BY Zenon, <1>4, <1>5, <1>8 DEF Abstract!Take, Abstract!Empty, Advance
\* The exchange takes the item's place in the abstract queue.
LEMMA ExchangeRefines ==
  ASSUME Inv, Inv', NEW p \in Producers, EnqueueExchange(p)
  PROVE  \E item \in Items : Abstract!Reserve(item) /\ UNCHANGED output
<1> USE NullAssumption
<1>0. PICK L \in Nat : L = Len(chain) /\ L > 0 /\ chain # <<>>
  BY DEF Inv, TypeOK, ConsumerInv, ChainEnds, EnqueueExchange
<1>1. VisibleShape /\ VisibleShape'
  BY Zenon, VisibleShapeLemma, VisibleShapeNext
<1>2. /\ node[p] \in heap /\ ~InChain(node[p]) /\ node[p] \in Nodes
      /\ next[node[p]] = NULL /\ next[chain[L]] = NULL
  BY Zenon, <1>0 DEF Inv, TypeOK, ProducerInv, ConsumerInv, ChainEnds, EnqueueExchange
<1>3. /\ Len(chain') = L + 1 /\ chain' # <<>>
      /\ \A i \in 1 .. L : chain'[i] = chain[i]
      /\ chain'[L + 1] = node[p]
  BY <1>0, <1>2, AppendLemma, SMTT(30) DEF Inv, TypeOK, EnqueueExchange
<1>4. PICK item \in Items : item = dataPtr[node[p]]
  BY <1>2, SMTT(30) DEF Inv, TypeOK, DataInv, EnqueueExchange
<1>5. Len(VisibleQueue) = L - 1 /\ Len(VisibleQueue') = L
  BY <1>0, <1>1, <1>3, SMTT(30) DEF VisibleShape
<1>6. ASSUME NEW i \in 1 .. L - 1
      PROVE  VisibleQueue[i].item # item /\ VisibleQueue'[i] = VisibleQueue[i]
  <2>1. VisibleQueue'[i] \in Entry /\ VisibleQueue[i] \in Entry
    BY <1>0, <1>1, <1>5 DEF VisibleShape
  <2>2. /\ VisibleQueue[i].item = dataPtr[chain[i + 1]]
        /\ VisibleQueue'[i].item = dataPtr'[chain'[i + 1]]
    BY <1>0, <1>1, <1>3 DEF VisibleShape
  <2>3. chain[i + 1] \in heap /\ chain[i + 1] # node[p] /\ chain'[i + 1] = chain[i + 1]
    BY <1>0, <1>2, <1>3 DEF Inv, ChainNodes, InChain
  <2>4. VisibleQueue[i].item # item
    BY <2>2, <2>3, <1>2, <1>4, SMTT(30) DEF Inv, DataInv
  <2>5. Linked(i)' <=> Linked(i)
    BY <2>3, <1>0, <1>3 DEF Linked, EnqueueExchange
  <2>6. VisibleQueue'[i].ready <=> VisibleQueue[i].ready
    BY <2>5, <1>0, <1>1, <1>3 DEF VisibleShape
  <2> QED
    BY ZenonT(30), <2>1, <2>2, <2>3, <2>4, <2>6, EntryEqual DEF EnqueueExchange
<1>7. VisibleQueue'[L] = [item |-> item, ready |-> FALSE]
  <2> DEFINE e == [item |-> item, ready |-> FALSE]
  <2>1. VisibleQueue'[L] \in Entry
    BY <1>0, <1>1, <1>5 DEF VisibleShape
  <2>2. VisibleQueue'[L].item = item
    <3>1. dataPtr' = dataPtr
      BY Zenon DEF EnqueueExchange
    <3>2. L \in 1 .. Len(chain') - 1
      BY <1>0, <1>3
    <3>3. VisibleQueue'[L].item = dataPtr'[chain'[L + 1]]
      BY Zenon, <1>1, <3>2 DEF VisibleShape
    <3> QED
      BY Zenon, <1>3, <1>4, <3>1, <3>3
  <2>3. ~Linked(L)'
    BY <1>0, <1>2, <1>3 DEF Linked, EnqueueExchange
  <2>4. ~VisibleQueue'[L].ready
    BY <2>3, <1>0, <1>1, <1>3 DEF VisibleShape
  <2>5. e \in Entry /\ e.item = item /\ ~e.ready
    BY Zenon DEF Entry
  <2> HIDE DEF e
  <2>6. VisibleQueue'[L] = e
    BY Zenon, <2>1, <2>2, <2>4, <2>5, EntryEqual
  <2> QED
    BY Zenon, <2>6 DEF e
<1>8. VisibleQueue' = Append(VisibleQueue, [item |-> item, ready |-> FALSE])
  <2> DEFINE e == [item |-> item, ready |-> FALSE]
  <2>1. e \in Entry
    BY Zenon DEF Entry
  <2>2. VisibleQueue'[L] = e
    BY Zenon, <1>7
  <2> HIDE DEF e
  <2>3. /\ Append(VisibleQueue, e) \in Seq(Entry)
        /\ Len(Append(VisibleQueue, e)) = L
        /\ \A i \in 1 .. L - 1 : Append(VisibleQueue, e)[i] = VisibleQueue[i]
        /\ Append(VisibleQueue, e)[L] = e
    BY <2>1, <1>0, <1>1, <1>5, AppendLemma DEF VisibleShape
  <2>4. \A i \in 1 .. L : VisibleQueue'[i] = Append(VisibleQueue, e)[i]
    BY <2>2, <2>3, <1>0, <1>6
  <2>5. VisibleQueue' = Append(VisibleQueue, e)
    BY <2>3, <2>4, <1>1, <1>5, SeqEqual DEF VisibleShape
  <2> QED
    BY Zenon, <2>5 DEF e
<1>9. item \notin Abstract!Queued
  BY <1>0, <1>1, <1>5, <1>6 DEF Abstract!Queued, VisibleShape
<1> QED
  BY Zenon, <1>8, <1>9 DEF Abstract!Reserve, EnqueueExchange, consumerVars

\* The store of next_ makes the item visible.
LEMMA LinkRefines ==
  ASSUME Inv, Inv', NEW p \in Producers, EnqueueLink(p)
  PROVE  \E item \in Abstract!Queued : Abstract!Publish(item) /\ UNCHANGED output
<1> USE NullAssumption
<1>0. PICK L \in Nat : L = Len(chain)
  BY DEF Inv, TypeOK
<1>1. PICK k \in 1 .. L - 1 : LinkOwnedBy(p, k)
  BY Zenon, <1>0 DEF Inv, ProducerInv, EnqueueLink
<1>2. VisibleShape /\ VisibleShape' /\ chain' = chain /\ dataPtr' = dataPtr
  BY Zenon, VisibleShapeLemma, VisibleShapeNext DEF EnqueueLink
<1>3. /\ \A i \in 1 .. L : chain[i] \in Nodes /\ chain[i] \in heap
      /\ \A i, j \in 1 .. L : chain[i] = chain[j] => i = j
  BY Zenon, <1>0 DEF Inv, TypeOK, ChainNodes
<1>4. /\ next'[chain[k]] = chain[k + 1]
      /\ \A i \in 1 .. L : i # k => next'[chain[i]] = next[chain[i]]
  BY <1>0, <1>1, <1>3, SMTT(30) DEF Inv, TypeOK, LinkOwnedBy, EnqueueLink
<1>5. Len(VisibleQueue) = L - 1 /\ Len(VisibleQueue') = L - 1
  BY <1>0, <1>1, <1>2, SMTT(30) DEF VisibleShape
<1>6. PICK item : item = VisibleQueue[k].item
  BY Zenon
<1>7. item \in Abstract!Queued
  <2>1. k \in DOMAIN VisibleQueue
    BY <1>1, <1>2, <1>5 DEF VisibleShape
  <2> QED
    BY Zenon, <2>1, <1>6 DEF Abstract!Queued
<1>8. ASSUME NEW i \in 1 .. L - 1
      PROVE  VisibleQueue[i].item = item <=> i = k
  <2>1. VisibleQueue[i].item = dataPtr[chain[i + 1]] /\ item = dataPtr[chain[k + 1]]
    BY Zenon, <1>0, <1>2, <1>6 DEF VisibleShape
  <2>2. dataPtr[chain[k + 1]] # NULL
    BY <1>0 DEF Inv, DataInv
  <2>3. i + 1 \in 1 .. L /\ k + 1 \in 1 .. L
    BY <1>0
  <2>4. dataPtr[chain[i + 1]] = dataPtr[chain[k + 1]] => chain[i + 1] = chain[k + 1]
    BY Zenon, <2>2, <2>3, <1>3 DEF Inv, DataInv
  <2>5. chain[i + 1] = chain[k + 1] => i = k
    BY <2>3, <1>0, <1>3
  <2> QED
    BY Zenon, <2>1, <2>4, <2>5
<1> DEFINE e == [item |-> item, ready |-> TRUE]
<1>9. VisibleQueue'[k] = e
  <2>1. VisibleQueue'[k] \in Entry /\ VisibleQueue[k] \in Entry
    BY <1>0, <1>2, <1>5, SMTT(30) DEF VisibleShape
  <2>2. VisibleQueue'[k].item = item
    BY Zenon, <1>0, <1>2, <1>6 DEF VisibleShape
  <2>3. Linked(k)'
    BY Zenon, <1>2, <1>4 DEF Linked
  <2>4. VisibleQueue'[k].ready
    BY Zenon, <2>3, <1>0, <1>2 DEF VisibleShape
  <2>5. e \in Entry /\ e.item = item /\ e.ready
    BY Zenon, <2>1, <1>6 DEF Entry
  <2> HIDE DEF e
  <2> QED
    BY Zenon, <2>1, <2>2, <2>4, <2>5, EntryEqual
<1>10. ASSUME NEW i \in 1 .. L - 1, i # k
       PROVE  VisibleQueue'[i] = VisibleQueue[i]
  <2>1. VisibleQueue'[i] \in Entry /\ VisibleQueue[i] \in Entry
    BY <1>0, <1>2, <1>5 DEF VisibleShape
  <2>2. VisibleQueue'[i].item = VisibleQueue[i].item
    BY Zenon, <1>0, <1>2 DEF VisibleShape
  <2>3. Linked(i)' <=> Linked(i)
    BY <1>0, <1>2, <1>4, <1>10 DEF Linked
  <2>4. VisibleQueue'[i].ready <=> VisibleQueue[i].ready
    BY Zenon, <2>3, <1>0, <1>2 DEF VisibleShape
  <2> QED
    BY Zenon, <2>1, <2>2, <2>4, EntryEqual
<1> HIDE DEF e
<1>11. VisibleQueue' = [i \in DOMAIN VisibleQueue |->
                          IF VisibleQueue[i].item = item THEN e ELSE VisibleQueue[i]]
  <2>1. DOMAIN VisibleQueue = 1 .. L - 1 /\ DOMAIN VisibleQueue' = 1 .. L - 1
    BY <1>0, <1>2, <1>5 DEF VisibleShape
  <2>2. \A i \in 1 .. L - 1 :
          VisibleQueue'[i] = IF VisibleQueue[i].item = item THEN e ELSE VisibleQueue[i]
    BY Zenon, <1>8, <1>9, <1>10
  <2>3. VisibleQueue' = [i \in DOMAIN VisibleQueue' |-> VisibleQueue'[i]]
    BY <1>2 DEF VisibleShape
  <2> QED
    BY Zenon, <2>1, <2>2, <2>3
<1> QED
  BY Zenon, <1>7, <1>11 DEF Abstract!Publish, e, EnqueueLink, consumerVars
LEMMA StepRefines ==
  ASSUME Inv, Inv', [Next]_vars
  PROVE  [Abstract!FuncQueueNext]_<<VisibleQueue, output>>
<1> USE NullAssumption
<1>0. PICK L \in Nat : L = Len(chain) /\ (chain = <<>> <=> L = 0)
  BY DEF Inv, TypeOK
<1>1. ASSUME NEW p \in Producers, NEW n \in Nodes, NEW item \in Items,
             EnqueueNew(p, n, item)
      PROVE  UNCHANGED <<VisibleQueue, output>>
  <2>1. L > 0
    BY Zenon, <1>0, <1>1 DEF Inv, ChainEnds, EnqueueNew
  <2>2. \A i \in 1 .. L : chain[i] # n /\ chain[i] \in Nodes
    BY <1>0, <1>1 DEF Inv, TypeOK, ChainNodes, EnqueueNew
  <2>3. \A i \in 1 .. L - 1 : /\ dataPtr'[chain'[i + 1]] = dataPtr[chain[i + 1]]
                              /\ Linked(i)' <=> Linked(i)
    <3>1. /\ \A m \in Nodes : m # n => dataPtr'[m] = dataPtr[m] /\ next'[m] = next[m]
          /\ chain' = chain
      BY Zenon, <1>1 DEF Inv, TypeOK, EnqueueNew
    <3> QED
      BY <3>1, <2>2, <1>0 DEF Linked
  <2>4. VisibleQueue' = VisibleQueue
    BY <2>1, <2>3, <1>0, <1>1, SameQueue DEF EnqueueNew
  <2> QED
    BY Zenon, <2>4, <1>1 DEF EnqueueNew, consumerVars
<1>2. ASSUME NEW p \in Producers, EnqueueExchange(p)
      PROVE  Abstract!FuncQueueNext
  BY Zenon, <1>2, ExchangeRefines DEF Abstract!FuncQueueNext
<1>3. ASSUME NEW p \in Producers, EnqueueLink(p)
      PROVE  Abstract!FuncQueueNext
  BY Zenon, <1>3, LinkRefines DEF Abstract!FuncQueueNext
<1>4. ASSUME UNCHANGED <<queueVars, chain>>
      PROVE  UNCHANGED VisibleQueue
  BY Zenon, <1>4 DEF VisibleQueue, queueVars
<1>5. CASE DequeueLoad
  <2>1. CASE next[tail] = NULL
    BY Zenon, <2>1, <1>4, <1>5, NoLinkIsEmpty
       DEF DequeueLoad, Abstract!FuncQueueNext, Abstract!TakeFails
  <2>2. CASE next[tail] # NULL
    BY Zenon, <2>2, <1>4, <1>5 DEF DequeueLoad
  <2> QED
    BY Zenon, <2>1, <2>2
<1>6. CASE DequeueTake
  BY Zenon, <1>6, AdvanceRefines DEF Inv, ConsumerInv, DequeueTake, Abstract!FuncQueueNext
<1>7. CASE DestroyBegin
  BY Zenon, <1>4, <1>7 DEF DestroyBegin
<1>8. CASE DestroyDequeue
  BY Zenon, <1>8, FirstLink, AdvanceRefines DEF DestroyDequeue, Abstract!FuncQueueNext
<1>9. CASE DestroyHead
  <2>1. Abstract!Empty
    BY Zenon, <1>9, NoLinkIsEmpty DEF DestroyHead
  <2>2. L = 1
    <3>1. L > 0 /\ tail = chain[1]
      BY Zenon, <1>0, <1>9 DEF Inv, ChainEnds, DestroyHead
    <3>2. L > 1 => chain[2] \in Nodes /\ next[chain[1]] = chain[2]
      BY <1>0, <1>9, SMTT(30) DEF Inv, TypeOK, ChainLinks, ConsumerInv, Linked, LinkOwnedBy, DestroyHead
    <3> QED
      BY <3>1, <3>2, <1>9 DEF DestroyHead
  <2>3. VisibleShape /\ VisibleShape'
    BY Zenon, VisibleShapeLemma, VisibleShapeNext
  <2>4. Len(VisibleQueue) = 0 /\ Len(VisibleQueue') = 0
    <3>1. chain # <<>> /\ Len(chain) = 1 /\ chain' = <<>>
      BY <2>2, <1>0, <1>9 DEF DestroyHead
    <3> QED
      BY <3>1, <2>3, SMTT(30) DEF VisibleShape
  <2>5. VisibleQueue = <<>> /\ VisibleQueue' = <<>>
    BY Zenon, <2>3, <2>4, EmptySeq DEF VisibleShape
  <2> QED
    BY Zenon, <2>1, <2>5, <1>9 DEF DestroyHead, Abstract!FuncQueueNext, Abstract!TakeFails
<1>10. ASSUME NEW n \in Nodes, Construct(n)
       PROVE  UNCHANGED <<VisibleQueue, output>>
  <2>1. chain = <<>>
    BY Zenon, <1>10 DEF Inv, ChainEnds, Construct
  <2>2. VisibleShape /\ VisibleShape'
    BY Zenon, VisibleShapeLemma, VisibleShapeNext
  <2>3. chain' = <<n>> /\ Len(chain') = 1
    BY Zenon, <1>10 DEF Construct
  <2>4. Len(VisibleQueue) = 0 /\ Len(VisibleQueue') = 0
    BY <2>1, <2>2, <2>3 DEF VisibleShape
  <2>5. VisibleQueue = <<>> /\ VisibleQueue' = <<>>
    BY Zenon, <2>2, <2>4, EmptySeq DEF VisibleShape
  <2> QED
    BY Zenon, <2>5, <1>10 DEF Construct
<1>11. CASE UNCHANGED vars
  BY Zenon, <1>4, <1>11 DEF vars, consumerVars
<1> QED
  BY Zenon, <1>1, <1>2, <1>3, <1>5, <1>6, <1>7, <1>8, <1>9, <1>10, <1>11
     DEF Next, Consume, Enqueue

\* The list of nodes implements the abstract queue: items leave it in the
\* order of the exchanges, each exactly once.
THEOREM Refinement == Spec => ImplementsFuncQueue
<1>1. Inv /\ Inv' /\ [Next]_vars => [Abstract!FuncQueueNext]_<<VisibleQueue, output>>
  BY Zenon, StepRefines
<1> QED
  BY <1>1, InitRefines, SpecInv, PTL DEF Spec, ImplementsFuncQueue, Abstract!FuncQueueSpec
=============================================================================
