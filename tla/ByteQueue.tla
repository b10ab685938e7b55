------------------------------ MODULE ByteQueue ------------------------------
(***************************************************************************)
(* What a MsgBuffer promises: a sequence of bytes that grows and shrinks   *)
(* at both ends and changes in no other way.                               *)
(***************************************************************************)
EXTENDS Naturals, Sequences

CONSTANT Chunks  \* the sequences of bytes that are put in

VARIABLE data

\* The first n, and all but the first n, elements of s
First(s, n) == [i \in 1 .. n |-> s[i]]
Rest(s, n) == [i \in 1 .. Len(s) - n |-> s[n + i]]

Init == data = <<>>

Put(s) == data' = data \o s
PutInFront(s) == data' = s \o data
Drop(n) == data' = Rest(data, n)
Cut(n) == data' = First(data, n)

Next ==
  \/ \E s \in Chunks : Put(s) \/ PutInFront(s)
  \/ \E n \in 0 .. Len(data) : Drop(n) \/ Cut(n)

Spec == Init /\ [][Next]_data
=============================================================================
