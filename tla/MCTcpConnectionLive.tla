------------------------- MODULE MCTcpConnectionLive -------------------------
(* Three small instances of TcpConnection with a peer that goes on reading:   *)
(* every kind of node from another thread on a connection that stays up,      *)
(* async streams that the loop starts, and messages on a connection that may  *)
(* be closed at any moment.                                                   *)
EXTENDS TcpConnection

VARIABLE instance

Closing == INSTANCE TcpConnection WITH
  LoopKinds <- {"mem"}, ThreadKinds <- {"mem"}, MaxAsync <- 0, Closes <- TRUE

LoopStreams == INSTANCE TcpConnection WITH
  LoopKinds <- {"async"}, ThreadKinds <- {"mem"}

MCInit == Init /\ instance \in {"up", "streams", "closing"}

MCNext ==
  /\ \/ instance = "up" /\ Next
     \/ instance = "streams" /\ LoopStreams!Next
     \/ instance = "closing" /\ Closing!Next
  /\ UNCHANGED instance

MCSpec == MCInit /\ [][MCNext]_<<vars, instance>> /\ Fairness
=============================================================================
