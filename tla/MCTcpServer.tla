----------------------------- MODULE MCTcpServer -----------------------------
(* A server that accepts connections in three loops, one of them its own, and *)
(* has timing wheels (the values of the constants); or a server with a pool   *)
(* of two loops of its own.                                                   *)
EXTENDS TcpServer

CONSTANTS l1, l2

VARIABLE server

AllLoops == <<Base, l1, l2>>

Owned == INSTANCE TcpServer WITH
  IoLoops <- <<l1, l2>>, OwnPool <- TRUE, IdleTimeout <- FALSE

MCInit ==
  \/ server = "kept" /\ Init
  \/ server = "owned" /\ Owned!Init

MCNext ==
  /\ \/ server = "kept" /\ Next
     \/ server = "owned" /\ Owned!Next
  /\ UNCHANGED server

MCFairness ==
  /\ WF_vars(\/ server = "kept" /\ StopStep
             \/ server = "owned" /\ Owned!StopStep)
  /\ WF_vars(\/ server = "kept" /\ AcceptStep
             \/ server = "owned" /\ Owned!AcceptStep)
  /\ \A l \in Loops : WF_vars(LoopStep(l)) /\ SF_vars(RunFunc(l))

MCSpec == MCInit /\ [][MCNext]_<<vars, server>> /\ MCFairness
=============================================================================
