----------------------------- MODULE MCEventLoop -----------------------------
(* Four small instances of EventLoop, one per behaviour: two foreign threads *)
(* race, one queues two functors and exceptions are thrown, functors run on  *)
(* quit, and a thread destroys the loop.                                     *)
EXTENDS EventLoop

CONSTANTS t1, t2

VARIABLE instance

Race == INSTANCE EventLoop WITH
  Threads <- {t1, t2}, MaxFuncs <- 1, MaxQuitFuncs <- 0, Throws <- {},
  Destroyers <- {}
Order == INSTANCE EventLoop WITH
  Threads <- {t1}, MaxFuncs <- 2, MaxQuitFuncs <- 0, Throws <- {"std", "other"},
  Destroyers <- {}
OnQuit == INSTANCE EventLoop WITH
  Threads <- {t1}, MaxFuncs <- 1, MaxQuitFuncs <- 1, Throws <- {"std"},
  Destroyers <- {}
Destroyed == INSTANCE EventLoop WITH
  Threads <- {t1}, MaxFuncs <- 1, MaxQuitFuncs <- 1, Throws <- {},
  Destroyers <- {t1}

MCInit == Init /\ instance \in {"race", "order", "onQuit", "destroyed"}

MCNext ==
  /\ \/ instance = "race" /\ Race!Next
     \/ instance = "order" /\ Order!Next
     \/ instance = "onQuit" /\ OnQuit!Next
     \/ instance = "destroyed" /\ Destroyed!Next
  /\ UNCHANGED instance

MCSpec == MCInit /\ [][MCNext]_<<vars, instance>> /\ Fairness
=============================================================================
