----------------------------- MODULE MCTcpClient -----------------------------
(* What a program uses to reach a server: a TcpClient and one of the two      *)
(* resolvers.  A behaviour is one of the three; the variables of the others   *)
(* stay as they are.                                                          *)
EXTENDS TcpClient

CONSTANTS Names, MaxQueries, Timeouts, Workers, MaxTime

ASSUME TimeoutsAssumption == Timeouts \subseteq Nat

VARIABLES
  class,  \* the class that this behaviour is about
  cache, host, query, queueInLoop, timerActive, timer, channel, owned, alive, where,
  time, timeout, entries, requests, holder

Resolver == INSTANCE AresResolver
Normal == INSTANCE NormalResolver WITH calls <- requests, Names <- {"host"}

resolverVars == <<cache, host, query, queueInLoop, timerActive, timer, channel,
                  owned, alive, where>>
normalVars == <<time, timeout, entries, requests, holder>>
allVars == <<class, vars, resolverVars, normalVars>>

MCInit ==
  /\ class \in {"client", "resolver", "normal"}
  /\ class # "normal" => timeout = 0
  /\ Init /\ Resolver!RInit /\ Normal!NInit

\* A step of the class
Step(step, rstep, nstep) ==
  /\ \/ class = "client" /\ step /\ UNCHANGED <<resolverVars, normalVars>>
     \/ class = "resolver" /\ rstep /\ UNCHANGED <<vars, normalVars>>
     \/ class = "normal" /\ nstep /\ UNCHANGED <<vars, resolverVars>>
  /\ UNCHANGED class

\* The fairness of the three classes, a condition of each in one
MCSpec ==
  /\ MCInit /\ [][Step(Next, Resolver!RNext, Normal!NNext)]_allVars
  /\ WF_allVars(Step(LoopStep, Resolver!Return, FALSE))
  /\ SF_allVars(Step(RunFunc, Resolver!RunQueued, Normal!NStep(1)))
  /\ WF_allVars(Step(StopQueue, FALSE, FALSE))
  /\ \A s \in Sockets : WF_allVars(Step(AttemptEnds(s), FALSE, FALSE))
  /\ SF_allVars(Step(FALSE, Resolver!OnTimer, Normal!NStep(2)))
  /\ SF_allVars(Step(FALSE, Resolver!GiveUp, Normal!NStep(3)))

-----------------------------------------------------------------------------
\* A resolver exists while c-ares may call it, and the other one answers from
\* its cache only what is fresh: see AresResolver and NormalResolver.
ResolversAnswerRight == Resolver!ResolverIsAlive /\ Normal!AnsweredFresh

\* Every call of resolve() is answered: see AresResolver and NormalResolver.
\* (The calls of the resolver that is idle neither wait nor are answered.)
QueriesAreAnswered ==
  \A q \in 1 .. MaxQueries :
    (Resolver!Waits(q) \/ Normal!Waits(q)) ~> (Resolver!Answered(q) \/ Normal!Answered(q))
=============================================================================
