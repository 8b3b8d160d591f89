--------------------------- MODULE MCBrokerQueue ---------------------------
(***************************************************************************)
(* Scenarios of SemBroker in one state space: three connections of process *)
(* 1 that wait for a set in every way there is; two of process 2 around a  *)
(* set that is removed and created again under its waiters; and two of     *)
(* process 3 that its forked child 4 inherits.                             *)
(***************************************************************************)
EXTENDS MCSemBroker

MCRequests == QueueRequests \cup RecreateRequests

ForkRequests == {Semop(<<Step(0, -1)>>), Semop(<<Step(0, 1)>>)}

MCFirstAlive == {{1}, {2}, {3}}

\* What the processes of a scenario send, over how many connections.
Scenario(pids, requests, conns) ==
  /\ alive \subseteq pids
  /\ \A c \in Conns : /\ peer[c] \in pids \cup {0}
                      /\ req[c] \in requests \cup {NoRequest}
  /\ Cardinality({c \in Conns : state[c] # "closed"}) <= conns

Scenarios == \/ Scenario({1}, QueueRequests, 3)
             \/ Scenario({2}, RecreateRequests, 2)
             \/ Scenario({3, 4}, ForkRequests, 2)
=============================================================================
