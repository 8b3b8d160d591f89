---------------------------- MODULE AtomicService ----------------------------
(***************************************************************************)
(* What a semaphore service promises its callers, without threads, queues  *)
(* or wakeups: a request takes effect once, in one step, between being     *)
(* asked and being answered, as the sequential rules say and in the name   *)
(* of the process that asked; or it fails for one of the listed reasons    *)
(* and leaves nothing behind.  Nothing else changes the store but the      *)
(* exits of processes and the bookkeeping of who waits.                    *)
(*                                                                         *)
(* The sequential rules are parameters.  SemBroker implements this         *)
(* specification with those of the store.                                  *)
(***************************************************************************)
CONSTANTS Conns, Requests, Pids,
          NoRequest,
          FirstStore, FirstAlive,
          Effect(_, _, _),       \* [store, result] of a request of a process
          MustWait(_, _),        \* whether a result of it means it has to wait
          Excuses(_, _),         \* results without effect, if the client is there
          Exits(_, _, _),        \* the store after the exits of a list of processes
          ExitLists,
          SameButCounts(_, _)    \* whether only the bookkeeping differs

VARIABLES store, alive,
          phase,      \* of a connection: idle, pending or done
          attached,   \* whether a client still holds it
          owner,      \* the process in whose name it asks
          request, result

svars == <<store, alive, phase, attached, owner, request, result>>

ServiceInit ==
  /\ store = FirstStore /\ alive \in FirstAlive
  /\ phase = [c \in Conns |-> "idle"] /\ attached = [c \in Conns |-> FALSE]
  /\ owner = [c \in Conns |-> 0]
  /\ request = [c \in Conns |-> NoRequest] /\ result = [c \in Conns |-> 0]

Arrive(c) ==
  /\ phase[c] = "idle"
  /\ UNCHANGED <<store, alive, phase, request, result>>
  /\ attached' = [attached EXCEPT ![c] = TRUE]
  /\ \E p \in alive : owner' = [owner EXCEPT ![c] = p]

Ask(c) ==
  /\ phase[c] = "idle"
  /\ phase' = [phase EXCEPT ![c] = "pending"]
  /\ \E r \in Requests : request' = [request EXCEPT ![c] = r]
  /\ UNCHANGED <<store, alive, attached, owner, result>>

Done(c) ==
  /\ phase[c] = "pending"
  /\ phase' = [phase EXCEPT ![c] = "done"]
  /\ UNCHANGED <<alive, attached, owner, request>>

TakeEffect(c) ==
  LET e == Effect(store, request[c], owner[c])
  IN  /\ Done(c)
      /\ ~MustWait(request[c], e.result)
      /\ SameButCounts(e.store, store')
      /\ result' = [result EXCEPT ![c] = e.result]

Fail(c) ==
  /\ Done(c)
  /\ SameButCounts(store, store')
  /\ \E answer \in Excuses(request[c], attached[c]) :
       result' = [result EXCEPT ![c] = answer]

Wait == /\ UNCHANGED <<alive, phase, attached, owner, request, result>>
        /\ SameButCounts(store, store')

\* The answer is read, or the connection ends.
Forget(c) ==
  /\ phase[c] # "pending"
  /\ UNCHANGED <<store, alive, attached>>
  /\ phase' = [phase EXCEPT ![c] = "idle"]
  /\ request' = [request EXCEPT ![c] = NoRequest]
  /\ result' = [result EXCEPT ![c] = 0]
  /\ \E p \in {0, owner[c]} : owner' = [owner EXCEPT ![c] = p]

\* Processes start and end, and let go of connections.
Processes == /\ UNCHANGED <<store, phase, owner, request, result>>
             /\ alive' \subseteq Pids
             /\ \A c \in Conns : attached'[c] => attached[c]

Restore == /\ UNCHANGED <<alive, phase, attached, owner, request, result>>
           /\ \E list \in ExitLists : store' = Exits(store, list, alive)

ServiceNext ==
  \/ Wait \/ Processes \/ Restore
  \/ \E c \in Conns : \/ Arrive(c) \/ Ask(c)
                      \/ TakeEffect(c) \/ Fail(c) \/ Forget(c)

ServiceSpec == ServiceInit /\ [][ServiceNext]_svars
=============================================================================
