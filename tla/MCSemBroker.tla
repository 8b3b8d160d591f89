---------------------------- MODULE MCSemBroker ----------------------------
(***************************************************************************)
(* Small instances of SemBroker: one set of two semaphores, created before *)
(* the behaviour starts.                                                   *)
(***************************************************************************)
EXTENDS SemBroker, TLC

Id == make_id(0, 1)
NewId == make_id(0, 2)
Who == [uid |-> 1, gid |-> 1]
Creat == [creat |-> TRUE, excl |-> FALSE, mode |-> 384]

MCFirstStore == get_as(EmptyStore, 1, MaxPerSet, Creat, Who, FALSE).store

Step(s, d) == [sem_num |-> s, sem_op |-> d, nowait |-> FALSE, undo |-> FALSE]
Undo(s, d) == [Step(s, d) EXCEPT !.undo = TRUE]
Semop(ops) == [opcode |-> "SEMOP", semid |-> Id, ops |-> ops]
Timed(ops) == [opcode |-> "SEMTIMEDOP", semid |-> Id, ops |-> ops]

\* Waiting for a limited time, for two semaphores, and for zero.
QueueRequests ==
  {Timed(<<Step(0, -1)>>), Semop(<<Step(0, -1), Step(1, -1)>>),
   Semop(<<Step(1, 0), Step(1, 1)>>), Semop(<<Step(0, 1)>>)}

LiveRequests ==
  {Semop(<<Step(0, -1)>>), Timed(<<Step(0, -1), Step(1, -1)>>),
   Semop(<<Step(0, 1)>>), Semop(<<Step(1, 1)>>),
   [opcode |-> "REMOVE", semid |-> Id]}

\* The same set removed and created again, under the waiters' feet.
RecreateRequests ==
  {Semop(<<Step(0, -1)>>), [Semop(<<Step(0, -1)>>) EXCEPT !.semid = NewId],
   Semop(<<Step(0, 1)>>), [Semop(<<Step(0, 1)>>) EXCEPT !.semid = NewId],
   [opcode |-> "REMOVE", semid |-> Id],
   [opcode |-> "SEMGET", key |-> 1, nsems |-> MaxPerSet, flags |-> Creat,
    who |-> Who],
   [opcode |-> "SETMETA", semid |-> NewId, uid |-> 1, gid |-> 1, mode |-> 256,
    who |-> Who],
   [opcode |-> "SETVAL", semid |-> Id, semnum |-> 0, value |-> 1],
   [opcode |-> "GETNCNT", semid |-> Id, semnum |-> 0]}

\* A process that waits with SEM_UNDO, and one that lets it through.
OrphanRequests == {Semop(<<Undo(0, -1)>>), Semop(<<Step(0, 1)>>)}

\* Two waiters of one set that wait for different semaphores.
HeadRequests == {Semop(<<Step(0, -1)>>), Semop(<<Step(1, -1)>>),
                 Semop(<<Step(1, 1)>>)}

\* Two processes take and give with SEM_UNDO.
UndoRequests ==
  {Semop(<<Undo(0, -1)>>), Semop(<<Undo(0, 1)>>),
   [opcode |-> "SETALL", semid |-> Id, values |-> <<1>>]}

Symmetry == Permutations(Conns)
=============================================================================
