----------------------------- MODULE MCSemStore -----------------------------
(***************************************************************************)
(* Small instances of SemStore with its history, and the sums the undo     *)
(* properties are about.                                                   *)
(***************************************************************************)
EXTENDS SemStoreHistory, FiniteSetsExt

CONSTANTS Keys, Sizes,  \* the keys and sizes semget is called with
          MaxStep,      \* the largest sem_op, up or down
          Pairs         \* whether semop is called with pairs of operations

MCFlags == {[creat |-> c, excl |-> x, mode |-> 384] :
              c \in BOOLEAN, x \in BOOLEAN}
MCGetCalls == [key : Keys, nsems : Sizes, flags : MCFlags]

Op(s, d, u) == [sem_num |-> s, sem_op |-> d, nowait |-> FALSE, undo |-> u]
MCOps == [sem_num : Sems, sem_op : -MaxStep .. MaxStep, nowait : {FALSE}, undo : BOOLEAN]
MCBadOps == [sem_num : {MaxPerSet}, sem_op : {1}, nowait : {FALSE},
             undo : {FALSE}]
MCNowaitOps == [sem_num : Sems, sem_op : -MaxStep .. MaxStep, nowait : {TRUE},
                undo : {FALSE}]
MCPairs == {<<a, b>> : a \in MCOps, b \in {o \in MCOps : o.sem_op # 0}}
\* Take, give back without SEM_UNDO, take again: the sum leaves the range.
MCTriples == {<<Op(s, -1, TRUE), Op(s, 1, FALSE), Op(s, -1, TRUE)>> :
                s \in Sems}
MCOpLists == {<<>>} \cup [1 .. 1 -> MCOps \cup MCBadOps \cup MCNowaitOps]
             \cup (IF Pairs THEN MCPairs \cup MCTriples ELSE {})

MCWhos == {[uid |-> 1, gid |-> 1], [uid |-> 2, gid |-> 2]}
MCWho == {[uid |-> 1, gid |-> 1]}
MCCountDeltas == {-1, 1}
MCMetas == [uid : {1}, gid : {1, 2}, mode : {384, 512}]

-----------------------------------------------------------------------------
(* Undo accounting.                                                        *)

\* All adjustments recorded for a semaphore, by whatever process.
PendingUndo(st, semid, s) ==
  MapThenSumSet(LAMBDA e : e.adjustment,
                {e \in st.undo : e.semid = semid /\ e.semnum = s})

\* The value a semaphore returns to once every process has exited.
Settled(st, semid, s) ==
  set_of(st, semid).values[s] + PendingUndo(st, semid, s)

\* What the operations without SEM_UNDO add to semaphore s.
PlainSum(ops, s) ==
  MapThenSumSet(LAMBDA k : ops[k].sem_op,
                {k \in DOMAIN ops : ops[k].sem_num = s /\ ~ops[k].undo})

\* SEM_UNDO is exact: a successful semop moves the value that remains after
\* all exits by its plain operations alone, however its operations repeat a
\* semaphore, mix signs or meet earlier adjustments of the same process.
UndoBalance ==
  \A semid \in SemIds, ops \in OpLists, pid \in Pids :
    LET r == tryop(store, semid, ops, pid) IN
    r.result = 0 =>
      \A s \in Sems : Settled(r.store, semid, s)
                        = Settled(store, semid, s) + PlainSum(ops, s)

\* An exit changes no semaphore's settled value, unless the value had to be
\* clamped, and then it sits at the end of the range it would have left.
ExitSettles ==
  [][last'.call = "process_exit"
     => \A semid \in SemIds, s \in Sems : found(store, semid)
          => \/ Settled(store', semid, s) = Settled(store, semid, s)
             \/ /\ set_of(store', semid).values[s] = 0
                /\ Settled(store', semid, s) > Settled(store, semid, s)
             \/ /\ set_of(store', semid).values[s] = MaxValue
                /\ Settled(store', semid, s) < Settled(store, semid, s)
    ]_hvars
=============================================================================
