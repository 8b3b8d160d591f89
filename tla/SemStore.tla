------------------------------ MODULE SemStore ------------------------------
(***************************************************************************)
(* The state core of src/sem_store.c on its own: one store, called by      *)
(* processes one call at a time (the broker's mutex serialises them), with *)
(* the arguments the wire dispatcher lets through.                         *)
(***************************************************************************)
EXTENDS SemStoreOps

CONSTANTS Pids,        \* the callers' process ids (SO_PEERCRED)
          Whos,        \* the callers' [uid, gid]
          GetCalls,    \* arguments of semget: [key, nsems, flags]
          OpLists,     \* arguments of semop: sequences of operations
          NewValues,   \* arguments of SETVAL and SETALL, some out of range
          Metas,       \* arguments of IPC_SET: [uid, gid, mode]
          CountDeltas  \* waiter count adjustments the caller makes

ASSUME CallerAssumptions ==
  /\ Pids \subseteq Nat \ {0}
  /\ Whos \subseteq [uid : Nat, gid : Nat]
  /\ GetCalls \subseteq [key : Int, nsems : Int,
                         flags : [creat : BOOLEAN, excl : BOOLEAN,
                                  mode : 0 .. MaxMode]]
  /\ OpLists \subseteq Seq([sem_num : Nat, sem_op : Int,
                            nowait : BOOLEAN, undo : BOOLEAN])
  /\ NewValues \subseteq Nat
  /\ Metas \subseteq [uid : Nat, gid : Nat, mode : Nat]
  /\ CountDeltas \subseteq {-1, 1}

VARIABLES store,   \* the table of sets and the undo table
          last     \* the last call and what it returned

vars == <<store, last>>

\* Every id the store can ever hand out, and 0, which it never does.
SemIds == {make_id(i, g) : i \in Slots, g \in 1 .. MaxGeneration} \cup {0}

SemNums == 0 .. MaxPerSet    \* one too many, to meet the range checks

Calls == {"create", "semget", "remove", "setval", "setall", "set_metadata",
          "adjust_wait_count", "semop", "process_exit"}

Call(name, r) == /\ store' = r.store
                 /\ last' = [call |-> name, result |-> r.result]

Init == /\ store = EmptyStore
        /\ last = [call |-> "create", result |-> 0]

Semget == \E c \in GetCalls, who \in Whos, oom \in BOOLEAN :
            Call("semget", get_as(store, c.key, c.nsems, c.flags, who, oom))

Remove == \E semid \in SemIds : Call("remove", remove(store, semid))

Setval == \E semid \in SemIds, n \in SemNums, v \in NewValues, pid \in Pids :
            Call("setval", setval(store, semid, n, v, pid))

Setall == \E semid \in SemIds, v \in NewValues, n \in SemNums, pid \in Pids :
            Call("setall", setall(store, semid, [i \in 1 .. n |-> v], pid))

SetMetadata == \E semid \in SemIds, m \in Metas, who \in Whos :
  Call("set_metadata",
       set_metadata(store, semid, m.uid, m.gid, m.mode, who))

AdjustWaitCount ==
  \E semid \in SemIds, n \in SemNums, zero \in BOOLEAN, d \in CountDeltas :
    Call("adjust_wait_count", adjust_wait_count(store, semid, n, zero, d))

Semop == \E semid \in SemIds, ops \in OpLists, pid \in Pids :
           Call("semop", tryop(store, semid, ops, pid))

ProcessExit == \E pid \in Pids :
                 Call("process_exit", process_exit(store, pid))

Next == \/ Semget \/ Remove \/ Setval \/ Setall \/ SetMetadata
        \/ AdjustWaitCount \/ Semop \/ ProcessExit

Spec == Init /\ [][Next]_vars

-----------------------------------------------------------------------------
(* Invariants.                                                             *)

\* Type correctness of the two tables: every value stays in 0..MaxValue and
\* every accumulated adjustment in -MaxValue-1..MaxValue, whatever is called.
TypeOK == /\ StoreType(store)
          /\ last \in [call : Calls, result : Int]

\* No two live sets have the same key, so semget's first match (sem_store.c,
\* line 180) is the only match, whatever was created and removed before.
UniqueKeys == KeysUnique(store)

\* The undo table never outlives what it adjusts: an active entry names a live
\* id and one of its semaphores, a process has at most one entry for it, and
\* the table fits (find_undo_entry and process_exit rely on all three).
UndoSound == UndoLive(store) /\ UndoUnique(store) /\ UndoFits(store)

\* A set's calls never touch an array entry it does not own: what lies behind
\* nsems, and all of a removed set, keeps the zeros of the allocation.
OnlyOwnSems == OwnSemsOnly(store)

-----------------------------------------------------------------------------
(* What a call may never do.                                               *)

\* A call that reports an error, or a semop that reports "blocked", leaves
\* sets and undo table as they were: tryop's last loop can return -ENOSPC
\* after it has written the values (sem_store.c:613), and must never do so.
AllOrNothing ==
  [][last'.result < 0 \/ (last'.call = "semop" /\ last'.result # 0)
     => store' = store]_vars
=============================================================================
