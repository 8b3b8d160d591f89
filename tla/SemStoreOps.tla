---------------------------- MODULE SemStoreOps ----------------------------
(***************************************************************************)
(* The semaphore state core, src/sem_store.c: the table of semaphore sets, *)
(* the table of SEM_UNDO adjustments, and every call that changes them, as *)
(* operators on a store VALUE.  A call returns the new store and the       *)
(* result the C function returns.  The module has no variables: SemStore   *)
(* drives the operators alone, SemBroker drives them under its mutex.      *)
(*                                                                         *)
(* Abstractions.  The arrays of a set have MaxPerSet entries, those from   *)
(* nsems on staying zero; the undo table is the set of its active entries; *)
(* the two time stamps of a set are left out; allocation failure is an     *)
(* argument of the one call that reports it.                               *)
(***************************************************************************)
EXTENDS Integers, Sequences, FiniteSets

CONSTANTS MaxSets,          \* TGC_SEM_MAX_SETS
          MaxPerSet,        \* TGC_SEM_MAX_PER_SET
          MaxValue,         \* TGC_SEM_MAX_VALUE
          MaxUndoEntries,   \* TGC_SEM_MAX_UNDO_ENTRIES
          MaxGeneration,    \* TGC_SEM_MAX_GENERATION
          MaxWaitCount      \* UINT32_MAX, the limit of a wait counter

IdBase == 65536    \* 1 << TGC_SEM_INDEX_BITS

ASSUME StoreBounds ==
  /\ MaxSets \in Nat \ {0} /\ MaxSets < IdBase
  /\ MaxPerSet \in Nat \ {0}
  /\ MaxValue \in Nat \ {0}
  /\ MaxUndoEntries \in Nat
  /\ MaxGeneration \in Nat \ {0}
  /\ MaxWaitCount \in Nat \ {0}

EPERM  == 1
ENOENT == 2
EAGAIN == 11
ENOMEM == 12
EEXIST == 17
EINVAL == 22
ENOSPC == 28
ERANGE == 34

IPC_PRIVATE == 0

TGC_SEM_OP_BLOCKED == 1

MaxMode == 511    \* 0777

Slots == 0 .. MaxSets - 1
Sems == 0 .. MaxPerSet - 1
Values == 0 .. MaxValue
Adjustments == -(MaxValue + 1) .. MaxValue

-----------------------------------------------------------------------------
(* Identifiers.  A set's id carries its slot and the slot's generation.    *)

make_id(index, generation) == (generation * IdBase) + index + 1

id_index(semid) == (semid % IdBase) - 1

id_generation(semid) == semid \div IdBase

decodes(semid) == /\ semid > 0
                  /\ id_index(semid) \in Slots
                  /\ id_generation(semid) # 0

\* Mutant of next_generation: a removed set's id is used again.
same_generation(generation) == generation

next_generation(generation) ==
  IF generation >= MaxGeneration THEN 1 ELSE generation + 1

-----------------------------------------------------------------------------
(* Lookups.                                                                *)

found(st, semid) ==
  /\ decodes(semid)
  /\ st.sets[id_index(semid)].active
  /\ st.sets[id_index(semid)].generation = id_generation(semid)

set_of(st, semid) == st.sets[id_index(semid)]

has_sem(st, semid, semnum) ==
  found(st, semid) /\ semnum \in 0 .. set_of(st, semid).nsems - 1

undo_entries(undo, pid, semid, semnum) ==
  {e \in undo : e.pid = pid /\ e.semid = semid /\ e.semnum = semnum}

Smallest(S) == CHOOSE i \in S : \A j \in S : i <= j

Zeros == [s \in Sems |-> 0]

\* An unused slot: all zero but for the generation it keeps.
FreeSet(generation) ==
  [active |-> FALSE, key |-> IPC_PRIVATE, generation |-> generation,
   nsems |-> 0, uid |-> 0, gid |-> 0, cuid |-> 0, cgid |-> 0, mode |-> 0,
   values |-> Zeros, last_pids |-> Zeros,
   negative_waiters |-> Zeros, zero_waiters |-> Zeros]

EmptyStore == [sets |-> [i \in Slots |-> FreeSet(0)], undo |-> {}]

\* What a call returns: the store it leaves and its result.
Returns(st, r) == [store |-> st, result |-> r]

-----------------------------------------------------------------------------
(* semget.  flags is [creat, excl, mode]; who is the caller's [uid, gid];  *)
(* oom says whether an allocation fails.                                   *)

\* Mutant of keyed_slots: the search for the key stops at a free slot.
keyed_slots_until_free(st, key) ==
  {i \in Slots : /\ key # IPC_PRIVATE
                 /\ \A j \in 0 .. i : st.sets[j].active
                 /\ st.sets[i].key = key}

keyed_slots(st, key) ==
  {i \in Slots : /\ key # IPC_PRIVATE
                 /\ st.sets[i].active
                 /\ st.sets[i].key = key}

free_slots(st) == {i \in Slots : ~st.sets[i].active}

get_existing(st, i, nsems, flags) ==
  Returns(st, IF flags.creat /\ flags.excl THEN -EEXIST
              ELSE IF nsems < 0 \/ nsems > st.sets[i].nsems THEN -EINVAL
              ELSE make_id(i, st.sets[i].generation))

\* A slot that was never used has generation 0 and starts with 1.
new_set(old, key, nsems, flags, who) ==
  [FreeSet(IF old.generation = 0 THEN 1 ELSE old.generation) EXCEPT
     !.active = TRUE, !.key = key, !.nsems = nsems,
     !.uid = who.uid, !.gid = who.gid, !.cuid = who.uid, !.cgid = who.gid,
     !.mode = flags.mode]

get_new(st, i, key, nsems, flags, who) ==
  LET new == new_set(st.sets[i], key, nsems, flags, who)
  IN  Returns([st EXCEPT !.sets[i] = new], make_id(i, new.generation))

get_as(st, key, nsems, flags, who, oom) ==
  IF keyed_slots(st, key) # {}
  THEN get_existing(st, Smallest(keyed_slots(st, key)), nsems, flags)
  ELSE IF key # IPC_PRIVATE /\ ~flags.creat THEN Returns(st, -ENOENT)
  ELSE IF nsems <= 0 \/ nsems > MaxPerSet THEN Returns(st, -EINVAL)
  ELSE IF free_slots(st) = {} THEN Returns(st, -ENOSPC)
  ELSE IF oom THEN Returns(st, -ENOMEM)
  ELSE get_new(st, Smallest(free_slots(st)), key, nsems, flags, who)

-----------------------------------------------------------------------------
(* The semctl calls that change a set.                                     *)

\* Mutant of clear_undo_entries: the adjustments of a removed set stay.
keep_undo_entries(undo, semid, nums) == undo

\* The undo table without the entries of a set, or of one of its semaphores.
clear_undo_entries(undo, semid, nums) ==
  {e \in undo : ~(e.semid = semid /\ e.semnum \in nums)}

remove(st, semid) ==
  IF ~found(st, semid) THEN Returns(st, -EINVAL)
  ELSE Returns([sets |-> [st.sets EXCEPT ![id_index(semid)] =
                            FreeSet(next_generation(@.generation))],
                undo |-> clear_undo_entries(st.undo, semid, Sems)], 0)

setval(st, semid, semnum, value, pid) ==
  IF ~has_sem(st, semid, semnum) THEN Returns(st, -EINVAL)
  ELSE IF value > MaxValue THEN Returns(st, -ERANGE)
  ELSE Returns([sets |-> [st.sets EXCEPT
                            ![id_index(semid)].values[semnum] = value,
                            ![id_index(semid)].last_pids[semnum] = pid],
                undo |-> clear_undo_entries(st.undo, semid, {semnum})], 0)

setall(st, semid, values, pid) ==
  LET n == Len(values) IN
  IF ~found(st, semid) \/ n # set_of(st, semid).nsems
  THEN Returns(st, -EINVAL)
  ELSE IF \E i \in 1 .. n : values[i] > MaxValue THEN Returns(st, -ERANGE)
  ELSE Returns(
         [sets |-> [st.sets EXCEPT
            ![id_index(semid)].values =
               [s \in Sems |-> IF s < n THEN values[s + 1] ELSE 0],
            ![id_index(semid)].last_pids =
               [s \in Sems |-> IF s < n THEN pid ELSE 0]],
          undo |-> clear_undo_entries(st.undo, semid, Sems)], 0)

set_metadata(st, semid, uid, gid, mode, who) ==
  LET set == set_of(st, semid) IN
  IF ~found(st, semid) THEN Returns(st, -EINVAL)
  ELSE IF who.uid \notin {set.uid, set.cuid} THEN Returns(st, -EPERM)
  ELSE IF uid # set.uid \/ gid \notin {set.gid, who.gid} \/ mode > MaxMode
  THEN Returns(st, -EPERM)
  ELSE Returns([st EXCEPT !.sets[id_index(semid)] =
                  [set EXCEPT !.gid = gid, !.mode = mode]], 0)

\* The waiter counts: delta is 1 when a waiter is queued, -1 when it leaves.
counter(set, zero) == IF zero THEN set.zero_waiters ELSE set.negative_waiters

with_count(set, zero, semnum, count) ==
  IF zero THEN [set EXCEPT !.zero_waiters[semnum] = count]
  ELSE [set EXCEPT !.negative_waiters[semnum] = count]

adjust_wait_count(st, semid, semnum, zero, delta) ==
  LET set == set_of(st, semid)
      count == counter(set, zero)[semnum] + delta
  IN  IF ~has_sem(st, semid, semnum) THEN Returns(st, -EINVAL)
      ELSE IF count \notin 0 .. MaxWaitCount THEN Returns(st, -ERANGE)
      ELSE Returns([st EXCEPT !.sets[id_index(semid)] =
                      with_count(set, zero, semnum, count)], 0)

-----------------------------------------------------------------------------
(* Process exit: every adjustment of the process is applied, clamped to    *)
(* the range of a value, and forgotten.                                    *)

clamp(v) == IF v < 0 THEN 0 ELSE IF v > MaxValue THEN MaxValue ELSE v

\* The entries of pid that apply to semaphore s of slot i.
exit_entries(st, pid, i, s) ==
  {e \in st.undo : /\ e.pid = pid /\ e.semnum = s
                   /\ found(st, e.semid) /\ id_index(e.semid) = i
                   /\ s < st.sets[i].nsems}

exit_value(st, pid, i, s) ==
  LET E == exit_entries(st, pid, i, s) IN
  IF E = {} THEN st.sets[i].values[s]
  ELSE clamp(st.sets[i].values[s] + (CHOOSE e \in E : TRUE).adjustment)

\* Mutant of process_exit: the adjustments are applied but not cleared.
process_exit_keeps(st, pid) ==
  Returns([sets |-> [i \in Slots |->
             [st.sets[i] EXCEPT
                !.values = [s \in Sems |-> exit_value(st, pid, i, s)]]],
           undo |-> st.undo], 1)

process_exit(st, pid) ==
  Returns(
    [sets |-> [i \in Slots |->
       [st.sets[i] EXCEPT
          !.values = [s \in Sems |-> exit_value(st, pid, i, s)],
          !.last_pids = [s \in Sems |->
             IF exit_entries(st, pid, i, s) = {} THEN @[s] ELSE pid]]],
     undo |-> {e \in st.undo : e.pid # pid}],
    IF \E i \in Slots, s \in Sems : exit_entries(st, pid, i, s) # {}
    THEN 1 ELSE 0)

-----------------------------------------------------------------------------
(* semop.  An operation is [sem_num, sem_op, nowait, undo].                *)

NoReason == [sem_num |-> 0, wait_for_zero |-> FALSE]

would_block(value, sem_op) ==
  IF sem_op = 0 THEN value # 0 ELSE value + sem_op < 0

\* One round of the first loop: w is the working copy with the result so far.
apply_op(w, op) ==
  LET v == w.values[op.sem_num] IN
  IF w.result # 0 THEN w
  ELSE IF would_block(v, op.sem_op)
  THEN [w EXCEPT !.result = IF op.nowait THEN -EAGAIN ELSE TGC_SEM_OP_BLOCKED,
                 !.reason = [sem_num |-> op.sem_num,
                             wait_for_zero |-> op.sem_op = 0]]
  ELSE IF v + op.sem_op > MaxValue THEN [w EXCEPT !.result = -ERANGE]
  ELSE [w EXCEPT !.values[op.sem_num] = v + op.sem_op]

working(values, ops) ==
  LET w[i \in 0 .. Len(ops)] ==
        IF i = 0 THEN [result |-> 0, values |-> values, reason |-> NoReason]
        ELSE apply_op(w[i - 1], ops[i])
  IN  w[Len(ops)]

\* Mutant of add_delta: a second operation on a semaphore replaces the first.
set_delta(d, op) ==
  IF d.result # 0 \/ ~op.undo THEN d
  ELSE [d EXCEPT !.deltas[op.sem_num] = -op.sem_op]

\* One round of the second loop: the adjustments this call would record.
add_delta(d, op) ==
  LET delta == d.deltas[op.sem_num] - op.sem_op IN
  IF d.result # 0 \/ ~op.undo THEN d
  ELSE IF delta \notin Adjustments THEN [d EXCEPT !.result = -ERANGE]
  ELSE [d EXCEPT !.deltas[op.sem_num] = delta]

undo_deltas(ops) ==
  LET d[i \in 0 .. Len(ops)] ==
        IF i = 0 THEN [result |-> 0, deltas |-> Zeros]
        ELSE add_delta(d[i - 1], ops[i])
  IN  d[Len(ops)]

\* find_undo_entry: the recorded adjustment, 0 when there is no entry.
recorded(undo, pid, semid, semnum) ==
  LET E == undo_entries(undo, pid, semid, semnum)
  IN  IF E = {} THEN 0 ELSE (CHOOSE e \in E : TRUE).adjustment

\* Mutant of undo_check: the free entries are not counted in advance.
undo_check_range_only(st, pid, semid, deltas) ==
  IF \E s \in Sems : /\ deltas[s] # 0
                     /\ deltas[s] + recorded(st.undo, pid, semid, s)
                          \notin Adjustments
  THEN -ERANGE ELSE 0

\* The third loop: are the sums in range, and are there enough free entries?
undo_check(st, pid, semid, deltas) ==
  LET touched == {s \in Sems : deltas[s] # 0}
      required == {s \in touched : undo_entries(st.undo, pid, semid, s) = {}}
  IN  IF \E s \in touched :
           deltas[s] + recorded(st.undo, pid, semid, s) \notin Adjustments
      THEN -ERANGE
      ELSE IF Cardinality(required) > MaxUndoEntries - Cardinality(st.undo)
      THEN -ENOSPC
      ELSE 0

\* One round of the last loop: semaphore s of the undo table u.undo.
commit_undo_entry(u, pid, semid, s, delta) ==
  LET old == undo_entries(u.undo, pid, semid, s)
      sum == recorded(u.undo, pid, semid, s) + delta
      new == [pid |-> pid, semid |-> semid, semnum |-> s, adjustment |-> sum]
  IN  IF u.result # 0 \/ delta = 0 THEN u
      ELSE IF old = {} /\ Cardinality(u.undo) >= MaxUndoEntries
      THEN [u EXCEPT !.result = -ENOSPC]
      ELSE [u EXCEPT !.undo =
              (@ \ old) \cup (IF sum = 0 THEN {} ELSE {new})]

commit_undo(undo, pid, semid, deltas) ==
  LET u[k \in 0 .. MaxPerSet] ==
        IF k = 0 THEN [result |-> 0, undo |-> undo]
        ELSE commit_undo_entry(u[k - 1], pid, semid, k - 1, deltas[k - 1])
  IN  u[MaxPerSet]

\* The writes: first the values and pids, then the undo entries.  The last
\* loop has an error return of its own, after the values are written.
commit(st, semid, ops, values, deltas, pid) ==
  LET u == commit_undo(st.undo, pid, semid, deltas)
      nums == {ops[k].sem_num : k \in 1 .. Len(ops)}
  IN  Returns([sets |-> [st.sets EXCEPT
                 ![id_index(semid)].values = values,
                 ![id_index(semid)].last_pids =
                    [s \in Sems |-> IF s \in nums THEN pid ELSE @[s]]],
               undo |-> u.undo], u.result)

tryop(st, semid, ops, pid) ==
  LET w == working(set_of(st, semid).values, ops)
      d == undo_deltas(ops)
      check == undo_check(st, pid, semid, d.deltas)
  IN  IF ~found(st, semid) \/ ops = <<>>
         \/ \E k \in 1 .. Len(ops) : ops[k].sem_num >= set_of(st, semid).nsems
      THEN Returns(st, -EINVAL)
      ELSE IF w.result # 0 THEN Returns(st, w.result)
      ELSE IF d.result # 0 THEN Returns(st, d.result)
      ELSE IF check # 0 THEN Returns(st, check)
      ELSE commit(st, semid, ops, w.values, d.deltas, pid)

\* The semaphore and the condition a blocked operation waits for.
wait_reason(st, semid, ops) ==
  working(set_of(st, semid).values, ops).reason

-----------------------------------------------------------------------------
(* What is true of a store between two calls.                              *)

SemSet == [active : BOOLEAN, key : Int, generation : 0 .. MaxGeneration,
           nsems : 0 .. MaxPerSet, uid : Nat, gid : Nat, cuid : Nat,
           cgid : Nat, mode : 0 .. MaxMode,
           values : [Sems -> Values], last_pids : [Sems -> Nat],
           negative_waiters : [Sems -> 0 .. MaxWaitCount],
           zero_waiters : [Sems -> 0 .. MaxWaitCount]]

UndoEntry == [pid : Nat, semid : Int, semnum : Sems,
              adjustment : Adjustments \ {0}]

StoreType(st) == st \in [sets : [Slots -> SemSet], undo : SUBSET UndoEntry]

KeysUnique(st) ==
  \A i, j \in Slots :
    /\ st.sets[i].active /\ st.sets[j].active
    /\ st.sets[i].key = st.sets[j].key /\ st.sets[i].key # IPC_PRIVATE
    => i = j

UndoLive(st) == \A e \in st.undo : has_sem(st, e.semid, e.semnum)

UndoUnique(st) ==
  \A e, f \in st.undo :
    e.pid = f.pid /\ e.semid = f.semid /\ e.semnum = f.semnum => e = f

UndoFits(st) ==
  IsFiniteSet(st.undo) /\ Cardinality(st.undo) <= MaxUndoEntries

OwnSemsOnly(st) ==
  \A i \in Slots, s \in Sems :
    s >= st.sets[i].nsems =>
      /\ st.sets[i].values[s] = 0 /\ st.sets[i].last_pids[s] = 0
      /\ st.sets[i].negative_waiters[s] = 0 /\ st.sets[i].zero_waiters[s] = 0

StoreOK(st) ==
  /\ StoreType(st) /\ KeysUnique(st) /\ UndoLive(st) /\ UndoUnique(st)
  /\ UndoFits(st) /\ OwnSemsOnly(st)
=============================================================================
